------------------------------ MODULE Profile ------------------------------
(***************************************************************************)
(* What is seen of a source before a plan is made: the samples of its      *)
(* batches (structure/_samples.py) and the observations about them         *)
(* (structure/tabular.py, tree.py, text.py, document.py).                  *)
(*                                                                         *)
(* A source is [batches, hidden, legacy]: hidden are the references that   *)
(* its index leaves out, which a legacy source tells only at its end.  A   *)
(* batch is [tables, nodes, lines, blocks]; a table [id, sheet, rows] with *)
(* columns from 0; a line [id, text, ending], its id its number; a block   *)
(* [id, text, kind, from, to, sheet, merged], from and to the lines it     *)
(* stands for.  Texts are sequences of words, and the size of an item is   *)
(* one more than its words.                                                *)
(***************************************************************************)
EXTENDS PlanRun
LOCAL INSTANCE SequencesExt
LOCAL INSTANCE FiniteSetsExt

CONSTANT SampleLimits   \* [items, bytes, tail, chars, observations, candidates, patterns, plan]

(* The number a word stands for. *)
Tenths(word) == CASE word = "1" -> 10 [] word = "2" -> 20 [] word = "3" -> 30 [] word = "dec" -> 25

(* primitive, scalar: what a value looks like. *)
WordHint(word) ==
    CASE word \in {"1", "2", "3"} -> "integer"
      [] word = "dec" -> "decimal"
      [] word = "007" -> "identifier"
      [] word = "ts" -> "timestamp"
      [] word = "null" -> "null"
      [] word = "bytes" -> "bytes"
      [] OTHER -> "string"

Hint(text) == IF Len(text) = 1 THEN WordHint(text[1]) ELSE "string"
IsBlankText(text) == ToSet(text) \subseteq {" "}

-----------------------------
(* Samples: a prefix of everything, and the last rows of every table. *)

NewSamples ==
    [seen |-> 0, retained |-> 0, bytes |-> 0, reasons |-> {},
     tables |-> <<>>, nodes |-> <<>>, lines |-> <<>>, blocks |-> <<>>]

Reserve == Min({SampleLimits.tail, SampleLimits.items \div 4})

Refusal(s, size, indexed, reserve) ==
    CASE ~indexed -> "unindexed_source"
      [] size < 0 -> "oversized_sample"
      [] s.retained >= SampleLimits.items - reserve -> "sample_items"
      [] s.bytes + size > (IF reserve > 0 THEN (SampleLimits.bytes * 3) \div 4 ELSE SampleLimits.bytes)
           -> "sample_bytes"
      [] OTHER -> Missing

Retain(s, size, indexed, reserve) ==
    IF Refusal(s, size, indexed, reserve) = Missing
    THEN [s EXCEPT !.retained = @ + 1, !.bytes = @ + size]
    ELSE [s EXCEPT !.reasons = @ \cup {Refusal(s, size, indexed, reserve)}]

TextSize(text) == IF Len(text) > SampleLimits.chars THEN -1 ELSE 1 + Len(text)

RowSize(row) ==
    IF \E c \in DOMAIN row.cells : TextSize(row.cells[c]) < 0 THEN -1
    ELSE FoldFunction(LAMBDA text, size : Len(text) + size, 1, row.cells)

RowWidth(row) == IF DOMAIN row.cells = {} THEN 0 ELSE Max(DOMAIN row.cells) + 1

Popped(s, n) ==
    IF Len(s.tables[n].tail) < Reserve THEN s
    ELSE [s EXCEPT !.tables[n].tail = Tail(@), !.retained = @ - 1,
                   !.bytes = @ - RowSize(s.tables[n].tail[1])]

Tailed(s, n, row, indexed) ==
    IF Refusal(s, RowSize(row), indexed, 0) = Missing
    THEN [Retain(s, RowSize(row), indexed, 0) EXCEPT !.tables[n].tail = Append(@, row)]
    ELSE Retain(s, RowSize(row), indexed, 0)

RetainTail(s, n, row, indexed) ==
    IF Reserve = 0 \/ RowSize(row) < 0 \/ ~indexed THEN s ELSE Tailed(Popped(s, n), n, row, indexed)

Seen(s, n, row) ==
    [s EXCEPT !.seen = @ + 1,
              !.tables[n].shapes = Append(@, RowWidth(row)), !.tables[n].end = row.at,
              !.tables[n].start = IF s.tables[n].shapes = <<>> THEN row.at ELSE @]

SampleRow(s, n, row, indexed) ==
    IF Refusal(s, RowSize(row), indexed, Reserve) = Missing
    THEN [Retain(s, RowSize(row), indexed, Reserve) EXCEPT !.tables[n].rows = Append(@, row)]
    ELSE RetainTail(Retain(s, RowSize(row), indexed, Reserve), n, row, indexed)

TableAt(s, id) == CHOOSE n \in DOMAIN s.tables : s.tables[n].id = id

WithTable(s, t, i) ==
    IF \E n \in DOMAIN s.tables : s.tables[n].id = t.id THEN s
    ELSE [s EXCEPT !.tables = Append(@, [id |-> t.id, ref |-> <<"table", i, t.id>>, sheet |-> t.sheet,
                                         rows |-> <<>>, tail |-> <<>>, shapes |-> <<>>, start |-> 0, end |-> 0])]

SampleRows(s, n, rows, hidden) ==
    FoldLeft(LAMBDA q, row : SampleRow(Seen(q, n, row), n, row, s.tables[n].ref \notin hidden), s, rows)

SampleTable(s, t, i, hidden) ==
    SampleRows(WithTable(s, t, i), TableAt(WithTable(s, t, i), t.id), t.rows, hidden)

(* An item of another family: it is retained whole, or not at all. *)
SampleItem(s, family, item, size, hidden) ==
    LET q == [Retain(s, size, item.ref \notin hidden, 0) EXCEPT !.seen = @ + 1]
    IN IF Refusal(s, size, item.ref \notin hidden, 0) = Missing THEN [q EXCEPT ![family] = Append(@, item)] ELSE q

SampleNode(s, n, i, hidden) ==
    IF n.segment \notin {Missing, 0} THEN s
    ELSE SampleItem(s, "nodes", [n EXCEPT !.in = i] @@ [ref |-> <<"node", i, n.id>>],
                    IF n.value = Missing THEN 1 ELSE TextSize(n.value), hidden)

SampleLine(s, l, i, hidden) ==
    SampleItem(s, "lines", [ref |-> <<"line", i, l.id>>, start |-> l.id, end |-> l.id, text |-> l.text,
                            block |-> FALSE, ending |-> l.ending], TextSize(l.text), hidden)

SampledText(b) == IF b.text = Missing THEN <<>> ELSE b.text

(* A block is a text of lines as well, if it stands for some. *)
SampleBlock(s, b, i, hidden) ==
    LET item == [ref |-> <<"block", i, b.id>>, id |-> b.id, kind |-> b.kind, text |-> SampledText(b),
                 sheet |-> b.sheet, merged |-> b.merged]
        q == SampleItem(s, "blocks", item, TextSize(SampledText(b)), hidden)
    IN IF q.retained = s.retained \/ b.from = Missing THEN q
       ELSE [q EXCEPT !.lines = Append(@, [ref |-> item.ref, start |-> b.from, end |-> b.to, text |-> item.text,
                                           block |-> TRUE, ending |-> Missing])]

(* consume: the whole of one batch. *)
Consume(s, b, i, hidden) ==
    LET tables == FoldLeft(LAMBDA q, t : SampleTable(q, t, i, hidden), s, b.tables)
        nodes == FoldLeft(LAMBDA q, n : SampleNode(q, n, i, hidden), tables, b.nodes)
        lines == FoldLeft(LAMBDA q, l : SampleLine(q, l, i, hidden), nodes, b.lines)
    IN FoldLeft(LAMBDA q, x : SampleBlock(q, x, i, hidden), lines, b.blocks)

AllRefs(s) ==
    {s.tables[n].ref : n \in DOMAIN s.tables} \cup {s.nodes[n].ref : n \in DOMAIN s.nodes}
      \cup {s.lines[n].ref : n \in DOMAIN s.lines} \cup {s.blocks[n].ref : n \in DOMAIN s.blocks}

RowsInOrder(t) == SortSeq(t.rows \o t.tail, LAMBDA a, b : a.at < b.at)

(* bind: what the index of the source does not name is dropped. *)
Bind(s, hidden) ==
    LET tables == SelectSeq(s.tables, LAMBDA t : t.ref \notin hidden)
    IN [s EXCEPT
          !.reasons = @ \cup (IF AllRefs(s) \cap hidden = {} THEN {} ELSE {"unindexed_source"}),
          !.tables = [n \in DOMAIN tables |-> [tables[n] EXCEPT !.rows = RowsInOrder(tables[n]), !.tail = <<>>]],
          !.nodes = SelectSeq(@, LAMBDA n : n.ref \notin hidden),
          !.lines = SelectSeq(@, LAMBDA l : l.ref \notin hidden),
          !.blocks = SelectSeq(@, LAMBDA b : b.ref \notin hidden)]

Sampled(s) ==
    IF s.retained = s.seen THEN [s EXCEPT !.reasons = @ \ {"sample_items", "sample_bytes"}] ELSE s

-----------------------------
(* Observations: key tells one from another, refs is its evidence, proposes *)
(* that it suggests a plan.                                                 *)

Obs(key, refs, proposes) == [key |-> key, refs |-> Unrepeated(refs), proposes |-> proposes]
FirstRefs(items, n) == [k \in 1..Min({n, Len(items)}) |-> items[k].ref]

(* The members of a class, items being classified by keys. *)
Members(items, keys, key) ==
    LET places == SelectSeq([i \in DOMAIN keys |-> i], LAMBDA i : keys[i] = key)
    IN [n \in DOMAIN places |-> items[places[n]]]

(* Tables. *)
Often(t, w) == Cardinality({i \in DOMAIN t.shapes : t.shapes[i] = w})
WidthOf(t) ==
    LET widths == ToSet(t.shapes) \ {0}
    IN IF widths = {} THEN 0
       ELSE CHOOSE w \in widths : \A v \in widths : Often(t, w) > Often(t, v) \/ (Often(t, w) = Often(t, v) /\ w >= v)

IsSummary(row) == DOMAIN row.cells # {} /\ row.cells[Min(DOMAIN row.cells)] = <<"total">>

IsHeader(row, width) ==
    /\ width > 0 /\ Cardinality(DOMAIN row.cells) = width /\ ~IsSummary(row)
    /\ Cardinality({c \in DOMAIN row.cells : ~IsBlankText(row.cells[c]) /\ Hint(row.cells[c]) = "string"})
         >= Max({1, (3 * width + 3) \div 4})

HeaderRows(t) == SelectSeq(SubSeq(t.rows, 1, Min({8, Len(t.rows)})), LAMBDA row : IsHeader(row, WidthOf(t)))

IsEmptyRow(row) == \A c \in DOMAIN row.cells : IsBlankText(row.cells[c])

RowRole(t, row, headers) ==
    CASE IsEmptyRow(row) -> "empty"
      [] ~IsEmptyRow(row) /\ IsSummary(row) -> IF row.at = t.end THEN "footer" ELSE "summary"
      [] OTHER -> IF headers = <<>> THEN "data"
                  ELSE IF row.at < headers[1].at THEN "meta"
                  ELSE IF row.cells = headers[1].cells THEN "header" ELSE "data"

RowObs(t, role, row) == Obs(<<role, t.id, row.at>>, <<t.ref>>, role = "header")

DataRows(t, headers) == SelectSeq(t.rows, LAMBDA row : RowRole(t, row, headers) = "data")

DataStarts(rows) ==
    SelectSeq([i \in DOMAIN rows |-> i], LAMBDA i : i = 1 \/ rows[i].at # rows[i - 1].at + 1)

DataObs(t, rows) ==
    [n \in DOMAIN DataStarts(rows) |-> Obs(<<"data", t.id, rows[DataStarts(rows)[n]].at>>, <<t.ref>>, TRUE)]

ColumnObs(t, rows) ==
    LET columns == SelectSeq([c \in 1..WidthOf(t) |-> c - 1], LAMBDA c : \E i \in DOMAIN rows : c \in DOMAIN rows[i].cells)
    IN [n \in DOMAIN columns |-> Obs(<<"column", t.id, columns[n]>>, <<t.ref>>, FALSE)]

MergedObs(t, blocks) ==
    LET merged == SelectSeq(blocks, LAMBDA b : b.merged /\ b.sheet # Missing /\ b.sheet = t.sheet)
    IN [n \in DOMAIN merged |-> Obs(<<"merged", t.id, t.start>>, <<t.ref, merged[n].ref>>, FALSE)]

RepeatedObs(t, headers) ==
    LET rows == IF headers = <<>> THEN <<>>
                ELSE SelectSeq(t.rows, LAMBDA row : row.at # headers[1].at /\ row.cells = headers[1].cells)
    IN [n \in DOMAIN rows |-> RowObs(t, "repeated_header", rows[n])]

RoleObs(t, headers) ==
    LET rows == SelectSeq(t.rows, LAMBDA row : RowRole(t, row, headers) \notin {"data", "header"})
    IN [n \in DOMAIN rows |-> RowObs(t, RowRole(t, rows[n], headers), rows[n])]

ShapeObs(t) == IF t.shapes = <<>> THEN <<>> ELSE <<Obs(<<"shape", t.id, t.start>>, <<t.ref>>, FALSE)>>

TableObs(t, headers, blocks) ==
    IF t.rows = <<>> THEN ShapeObs(t)
    ELSE ShapeObs(t) \o [n \in DOMAIN headers |-> RowObs(t, "header", headers[n])]
      \o RepeatedObs(t, headers) \o RoleObs(t, headers)
      \o DataObs(t, DataRows(t, headers)) \o ColumnObs(t, DataRows(t, headers)) \o MergedObs(t, blocks)

TablesObs(s) ==
    FlattenSeq([n \in DOMAIN s.tables |-> TableObs(s.tables[n], HeaderRows(s.tables[n]), s.blocks)])

(* Trees: a path leads to all nodes with the same steps from the root. *)
ParentsOf(nodes, n) == {i \in DOMAIN nodes : nodes[i].id = n.parent}

StepTo(nodes, i) ==
    LET n == nodes[i] IN
    IF \E p \in ParentsOf(nodes, n) : nodes[p].kind = "array" THEN [op |-> "item", name |-> "", occurrence |-> 0]
    ELSE [op |-> "key", name |-> n.name,
          occurrence |-> IF n.kind = "element" THEN 0
                         ELSE Cardinality({j \in 1..(i - 1) : nodes[j].parent = n.parent /\ nodes[j].name = n.name})]

RECURSIVE PathTo(_, _)
PathTo(nodes, i) ==
    IF nodes[i].parent = 0 THEN <<>>
    ELSE Append(PathTo(nodes, CHOOSE p \in ParentsOf(nodes, nodes[i]) : TRUE), StepTo(nodes, i))

RECURSIVE IsRooted(_, _)
IsRooted(nodes, i) ==
    nodes[i].parent = 0 \/ \E p \in ParentsOf(nodes, nodes[i]) : IsRooted(nodes, p)

(* All paths, in the order in which they are met, and their nodes. *)
TreeGroups(nodes) ==
    LET rooted == SelectSeq([i \in DOMAIN nodes |-> i], LAMBDA i : IsRooted(nodes, i))
        paths == [n \in DOMAIN rooted |-> PathTo(nodes, rooted[n])]
        members == [n \in DOMAIN rooted |-> nodes[rooted[n]]]
        known == Unrepeated(paths)
    IN [n \in DOMAIN known |-> [path |-> known[n], nodes |-> Members(members, paths, known[n])]]

ObjectsIn(group) == Cardinality({i \in DOMAIN group.nodes : group.nodes[i].kind \in {"object", "element"}})
HasArray(group) == \E i \in DOMAIN group.nodes : group.nodes[i].kind = "array"
HasScalar(group) == \E i \in DOMAIN group.nodes : group.nodes[i].value # Missing

GroupObs(group) ==
    LET refs == FirstRefs(group.nodes, 4) IN
    <<Obs(<<"path", group.path>>, refs, FALSE)>>
      \o (IF ObjectsIn(group) > 0 /\ (Len(group.nodes) > 1 \/ group.path = <<>>)
          THEN <<Obs(<<"record_root", group.path>>, refs, TRUE)>> ELSE <<>>)
      \o (IF HasArray(group) \/ (ObjectsIn(group) > 1 /\ group.path # <<>>)
          THEN <<Obs(<<"collection", group.path>>, refs, TRUE)>> ELSE <<>>)
      \o (IF HasScalar(group) THEN <<Obs(<<"field", group.path>>, refs, FALSE)>> ELSE <<>>)

TreesObs(groups) == FlattenSeq([n \in DOMAIN groups |-> GroupObs(groups[n])])

TreeReasons(nodes) == IF \A i \in DOMAIN nodes : IsRooted(nodes, i) THEN {} ELSE {"incomplete_tree_sample"}

(* Texts: a template keeps the words, a shape only what they look like. *)
Tokens(text) == SelectSeq(text, LAMBDA w : w # " ")
WordShape(w) ==
    CASE w = "k=v" -> "key_value"
      [] w = "INFO" -> "level"
      [] WordHint(w) # "string" -> WordHint(w)
      [] OTHER -> "word"
Shape(text) == [i \in DOMAIN Tokens(text) |-> WordShape(Tokens(text)[i])]
Template(text) ==
    [i \in DOMAIN Tokens(text) |->
        IF WordShape(Tokens(text)[i]) \in {"word", "level"} THEN Tokens(text)[i] ELSE WordShape(Tokens(text)[i])]
HasTimestamp(text) == "timestamp" \in ToSet(Shape(text))

PlainLines(s) == SelectSeq(s.lines, LAMBDA l : ~l.block)

BlockTextObs(l) ==
    <<Obs(<<"block_boundary", l.start, l.end>>, <<l.ref>>, FALSE)>>
      \o IF l.end > l.start THEN <<Obs(<<"multiline", l.start, l.end>>, <<l.ref>>, TRUE)>> ELSE <<>>

KeysObs(lines) ==
    LET keyed == SelectSeq(lines, LAMBDA l : "k=v" \in ToSet(l.text))
    IN [n \in DOMAIN keyed |-> Obs(<<"key_value", keyed[n].start, keyed[n].end>>, <<keyed[n].ref>>, TRUE)]

Contiguous(lines) ==
    FoldLeft(LAMBDA gs, l : IF gs = <<>> \/ Last(Last(gs)).end + 1 # l.start THEN Append(gs, <<l>>)
                            ELSE [gs EXCEPT ![Len(gs)] = Append(@, l)], <<>>, lines)

BoundaryObs(groups) ==
    [n \in DOMAIN groups |-> Obs(<<"line_boundary", groups[n][1].start, Last(groups[n]).end>>,
                                 <<groups[n][1].ref, Last(groups[n]).ref>>, TRUE)]

(* Only so many different keys are told apart. *)
KnownKeys(keys) == SubSeq(Unrepeated(keys), 1, Min({SampleLimits.patterns, Len(Unrepeated(keys))}))
PatternReasons(keys) == IF Len(Unrepeated(keys)) > SampleLimits.patterns THEN {"pattern_limit"} ELSE {}

PatternObs(role, lines, keys, proposes) ==
    LET common == SelectSeq(KnownKeys(keys), LAMBDA k : k # <<>> /\ Len(Members(lines, keys, k)) > 1)
    IN [n \in DOMAIN common |->
          Obs(<<role, common[n]>>, FirstRefs(Members(lines, keys, common[n]), 4), proposes)]

(* Several lines that look like one record: up to a blank line, or indented. *)
MultilineStep(acc, l) ==
    LET start == IF acc.previous = Missing \/ l.start = acc.previous.end + 1 THEN acc.start ELSE Missing
        moved == [acc EXCEPT !.previous = l]
        Spotted(role, last) == Append(acc.obs, Obs(<<role, start.start, last.end>>, <<start.ref, last.ref>>, TRUE))
    IN CASE IsBlankText(l.text) ->
              [moved EXCEPT !.start = Missing,
                            !.obs = IF start # Missing /\ acc.previous.end > start.start
                                    THEN Spotted("blank_separator", acc.previous) ELSE @]
         [] ~IsBlankText(l.text) /\ start = Missing -> [moved EXCEPT !.start = l]
         [] ~IsBlankText(l.text) /\ start # Missing /\ l.text[1] = " " ->
              [moved EXCEPT !.start = start, !.obs = Spotted("indented_continuation", l)]
         [] OTHER -> [moved EXCEPT !.start = IF HasTimestamp(l.text) THEN l ELSE start]

MultilineObs(lines) ==
    FoldLeft(MultilineStep, [start |-> Missing, previous |-> Missing, obs |-> <<>>], lines).obs

LinesObs(lines) ==
    KeysObs(lines) \o BoundaryObs(Contiguous(lines))
      \o PatternObs("template", lines, [n \in DOMAIN lines |-> Template(lines[n].text)], TRUE)
      \o PatternObs("line_shape", lines, [n \in DOMAIN lines |-> Shape(lines[n].text)], FALSE)
      \o MultilineObs(lines)

TextsObs(s) ==
    LET blocks == SelectSeq(s.lines, LAMBDA l : l.block)
    IN FlattenSeq([n \in DOMAIN blocks |-> BlockTextObs(blocks[n])]) \o LinesObs(PlainLines(s))

TextReasons(lines) == PatternReasons([n \in DOMAIN lines |-> Template(lines[n].text)])

(* Documents. *)
IsPair(text) ==
    "k=v" \in ToSet(text)
      \/ \E i \in DOMAIN text : /\ text[i] = ":" /\ ~IsBlankText(SubSeq(text, 1, i - 1))
                                /\ ~IsBlankText(SubSeq(text, i + 1, Len(text)))

KindsOf(group) == [i \in DOMAIN group |-> group[i].kind]

(* Blocks from one heading to the next. *)
SectionsOf(blocks) ==
    FoldLeft(LAMBDA gs, b : IF gs = <<>> \/ b.kind = "heading" THEN Append(gs, <<b>>)
                            ELSE [gs EXCEPT ![Len(gs)] = Append(@, b)], <<>>, blocks)

PairsOf(blocks) == [k \in 1..(Len(blocks) \div 2) |-> <<blocks[2 * k - 1], blocks[2 * k]>>]

SectionObs(sections) ==
    [n \in DOMAIN sections |-> Obs(<<"section", sections[n][1].ref, Last(sections[n]).ref>>,
                                   <<sections[n][1].ref, Last(sections[n]).ref>>, TRUE)]

BlockObs(blocks, i) ==
    LET b == blocks[i] IN
    (IF b.kind = "heading" THEN <<Obs(<<"heading", b.ref>>, <<b.ref>>, FALSE)>> ELSE <<>>)
      \o (IF IsPair(b.text) THEN <<Obs(<<"pair", b.ref>>, <<b.ref>>, TRUE)>>
          ELSE IF b.text # <<>> /\ Last(b.text) = ":" /\ i < Len(blocks) /\ blocks[i + 1].kind # "heading"
          THEN <<Obs(<<"pair", b.ref>>, <<b.ref, blocks[i + 1].ref>>, TRUE)>>
          ELSE <<>>)

RefsOfGroup(group) == [i \in DOMAIN group |-> group[i].ref]

(* Groups of the same kinds; the same blocks count once. *)
RepeatedGroupObs(groups) ==
    LET kinds == [n \in DOMAIN groups |-> KindsOf(groups[n])]
        Distinct(k) == Unrepeated([n \in DOMAIN Members(groups, kinds, k) |-> RefsOfGroup(Members(groups, kinds, k)[n])])
        common == SelectSeq(KnownKeys(kinds), LAMBDA k : Len(Distinct(k)) > 1)
    IN [n \in DOMAIN common |->
          Obs(<<"repeated_group", common[n]>>,
              [m \in 1..Min({4, Len(Distinct(common[n]))}) |-> Distinct(common[n])[m][1]], TRUE)]

BlockGroupsOf(blocks) == SectionsOf(blocks) \o PairsOf(blocks)

DocumentReasons(groups) == PatternReasons([n \in DOMAIN groups |-> KindsOf(groups[n])])

DocumentsObs(s) ==
    IF s.blocks = <<>> THEN <<>>
    ELSE FlattenSeq([i \in DOMAIN s.blocks |-> BlockObs(s.blocks, i)]) \o SectionObs(SectionsOf(s.blocks))
           \o RepeatedGroupObs(BlockGroupsOf(s.blocks))
           \o [n \in DOMAIN s.tables |-> Obs(<<"table", s.tables[n].ref>>, <<s.tables[n].ref>>, TRUE)]

(* The profile: what is observed within the limits, and whether that is all. *)
ObservedIn(s, groups) == Unrepeated(TablesObs(s) \o TreesObs(groups) \o TextsObs(s) \o DocumentsObs(s))

WithinLimit(all) == SubSeq(all, 1, Min({SampleLimits.observations, Len(all)}))

ProfileReasons(s, all) ==
    s.reasons \cup TreeReasons(s.nodes) \cup TextReasons(PlainLines(s)) \cup DocumentReasons(BlockGroupsOf(s.blocks))
      \cup (IF Len(all) > SampleLimits.observations THEN {"observation_limit"} ELSE {})
      \cup (IF Len(SelectSeq(WithinLimit(all), LAMBDA o : o.proposes)) > SampleLimits.candidates
            THEN {"candidate_limit"} ELSE {})

ProfileWith(s, groups, all) ==
    [samples |-> s, groups |-> groups, reasons |-> ProfileReasons(s, all), observations |-> WithinLimit(all),
     complete |-> s.retained = s.seen /\ ProfileReasons(s, all) = {}]

ProfileIn(s, groups) == ProfileWith(s, groups, ObservedIn(s, groups))
ProfileOf(s) == ProfileIn(s, TreeGroups(s.nodes))
=============================================================================
