----------------------------- MODULE Extraction -----------------------------
(***************************************************************************)
(* The physical result of a parser, contracts/source.py: what one batch    *)
(* may hold, what its manifest says of the whole extraction, and when a    *)
(* sequence of batches is that extraction.  Identifiers and fingerprints   *)
(* are opaque; "extras" is any field only schema 1.1.0 knows.              *)
(***************************************************************************)
EXTENDS Integers, FiniteSets, SequencesExt

CONSTANT Missing        \* a field that is None

IsUnique(seq) == Cardinality({seq[i] : i \in DOMAIN seq}) = Len(seq)
Each(seq, Fits(_)) == \A i \in DOMAIN seq : Fits(seq[i])
Known(seq) == SelectSeq(seq, LAMBDA x : x # Missing)
AllOrNone(fields) == \A i, j \in DOMAIN fields : fields[i] = Missing => fields[j] = Missing

-----------------------------
(* The parts of a batch. *)

(* LineRangeLocation, and the range of a JSON pointer. *)
RangeFits(at) ==
    /\ at.line_start <= at.line_end
    /\ AllOrNone(<<at.column_start, at.column_end>>)
    /\ at.line_start = at.line_end /\ at.column_start # Missing
         => at.column_start <= at.column_end

LineFits(line) ==
    RangeFits(line.at) /\ line.number \in line.at.line_start..line.at.line_end

BlockFits(block) ==
    /\ block.text \/ block.values # <<>> \/ block.lines # <<>>
    /\ Each(block.lines, LineFits)

TableFits(table) ==
    /\ IsUnique([i \in DOMAIN table.cells |-> table.cells[i].id])
    /\ IsUnique([i \in DOMAIN table.cells |-> <<table.cells[i].row, table.cells[i].column>>])
    /\ AllOrNone(<<table.segment, table.row_start, table.row_end, table.is_last>>)
    /\ table.segment # Missing =>
         /\ table.row_start <= table.row_end
         /\ \A i \in DOMAIN table.cells : table.cells[i].row \in table.row_start..table.row_end

Scalars == {"scalar", "attribute", "text", "comment"}
Containers == {"object", "array", "document", "element"}

NodeFits(node) ==
    /\ node.parent # node.id
    /\ node.kind \in Scalars => node.value # Missing
    /\ node.kind \in Containers => node.value = Missing
    /\ AllOrNone(<<node.tree, node.segment, node.child_start, node.child_count, node.is_last>>)
    /\ node.tree # Missing =>
         /\ node.parent = Missing /\ node.kind \in Containers
         /\ node.child_count = 0 => node.is_last

-----------------------------
(* One batch. *)

AllLines(b) == b.lines \o FlattenSeq([i \in DOMAIN b.blocks |-> b.blocks[i].lines])

Ids(seq) == [i \in DOMAIN seq |-> seq[i].id]
CellsOf(b) == FlattenSeq([i \in DOMAIN b.tables |-> b.tables[i].cells])

ValueIds(b) ==
    Known(FlattenSeq([i \in DOMAIN AllLines(b) |-> AllLines(b)[i].values])
            \o FlattenSeq([i \in DOMAIN b.blocks |-> b.blocks[i].values])
            \o [i \in DOMAIN CellsOf(b) |-> CellsOf(b)[i].value]
            \o [i \in DOMAIN b.trees |-> b.trees[i].value])

Keyed(kind, ids) == [i \in DOMAIN ids |-> <<kind, ids[i]>>]

(* Every object of a batch a reference can name. *)
RefKeys(b) ==
    Keyed("line", Ids(AllLines(b))) \o Keyed("block", Ids(b.blocks))
      \o Keyed("table", Ids(b.tables)) \o Keyed("cell", Ids(CellsOf(b)))
      \o Keyed("node", Ids(b.trees)) \o Keyed("value", ValueIds(b))

RefOf(b, key) == [extraction |-> b.extraction, batch |-> b.index, key |-> key]
RefsOf(b) == {RefOf(b, RefKeys(b)[i]) : i \in DOMAIN RefKeys(b)}

LocalIdsFit(b) == IsUnique(RefKeys(b))

(* _validate_tree_links: parents are there, nobody is its own ancestor, and *)
(* a continued root has just the children of its range.                     *)
TreeLinksFit(b) ==
    LET nodes  == {b.trees[i] : i \in DOMAIN b.trees}
        Up(set) == {n.parent : n \in {m \in nodes : m.id \in set}} \ {Missing}
        up[k \in 0..Cardinality(nodes)] ==
            [n \in nodes |-> IF k = 0 THEN Up({n.id}) ELSE up[k - 1][n] \cup Up(up[k - 1][n])]
        orders(n) == {m.order : m \in {c \in nodes : c.parent = n.id}}
    IN  /\ \A n \in nodes : n.parent \in {Missing} \cup {m.id : m \in nodes}
        /\ \A n \in nodes : n.id \notin up[Cardinality(nodes)][n]
        /\ \A n \in nodes : n.tree # Missing =>
             /\ Cardinality({c \in nodes : c.parent = n.id}) = n.child_count
             /\ orders(n) = n.child_start..(n.child_start + n.child_count - 1)

HasExtensions(b) ==
    \/ b.extras
    \/ \E i \in DOMAIN b.tables : b.tables[i].segment # Missing
    \/ \E i \in DOMAIN b.trees : b.trees[i].kind # Missing
    \/ \E i \in DOMAIN AllLines(b) : AllLines(b)[i].at.column_start # Missing

SchemaFits(b) ==
    \/ b.version = "1.1" /\ b.records # Missing
    \/ b.version = "1.0" /\ b.records = Missing /\ b.refs = <<>> /\ ~HasExtensions(b)

SummaryOf(b) ==
    [index |-> b.index, print |-> b.print, source |-> b.source, extraction |-> b.extraction,
     parser |-> b.parser, objects |-> Len(RefKeys(b)), records |-> b.records]

-----------------------------
(* The manifest. *)

RefsIn(m, index) == {r \in {m.index[i] : i \in DOMAIN m.index} : r.batch = index}

RecordTotal(sums) == FoldSeq(LAMBDA s, n : n + s.records, 0, sums)

(* _validate_run: one run, no gap, the sizes add up. *)
ManifestFits(m) ==
    /\ m.sums # <<>> /\ IsUnique(m.index)
    /\ IsUnique([i \in DOMAIN m.sums |-> m.sums[i].print])
    /\ \A i \in DOMAIN m.sums :
         /\ m.sums[i].index = i - 1
         /\ m.sums[i].source = m.source /\ m.sums[i].extraction = m.extraction
         /\ m.sums[i].parser = m.parser
         /\ Cardinality(RefsIn(m, i - 1)) <= m.sums[i].objects
    /\ \A i \in DOMAIN m.index :
         m.index[i].extraction = m.extraction /\ m.index[i].batch \in 0..(Len(m.sums) - 1)
    /\ \/ /\ m.version = "1.1" /\ m.producer = m.parser
          /\ \A i \in DOMAIN m.sums : m.sums[i].records # Missing
          /\ m.records = RecordTotal(m.sums)
       \/ /\ m.version = "1.0" /\ m.producer = Missing /\ m.records = Missing
          /\ \A i \in DOMAIN m.sums : m.sums[i].records = Missing

(* validate_batch. *)
ManifestHas(m, b) ==
    /\ b.version = m.version /\ b.index < Len(m.sums)
    /\ SummaryOf(b) = m.sums[b.index + 1]
    /\ b.last <=> b.index = Len(m.sums) - 1
    /\ b.last => b.manifest = m
    /\ RefsIn(m, b.index) \subseteq RefsOf(b)

TupleFits(seq) == seq \in Seq({seq[i] : i \in DOMAIN seq})

(* The rules a batch meets by itself. *)
BatchFits(b) ==
    /\ TupleFits(b.tables) /\ TupleFits(b.trees) /\ TupleFits(b.refs)
    /\ b.last <=> b.manifest # Missing
    /\ Each(b.lines, LineFits) /\ Each(b.blocks, BlockFits)
    /\ Each(b.tables, TableFits) /\ Each(b.trees, NodeFits)
    /\ LocalIdsFit(b) /\ TreeLinksFit(b) /\ SchemaFits(b)
    /\ IsUnique(b.refs) /\ {b.refs[i] : i \in DOMAIN b.refs} \subseteq RefsOf(b)
    /\ b.last => ManifestFits(b.manifest) /\ ManifestHas(b.manifest, b)
                   /\ Len(b.manifest.sums) = b.index + 1

-----------------------------
(* The whole of an extraction. *)

(* What of a table or a tree a batch holds; the rest of it may come later. *)
NoSegment == [id |-> Missing, segment |-> 0, kind |-> "table", from |-> 0, upto |-> 0, last |-> TRUE]

TableSegment(t) ==
    IF t.segment = Missing THEN NoSegment
    ELSE [id |-> t.id, segment |-> t.segment, kind |-> "table", from |-> t.row_start,
          upto |-> t.row_end + 1, last |-> t.is_last]

TreeSegment(n) ==
    IF n.tree = Missing THEN NoSegment
    ELSE [id |-> n.tree, segment |-> n.segment, kind |-> n.kind, from |-> n.child_start,
          upto |-> n.child_start + n.child_count, last |-> n.is_last]

TableSegments(b) == [i \in DOMAIN b.tables |-> TableSegment(b.tables[i])]
TreeSegments(b) == [i \in DOMAIN b.trees |-> TreeSegment(b.trees[i])]

(* The segments of one table or tree are numbered from zero, each takes up  *)
(* where the one before it left off, and the last of them says that it is.  *)
Earlier(segs, i) == {j \in 1..(i - 1) : segs[j].id = segs[i].id}

SegmentsFollow(segs) ==
    \A i \in DOMAIN segs : segs[i].id # Missing =>
       LET earlier == Earlier(segs, i)
           before  == segs[Max(earlier)]
       IN  /\ segs[i].segment = Cardinality(earlier)
           /\ IF earlier = {} THEN segs[i].kind # "table" => segs[i].from = 0
              ELSE segs[i].from = before.upto /\ segs[i].kind = before.kind
           /\ segs[i].last <=> \A j \in (i + 1)..Len(segs) : segs[j].id # segs[i].id

(* validate_batches. *)
IsExtraction(m, batches) ==
    /\ Len(batches) = Len(m.sums)
    /\ \A i \in DOMAIN batches : batches[i].index = i - 1 /\ ManifestHas(m, batches[i])
    /\ SegmentsFollow(FlattenSeq([i \in DOMAIN batches |-> TableSegments(batches[i])]))
    /\ SegmentsFollow(FlattenSeq([i \in DOMAIN batches |-> TreeSegments(batches[i])]))
    /\ m.version = "1.1" => m.index = FlattenSeq([i \in DOMAIN batches |-> batches[i].refs])

(* The batches that are yielded: the last one carries the manifest. *)
WithManifest(drafts, m) ==
    [i \in DOMAIN drafts |-> IF drafts[i].last THEN [drafts[i] EXCEPT !.manifest = m] ELSE drafts[i]]
=============================================================================
