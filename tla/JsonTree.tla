------------------------------ MODULE JsonTree ------------------------------
(***************************************************************************)
(* The JSON parsers, parsers/builtin/_json.py: stream_json_document takes  *)
(* a root array apart and yields its items in batches, each under a copy   *)
(* of the root that covers its items; stream_json_lines does it with the   *)
(* records of a file.  The source is a sequence of tokens, each one        *)
(* character wide: punctuation, the strings in Names, the scalar "1",      *)
(* white space "ws", and "nl", which ends a record of a JSON Lines file.   *)
(***************************************************************************)
EXTENDS Extraction
LOCAL INSTANCE SequencesExt
LOCAL INSTANCE FiniteSetsExt

CONSTANTS
    Documents,      \* [form : {"json", "jsonl"}, tokens]
    Names,          \* strings
    JsonLimits      \* [depth, pointer, columns, keys, items, nodes, objects, records, record_chars,
                    \*  batch_nodes, batch_chars, batch_size, batches, refs]

VARIABLES
    document,
    next,           \* the position of the next token
    js              \* lexer, tree parser and batches

jsonVars == <<document, next, js>>

NoError == "none"
IndexText == <<"0", "1", "2", "3", "4">>     \* str(index): a name may read the same
ScalarTokens == Names \cup {"1"}
EndOfText == "eof"

NewJson ==
    [stack |-> <<>>, want |-> "start", key |-> Missing, record |-> <<>>, chars |-> 0, recording |-> TRUE,
     pending |-> <<>>, pending_records |-> 0, pending_chars |-> 0, batches |-> <<>>,
     nodes |-> 0, keys |-> 0, values |-> 0, objects |-> 0, records |-> 0, error |-> NoError, done |-> FALSE]

Rejects(s, error) == [s EXCEPT !.error = error]
IsLines == document.form = "jsonl"
IsArray(s) == s.stack # <<>> /\ s.stack[1].id = 0 /\ ~IsLines /\ s.stack[1].is_root

(* _JsonLexer._take. *)
CharTaken(s) ==
    IF ~s.recording THEN s
    ELSE IF s.chars + 1 > JsonLimits.record_chars THEN Rejects(s, "record_chars")
    ELSE [s EXCEPT !.chars = @ + 1]

-----------------------------
(* _TreeParser. *)

Frame(node, is_root) ==
    [id |-> node.id, kind |-> node.kind, pointer |-> node.pointer, path |-> node.path, count |-> 0,
     seen |-> [k \in Names |-> 0], is_root |-> is_root]

NodeOf(s, token, parent, order, pointer, path) ==
    [id |-> s.nodes, parent |-> parent, order |-> order, pointer |-> pointer, path |-> path,
     kind |-> CASE token = "{" -> "object" [] token = "[" -> "array" [] OTHER -> "scalar",
     value |-> IF token \in ScalarTokens THEN s.values ELSE Missing, text |-> token,
     record |-> IF IsLines THEN s.records ELSE Missing,
     tree |-> Missing, segment |-> Missing, child_start |-> Missing, child_count |-> Missing,
     is_last |-> Missing]

(* What a value meets before it is a node: parse_value, claim_node. *)
Obstacle(s, token, pointer) ==
    CASE Len(s.stack) + 1 > JsonLimits.depth -> "nesting_depth"
      [] Len(pointer) > JsonLimits.pointer -> "json_pointer_chars"
      [] token \notin ScalarTokens \cup {"{", "["} -> "invalid_json"
      [] Len(s.record) >= JsonLimits.batch_nodes -> "batch_nodes"
      [] s.nodes >= JsonLimits.nodes -> "nodes"
      [] (IF token \in ScalarTokens THEN 2 ELSE 1) > JsonLimits.objects - s.objects -> "physical_objects"
      [] OTHER -> NoError

ValueDone(s) == [s EXCEPT !.want = IF s.stack = <<>> THEN "end" ELSE "delimiter"]

ValueStarts(s, token, parent, order, pointer, path) ==
    LET node  == NodeOf(s, token, parent, order, pointer, path)
        taken == [s EXCEPT !.record = Append(@, node), !.nodes = @ + 1,
                           !.objects = @ + (IF token \in ScalarTokens THEN 2 ELSE 1),
                           !.values = @ + (IF token \in ScalarTokens THEN 1 ELSE 0)]
    IN  IF Obstacle(s, token, pointer) # NoError THEN Rejects(s, Obstacle(s, token, pointer))
        ELSE IF token \in ScalarTokens THEN ValueDone(taken)
        ELSE [taken EXCEPT !.stack = Append(@, Frame(node, FALSE)), !.want = "first"]

Closes(s) == ValueDone([s EXCEPT !.stack = Front(@)])
Top(s) == Last(s.stack)
WithTop(s, frame) == [s EXCEPT !.stack = Append(Front(@), frame)]

KeyRead(s, token) ==
    IF token \notin Names THEN Rejects(s, "invalid_json")
    ELSE IF Top(s).count >= JsonLimits.columns THEN Rejects(s, "columns")
    ELSE IF s.keys >= JsonLimits.keys THEN Rejects(s, "keys")
    ELSE [s EXCEPT !.keys = @ + 1, !.key = token, !.want = "colon"]

(* How often the name has come in this object. *)
Occurrence(frame, key) == frame.seen[key]

MemberRead(s, token) ==
    LET top == Top(s)
        moved == WithTop(s, [top EXCEPT !.seen = [@ EXCEPT ![s.key] = @ + 1], !.count = @ + 1])
    IN  ValueStarts(moved, token, top.id, top.count, Append(top.pointer, s.key),
                    Append(top.path, Occurrence(top, s.key)))

ObjectStep(s, token) ==
    CASE s.want = "first" /\ token = "}" -> Closes(s)
      [] s.want = "key" \/ (s.want = "first" /\ token # "}") -> KeyRead(s, token)
      [] s.want = "colon" -> IF token = ":" THEN [s EXCEPT !.want = "value"]
                             ELSE Rejects(s, "invalid_json")
      [] s.want = "value" -> MemberRead(s, token)
      [] s.want = "delimiter" ->
           IF token = "}" THEN Closes(s)
           ELSE IF token # "," THEN Rejects(s, "invalid_json")
           ELSE IF Top(s).count >= JsonLimits.columns THEN Rejects(s, "columns")
           ELSE [s EXCEPT !.want = "key"]

ItemRead(s, token) ==
    LET top == Top(s)
    IN  IF top.count >= JsonLimits.items THEN Rejects(s, "array_items")
        ELSE ValueStarts(WithTop(s, [top EXCEPT !.count = @ + 1]), token, top.id, top.count,
                         Append(top.pointer, IndexText[top.count + 1]), Append(top.path, Missing))

ArrayStep(s, token) ==
    CASE s.want = "first" /\ token = "]" -> Closes(s)
      [] s.want = "item" \/ (s.want = "first" /\ token # "]") -> ItemRead(s, token)
      [] s.want = "delimiter" ->
           CASE token = "]" -> Closes(s) [] token = "," -> [s EXCEPT !.want = "item"]
             [] OTHER -> Rejects(s, "invalid_json")

-----------------------------
(* Batches. *)

(* _ensure_batch_slot. *)
HasSlot(s, last) == Len(s.batches) + (IF last THEN 0 ELSE 1) < JsonLimits.batches

(* A batch of a root array needs a root of its own from the second one on. *)
JsonFlushed(s, array, last) ==
    LET again == array /\ s.batches # <<>>
    IN  IF s.error # NoError THEN s
        ELSE IF again /\ s.objects >= JsonLimits.objects THEN Rejects(s, "physical_objects")
        ELSE IF ~HasSlot(s, last) THEN Rejects(s, "batch_count")
        ELSE [s EXCEPT !.batches = Append(@, [nodes |-> s.pending, records |-> s.pending_records,
                                              array |-> array, from |-> s.records - s.pending_records,
                                              last |-> last]),
                       !.objects = @ + (IF again THEN 1 ELSE 0), !.done = last,
                       !.pending = <<>>, !.pending_records = 0, !.pending_chars = 0]

(* The nodes a batch holds beside those of its records. *)
RootRoom(array) == IF array THEN 1 ELSE 0

(* A record, or an item, goes to the batch - the pending ones first, when it *)
(* would overflow it.                                                        *)
RecordTaken(s, array) ==
    LET size == Len(s.record)
        over == /\ s.pending # <<>>
                /\ \/ ~array /\ s.pending_records >= JsonLimits.batch_size
                   \/ Len(s.pending) + size + RootRoom(array) > JsonLimits.batch_nodes
                   \/ s.pending_chars + s.chars > JsonLimits.batch_chars
        room == IF over THEN JsonFlushed(s, array, FALSE) ELSE s
    IN  IF s.error # NoError THEN s
        ELSE IF size + RootRoom(array) > JsonLimits.batch_nodes THEN Rejects(s, "batch_nodes")
        ELSE IF s.chars > JsonLimits.batch_chars THEN Rejects(s, "batch_chars")
        ELSE IF room.error # NoError THEN room
        ELSE [room EXCEPT !.pending = @ \o s.record, !.pending_records = @ + 1,
                          !.pending_chars = @ + s.chars, !.records = @ + 1,
                          !.record = <<>>, !.chars = 0]

BatchIsFull(s, array) ==
    \/ s.pending_records >= JsonLimits.batch_size
    \/ ~array /\ (Len(s.pending) >= JsonLimits.batch_nodes \/ s.pending_chars >= JsonLimits.batch_chars)

-----------------------------
(* stream_json_document. *)

RootOpens(s) ==
    LET root == NodeOf(s, "[", Missing, 0, <<>>, <<>>)
    IN  IF s.error # NoError THEN s
        ELSE IF JsonLimits.depth < 1 THEN Rejects(s, "nesting_depth")
        ELSE IF s.nodes >= JsonLimits.nodes THEN Rejects(s, "nodes")
        ELSE IF s.objects >= JsonLimits.objects THEN Rejects(s, "physical_objects")
        ELSE [s EXCEPT !.nodes = 1, !.objects = 1, !.stack = <<Frame(root, TRUE)>>, !.want = "first",
                       !.chars = 0]

RootItem(s, token) ==
    IF s.records >= JsonLimits.records THEN Rejects(s, "records")
    ELSE IF s.records >= JsonLimits.items THEN Rejects(s, "array_items")
    ELSE ValueStarts(s, token, 0, s.records, <<IndexText[s.records + 1]>>, <<Missing>>)

RootDelimiter(s, token) ==
    LET taken == RecordTaken(s, TRUE)
        on    == [taken EXCEPT !.want = IF token = "]" THEN "trailing" ELSE "item",
                               !.recording = token = ","]
    IN  IF token \notin {",", "]"} THEN Rejects(s, "invalid_json")
        ELSE IF taken.error # NoError THEN taken
        ELSE IF token = "," /\ BatchIsFull(on, TRUE) THEN JsonFlushed(on, TRUE, FALSE)
        ELSE on

RootStep(s, token) ==
    CASE s.want = "first" /\ token = "]" -> [s EXCEPT !.want = "trailing", !.recording = FALSE]
      [] s.want = "item" \/ (s.want = "first" /\ token # "]") -> RootItem(s, token)
      [] s.want = "delimiter" -> RootDelimiter(s, token)
      [] s.want = "trailing" -> IF token # EndOfText THEN Rejects(s, "trailing_content")
                                ELSE JsonFlushed(s, TRUE, TRUE)

(* A document that is no array is one record. *)
DocumentEnds(s, token) ==
    LET taken == [s EXCEPT !.pending = s.record, !.pending_records = 1, !.records = 1, !.record = <<>>]
    IN  IF token # EndOfText THEN Rejects(s, "trailing_content")
        ELSE IF s.chars > JsonLimits.batch_chars THEN Rejects(s, "batch_chars")
        ELSE JsonFlushed(taken, FALSE, TRUE)

DocumentStarts(s, token) ==
    IF token = "[" THEN RootOpens(s)
    ELSE IF JsonLimits.records < 1 THEN Rejects(s, "records")
    ELSE ValueStarts(s, token, Missing, 0, <<>>, <<>>)

(* stream_json_lines: a line without content is passed over; the last line   *)
(* with content is known as such when it is read.                            *)
RecordLineEnds(s, last) ==
    LET taken == RecordTaken(s, FALSE)
    IN  CASE s.want = "start" -> [s EXCEPT !.chars = 0]
          [] s.want = "end" ->
               IF taken.error # NoError THEN taken
               ELSE IF last \/ BatchIsFull(taken, FALSE)
                 THEN JsonFlushed([taken EXCEPT !.want = "start"], FALSE, last)
               ELSE [taken EXCEPT !.want = "start"]
          [] OTHER -> Rejects(s, "invalid_json")

LineStarts(s, token) ==
    IF s.records >= JsonLimits.records THEN Rejects(s, "records")
    ELSE ValueStarts(s, token, Missing, 0, <<>>, <<>>)

-----------------------------
Token == IF next > Len(document.tokens) THEN EndOfText ELSE document.tokens[next]

NothingBehind == \A i \in (next + 1)..Len(document.tokens) : document.tokens[i] \in {"ws", "nl"}

(* The delimiter behind a record is not counted with it. *)
IsCounted(s, token) ==
    /\ token # EndOfText /\ ~(IsLines /\ token = "nl")
    /\ ~(IsArray(s) /\ Len(s.stack) = 1 /\ s.want = "delimiter" /\ token # "ws")

Read(s0, token) ==
    LET s == IF IsCounted(s0, token) THEN CharTaken(s0) ELSE s0
    IN  CASE s.error # NoError -> s
          [] s.error = NoError /\ token = "ws" -> s
          [] s.error = NoError /\ token # "ws" /\ IsLines /\ token \in {"nl", EndOfText} ->
               IF token = EndOfText /\ s.want = "start" /\ s.records = 0 THEN Rejects(s, "invalid_json")
               ELSE RecordLineEnds(s, NothingBehind)
          [] OTHER -> CASE s.want = "start" -> IF IsLines THEN LineStarts(s, token) ELSE DocumentStarts(s, token)
                        [] s.want = "end" -> IF IsLines THEN Rejects(s, "trailing_content")
                                             ELSE DocumentEnds(s, token)
                        [] OTHER -> CASE Top(s).is_root -> RootStep(s, token)
                                      [] ~Top(s).is_root /\ Top(s).kind = "object" -> ObjectStep(s, token)
                                      [] OTHER -> ArrayStep(s, token)

JsonInit == document \in Documents /\ next = 1 /\ js = NewJson

ReadToken ==
    /\ js.error = NoError /\ ~js.done /\ next <= Len(document.tokens) + 1
    /\ js' = Read(js, Token) /\ next' = next + 1 /\ UNCHANGED document

-----------------------------
(* _build_batch. *)

RootOf(s, i) ==
    [id |-> 0, parent |-> Missing, order |-> 0, pointer |-> <<>>, path |-> <<>>, kind |-> "array",
     value |-> Missing, text |-> "[", record |-> Missing, tree |-> "tree-0", segment |-> i - 1,
     child_start |-> s.batches[i].from, child_count |-> s.batches[i].records,
     is_last |-> s.batches[i].last]

TreesOf(s, i) == (IF s.batches[i].array THEN <<RootOf(s, i)>> ELSE <<>>) \o s.batches[i].nodes
ValuesOf(trees) == SelectSeq([k \in DOMAIN trees |-> trees[k].value], LAMBDA v : v # Missing)

BatchObjects(s, i) == Len(TreesOf(s, i)) + Len(ValuesOf(TreesOf(s, i)))

(* The nodes, and then their values, as far as the limit goes. *)
JsonRefs(b, trees, left) ==
    LET keys == Keyed("node", Ids(trees)) \o Keyed("value", ValuesOf(trees))
    IN  [k \in 1..Min({left, Len(keys)}) |-> RefOf(b, keys[k])]

JsonDraft(s, i) ==
    LET b == [version |-> "1.1", extraction |-> "run", index |-> i - 1, source |-> "source",
              parser |-> "builtin.json", print |-> i, lines |-> <<>>, blocks |-> <<>>, tables |-> <<>>,
              trees |-> TreesOf(s, i), records |-> s.batches[i].records, refs |-> <<>>,
              extras |-> FALSE, last |-> s.batches[i].last, manifest |-> Missing]
        before == FoldLeft(LAMBDA n, k : n + BatchObjects(s, k), 0, [k \in 1..(i - 1) |-> k])
    IN  [b EXCEPT !.refs = JsonRefs(b, b.trees, IF before < JsonLimits.refs THEN JsonLimits.refs - before
                                                ELSE 0)]

JsonDrafts(s) == [i \in DOMAIN s.batches |-> JsonDraft(s, i)]

JsonManifest(drafts) ==
    [version |-> "1.1", source |-> "source", extraction |-> "run", parser |-> "builtin.json",
     producer |-> "builtin.json", sums |-> [i \in DOMAIN drafts |-> SummaryOf(drafts[i])],
     index |-> FlattenSeq([i \in DOMAIN drafts |-> drafts[i].refs]),
     records |-> FoldLeft(LAMBDA n, d : n + d.records, 0, drafts)]

JsonYielded(drafts) == WithManifest(drafts, JsonManifest(drafts))

-----------------------------
NodesRead == FlattenSeq([i \in DOMAIN js.batches |-> js.batches[i].nodes]) \o js.pending \o js.record

(* No two nodes have one address - record, pointer and occurrences - though  *)
(* an object may have a name twice, and a name may look like an index.       *)
AddressesAreUnique ==
    /\ IsUnique([i \in DOMAIN NodesRead |-> NodesRead[i].id])
    /\ IsUnique([i \in DOMAIN NodesRead |-> <<NodesRead[i].record, NodesRead[i].pointer, NodesRead[i].path>>])

(* The tokens a node and what is below it stand for. *)
Unread(nodes) ==
    LET text[k \in 0..Len(nodes)] ==        \* of the node nodes[Len(nodes) - k + 1], from the last one on
          LET n    == nodes[Len(nodes) - k + 1]
              kids == SelectSeq([i \in DOMAIN nodes |-> i], LAMBDA i : nodes[i].parent = n.id)
              part(i) == (IF n.kind = "object" THEN <<Last(nodes[i].pointer), ":">> ELSE <<>>)
                           \o text[Len(nodes) - i + 1]
              inner == FlattenSeq([i \in DOMAIN kids |-> IF i = 1 THEN part(kids[i])
                                                         ELSE <<",">> \o part(kids[i])])
          IN  IF k = 0 THEN <<>>
              ELSE CASE n.kind = "scalar" -> <<n.text>>
                     [] n.kind = "object" -> <<"{">> \o inner \o <<"}">>
                     [] n.kind = "array"  -> <<"[">> \o inner \o <<"]">>
        roots == SelectSeq([i \in DOMAIN nodes |-> i], LAMBDA i : nodes[i].parent = Missing)
    IN  FlattenSeq([i \in DOMAIN roots |-> text[Len(nodes) - roots[i] + 1]])

(* What is yielded is an extraction the contract accepts - the parts of a    *)
(* root array follow each other without a gap - within every limit, and the  *)
(* document can be put together again from it.                               *)
TreesAre(trees, tokens) ==
    Unread(SelectSeq(trees, LAMBDA n : n.segment \in {Missing, 0}))
      = SelectSeq(tokens, LAMBDA t : t \notin {"ws", "nl"})

JsonFits(batches) ==
    /\ \A i \in DOMAIN batches : BatchFits(batches[i]) /\ Len(batches[i].trees) <= JsonLimits.batch_nodes
    /\ IsExtraction(Last(batches).manifest, batches)
    /\ FoldLeft(LAMBDA n, b : n + Len(b.trees) + Len(ValuesOf(b.trees)), 0, batches) = js.objects
    /\ TreesAre(FlattenSeq([i \in DOMAIN batches |-> batches[i].trees]), document.tokens)

JsonIsExtracted == js.done => js.objects <= JsonLimits.objects /\ JsonFits(JsonYielded(JsonDrafts(js)))

(* Every value has an address of its own, and the trees are the document. *)
JsonIsRead == AddressesAreUnique /\ JsonIsExtracted
=============================================================================
