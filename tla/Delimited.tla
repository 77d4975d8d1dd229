----------------------------- MODULE Delimited -----------------------------
(***************************************************************************)
(* DelimitedTextParser of parsers/builtin/delimited.py: a text that comes  *)
(* in pieces of any size is cut into rows (_RowTokenizer.feed), the rows   *)
(* into batches (_parse), and the dialect is found out from the beginning  *)
(* of the text (_detect_dialect).  Text is a sequence of characters; what  *)
(* is neither delimiter, quote, escape, end of line nor NUL is "x".        *)
(***************************************************************************)
EXTENDS Extraction
LOCAL INSTANCE SequencesExt
LOCAL INSTANCE FiniteSetsExt

CONSTANTS
    Texts,          \* the texts to look at
    Dialects,       \* their dialects: [delimiter, quote, escape, double]
    RowLimits,      \* DelimitedParserLimits: [records, lines, line_chars,
                    \*   record_chars, field_size, columns, stop]
    BatchLimits,    \* [rows, cells, chars, batches, objects, refs]
    Candidates,     \* DelimitedDetectionOptions: [delimiters, quotes, escapes], sequences
    ProbeRows       \* max_header_probe_rows

VARIABLES
    source,         \* [text, dialect]
    rest,           \* what has not been fed
    tok             \* the tokenizer

delimitedVars == <<source, rest, tok>>

NoChar == "none"        \* a dialect without quotes, or without escapes

NewTokenizer ==
    [fields |-> <<>>, field |-> <<>>, quoted |-> FALSE, escaped |-> FALSE, started |-> FALSE,
     row |-> FALSE, in_quotes |-> FALSE, after_quote |-> FALSE, escaping |-> FALSE,
     pending_cr |-> FALSE, stopped |-> FALSE, record_chars |-> 0, line_chars |-> 0,
     line |-> 1, first_line |-> 1, content_line |-> 1, rows |-> <<>>,
     delimiters |-> 0, delimiters_now |-> 0, quotes |-> 0, escapes |-> 0,
     error |-> NoChar, at |-> <<>>]

(* What is raised: where, in records and lines. *)
Malformed(t, reason) ==
    [t EXCEPT !.error = reason,
              !.at = <<Len(t.rows) + 1, IF reason \in {"dangling_escape", "unterminated_quote"}
                                          THEN t.content_line ELSE t.line>>]

OverLimit(t, resource) == [t EXCEPT !.error = resource]

-----------------------------
(* Fields and rows. *)

WithText(t, lim, chars) ==
    IF Len(chars) > lim.field_size - Len(t.field) THEN OverLimit(t, "field_size")
    ELSE [t EXCEPT !.field = @ \o chars, !.started = TRUE, !.row = TRUE]

FieldEnded(t, lim) ==
    IF Len(t.fields) >= lim.columns THEN OverLimit(t, "columns")
    ELSE [t EXCEPT !.fields = Append(@, [value |-> t.field, quoted |-> t.quoted, escaped |-> t.escaped]),
                   !.field = <<>>, !.quoted = FALSE, !.escaped = FALSE, !.started = FALSE,
                   !.after_quote = FALSE, !.in_quotes = FALSE]

Delimiter(t, lim) ==
    LET ended == FieldEnded([t EXCEPT !.delimiters = @ + 1, !.delimiters_now = @ + 1], lim)
    IN  IF ended.error = NoChar /\ Len(ended.fields) >= lim.columns THEN OverLimit(ended, "columns")
        ELSE ended

(* _emit_row and _reset_record: a line without a character is a row without  *)
(* a field.                                                                  *)
RowEnded(t, lim, terminator) ==
    LET full == IF t.row \/ t.fields # <<>> \/ t.started THEN FieldEnded(t, lim) ELSE t
    IN  IF Len(t.rows) >= lim.records THEN OverLimit(t, "records")
        ELSE IF full.error # NoChar THEN full
        ELSE [NewTokenizer EXCEPT
                !.rows = Append(t.rows, [index |-> Len(t.rows), fields |-> full.fields,
                                         chars |-> t.record_chars + terminator,
                                         from |-> t.first_line, upto |-> t.line, last |-> FALSE]),
                !.stopped = Len(t.rows) + 1 >= lim.stop,
                !.line = t.line, !.line_chars = t.line_chars, !.first_line = t.line,
                !.content_line = t.line, !.delimiters = t.delimiters, !.quotes = t.quotes,
                !.escapes = t.escapes]

-----------------------------
(* One character. *)

Exhausted(t, lim) ==
    CASE Len(t.rows) >= lim.records      -> "records"
      [] t.line > lim.lines              -> "line_count"
      [] t.line_chars >= lim.line_chars  -> "line_chars"
      [] t.record_chars >= lim.record_chars -> "record_chars"
      [] OTHER -> NoChar

Escaped(t, lim, d, c) ==
    IF c \notin {d.delimiter, d.quote, d.escape} THEN Malformed(t, "invalid_escape")
    ELSE LET text == WithText([t EXCEPT !.escapes = IF c # d.escape THEN @ + 1 ELSE @], lim, <<c>>)
         IN  IF text.error # NoChar THEN text ELSE [text EXCEPT !.escaping = FALSE]

Quoted(t, lim, d, c) ==
    CASE c = d.escape -> [t EXCEPT !.escaping = TRUE, !.escaped = TRUE]
      [] c = d.quote  -> [t EXCEPT !.in_quotes = FALSE, !.after_quote = TRUE]
      [] OTHER        -> WithText(t, lim, <<c>>)

BehindQuote(t, lim, d, c) ==
    CASE d.double /\ c = d.quote ->
           LET text == WithText(t, lim, <<c>>)
           IN  IF text.error # NoChar THEN text
               ELSE [text EXCEPT !.escaped = TRUE, !.in_quotes = TRUE, !.after_quote = FALSE]
      [] c = d.delimiter -> Delimiter(t, lim)
      [] OTHER -> Malformed(t, "unexpected_character_after_quote")

Bare(t, lim, d, c) ==
    CASE c = d.escape    -> [t EXCEPT !.escaping = TRUE, !.escaped = TRUE, !.started = TRUE]
      [] c = d.delimiter -> Delimiter(t, lim)
      [] c = d.quote     -> IF t.started THEN Malformed(t, "unexpected_quote")
                            ELSE [t EXCEPT !.started = TRUE, !.quoted = TRUE, !.in_quotes = TRUE,
                                           !.quotes = @ + 1]
      [] OTHER           -> WithText(t, lim, <<c>>)

(* _consume_character. *)
Character(t, lim, d, c) ==
    LET on == [t EXCEPT !.line_chars = @ + 1, !.record_chars = @ + 1, !.content_line = t.line,
                        !.row = TRUE]
    IN  CASE c = "nul" -> Malformed(t, "binary_content")
          [] c # "nul" /\ Exhausted(t, lim) # NoChar -> OverLimit(t, Exhausted(t, lim))
          [] OTHER -> IF t.escaping THEN Escaped(on, lim, d, c)
                      ELSE IF t.in_quotes THEN Quoted(on, lim, d, c)
                      ELSE IF t.after_quote THEN BehindQuote(on, lim, d, c)
                      ELSE Bare(on, lim, d, c)

(* _consume_newline: within quotes, or escaped, it belongs to the field. *)
Newline(t, lim, chars) ==
    IF Len(t.rows) >= lim.records THEN OverLimit(t, "records")
    ELSE IF t.line > lim.lines THEN OverLimit(t, "line_count")
    ELSE IF t.escaping \/ t.in_quotes
      THEN IF Len(chars) > lim.record_chars - t.record_chars THEN OverLimit(t, "record_chars")
           ELSE LET text == WithText([t EXCEPT !.record_chars = @ + Len(chars), !.content_line = t.line,
                                               !.escapes = IF t.escaping THEN @ + 1 ELSE @], lim, chars)
                IN  IF text.error # NoChar THEN text
                    ELSE [text EXCEPT !.escaping = FALSE, !.line = @ + 1, !.line_chars = 0]
    ELSE LET row == RowEnded(t, lim, Len(chars))
         IN  IF row.error # NoChar THEN row
             ELSE [row EXCEPT !.line = @ + 1, !.line_chars = 0, !.first_line = t.line + 1]

-----------------------------
(* feed. *)

(* Slip: a CR at the end of a piece ends the line. *)
AtTheEnd_EndsLine(t, lim) == Newline(t, lim, <<"cr">>)

(* A CR at the end of a piece waits for what comes next. *)
AtTheEnd(t, lim) == [t EXCEPT !.pending_cr = TRUE]

Settled(t, lim, chars) == Newline([t EXCEPT !.pending_cr = FALSE], lim, chars)

(* A piece: a CR and the LF behind it are one newline. *)
Through(t, lim, d, text) ==
    LET skips(i) == i > 1 /\ text[i] = "lf" /\ text[i - 1] = "cr"
        one(s, i) ==
          IF s.error # NoChar \/ s.stopped \/ skips(i) THEN s
          ELSE CASE text[i] = "cr" /\ i = Len(text) -> AtTheEnd(s, lim)
                 [] text[i] = "cr" /\ i < Len(text) ->
                      Newline(s, lim, IF text[i + 1] = "lf" THEN <<"cr", "lf">> ELSE <<"cr">>)
                 [] text[i] = "lf" -> Newline(s, lim, <<"lf">>)
                 [] OTHER -> Character(s, lim, d, text[i])
    IN  FoldLeft(LAMBDA s, i : one(s, i), t, [i \in DOMAIN text |-> i])

(* The end of the text: what is open is an error; the last row is marked as  *)
(* the source's last - if this very call has emitted it.                     *)
Closing(s, lim) ==
    CASE s.error # NoChar -> s
      [] s.error = NoChar /\ s.escaping -> Malformed(s, "dangling_escape")
      [] s.error = NoChar /\ s.in_quotes -> Malformed(s, "unterminated_quote")
      [] OTHER -> IF s.row \/ s.fields # <<>> \/ s.started THEN RowEnded(s, lim, 0) ELSE s

LastMarked(r, before) ==
    IF r.error # NoChar \/ Len(r.rows) = before THEN r
    ELSE [r EXCEPT !.rows = [@ EXCEPT ![Len(r.rows)].last = TRUE]]

AtEof(t, lim, before) ==
    LastMarked(Closing(IF t.pending_cr THEN Settled(t, lim, <<"cr">>) ELSE t, lim), before)

(* The CR that waited, and the text behind its LF. *)
CrlfAhead(t, text) == t.pending_cr /\ text # <<>> /\ Head(text) = "lf"

Begun(t, lim, text, final) ==
    IF t.pending_cr /\ (text # <<>> \/ final)
      THEN Settled(t, lim, IF CrlfAhead(t, text) THEN <<"cr", "lf">> ELSE <<"cr">>) ELSE t

Resumed(t, lim, d, text) == IF t.error # NoChar THEN t ELSE Through(t, lim, d, text)

Finished(t, lim, final, before) ==
    IF final /\ t.error = NoChar /\ ~t.stopped THEN AtEof(t, lim, before) ELSE t

Feed(t, lim, d, text, final) ==
    Finished(Resumed(Begun(t, lim, text, final), lim, d, IF CrlfAhead(t, text) THEN Tail(text) ELSE text),
             lim, final, Len(t.rows))

-----------------------------
(* _parse: rows are collected until a batch is full. *)

CellsIn(rows) == FoldLeft(LAMBDA n, r : n + Len(r.fields), 0, rows)
CharsIn(rows) == FoldLeft(LAMBDA n, r : n + r.chars, 0, rows)

Overflows(pending, row) ==
    /\ pending # <<>>
    /\ \/ CellsIn(pending) + Len(row.fields) > BatchLimits.cells
       \/ CharsIn(pending) + row.chars > BatchLimits.chars

BatchFull(pending) ==
    \/ Len(pending) >= BatchLimits.rows
    \/ CellsIn(pending) >= BatchLimits.cells \/ CharsIn(pending) >= BatchLimits.chars

NewBatching == [batches |-> <<>>, pending |-> <<>>, objects |-> 0, error |-> NoChar, done |-> FALSE]

Flushed(b, last) ==
    IF last \/ Len(b.batches) + 1 < BatchLimits.batches
      THEN [b EXCEPT !.batches = Append(@, [rows |-> b.pending, last |-> last]), !.pending = <<>>,
                     !.done = last]
      ELSE [b EXCEPT !.error = "batch_count"]

Collected(taken, row) ==
    IF ~BatchFull(taken.pending) /\ ~row.last THEN taken
    ELSE IF Len(taken.batches) >= BatchLimits.batches THEN [taken EXCEPT !.error = "batch_count"]
    ELSE Flushed(taken, row.last)

Counting(room, row, costs) ==
    IF room.error # NoChar THEN room
    ELSE IF costs > BatchLimits.objects - room.objects THEN [room EXCEPT !.error = "physical_objects"]
    ELSE Collected([room EXCEPT !.pending = Append(@, row), !.objects = @ + costs], row)

InRoom(room, row) ==
    Counting(room, row, 2 * Len(row.fields) + IF room.pending = <<>> THEN 1 ELSE 0)

RowTaken(b, row) ==
    IF b.error # NoChar \/ b.done THEN b
    ELSE InRoom(IF Overflows(b.pending, row) THEN Flushed(b, FALSE) ELSE b, row)

(* Behind the last row: rows that are left over, or a source without any. *)
Completed(b) ==
    IF b.error # NoChar \/ b.done THEN b
    ELSE IF b.pending # <<>>
      THEN IF Len(b.batches) >= BatchLimits.batches THEN [b EXCEPT !.error = "batch_count"]
           ELSE Flushed(b, TRUE)
    ELSE IF b.batches = <<>> THEN Flushed(b, TRUE) ELSE b

Batching(rows) == Completed(FoldLeft(LAMBDA s, r : RowTaken(s, r), NewBatching, rows))

-----------------------------
(* _table_for_rows, _bounded_indexed_refs and _build_batch: what is yielded. *)

CellsBefore(out, i) == CellsIn(FlattenSeq([k \in 1..(i - 1) |-> out.batches[k].rows]))

TableOf(rows, i, before, last) ==
    LET cells == FlattenSeq([k \in DOMAIN rows |->
                   [c \in DOMAIN rows[k].fields |-> [row |-> rows[k].index, column |-> c - 1]]])
    IN  [id |-> "table-0", segment |-> i - 1, row_start |-> Head(rows).index,
         row_end |-> Last(rows).index, is_last |-> last,
         cells |-> [c \in DOMAIN cells |-> [id |-> before + c - 1, value |-> before + c - 1,
                                            row |-> cells[c].row, column |-> cells[c].column]]]

(* Without its manifest.  At most so many references as are left of the limit. *)
RefsLeft(before) == IF before < BatchLimits.refs THEN BatchLimits.refs - before ELSE 0

WithRefs(b, keys, left) == [b EXCEPT !.refs = [k \in 1..Min({left, Len(keys)}) |-> RefOf(b, keys[k])]]

Unreferred(rows, i, before, last) ==
    [version |-> "1.1", extraction |-> "run", index |-> i - 1, source |-> "source",
     parser |-> "builtin.delimited", print |-> i, lines |-> <<>>, blocks |-> <<>>,
     tables |-> IF rows = <<>> THEN <<>> ELSE <<TableOf(rows, i, before, last)>>,
     trees |-> <<>>, records |-> Len(rows), refs |-> <<>>, extras |-> FALSE,
     last |-> last, manifest |-> Missing]

Referred(b, before) == WithRefs(b, RefKeys(b), RefsLeft(b.index + 2 * before))

DraftOf(out, i) ==
    Referred(Unreferred(out.batches[i].rows, i, CellsBefore(out, i), out.batches[i].last),
             CellsBefore(out, i))

Drafts(out) == [i \in DOMAIN out.batches |-> DraftOf(out, i)]

ManifestOfAll(drafts) ==
    [version |-> "1.1", source |-> "source", extraction |-> "run", parser |-> "builtin.delimited",
     producer |-> "builtin.delimited", sums |-> [i \in DOMAIN drafts |-> SummaryOf(drafts[i])],
     index |-> FlattenSeq([i \in DOMAIN drafts |-> drafts[i].refs]),
     records |-> FoldLeft(LAMBDA n, b : n + b.records, 0, drafts)]

Yielded(drafts) == WithManifest(drafts, ManifestOfAll(drafts))

-----------------------------
(* _detect_dialect: every candidate dialect reads the sample; limits no      *)
(* sample can reach are no limits (_shape_detection_limits).                 *)

DialectsOf(options) ==
    LET all == FlattenSeq([i \in DOMAIN options.delimiters |->
                 FlattenSeq([j \in DOMAIN options.quotes |->
                   [k \in DOMAIN options.escapes |->
                      [delimiter |-> options.delimiters[i], quote |-> options.quotes[j],
                       escape |-> options.escapes[k], double |-> TRUE]]])])
    IN  SelectSeq(all, LAMBDA d : d.delimiter \notin {d.quote, d.escape}
                                    /\ (d.quote = d.escape => d.quote = NoChar))

ShapeLimits(text) ==
    [records |-> Max({ProbeRows, 2}), lines |-> Len(text) + 2, line_chars |-> Len(text) + 1,
     record_chars |-> Len(text) + 1, field_size |-> Len(text) + 1, columns |-> Len(text) + 2,
     stop |-> ProbeRows]

(* _row_consistency: how many of the rows that are not blank have the width  *)
(* most of them have; Missing when that shows nothing.                       *)
Consistency(rows, forced) ==
    LET filled   == SelectSeq(rows, LAMBDA r : r.fields # <<>>)
        width(i) == Len(filled[i].fields)
        having(w) == Cardinality({i \in DOMAIN filled : width(i) = w})
        widths   == {width(i) : i \in DOMAIN filled}
        most     == {w \in widths : \A v \in widths : having(v) <= having(w)}
    IN  IF Len(filled) < (IF forced THEN 1 ELSE 2) THEN Missing
        ELSE IF ~forced /\ Cardinality({i \in DOMAIN filled : width(i) >= 2}) < 2 THEN Missing
        ELSE IF Max(most) < 2 \/ (~forced /\ having(Max(most)) < 2) THEN Missing
        ELSE [rows |-> having(Max(most)), of |-> Len(filled)]

TrialOf(d, order, t) ==
    [dialect |-> d, order |-> order, error |-> t.error, at |-> t.at, tok |-> t,
     rows |-> Len(t.rows), consistency |-> Consistency(t.rows, FALSE),
     partial |-> Consistency(t.rows, TRUE)]

Tried(text, complete, dialects) ==
    {TrialOf(dialects[i], i, Feed(NewTokenizer, ShapeLimits(text), dialects[i], text, complete)) :
       i \in DOMAIN dialects}

(* _Candidate.score. *)
Beats(a, b) ==
    LET x == a.consistency.rows * b.consistency.of
        y == b.consistency.rows * a.consistency.of
        quoted(c) == IF c.tok.quotes > 0 THEN 1 ELSE 0
    IN  \/ x > y
        \/ x = y /\ quoted(a) > quoted(b)
        \/ x = y /\ quoted(a) = quoted(b) /\ a.rows > b.rows

(* The most quotes, the most escapes, the first. *)
Blamed(failures, escapesToo) ==
    CHOOSE f \in failures : \A g \in failures :
        \/ f.tok.quotes > g.tok.quotes
        \/ /\ f.tok.quotes = g.tok.quotes
           /\ \/ escapesToo /\ f.tok.escapes > g.tok.escapes
              \/ (escapesToo => f.tok.escapes = g.tok.escapes) /\ f.order <= g.order

DelimitersOf(set) == {c.dialect.delimiter : c \in set}
Detected(d) == [kind |-> "dialect", dialect |-> d]
Raised(f) == [kind |-> f.error, dialect |-> [at |-> f.at]]
Ambiguous == [kind |-> "ambiguous", dialect |-> Missing]
NotFound == [kind |-> "none", dialect |-> Missing]

(* Nobody has read the sample: whose error is told. *)
NoCandidate(failures, complete) ==
    LET plausible  == {f \in failures : f.tok.delimiters > 0 /\ (f.partial # Missing \/ f.tok.quotes > 0)}
        structured == {f \in plausible : f.consistency # Missing}
    IN  IF structured # {}
          THEN IF Cardinality(DelimitersOf(structured)) > 1 THEN Ambiguous
               ELSE Raised(Blamed(structured, TRUE))
        ELSE IF complete /\ Cardinality(DelimitersOf(plausible)) = 1 THEN Raised(Blamed(plausible, TRUE))
        ELSE NotFound

(* The strongest, narrowed down by the escape characters they have met. *)
Escapes(set) == {c.dialect.escape : c \in {k \in set : k.tok.escapes > 0}}

Narrowed(strongest) ==
    LET plain == {c \in strongest : c.dialect.escape = NoChar}
    IN  IF Escapes(strongest) = {} /\ plain # {} THEN plain ELSE strongest

Undecided(strongest) ==
    \/ Cardinality(DelimitersOf(strongest)) > 1
    \/ Cardinality({c.dialect.quote : c \in {k \in strongest : k.tok.quotes > 0}}) > 1
    \/ Cardinality({c.dialect.escape : c \in Narrowed(strongest)}) > 1

(* Those that failed within quotes another delimiter, or a stronger reading, *)
(* would explain.                                                            *)
Quoting(failures) ==
    {f \in failures : /\ f.error \in {"unexpected_character_after_quote", "unterminated_quote"}
                      /\ f.tok.quotes > 0 /\ f.tok.delimiters > 0}

Crosses(f, selected) ==
    /\ f.dialect.delimiter # selected.dialect.delimiter
    /\ f.consistency # Missing \/ (f.partial # Missing /\ f.tok.delimiters_now > 0)

Outdoes(f, selected) ==
    selected.tok.quotes = 0 /\ f.dialect.delimiter = selected.dialect.delimiter

Validated(selected, valid) == IF valid.error # NoChar THEN Raised(valid) ELSE Detected(selected.dialect)

Selecting(text, complete, quoting, selected) ==
    LET stronger == {f \in quoting : Outdoes(f, selected)}
    IN  IF \E f \in quoting : Crosses(f, selected) THEN Ambiguous
        ELSE IF stronger # {} THEN Raised(Blamed(stronger, FALSE))
        ELSE Validated(selected, Feed(NewTokenizer,
                                      [RowLimits EXCEPT !.records = Max({ProbeRows, 2}), !.stop = ProbeRows],
                                      selected.dialect, text, complete))

Earliest(set) == CHOOSE c \in set : \A o \in set : c.order <= o.order

Judged(text, complete, failures, strongest) ==
    IF strongest = {} THEN NoCandidate(failures, complete)
    ELSE IF Undecided(strongest) THEN Ambiguous
    ELSE Selecting(text, complete, Quoting(failures), Earliest(Narrowed(strongest)))

Strongest(candidates) == {c \in candidates : \A o \in candidates : ~Beats(o, c)}

DetectAmong(text, complete, all) ==
    Judged(text, complete, {c \in all : c.error # NoChar},
           Strongest({c \in all : /\ c.error = NoChar /\ c.consistency # Missing
                                  /\ c.tok.delimiters > 0}))

Detect(text, complete, options) ==
    DetectAmong(text, complete, Tried(text, complete, DialectsOf(options)))

-----------------------------
DelimitedInit ==
    /\ source \in [text : Texts, dialect : Dialects]
    /\ rest = source.text /\ tok = NewTokenizer

(* A piece of any size; only the last one of a text may be empty. *)
FeedPiece(n) ==
    /\ tok.error = NoChar /\ (rest # <<>> \/ source.text = <<>>)
    /\ tok' = Feed(tok, RowLimits, source.dialect, SubSeq(rest, 1, n), n = Len(rest))
    /\ rest' = IF n = Len(rest) THEN <<"end">> ELSE SubSeq(rest, n + 1, Len(rest))
    /\ UNCHANGED source

DelimitedNext == \E n \in 0..Len(rest) : rest # <<"end">> /\ (n > 0 \/ rest = <<>>) /\ FeedPiece(n)

AllFed == rest = <<"end">> \/ tok.error # NoChar

(* However the source is cut into pieces - between CR and LF, within quotes, *)
(* before the last character - the rows, or the error, its record and line   *)
(* are those of the whole text; and the batches hold just these rows, each   *)
(* within its limits.                                                        *)
BatchesHold(out, rows) ==
    out.error = NoChar =>
      /\ FlattenSeq([i \in DOMAIN out.batches |-> out.batches[i].rows]) = rows
      /\ \A i \in DOMAIN out.batches :
           /\ CellsIn(out.batches[i].rows) <= BatchLimits.cells
           /\ CharsIn(out.batches[i].rows) <= BatchLimits.chars

SameAs(whole) ==
    /\ tok.error = whole.error /\ tok.at = whole.at
    /\ tok.error = NoChar => tok.rows = whole.rows /\ BatchesHold(Batching(tok.rows), tok.rows)

PiecesDoNotMatter == AllFed => SameAs(Feed(NewTokenizer, RowLimits, source.dialect, source.text, TRUE))

(* What is yielded is an extraction the contract accepts, within its limits: *)
(* segments follow each other, exactly the last batch closes table and run,  *)
(* and the batches' references are the manifest's index.                     *)
AreExtracted(batches, objects) ==
    /\ \A i \in DOMAIN batches : BatchFits(batches[i])
    /\ IsExtraction(Last(batches).manifest, batches)
    /\ FoldLeft(LAMBDA n, b : n + Len(RefKeys(b)), 0, batches) = objects
    /\ Len(Last(batches).manifest.index) <= BatchLimits.refs

DraftsFit(drafts, objects) == AreExtracted(Yielded(drafts), objects)

BatchesFit(out) ==
    out.error = NoChar =>
      /\ Len(out.batches) \in 1..BatchLimits.batches
      /\ DraftsFit(Drafts(out), out.objects)

YieldsExtraction == (AllFed /\ tok.error = NoChar) => BatchesFit(Batching(tok.rows))

(* Which delimiter is found, or what is told instead, does not depend on the *)
(* order the configuration lists the delimiters in.                          *)
DialectIsDecided ==
    (rest = source.text) => \A complete \in BOOLEAN :
       Cardinality({Detect(source.text, complete, [Candidates EXCEPT !.delimiters = ds]) :
                      ds \in {Candidates.delimiters, Reverse(Candidates.delimiters)}}) = 1

(* The rows are those of the text, whatever the pieces it came in, the       *)
(* batches made of them an extraction, and the dialect not a matter of order.*)
RowsAreRead == PiecesDoNotMatter /\ YieldsExtraction /\ DialectIsDecided
=============================================================================
