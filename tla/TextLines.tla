----------------------------- MODULE TextLines -----------------------------
(***************************************************************************)
(* The line-oriented parsers, parsers/builtin/_common.py, text.py, log.py  *)
(* and markdown.py: a text that comes in pieces is cut into physical lines *)
(* (iter_physical_lines), the lines are gathered into units - a line, a    *)
(* log event, a Markdown block - and the units into batches (batch_units). *)
(* Characters: "f" and "g" are what fences are made of, "#" starts a       *)
(* heading, "*" a list item, " " is blank, "k" is what a log event is      *)
(* recognised by and captured from, "x" is anything else.                  *)
(***************************************************************************)
EXTENDS Extraction
LOCAL INSTANCE SequencesExt
LOCAL INSTANCE FiniteSetsExt

CONSTANTS
    Pages,          \* the texts to look at
    LineLimits,     \* [lines, line_chars, text_chars, captures, event_lines, event_chars, block_chars]
    UnitLimits      \* [records, objects, batch_size, batches, refs]

VARIABLES
    page,           \* [text, format]
    unread,         \* what no piece has brought
    scan            \* iter_physical_lines

linesVars == <<page, unread, scan>>

Formats == {"txt", "log", "md"}
Fine == "none"
AtEnd == <<"end">>

-----------------------------
(* Physical lines. *)

NewScan == [buffer |-> <<>>, number |-> 1, awaiting_cr |-> FALSE, chars |-> 0, lines |-> <<>>,
            error |-> Fine]

Stopped(s, error) == [s EXCEPT !.error = error]

(* A line is yielded. *)
LineEnds(s, terminator, last) ==
    IF s.number > LineLimits.lines THEN Stopped(s, "line_count")
    ELSE [s EXCEPT !.lines = Append(@, [number |-> s.number, text |-> s.buffer,
                                        terminator |-> terminator, last |-> last]),
                   !.buffer = <<>>, !.number = @ + 1, !.awaiting_cr = FALSE]

(* What stands before the next newline. *)
Segment(s, text) ==
    IF text # <<>> /\ s.number > LineLimits.lines THEN Stopped(s, "line_count")
    ELSE IF Len(s.buffer) + Len(text) > LineLimits.line_chars THEN Stopped(s, "line_chars")
    ELSE [s EXCEPT !.buffer = @ \o text]

(* A CR at the very end of a piece: an LF may follow. *)
Waits(text, at, final) == text[at] = "cr" /\ at = Len(text)

LineSplit(s0, text0, final) ==
    LET newlines(t) == {i \in DOMAIN t : t[i] \in {"cr", "lf"}}
        read[k \in 0..Len(text0)] ==        \* after k newlines: the scanner, and what is left
          LET s == read[k - 1].s
              t == read[k - 1].t
              at == Min(newlines(t))
              crlf == t[at] = "cr" /\ at < Len(t) /\ t[at + 1] = "lf"
              size == IF crlf THEN at + 1 ELSE at
              seg == Segment(s, SubSeq(t, 1, at - 1))
              ended == LineEnds(seg, IF crlf THEN <<"cr", "lf">> ELSE <<t[at]>>, final /\ size = Len(t))
          IN  IF k = 0 THEN [s |-> s0, t |-> text0]
              ELSE IF s.error # Fine \/ t = <<>> THEN read[k - 1]
              ELSE IF newlines(t) = {} THEN [s |-> Segment(s, t), t |-> <<>>]
              ELSE IF seg.error # Fine THEN [s |-> seg, t |-> t]
              ELSE IF Waits(t, at, final) THEN [s |-> [seg EXCEPT !.awaiting_cr = TRUE], t |-> <<>>]
              ELSE [s |-> ended, t |-> SubSeq(t, size + 1, Len(t))]
    IN  read[Len(text0)].s

(* One decoded piece. *)
AwaitedEnd(s, text, final, crlf) ==
    IF s.awaiting_cr
      THEN LineEnds(s, IF crlf THEN <<"cr", "lf">> ELSE <<"cr">>, final /\ crlf /\ Len(text) = 1)
      ELSE s

SplitOn(s, text, final) == IF s.error # Fine THEN s ELSE LineSplit(s, text, final)

PieceEnds(read, final) ==
    CASE read.error # Fine -> read
      [] read.error = Fine /\ final ->
           CASE read.awaiting_cr -> LineEnds(read, <<"cr">>, TRUE)
             [] ~read.awaiting_cr /\ read.buffer # <<>> -> LineEnds(read, <<>>, TRUE)
             [] OTHER -> read
      [] OTHER -> IF read.number > LineLimits.lines /\ ~read.awaiting_cr THEN Stopped(read, "line_count")
                  ELSE read

PieceRead(s, text, final) ==
    LET crlf == s.awaiting_cr /\ Head(text) = "lf"
    IN  IF \E i \in DOMAIN text : text[i] = "nul" THEN Stopped(s, "binary_content")
        ELSE IF Len(text) > LineLimits.text_chars - s.chars THEN Stopped(s, "text_chars")
        ELSE PieceEnds(SplitOn(AwaitedEnd([s EXCEPT !.chars = @ + Len(text)], text, final, crlf),
                               IF crlf THEN Tail(text) ELSE text, final), final)

-----------------------------
(* Units: [lines, block, captures, kind, last], block FALSE for plain text. *)

RawChars(lines) == FoldLeft(LAMBDA n, l : n + Len(l.text) + Len(l.terminator), 0, lines)
Captures(line) == Len(SelectSeq(line.text, LAMBDA c : c = "k"))
ObjectsOf(u) == Len(u.lines) + (IF u.block THEN 1 + u.captures ELSE 0)

(* UnitBudget.ensure_pending: records, then objects, of what is committed    *)
(* and what is about to be.                                                  *)
OverBudget(units, objects) ==
    CASE Len(units) + 1 > UnitLimits.records -> "records"
      [] Len(units) < UnitLimits.records
           /\ objects > UnitLimits.objects - FoldLeft(LAMBDA n, u : n + ObjectsOf(u), 0, units) ->
           "physical_objects"
      [] OTHER -> Fine

NewUnits == [units |-> <<>>, open |-> <<>>, kind |-> "paragraph", fence |-> <<>>, captures |-> 0,
             error |-> Fine]

UnitOf(u, lines, kind, captures, block, last) ==
    LET unit == [lines |-> lines, kind |-> kind, captures |-> captures, block |-> block, last |-> last]
    IN  IF OverBudget(u.units, ObjectsOf(unit)) # Fine
          THEN [u EXCEPT !.error = OverBudget(u.units, ObjectsOf(unit))]
        ELSE [u EXCEPT !.units = Append(@, unit)]

(* The open event or block is yielded. *)
Cleared(done) == IF done.error # Fine THEN done ELSE [NewUnits EXCEPT !.units = done.units]

UnitClosed(u, last) ==
    IF u.open = <<>> \/ u.error # Fine THEN u
    ELSE Cleared(UnitOf(u, u.open, u.kind, u.captures, TRUE, last))

(* A line joins what is open. *)
Joined(u, line, limit) ==
    IF u.error # Fine THEN u
    ELSE IF OverBudget(u.units, Len(u.open) + 2 + u.captures) # Fine
      THEN [u EXCEPT !.error = OverBudget(u.units, Len(u.open) + 2 + u.captures)]
    ELSE IF RawChars(Append(u.open, line)) > limit THEN [u EXCEPT !.error = "chars"]
    ELSE [u EXCEPT !.open = Append(@, line)]

(* text.py. *)
TextUnit(u, line) == UnitOf(u, <<line>>, "line", 0, FALSE, line.last)

(* log.py: a recognised line begins an event, the others continue it. *)
Recognized(line) == line.text # <<>> /\ Head(line.text) = "k"

EventOpened(prev, line) ==
    IF prev.open = <<>> /\ prev.error = Fine
      THEN [prev EXCEPT !.captures = IF Recognized(line) THEN Captures(line) ELSE 0,
                        !.kind = IF Recognized(line) THEN "iso" ELSE "unrecognized"]
      ELSE prev

EventJoined(u, line) ==
    IF u.error = Fine /\ Len(u.open) + 1 > LineLimits.event_lines
         /\ OverBudget(u.units, Len(u.open) + 2 + u.captures) = Fine
      THEN [u EXCEPT !.error = "event_lines"]
      ELSE Joined(u, line, LineLimits.event_chars)

ClosedBy(u, line) == IF line.last THEN UnitClosed(u, TRUE) ELSE u

LogUnit(u, line) ==
    IF Recognized(line) /\ Captures(line) > LineLimits.captures THEN [u EXCEPT !.error = "capture_groups"]
    ELSE ClosedBy(EventJoined(EventOpened(IF Recognized(line) THEN UnitClosed(u, FALSE) ELSE u, line), line),
                  line)

(* markdown.py.  A fence: a run of one fence character, and behind it nothing *)
(* that is one.                                                              *)
FenceRun(text) ==
    LET runs == {n \in 1..Len(text) : \A i \in 1..n : text[i] = Head(text)}
    IN  IF text = <<>> \/ Head(text) \notin {"f", "g"} THEN <<>> ELSE SubSeq(text, 1, Max(runs))

FenceMarker(text) ==
    LET run == FenceRun(text)
    IN  IF Len(text) > Len(run) /\ text[Len(run) + 1] \in {"f", "g"} THEN <<>> ELSE run

FenceCloses(text, marker) ==
    LET run == FenceRun(text)
    IN  /\ run # <<>> /\ Head(run) = Head(marker) /\ Len(run) >= Len(marker)
        /\ \A i \in (Len(run) + 1)..Len(text) : text[i] = " "

IsBlank(text) == \A i \in DOMAIN text : text[i] = " "

(* A block of its own kind, behind what was open. *)
Begins(u, line, kind, fence) ==
    Joined([UnitClosed(u, FALSE) EXCEPT !.kind = kind, !.fence = fence], line, LineLimits.block_chars)

MarkdownUnit(u, line) ==
    LET text == line.text
        list == IF Head(text) = "*" THEN "list" ELSE "paragraph"
        kept == IF u.open # <<>> /\ u.kind # list THEN UnitClosed(u, FALSE) ELSE u
    IN  CASE u.fence # <<>> ->
               IF FenceCloses(text, u.fence) \/ line.last
                 THEN UnitClosed(Joined(u, line, LineLimits.block_chars), line.last)
                 ELSE Joined(u, line, LineLimits.block_chars)
          [] u.fence = <<>> /\ FenceMarker(text) # <<>> ->
               ClosedBy(Begins(u, line, "fenced_code", FenceMarker(text)), line)
          [] u.fence = <<>> /\ FenceMarker(text) = <<>> /\ (IsBlank(text) \/ Head(text) = "#") ->
               UnitClosed(Begins(u, line, IF IsBlank(text) THEN "blank" ELSE "heading", <<>>), line.last)
          [] OTHER -> ClosedBy(Joined([kept EXCEPT !.kind = list], line, LineLimits.block_chars), line)

UnitsOf(format, lines) ==
    FoldLeft(LAMBDA u, l : IF u.error # Fine THEN u
                           ELSE CASE format = "txt" -> TextUnit(u, l)
                                  [] format = "log" -> LogUnit(u, l)
                                  [] format = "md" -> MarkdownUnit(u, l),
             NewUnits, lines)

-----------------------------
(* batch_units. *)

NewGathering == [batches |-> <<>>, pending |-> <<>>, objects |-> 0, records |-> 0, error |-> Fine,
                 done |-> FALSE]

Gathered(b, unit) ==
    LET records == b.records + 1
        objects == b.objects + ObjectsOf(unit)
        pending == Append(b.pending, unit)
        last    == unit.last
    IN  IF b.error # Fine \/ b.done THEN b
        ELSE IF records > UnitLimits.records THEN [b EXCEPT !.error = "records"]
        ELSE IF objects > UnitLimits.objects THEN [b EXCEPT !.error = "physical_objects"]
        ELSE IF Len(pending) < UnitLimits.batch_size /\ ~unit.last
          THEN [b EXCEPT !.pending = pending, !.records = records, !.objects = objects]
        ELSE IF Len(b.batches) + (IF last THEN 0 ELSE 1) >= UnitLimits.batches
          THEN [b EXCEPT !.error = "batch_count"]
        ELSE [b EXCEPT !.batches = Append(@, [units |-> pending, last |-> last]), !.pending = <<>>,
                       !.records = records, !.objects = objects, !.done = last]

(* Behind the last unit: what is left over, or an empty batch that closes. *)
GatheringEnds(b) ==
    IF b.error # Fine \/ b.done THEN b
    ELSE IF Len(b.batches) >= UnitLimits.batches THEN [b EXCEPT !.error = "batch_count"]
    ELSE [b EXCEPT !.batches = Append(@, [units |-> b.pending, last |-> TRUE]),
                   !.pending = <<>>, !.done = TRUE]

Gathering(units) == GatheringEnds(FoldLeft(LAMBDA s, u : Gathered(s, u), NewGathering, units))

UnitsBefore(b, i) == FlattenSeq([k \in 1..(i - 1) |-> b.batches[k].units])
CapturesIn(units) == FoldLeft(LAMBDA n, u : n + u.captures, 0, units)

LineRange(from, upto) == [line_start |-> from, line_end |-> upto, column_start |-> Missing,
                          column_end |-> Missing]

(* _build_batch without the manifest: blocks and values are numbered through *)
(* the run, references to lines, blocks and values as far as the limit goes. *)
LinesDraft(b, i) ==
    LET units  == b.batches[i].units
        before == UnitsBefore(b, i)
        lines  == FlattenSeq([k \in DOMAIN units |-> units[k].lines])
        blocks == SelectSeq(units, LAMBDA u : u.block)
        blockNr(k) == Len(before) + k
        valueNr(k, c) == CapturesIn(before) + CapturesIn(SubSeq(blocks, 1, k - 1)) + c
        batch  == [version |-> "1.1", extraction |-> "run", index |-> i - 1, source |-> "source",
                   parser |-> "builtin.text", print |-> i, tables |-> <<>>, trees |-> <<>>,
                   lines |-> [k \in DOMAIN lines |->
                                [id |-> lines[k].number, number |-> lines[k].number, values |-> <<>>,
                                 at |-> LineRange(lines[k].number, lines[k].number)]],
                   blocks |-> [k \in DOMAIN blocks |->
                                [id |-> blockNr(k), text |-> TRUE, lines |-> <<>>,
                                 values |-> [c \in 1..blocks[k].captures |-> valueNr(k, c)]]],
                   records |-> Len(units), refs |-> <<>>, extras |-> FALSE,
                   last |-> b.batches[i].last, manifest |-> Missing]
        used == FoldLeft(LAMBDA n, u : n + ObjectsOf(u), 0, before)
        left == IF used < UnitLimits.refs THEN UnitLimits.refs - used ELSE 0
        keys == RefKeys(batch)
    IN  [batch EXCEPT !.refs = [k \in 1..Min({left, Len(keys)}) |-> RefOf(batch, keys[k])]]

LinesDrafts(b) == [i \in DOMAIN b.batches |-> LinesDraft(b, i)]

LinesManifest(drafts) ==
    [version |-> "1.1", source |-> "source", extraction |-> "run", parser |-> "builtin.text",
     producer |-> "builtin.text", sums |-> [i \in DOMAIN drafts |-> SummaryOf(drafts[i])],
     index |-> FlattenSeq([i \in DOMAIN drafts |-> drafts[i].refs]),
     records |-> FoldLeft(LAMBDA n, d : n + d.records, 0, drafts)]

LinesYielded(drafts) == WithManifest(drafts, LinesManifest(drafts))

-----------------------------
LinesInit ==
    /\ page \in [text : Pages, format : Formats] /\ unread = page.text /\ scan = NewScan

(* The next piece; behind a CR the next read is of one character. *)
NextPiece(n) ==
    /\ scan.error = Fine /\ unread # <<>> /\ unread # AtEnd
    /\ scan.awaiting_cr => n = 1
    /\ scan' = PieceRead(scan, SubSeq(unread, 1, n), n = Len(unread))
    /\ unread' = IF n = Len(unread) THEN AtEnd ELSE SubSeq(unread, n + 1, Len(unread))
    /\ UNCHANGED page

LinesNext == \E n \in 1..Len(unread) : NextPiece(n)

AllRead == unread = AtEnd \/ page.text = <<>> \/ scan.error # Fine

(* However the source is cut into pieces - between CR and LF, before the     *)
(* last character, behind a byte that is read alone - the lines are those of *)
(* the whole text, with their terminators, the last one marked; they hold    *)
(* every character of it; and a text over a limit is refused however it is   *)
(* cut.                                                                      *)
LinesAreWhole ==
    AllRead =>
       LET whole == PieceRead(NewScan, page.text, TRUE)
           raw(s) == FlattenSeq([i \in DOMAIN s.lines |-> s.lines[i].text \o s.lines[i].terminator])
       IN  /\ scan.error = Fine <=> whole.error = Fine
           /\ IsPrefix(raw(scan), page.text)
           /\ scan.error = Fine =>
                /\ scan.lines = whole.lines /\ raw(scan) = page.text
                /\ \A i \in DOMAIN scan.lines : scan.lines[i].last <=> i = Len(scan.lines)

(* A parser yields every line, in one unit of it and in order, and what it   *)
(* yields is an extraction the contract accepts, within its limits.          *)
LinesFit(batches) ==
    /\ \A i \in DOMAIN batches : BatchFits(batches[i])
    /\ IsExtraction(Last(batches).manifest, batches)

GatheredFit(b, units) ==
    /\ b.error \in {Fine, "batch_count"}
    /\ b.error = Fine =>
         /\ FlattenSeq([i \in DOMAIN b.batches |-> b.batches[i].units]) = units
         /\ LinesFit(LinesYielded(LinesDrafts(b)))

UnitsFit(u) ==
    u.error = Fine =>
      /\ u.open = <<>>
      /\ FlattenSeq([i \in DOMAIN u.units |-> u.units[i].lines]) = scan.lines
      /\ GatheredFit(Gathering(u.units), u.units)

UnitsAreExtracted == (AllRead /\ scan.error = Fine) => UnitsFit(UnitsOf(page.format, scan.lines))

(* The lines are those of the text, and the units made of them an extraction. *)
LinesAreRead == LinesAreWhole /\ UnitsAreExtracted
=============================================================================
