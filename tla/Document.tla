------------------------------ MODULE Document ------------------------------
(***************************************************************************)
(* Entities asked from a model, chunk by chunk: a document is cut into     *)
(* fragments and chunks (structure/chunking.py), every chunk is approved   *)
(* and sent (structure/semantic_request.py), every quotation is checked    *)
(* against its fragment, and what the answers say is merged into one plan  *)
(* of quotations (structure/document_entities.py).  An entity is known by  *)
(* its anchor, the hash of which is its key.  Bytes are one per character, *)
(* two for a wide one.                                                     *)
(***************************************************************************)
EXTENDS ParsePlan
LOCAL INSTANCE SequencesExt
LOCAL INSTANCE FiniteSetsExt
LOCAL INSTANCE Functions
LOCAL INSTANCE TLC

CONSTANTS
    Documents,          \* [batches, indexed, same]
    DocumentPolicy,     \* [piece, chunk, fragments, overlap, refs, chunks, entities, issues, input, output]
    Wide,               \* the characters of two bytes
    ChunkScans,         \* what a scanner may say: "allow", "review", "bad", "fails"
    ModelCaps,          \* what a provider may declare
    ChunkReplies        \* what it may answer

VARIABLES
    document,           \* the document, and the provider that is asked
    chunks,             \* what reading the document gives: ChunkedSource
    found,              \* the locals of extract
    log,                \* per request: its error code or "ok", and the aliases used
    extracting,         \* "unread", "reading", "done", or "failed"
    extracted           \* the DocumentAnalysis, or Missing

documentVars == <<document, chunks, found, log, extracting, extracted>>

-----------------------------
(* Texts and fragments. *)

TextsInBlock(block) ==
    IF block.text # Missing THEN <<[ref |-> block.ref, text |-> block.text]>>
    ELSE block.lines

(* text_sources: blocks before lines before tree nodes. *)
TextsIn(batch) ==
    IF batch.blocks # <<>>
    THEN FlattenSeq([n \in DOMAIN batch.blocks |-> TextsInBlock(batch.blocks[n])])
    ELSE IF batch.lines # <<>> THEN batch.lines
    ELSE SelectSeq(batch.nodes, LAMBDA node : node.text # Missing)

HasText(source) == \E n \in DOMAIN source.text : source.text[n] # " "

ByteWidth(char) == IF char \in Wide THEN 2 ELSE 1
ByteLength(text) == FoldLeft(LAMBDA sum, char : sum + ByteWidth(char), 0, text)

AddChar(pieces, char) ==
    IF pieces # <<>> /\ ByteLength(Last(pieces)) + ByteWidth(char) <= DocumentPolicy.piece
    THEN [pieces EXCEPT ![Len(pieces)] = Append(@, char)]
    ELSE Append(pieces, <<char>>)

PiecesOf(text) == FoldLeft(AddChar, <<>>, text)

(* Offsets count characters, the pieces are cut by bytes. *)
FragmentsOf(source, order) ==
    LET pieces == PiecesOf(source.text) IN
    [n \in DOMAIN pieces |->
        [ref |-> source.ref, order |-> order, text |-> pieces[n],
         start |-> Len(FlattenSeq(SubSeq(pieces, 1, n - 1)))]]

PayloadSize(fragments) ==
    FoldLeft(LAMBDA sum, fragment : sum + 1 + ByteLength(fragment.text), 0, fragments)

-----------------------------
(* Chunks: a fragment that does not fit opens the next chunk, which begins  *)
(* with the last fragments of the one before.                               *)

NewChunks == [chunks |-> <<>>, pending |-> <<>>, fresh |-> FALSE, refs |-> <<>>,
              omitted |-> 0, order |-> 0, end |-> "open"]

Closed(c) == [c EXCEPT !.chunks = IF c.fresh THEN Append(@, c.pending) ELSE @, !.fresh = FALSE]

RECURSIVE Overlap(_, _)
Overlap(pending, fragment) ==
    IF pending # <<>> /\ PayloadSize(Append(pending, fragment)) > DocumentPolicy.chunk
    THEN Overlap(Tail(pending), fragment) ELSE pending

LastFragments(pending) ==
    SubSeq(pending, Len(pending) - Min({Len(pending), DocumentPolicy.overlap}) + 1, Len(pending))

AddFragment(c, fragment) ==
    LET closes == /\ c.pending # <<>>
                  /\ \/ PayloadSize(Append(c.pending, fragment)) > DocumentPolicy.chunk
                     \/ Len(c.pending) >= DocumentPolicy.fragments
        base == IF closes THEN [Closed(c) EXCEPT !.pending = Overlap(LastFragments(@), fragment)] ELSE c
    IN IF PayloadSize(<<fragment>>) > DocumentPolicy.chunk THEN [c EXCEPT !.end = "context_limit"]
       ELSE [base EXCEPT !.pending = Append(@, fragment), !.fresh = TRUE]

AddText(c, source, indexed) ==
    IF c.end # "open" \/ ~HasText(source) THEN c
    ELSE IF source.ref \notin indexed \/ Len(c.refs) >= DocumentPolicy.refs
    THEN [c EXCEPT !.order = @ + 1, !.omitted = @ + 1]
    ELSE FoldLeft(LAMBDA d, fragment : IF d.end = "open" THEN AddFragment(d, fragment) ELSE d,
                  [c EXCEPT !.order = @ + 1, !.refs = Append(@, source.ref)],
                  FragmentsOf(source, c.order + 1))

(* What no chunk will hold: tables, and blocks with neither text nor lines. *)
Untold(batch) ==
    batch.tables + Len(SelectSeq(batch.blocks, LAMBDA block : block.text = Missing /\ block.lines = <<>>))

(* A replay that shows other batches than the manifest ends the reading. *)
AddBatch(c, doc, batch) ==
    IF c.end # "open" THEN c
    ELSE IF ~batch.same THEN [c EXCEPT !.end = "request_invalid"]
    ELSE FoldLeft(LAMBDA d, source : AddText(d, source, doc.indexed),
                  [c EXCEPT !.omitted = @ + Untold(batch)], TextsIn(batch))

Complete(c, doc) ==
    IF c.end # "open" THEN c
    ELSE IF ~doc.same THEN [c EXCEPT !.end = "request_invalid"]
    ELSE [Closed(c) EXCEPT !.end = "complete"]

ChunksOf(doc) == Complete(FoldLeft(LAMBDA c, batch : AddBatch(c, doc, batch), NewChunks, doc.batches), doc)

-----------------------------
(* A request: what may be sent, to whom, and what an answer must be. *)

ChunkRefs(chunk) == {chunk[n].ref : n \in DOMAIN chunk}
IsActive(text) == \E n \in DOMAIN text : text[n] = "!"

(* approved_request: "ok", or why the payload is not sent. *)
Approval(chunk, scan) ==
    IF PayloadSize(chunk) > DocumentPolicy.input THEN "context_limit"
    ELSE IF \E n \in DOMAIN chunk : IsActive(chunk[n].text) THEN "unsafe"
    ELSE IF scan = "review" THEN "review"
    ELSE IF scan # "allow" THEN "denied"
    ELSE "ok"

Destination(caps, chunk) ==
    IF ~caps.known \/ (caps.restricted /\ ~caps.local) THEN "denied"
    ELSE IF ~caps.structured THEN "capability"
    ELSE IF PayloadSize(chunk) > caps.input THEN "context_limit"
    ELSE "ok"

Sendable(chunk, scan, caps) ==
    IF Approval(chunk, scan) # "ok" THEN Approval(chunk, scan) ELSE Destination(caps, chunk)

(* What a provider raised, and checked_output. *)
Output(reply) ==
    IF reply.error # "" THEN reply.error
    ELSE IF ~reply.bound \/ reply.bytes > DocumentPolicy.output THEN "schema"
    ELSE IF reply.active THEN "unsafe"
    ELSE IF ~reply.parsed THEN "schema"
    ELSE IF ~reply.this THEN "unknown_ref"
    ELSE "ok"

-----------------------------
(* Grounding: a quotation is a range of a fragment, word for word. *)

SpanError(span, chunk) ==
    IF span.ref >= Len(chunk) THEN "unknown_ref"
    ELSE IF \/ span.start >= span.end
            \/ span.end > Len(chunk[span.ref + 1].text)
            \/ SubSeq(chunk[span.ref + 1].text, span.start + 1, span.end) # span.quote
    THEN "schema"
    ELSE "ok"

Grounded(span, chunk) ==
    LET fragment == chunk[span.ref + 1] IN
    [ref |-> fragment.ref, start |-> fragment.start + span.start,
     end |-> fragment.start + span.end, quote |-> span.quote]

GroundedSpans(field, chunk) ==
    [n \in DOMAIN field.spans |-> Grounded(field.spans[n], chunk)]

FirstError(errors) ==
    LET bad == SelectSeq(errors, LAMBDA e : e # "ok") IN IF bad = <<>> THEN "ok" ELSE bad[1]

FieldError(field, chunk) ==
    FirstError([n \in DOMAIN field.spans |-> SpanError(field.spans[n], chunk)]
               \o <<IF IsUnique(field.spans) THEN "ok" ELSE "schema">>)

(* One proposed entity, after those before it. *)
EntityError(entities, n, chunk) ==
    LET e == entities[n] IN
    FirstError(<<IF \E m \in 1..(n - 1) : entities[m].id = e.id THEN "schema" ELSE "ok",
                 SpanError(e.anchor, chunk)>>
               \o [f \in DOMAIN e.fields |-> FieldError(e.fields[f], chunk)]
               \o <<IF IsUnique([f \in DOMAIN e.fields |-> e.fields[f].name]) THEN "ok" ELSE "schema">>)

Proposed(reply) == {reply.entities[n].id : n \in DOMAIN reply.entities}

ReplyError(reply, chunk) ==
    FirstError(
        [n \in DOMAIN reply.entities |-> EntityError(reply.entities, n, chunk)]
        \o [n \in DOMAIN reply.entities |->
              IF reply.entities[n].parent \in Proposed(reply) \cup {Missing} THEN "ok" ELSE "unknown_ref"]
        \o [n \in DOMAIN reply.unresolved |->
              IF reply.unresolved[n] < Len(chunk) THEN "ok" ELSE "unknown_ref"])

SpansOf(e) == {e.anchor} \cup UNION {ToSet(e.fields[f].spans) : f \in DOMAIN e.fields}
AliasesIn(reply) == {span.ref : span \in UNION {SpansOf(e) : e \in ToSet(reply.entities)}}

AnchorOf(reply, id, chunk) ==
    Grounded((CHOOSE e \in ToSet(reply.entities) : e.id = id).anchor, chunk)

EntityIn(reply, e, chunk) ==
    [key |-> Grounded(e.anchor, chunk), type |-> e.type,
     order |-> <<chunk[e.anchor.ref + 1].order, chunk[e.anchor.ref + 1].start + e.anchor.start>>,
     parent |-> IF e.parent = Missing THEN Missing ELSE AnchorOf(reply, e.parent, chunk),
     fields |-> [name \in {e.fields[f].name : f \in DOMAIN e.fields} |->
                   LET field == CHOOSE f \in ToSet(e.fields) : f.name = name
                   IN [type |-> field.type, spans |-> GroundedSpans(field, chunk)]]]

-----------------------------
(* Merging. *)

(* issue: what it names is unresolved; the last place goes to "unsafe". *)
Report(f, code, refs) ==
    LET full == Len(f.issues) = DocumentPolicy.issues
        kept == IF code = "unsafe" /\ full THEN Front(f.issues) ELSE f.issues
    IN [f EXCEPT !.explicit = @ \cup refs,
                 !.issues = IF Len(kept) < DocumentPolicy.issues
                            THEN Append(kept, [code |-> code, refs |-> refs]) ELSE kept]

EntityKeys(f) == {f.entities[n].key : n \in DOMAIN f.entities}
IndexOf(f, key) == CHOOSE n \in DOMAIN f.entities : f.entities[n].key = key

Differs(current, e) ==
    \/ current.type # e.type \/ current.parent # e.parent
    \/ \E name \in DOMAIN e.fields \cap DOMAIN current.fields : current.fields[name] # e.fields[name]

MaxEntityFields == 16

Matched(f, n, e) ==
    LET fields == e.fields @@ f.entities[n].fields
        merged == [f EXCEPT !.matched = @ + 1, !.entities[n].fields = fields]
    IN IF Cardinality(DOMAIN fields) <= MaxEntityFields THEN merged
       ELSE Report([merged EXCEPT !.conflicts = @ \cup {e.key}], "field_limit", {e.key.ref})

Merge(f, e) ==
    IF e.key \notin EntityKeys(f)
    THEN IF Len(f.entities) >= DocumentPolicy.entities THEN Report(f, "entity_limit", {e.key.ref})
         ELSE [f EXCEPT !.entities = Append(@, e)]
    ELSE IF Differs(f.entities[IndexOf(f, e.key)], e)
    THEN Report([f EXCEPT !.conflicts = @ \cup {e.key}], "conflict", {e.key.ref})
    ELSE Matched(f, IndexOf(f, e.key), e)

(* Slip: what the model passes over in silence counts as resolved. *)
LeftIn_OnlyNamed(reply, chunk) == {chunk[n].ref : n \in {m \in DOMAIN chunk : m - 1 \in ToSet(reply.unresolved)}}

(* What the model says it cannot resolve, and what it did not use. *)
LeftIn(reply, chunk) ==
    {chunk[n].ref : n \in {m \in DOMAIN chunk : \/ m - 1 \in ToSet(reply.unresolved)
                                                \/ m - 1 \notin AliasesIn(reply)}}

MergeReply(f, reply, chunk) ==
    FoldLeft(LAMBDA g, e : Merge(g, EntityIn(reply, e, chunk)),
             [f EXCEPT !.explicit = @ \cup LeftIn(reply, chunk)], reply.entities)

Final == {"budget", "unsafe", "denied", "timeout", "rate", "unavailable"}

(* "ok", or why the answer is dropped as a whole. *)
AnswerCode(reply, chunk) == IF Output(reply) # "ok" THEN Output(reply) ELSE ReplyError(reply, chunk)

(* A generation counts when it names its chunk, whatever it says of it. *)
WithAnswer(f, reply, code, chunk) ==
    LET counted == IF Output(reply) = "ok" THEN [f EXCEPT !.generations = @ + 1] ELSE f
    IN IF code # "ok" THEN Report(counted, code, ChunkRefs(chunk)) ELSE MergeReply(counted, reply, chunk)

-----------------------------
(* After the last chunk. *)

FieldsIn(f) ==
    FlattenSeq([n \in DOMAIN f.entities |->
        SetToSeq({[n |-> n, name |-> name, type |-> f.entities[n].fields[name].type] :
                     name \in DOMAIN f.entities[n].fields})])

TypeOfField(f, field) == <<f.entities[field.n].type, field.name>>

(* Whoever says otherwise than the first entity is in conflict, and it too. *)
CheckType(state, field) ==
    LET key == TypeOfField(state.f, field) IN
    IF key \notin DOMAIN state.first THEN [state EXCEPT !.first = @ @@ (key :> field)]
    ELSE IF state.first[key].type = field.type
    THEN [state EXCEPT !.first = (key :> field) @@ @]
    ELSE LET both == {state.f.entities[field.n].key, state.f.entities[state.first[key].n].key}
         IN [state EXCEPT !.f = Report([state.f EXCEPT !.conflicts = @ \cup both], "type_conflict",
                                       {k.ref : k \in both})]

TypesChecked(f) ==
    FoldLeft(CheckType, [f |-> f, first |-> <<>>], FieldsIn(f)).f

RECURSIVE LeadsAstray(_, _, _)
LeadsAstray(f, parent, visited) ==
    /\ parent # Missing
    /\ \/ parent \in visited \cup f.conflicts \/ parent \notin EntityKeys(f)
       \/ LeadsAstray(f, f.entities[IndexOf(f, parent)].parent, visited \cup {parent})

CheckParent(f, n) ==
    LET e == f.entities[n] IN
    IF LeadsAstray(f, e.parent, {e.key})
    THEN Report([f EXCEPT !.conflicts = @ \cup {e.key}], "parent_unresolved", {e.key.ref}) ELSE f

ParentsChecked(f) == FoldLeft(CheckParent, f, [n \in DOMAIN f.entities |-> n])

IsBefore(a, b) == a[1] < b[1] \/ (a[1] = b[1] /\ a[2] < b[2])

Accepted(f) ==
    LET free == SelectSeq(f.entities, LAMBDA e : e.key \notin f.conflicts)
        keys == {free[n].key : n \in DOMAIN free}
    IN SelectSeq(SortSeq(free, LAMBDA a, b : IsBefore(a.order, b.order)),
                 LAMBDA e : e.parent \in keys \cup {Missing})

RECURSIVE RootOf(_, _)
RootOf(entities, e) ==
    IF e.parent = Missing THEN e
    ELSE RootOf(entities, CHOOSE p \in ToSet(entities) : p.key = e.parent)

FieldNames(e) == SetToSortSeq(DOMAIN e.fields, LAMBDA a, b : a < b)

PlanFields(entities) ==
    FlattenSeq([n \in DOMAIN entities |->
        [m \in DOMAIN FieldNames(entities[n]) |->
            LET field == entities[n].fields[FieldNames(entities[n])[m]] IN
            [name |-> FieldNames(entities[n])[m], type |-> field.type, rules |-> FALSE,
             refs |-> FoldLeft(LAMBDA refs, s : IF s.ref \in ToSet(refs) THEN refs ELSE Append(refs, s.ref),
                               <<>>, field.spans),
             sel |-> [kind |-> "spans", spans |-> field.spans]]]])

FieldsBefore(entities, n) ==
    FoldLeft(LAMBDA sum, e : sum + Cardinality(DOMAIN e.fields), 0, SubSeq(entities, 1, n - 1))

PlanEntities(entities) ==
    [n \in DOMAIN entities |->
        [type |-> entities[n].type, identity |-> <<>>,
         fields |-> [m \in DOMAIN FieldNames(entities[n]) |-> FieldsBefore(entities, n) + m],
         parent |-> IF entities[n].parent = Missing THEN 0
                    ELSE CHOOSE m \in DOMAIN entities : entities[m].key = entities[n].parent,
         group |-> [kind |-> "spans", record |-> RootOf(entities, entities[n]).key,
                    anchor |-> entities[n].key]]]

ScopeOf(entities) ==
    LET refs == [n \in DOMAIN entities |-> entities[n].key.ref]
                \o FlattenSeq([n \in DOMAIN PlanFields(entities) |-> PlanFields(entities)[n].refs])
    IN FoldLeft(LAMBDA seen, ref : IF ref \in ToSet(seen) THEN seen ELSE Append(seen, ref), <<>>, refs)

QuotingPlan(entities) ==
    [kind |-> "document", version |-> 2, fields |-> PlanFields(entities),
     entities |-> PlanEntities(entities), evidence |-> ScopeOf(entities),
     scope |-> ScopeOf(entities), rules |-> FALSE]

(* Resolved is what the plan stands on and nobody left open. *)
Unsettled(f, plan, refs) ==
    SelectSeq(refs, LAMBDA ref : ref \in f.explicit \/ ref \notin ToSet(plan.scope))

AnalysisFrom(f, plan, unresolved) ==
    [plan |-> plan, refs |-> chunks.refs, unresolved |-> unresolved,
     blocks |-> Len(unresolved) + chunks.omitted,
     issues |-> (IF unresolved = <<>> /\ chunks.omitted = 0 THEN f
                 ELSE Report(f, "unresolved", ToSet(unresolved))).issues,
     agreement |-> IF f.matched > 0 THEN 100 ELSE 85]

EntitiesChecked(f) ==
    ParentsChecked(TypesChecked(IF f.exhausted THEN Report(f, "partial", {}) ELSE f))

Concluded(f, entities, plan) ==
    IF entities = <<>> THEN AnalysisFrom(f, Missing, chunks.refs)
    ELSE IF ~PlanFits(plan) THEN AnalysisFrom(Report(f, "plan_limit", {}), Missing, chunks.refs)
    ELSE AnalysisFrom(f, plan, Unsettled(f, plan, chunks.refs))

-----------------------------
(* extract. *)

NothingFound == [entities |-> <<>>, conflicts |-> {}, explicit |-> {}, issues |-> <<>>,
                 matched |-> 0, exhausted |-> FALSE, generations |-> 0, asked |-> 0]

DocumentInit ==
    /\ document \in {[source |-> doc, caps |-> caps] : doc \in Documents, caps \in ModelCaps}
    /\ chunks = NewChunks /\ found = NothingFound /\ log = <<>>
    /\ extracting = "unread" /\ extracted = Missing

ReadDocument ==
    /\ extracting = "unread"
    /\ chunks' = ChunksOf(document.source) /\ extracting' = "reading"
    /\ UNCHANGED <<document, found, log, extracted>>

HasChunk == extracting = "reading" /\ found.asked < Len(chunks.chunks)
NextChunk == chunks.chunks[found.asked + 1]
MayAsk == ~found.exhausted /\ Len(log) < DocumentPolicy.chunks

(* No more calls: what is left is unresolved. *)
LeaveChunk ==
    /\ HasChunk /\ ~MayAsk
    /\ found' = [found EXCEPT !.asked = @ + 1, !.exhausted = TRUE, !.explicit = @ \cup ChunkRefs(NextChunk)]
    /\ UNCHANGED <<document, chunks, log, extracting, extracted>>

Logged(f, code, used) ==
    /\ found' = [f EXCEPT !.asked = @ + 1, !.exhausted = @ \/ code \in Final]
    /\ log' = Append(log, [code |-> code, used |-> used])
    /\ UNCHANGED <<document, chunks, extracting, extracted>>

(* The payload is not approved, or the provider must not have it. *)
RefuseChunk(scan) ==
    /\ HasChunk /\ MayAsk
    /\ LET code == Sendable(NextChunk, scan, document.caps) IN
       /\ code # "ok"
       /\ Logged(Report(found, code, ChunkRefs(NextChunk)), code, {})

AskChunk(reply) ==
    /\ HasChunk /\ MayAsk
    /\ Sendable(NextChunk, "allow", document.caps) = "ok"
    /\ \E code \in {AnswerCode(reply, NextChunk)} :
          Logged(WithAnswer(found, reply, code, NextChunk), code, AliasesIn(reply))

(* A scanner's timeout, or a cancellation, leaves extract without a result. *)
LeaveDocument ==
    /\ HasChunk /\ MayAsk
    /\ extracting' = "failed" /\ UNCHANGED <<document, chunks, found, log, extracted>>

EndDocument ==
    /\ extracting = "reading" /\ found.asked = Len(chunks.chunks)
    /\ extracting' = IF chunks.end = "complete" THEN "done" ELSE "failed"
    /\ IF chunks.end # "complete" THEN extracted' = Missing
       ELSE \E f \in {EntitiesChecked(found)} : \E entities \in {Accepted(f)} :
            \E plan \in {QuotingPlan(entities)} : extracted' = Concluded(f, entities, plan)
    /\ UNCHANGED <<document, chunks, found, log>>

DocumentNext ==
    \/ ReadDocument
    \/ LeaveChunk
    \/ \E scan \in ChunkScans : RefuseChunk(scan)
    \/ \E reply \in ChunkReplies : AskChunk(reply)
    \/ LeaveDocument
    \/ EndDocument

DocumentSpec == DocumentInit /\ [][DocumentNext]_documentVars

-----------------------------
(* The text that stands behind a reference. *)
SourceTexts == FlattenSeq([n \in DOMAIN document.source.batches |-> TextsIn(document.source.batches[n])])
TextOf(ref) == (CHOOSE source \in ToSet(SourceTexts) : source.ref = ref).text

QuotesIn(plan) ==
    {plan.entities[n].group.anchor : n \in DOMAIN plan.entities}
      \cup UNION {ToSet(plan.fields[n].sel.spans) : n \in DOMAIN plan.fields}

Quotes(span, fragment) ==
    /\ span.ref = fragment.ref
    /\ span.start < fragment.start + Len(fragment.text) /\ fragment.start < span.end

(* Every fragment of a reference was in an answered chunk, and was used. *)
WasAnswered(ref) ==
    \A n \in DOMAIN chunks.chunks : \A m \in DOMAIN chunks.chunks[n] :
        chunks.chunks[n][m].ref = ref =>
            n <= Len(log) /\ log[n].code = "ok" /\ (m - 1) \in log[n].used

(* What a document's analysis says is in the document: every quotation is   *)
(* the very text at its place, whatever pieces and wide characters it was   *)
(* cut into; a field has one type; a reference counts as resolved only if   *)
(* each of its fragments was answered and used; without an issue, every     *)
(* text of the document is quoted; and neither an unsafe chunk nor a limit  *)
(* of issues loses the reason to review (document_entities.py extract).     *)
EntitiesAreGrounded ==
    extracting = "done" =>
        /\ extracted.plan # Missing =>
             /\ PlanFits(extracted.plan)
             /\ \A span \in QuotesIn(extracted.plan) :
                  /\ span.end <= Len(TextOf(span.ref))
                  /\ span.quote = SubSeq(TextOf(span.ref), span.start + 1, span.end)
             /\ \A n, m \in DOMAIN extracted.plan.entities :
                  LET a == extracted.plan.entities[n]
                      b == extracted.plan.entities[m]
                  IN a.type = b.type =>
                       \A f \in ToSet(a.fields), g \in ToSet(b.fields) :
                          extracted.plan.fields[f].name = extracted.plan.fields[g].name =>
                             extracted.plan.fields[f].type = extracted.plan.fields[g].type
        /\ \A ref \in ToSet(extracted.refs) \ ToSet(extracted.unresolved) : WasAnswered(ref)
        /\ extracted.issues = <<>> =>
             /\ extracted.plan # Missing
             /\ \A source \in ToSet(SourceTexts) : HasText(source) =>
                  \A n \in DOMAIN FragmentsOf(source, 0) :
                     \E span \in QuotesIn(extracted.plan) : Quotes(span, FragmentsOf(source, 0)[n])
        /\ Len(extracted.issues) <= DocumentPolicy.issues
        /\ (\E n \in DOMAIN log : log[n].code = "unsafe") =>
             \E n \in DOMAIN extracted.issues : extracted.issues[n].code = "unsafe"
=============================================================================
