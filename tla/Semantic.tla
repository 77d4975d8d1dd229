------------------------------ MODULE Semantic ------------------------------
(***************************************************************************)
(* One semantic run: a session (parsing/session.py) that analyses a        *)
(* snapshot once, with or without a model (structure/hybrid.py), checks    *)
(* the plan against the source again, gives records, and reports.  What a  *)
(* plan says is its attributes: the validator accepts it or not, it has    *)
(* the grammar of another or not, its quotations leave holes or not.       *)
(* Every reading of the source may fail, and every wait may be cancelled.  *)
(* Scores are per cent.                                                    *)
(***************************************************************************)
EXTENDS Integers, Sequences, FiniteSets, SequencesExt, FiniteSetsExt

CONSTANTS
    NoPlan,             \* None
    Settings,           \* [mode, request, sizes, document, base, candidates, provider, kinds, refs]
    Proposals,          \* what the one structural request ends with
    Extractions,        \* what asking chunk by chunk ends with
    SavedPlans,         \* plans a caller may bring
    SessionPolicy       \* [issues, threshold, samples, sample_bytes]

(* The codes of issues: the session's own, those of a model's answers, and  *)
(* those of an extraction.                                                  *)
IssueCodes ==
    {"incomplete", "empty", "needs_semantic", "denied", "unresolved", "context_limit", "low",
     "plan_disagreement", "candidate_disagreement", "rejected", "kind_denied", "no_entities",
     "saved_review", "request_invalid", "source", "timeout", "cancelled", "unsafe"}
      \cup {p.code : p \in Proposals} \cup {x.code : x \in Extractions}
      \cup UNION {ToSet(x.issues) : x \in Extractions}

Codes == Seq(IssueCodes)
ParsingModes == {"deterministic", "assisted", "first"}
Statuses == {"completed", "needs_review", "rejected_security", "failed", "cancelled"}

Plans ==
    [kind : STRING, shape : STRING, valid : BOOLEAN, confidence : Int, spans : BOOLEAN,
     holes : Nat, penalty : Nat, batches : Seq(Nat)]

PlanOrNone == Plans \cup {NoPlan}

Analyses ==
    [plan : PlanOrNone, score : Int, issues : Codes, refs : Nat, unresolved : Nat, blocks : Nat, calls : Nat]

Reports ==
    [status : Statuses, plan : PlanOrNone, issues : Codes, score : Int, calls : Nat,
     refs : Nat, unresolved : Nat, blocks : Nat, records : Nat]

(* A plan made without a model has the confidence that the policy asks for  *)
(* (structure/analysis.py), and what extracts entities leaves no block      *)
(* unresolved without an issue, nor more issues than the policy allows.     *)
ASSUME SemanticAssumption ==
    /\ NoPlan \notin Plans \cup Analyses \cup Reports
    /\ SessionPolicy.issues \in Nat \ {0} /\ SessionPolicy.threshold \in Int
    /\ \A s \in Settings :
         /\ s.mode \in ParsingModes /\ s.request \in BOOLEAN /\ s.refs \in Nat /\ s.base \in PlanOrNone
         /\ s.base # NoPlan => SessionPolicy.threshold <= s.base.confidence /\ s.base.confidence <= 100
    /\ SavedPlans \subseteq Plans
    /\ \A p \in Proposals : p.calls \in Nat /\ p.plan \in PlanOrNone
    /\ \A x \in Extractions :
         /\ x.calls \in Nat /\ x.plan \in PlanOrNone /\ x.agreement \in Nat
         /\ x.issues \in Codes /\ Len(x.issues) <= SessionPolicy.issues
         /\ x.unresolved \in Nat /\ x.blocks \in Nat /\ x.unresolved <= x.blocks
         /\ x.plan # NoPlan /\ x.issues = <<>> => x.blocks = 0

VARIABLES
    setting,            \* the snapshot and the policy
    session,            \* SemanticParsingSession, and last_analysis of its analyzer
    op,                 \* the operation under way: [purpose, step, mode, draft, saved]
    output,             \* the executor's batches, and those given
    spent,              \* calls made, analyses that asked, whether a veto was met (a history)
    answer              \* what the last operation gave

semanticVars == <<setting, session, op, output, spent, answer>>

-----------------------------
(* Samples: the first half of the budget for the head, the rest for the     *)
(* last values that fit.                                                    *)

NoSamples == [head |-> <<>>, tail |-> <<>>]
BytesOf(sizes) == FoldLeft(LAMBDA sum, size : sum + size, 0, sizes)

(* As many of the first ones go as it takes. *)
MakeRoom(tail, places, bytes) ==
    LET left(n) == SubSeq(tail, n + 1, Len(tail))
        fits(n) == left(n) = <<>> \/ (Len(left(n)) < places /\ BytesOf(left(n)) <= bytes)
    IN left(Min({n \in 0..Len(tail) : fits(n)}))

CaptureOne(kept, size) ==
    LET half == SessionPolicy.sample_bytes \div 2
        places == SessionPolicy.samples - Len(kept.head)
        room == MakeRoom(kept.tail, places, SessionPolicy.sample_bytes - BytesOf(kept.head) - size)
    IN IF size > half THEN kept
       ELSE IF Len(kept.head) < Max({1, SessionPolicy.samples \div 2}) /\ BytesOf(kept.head) + size <= half
       THEN [kept EXCEPT !.head = Append(@, size)]
       ELSE [kept EXCEPT !.tail = IF places > 0 THEN Append(room, size) ELSE room]

Captured(sizes) ==
    LET kept == FoldLeft(CaptureOne, NoSamples, sizes) IN kept.head \o kept.tail

-----------------------------
(* Analyses. *)

Score(evidence, validation, agreement, penalty) ==
    Max({0, (20 * evidence + 50 * validation + 30 * agreement) \div 100 - penalty})

Analysis(plan, score, issues, refs, unresolved, blocks, calls) ==
    [plan |-> plan, score |-> score, issues |-> issues, refs |-> refs,
     unresolved |-> unresolved, blocks |-> blocks, calls |-> calls]

Incomplete == Analysis(NoPlan, 0, <<"incomplete">>, setting.refs, setting.refs, setting.refs, 0)

Bounded(issues) == SubSeq(issues, 1, Min({Len(issues), SessionPolicy.issues}))
Has(issues, code) == code \in ToSet(issues)

IsEmptySource == setting.sizes = <<>>
Samples == Captured(setting.sizes)

(* A plan made without a model is used as it is, unless a model is to be    *)
(* asked first or the source is a document.                                 *)
UsesBase(mode) ==
    setting.base # NoPlan /\ mode # "first" /\ (~setting.document \/ mode = "deterministic")

MayAskModel(mode) == mode # "deterministic" /\ setting.provider

(* What is known before any request, without a plan. *)
Unasked(mode) ==
    IF IsEmptySource THEN [Incomplete EXCEPT !.issues = <<"empty">>]
    ELSE IF mode = "deterministic" THEN [Incomplete EXCEPT !.issues = <<"needs_semantic">>]
    ELSE [Incomplete EXCEPT !.issues = <<"denied">>]

(* "own": a draft of the model's answer, not of what there is without it. *)
Drafted(plan, score, penalty, issues) ==
    [plan |-> plan, score |-> score, penalty |-> penalty, issues |-> issues, own |-> FALSE,
     refs |-> 0, unresolved |-> 0, blocks |-> 0, calls |-> 0]

BaseDraft(penalty, issues) ==
    Drafted(setting.base, Score(setting.base.confidence, 100, 100, penalty), penalty, issues)

IsVeto(code) == code \in {"unsafe", "denied", "security_review"}

(* The model gave no plan: the plan made without it, for review - unless    *)
(* something forbade to ask.                                                *)
WithoutModel(issues, calls) ==
    IF setting.base # NoPlan /\ ~\E code \in ToSet(issues) : IsVeto(code)
    THEN [BaseDraft(20, issues) EXCEPT !.calls = calls]
    ELSE [Drafted(NoPlan, 0, 0, Bounded(Append(issues, "unresolved"))) EXCEPT
            !.refs = setting.refs, !.unresolved = setting.refs, !.blocks = setting.refs,
            !.calls = calls]

Disagreements(plan) ==
    (IF setting.base # NoPlan /\ setting.base.shape # plan.shape THEN <<"plan_disagreement">> ELSE <<>>)
      \o (IF setting.candidates > 1 THEN <<"candidate_disagreement">> ELSE <<>>)

AgreementWith(plan) ==
    IF setting.base # NoPlan /\ setting.base.shape = plan.shape THEN 100
    ELSE IF plan.confidence >= 85 THEN 85 ELSE 50

ProposedDraft(p) ==
    LET issues == Disagreements(p.plan)
        penalty == IF issues = <<>> THEN 0 ELSE 20
    IN [Drafted(p.plan, Score(p.plan.confidence, 100, AgreementWith(p.plan), penalty), penalty, issues)
          EXCEPT !.own = TRUE, !.calls = p.calls]

(* DocumentAnalysis.evidence: the resolved part of all there is. *)
Evidence(x) ==
    LET all == setting.refs + x.blocks - x.unresolved IN
    IF all = 0 THEN 0 ELSE (100 * (setting.refs - x.unresolved)) \div all

ExtractedDraft(x) ==
    LET penalty == IF x.issues = <<>> THEN 0 ELSE 20
        score == IF x.plan = NoPlan THEN 0 ELSE Score(Evidence(x), 100, x.agreement, penalty)
    IN [Drafted(x.plan, score, penalty, x.issues) EXCEPT !.own = TRUE,
          !.refs = setting.refs, !.unresolved = x.unresolved, !.blocks = x.blocks, !.calls = x.calls]

AsksByChunk == setting.document /\ "document" \in setting.kinds

(* _finalize: the draft against the source, with its score. *)
Offered(draft) ==
    draft.plan # NoPlan /\ ~Has(draft.issues, "unsafe") /\ draft.plan.kind \in setting.kinds

Issued(draft, accepted) ==
    IF Offered(draft) /\ accepted
    THEN IF draft.score < SessionPolicy.threshold THEN Append(draft.issues, "low") ELSE draft.issues
    ELSE IF Offered(draft) THEN Append(draft.issues, "rejected")
    ELSE IF draft.plan # NoPlan /\ ~Has(draft.issues, "unsafe") THEN Append(draft.issues, "kind_denied")
    ELSE IF draft.issues = <<>> THEN <<"no_entities">>
    ELSE draft.issues

Finalized(draft, accepted) ==
    LET holds == Offered(draft) /\ accepted
        plan == IF holds THEN [draft.plan EXCEPT !.confidence = draft.score, !.penalty = draft.penalty] ELSE NoPlan
    IN Analysis(plan, IF holds THEN draft.score ELSE 0, Bounded(Issued(draft, accepted)),
                draft.refs, draft.unresolved, draft.blocks, draft.calls)

(* validate_saved: no score and no agreement of before counts, only the     *)
(* source.                                                                  *)
SavedScope(plan, result) ==
    LET unresolved == IF plan.penalty > 0 THEN setting.refs ELSE plan.holes
        issues == (IF plan.penalty > 0 THEN <<"saved_review">> ELSE <<>>)
                    \o (IF unresolved > 0 THEN <<"unresolved">> ELSE <<>>)
        score == Score((100 * (setting.refs - unresolved)) \div Max({1, setting.refs}), 100, 85,
                       IF issues = <<>> THEN 0 ELSE 20)
        low == IF score < SessionPolicy.threshold THEN <<"low">> ELSE <<>>
    IN Analysis(plan, score, Bounded(issues \o low), setting.refs, unresolved, unresolved, 0)

SavedShape(plan, result) ==
    LET agrees == result.plan # NoPlan /\ result.plan.shape = plan.shape
        evidence == IF result.plan = NoPlan THEN 0 ELSE result.plan.confidence
    IN [result EXCEPT !.plan = plan, !.score = Score(evidence, 100, IF agrees THEN 100 ELSE 0, 0),
                      !.issues = IF agrees THEN <<>> ELSE <<"saved_review">>]

Saved(plan, result, accepted) ==
    IF ~accepted THEN [result EXCEPT !.plan = NoPlan, !.issues = <<"rejected">>, !.score = 0]
    ELSE IF plan.kind \notin setting.kinds
    THEN [result EXCEPT !.plan = NoPlan, !.issues = <<"kind_denied">>, !.score = 0]
    ELSE IF plan.spans THEN SavedScope(plan, result)
    ELSE SavedShape(plan, result)

(* HybridStructureAnalyzer.analyze: an analysis as one of four outcomes. *)
AnswerOf(a) ==
    IF a.plan # NoPlan /\ a.issues = <<>> THEN "created"
    ELSE IF Has(a.issues, "unsafe") THEN "rejected"
    ELSE IF setting.candidates > 0 THEN "review"
    ELSE "semantic"
-----------------------------
(* Reports. *)

NoReport == NoPlan
ReportOf(a, status, records) ==
    [status |-> status, plan |-> a.plan, issues |-> a.issues, score |-> a.score, calls |-> a.calls,
     refs |-> a.refs, unresolved |-> a.unresolved, blocks |-> a.blocks, records |-> records]

(* What SemanticParseReport refuses to be. *)
ReportFits(r) ==
    /\ r.unresolved <= r.blocks
    /\ IF r.status = "completed" THEN r.plan # NoPlan /\ r.blocks = 0 /\ r.issues = <<>>
       ELSE r.issues # <<>>

FinishWith(s, status) == [s EXCEPT !.report = ReportOf(s.analysis, status, s.records)]

(* A full list of issues keeps the veto first, then the reason of the end. *)
OfCodes(issues, codes) ==
    FlattenSeq([i \in DOMAIN issues |-> IF issues[i] \in codes THEN <<issues[i]>> ELSE <<>>])

WithReason(issues, code) ==
    LET all == Append(issues, code)
        first == OfCodes(all, {"unsafe"})
        reason == OfCodes(all, {code} \ {"unsafe"})
        others == OfCodes(all, ToSet(all) \ {"unsafe", code})
    IN IF Len(all) <= SessionPolicy.issues THEN all ELSE Bounded(first \o reason \o others)

(* _fail: with what is known of the snapshot, or without a report. *)
FailWith(s, status, code) ==
    LET a == IF s.analysis = NoPlan THEN s.last ELSE s.analysis IN
    IF a = NoPlan THEN s
    ELSE FinishWith([s EXCEPT !.analysis = [a EXCEPT !.issues = WithReason(@, code)]], status)

NewSession == [closed |-> FALSE, started |-> FALSE, analysis |-> NoPlan, last |-> NoPlan,
               report |-> NoReport, records |-> 0, iterator |-> "none", plan |-> NoPlan]

Idle == [purpose |-> "none", step |-> "none", mode |-> "none", draft |-> NoPlan]
Begin(purpose, mode) == [purpose |-> purpose, step |-> "capture", mode |-> mode, draft |-> NoPlan]

(* Only a deterministic policy cannot be overridden. *)
ModeFor(mode) == IF setting.mode = "deterministic" THEN "deterministic" ELSE mode

SemanticInit ==
    /\ setting \in Settings
    /\ session = NewSession /\ op = Idle
    /\ output = [left |-> <<>>, given |-> <<>>]
    /\ spent = [calls |-> 0, asked |-> 0, unsafe |-> FALSE] /\ answer = "none"

-----------------------------
(* What a caller may start, one operation after the other. *)

IsFree == op = Idle /\ ~setting.request

Refused(code) == answer' = code /\ UNCHANGED <<setting, session, op, output, spent>>

CallAnalyze ==
    /\ IsFree
    /\ IF session.closed THEN Refused("request_invalid")
       ELSE IF session.analysis # NoPlan THEN Refused("analysed")
       ELSE /\ op' = Begin("analyze", setting.mode)
            /\ UNCHANGED <<setting, session, output, spent, answer>>

CallValidate ==
    /\ IsFree
    /\ IF session.closed THEN Refused("request_invalid")
       ELSE /\ op' = IF session.analysis # NoPlan
                     THEN [Begin("validate", "deterministic") EXCEPT !.step = "check", !.draft = session.analysis]
                     ELSE Begin("validate", "deterministic")
            /\ UNCHANGED <<setting, session, output, spent, answer>>

(* parse_semantically: the iterator is made once, and reads nothing yet. *)
CallParse(plan) ==
    /\ IsFree
    /\ IF session.closed THEN Refused("request_invalid")
       ELSE IF session.started THEN Refused("denied")
       ELSE /\ session' = [session EXCEPT !.started = TRUE, !.iterator = "made", !.plan = plan]
            /\ UNCHANGED <<setting, op, output, spent, answer>>

(* The analyzer's own entry, with a request for one snapshot. *)
CallRequest ==
    /\ setting.request /\ op = Idle /\ answer = "none"
    /\ op' = Begin("request", ModeFor(setting.mode))
    /\ UNCHANGED <<setting, session, output, spent, answer>>

(* The first step of the iterator.  A saved plan that is not the one the    *)
(* analysis gave is checked first; a session that was closed since gives    *)
(* nothing.                                                                 *)
BringsPlan ==
    session.plan # NoPlan
      /\ (IF session.analysis = NoPlan THEN TRUE ELSE session.analysis.plan # session.plan)

StartIterator ==
    /\ IsFree /\ session.iterator = "made"
    /\ IF session.closed /\ ~BringsPlan
       THEN /\ session' = FailWith([session EXCEPT !.iterator = "ended"], "failed", "request_invalid")
            /\ UNCHANGED op
       ELSE /\ session' = [session EXCEPT !.iterator = "running"]
            /\ op' = IF BringsPlan THEN Begin("saved", "deterministic")
                     ELSE IF session.analysis = NoPlan THEN Begin("parse", setting.mode)
                     ELSE [Idle EXCEPT !.purpose = "parse", !.step = "plan"]
    /\ UNCHANGED <<setting, output, spent, answer>>

-----------------------------
(* The analysis, and to whom it goes. *)

AnalyseTo(s, a) ==
    CASE op.purpose = "analyze" ->
           /\ session' = [s EXCEPT !.analysis = a] /\ op' = Idle /\ answer' = "analysed"
      [] op.purpose = "parse" ->
           /\ session' = [s EXCEPT !.analysis = a] /\ op' = [op EXCEPT !.step = "plan", !.draft = NoPlan]
           /\ UNCHANGED answer
      [] op.purpose = "request" -> session' = s /\ op' = Idle /\ answer' = AnswerOf(a)
      [] OTHER -> session' = s /\ op' = [op EXCEPT !.step = "check", !.draft = a] /\ UNCHANGED answer

(* The source is read once: what is known then stays behind a failure. *)
Capture ==
    /\ op.step = "capture"
    /\ \E s \in {[session EXCEPT !.last = Incomplete]} :
         IF ~IsEmptySource /\ UsesBase(op.mode)
         THEN session' = s /\ op' = [op EXCEPT !.step = "finalize", !.draft = BaseDraft(0, <<>>)] /\ UNCHANGED answer
         ELSE IF ~IsEmptySource /\ MayAskModel(op.mode)
         THEN session' = s /\ op' = [op EXCEPT !.step = "ask"] /\ UNCHANGED answer
         ELSE AnalyseTo(s, Unasked(op.mode))
    /\ UNCHANGED <<setting, output, spent>>

SpentOn(calls, unsafe) == [calls |-> spent.calls + calls, asked |-> spent.asked + 1, unsafe |-> unsafe]

Asked(calls, draft) ==
    /\ session' = [session EXCEPT !.last.calls = calls]
    /\ spent' = SpentOn(calls, Has(draft.issues, "unsafe"))
    /\ op' = [op EXCEPT !.step = "finalize", !.draft = draft]
    /\ UNCHANGED <<setting, output, answer>>

AskByChunk(x) ==
    /\ op.step = "ask" /\ AsksByChunk
    /\ Asked(x.calls, IF x.code # "" THEN WithoutModel(<<x.code>>, x.calls) ELSE ExtractedDraft(x))

(* Without a sample nothing is asked. *)
AskForPlan(p) ==
    /\ op.step = "ask" /\ ~AsksByChunk
    /\ IF Samples = <<>> THEN Asked(0, WithoutModel(<<"context_limit">>, 0))
       ELSE Asked(p.calls, IF p.plan = NoPlan THEN WithoutModel(<<p.code>>, p.calls) ELSE ProposedDraft(p))

(* The validator reads the source again: it accepts what is valid, unless   *)
(* that reading fails.                                                      *)
Finalize(accepted) ==
    /\ op.step = "finalize"
    /\ accepted => Offered(op.draft) /\ op.draft.plan.valid
    /\ AnalyseTo(session, Finalized(op.draft, accepted))
    /\ UNCHANGED <<setting, output, spent>>

(* open_replay: a source that cannot be opened again is an error of the     *)
(* request, and within the request to the model it counts as the model's:   *)
(* the plan made without it comes next. The check of that plan has no such  *)
(* way out.                                                                 *)
FallBack ==
    /\ op.step = "finalize" /\ op.draft.own /\ Offered(op.draft)
    /\ op' = [op EXCEPT !.draft = WithoutModel(<<"request_invalid">>, op.draft.calls)]
    /\ UNCHANGED <<setting, session, output, spent, answer>>

-----------------------------
(* Plans that are brought, and the check before the records. *)

(* validate_parse_plan of a plan: the outcome is the caller's alone. *)
CheckGiven(accepted) ==
    /\ op.purpose = "validate" /\ op.step = "check"
    /\ answer' = (IF accepted THEN "accepted" ELSE "refused") /\ op' = Idle
    /\ UNCHANGED <<setting, session, output, spent>>

(* A saved plan replaces the analysis, but not the calls it has cost. *)
WithSaved(a) ==
    [session EXCEPT !.analysis = [a EXCEPT !.calls = IF session.analysis = NoPlan THEN 0 ELSE session.analysis.calls]]

EndIterator(s) == session' = [s EXCEPT !.iterator = "ended"] /\ op' = Idle

CheckSaved(accepted) ==
    /\ op.purpose = "saved" /\ op.step = "check"
    /\ accepted => session.plan.valid
    /\ \E s \in {WithSaved(Saved(session.plan, op.draft, accepted))} :
         IF session.closed THEN EndIterator(FailWith(s, "failed", "request_invalid"))
         ELSE session' = s /\ op' = [op EXCEPT !.purpose = "parse", !.step = "plan", !.draft = NoPlan]
    /\ UNCHANGED <<setting, output, spent, answer>>

CheckPlan(accepted) ==
    /\ op.purpose = "parse" /\ op.step = "plan"
    /\ accepted => session.analysis.plan # NoPlan
    /\ IF session.analysis.plan = NoPlan
       THEN /\ EndIterator(FinishWith(session, IF Has(session.analysis.issues, "unsafe")
                                              THEN "rejected_security" ELSE "needs_review"))
            /\ UNCHANGED output
       ELSE IF ~accepted
       THEN /\ EndIterator(FinishWith([session EXCEPT !.analysis.plan = NoPlan, !.analysis.score = 0,
                                                     !.analysis.issues = Append(@, "rejected")], "needs_review"))
            /\ UNCHANGED output
       ELSE /\ session.analysis.plan.valid
            /\ session' = session /\ op' = [op EXCEPT !.step = "emit"]
            /\ output' = [output EXCEPT !.left = session.analysis.plan.batches]
    /\ UNCHANGED <<setting, spent, answer>>

-----------------------------
(* The records. *)

Counted == [session EXCEPT !.records = @ + Head(output.left), !.iterator = "paused"]
Given(records, last) ==
    output' = [left |-> Tail(output.left), given |-> Append(output.given, [records |-> records, last |-> last])]

(* A batch before the last. *)
GiveBatch ==
    /\ op.step = "emit" /\ Len(output.left) > 1
    /\ Given(Head(output.left), FALSE)
    /\ session' = Counted /\ op' = Idle
    /\ UNCHANGED <<setting, spent, answer>>

(* The last one: with an issue it is given as a preview, if it has records. *)
GiveLast ==
    /\ op.step = "emit" /\ Len(output.left) = 1
    /\ IF session.analysis.issues = <<>>
       THEN /\ Given(Head(output.left), TRUE) /\ op' = Idle
            /\ session' = FinishWith(Counted, "completed")
       ELSE IF Head(output.left) > 0
       THEN /\ Given(Head(output.left), FALSE) /\ op' = Idle
            /\ session' = FinishWith(Counted, "needs_review")
       ELSE /\ output' = [output EXCEPT !.left = <<>>] /\ op' = op
            /\ session' = FinishWith([session EXCEPT !.records = @ + Head(output.left)], "needs_review")
    /\ UNCHANGED <<setting, spent, answer>>

Resume ==
    /\ IsFree /\ session.iterator = "paused"
    /\ session' = [session EXCEPT !.iterator = "running"]
    /\ op' = [Idle EXCEPT !.purpose = "parse", !.step = "emit"]
    /\ UNCHANGED <<setting, output, spent, answer>>

OutputEnds ==
    /\ op.step = "emit" /\ output.left = <<>>
    /\ EndIterator(session)
    /\ UNCHANGED <<setting, output, spent, answer>>

-----------------------------
(* What may happen instead. *)

(* Slip: the session stays open, as if nothing had been asked. *)
Interrupted_Open == session

(* An analysis of the session's own that does not end closes the session. *)
Interrupted == [session EXCEPT !.closed = @ \/ (op.purpose \in {"analyze", "parse"}
                                                /\ op.step \in {"capture", "ask", "finalize"})]

Abandon(s, code) ==
    /\ op' = Idle /\ answer' = code
    /\ session' = IF op.purpose \in {"parse", "saved"} THEN [s EXCEPT !.iterator = "ended"] ELSE s

(* A request may fail after calls that are charged. *)
CallsMade == IF op.step = "ask" THEN 0..1 ELSE {0}
WithCalls(s, calls) == IF op.step = "ask" THEN [s EXCEPT !.last.calls = calls] ELSE s

(* Where an operation waits. *)
Waits == op.step # "none" /\ (op.step = "finalize" => Offered(op.draft))

(* The source or the execution fails, or a deadline passes; a failure of    *)
(* the validator's own reading is a refusal, and that to open the source    *)
(* for a model's plan leads to FallBack.                                    *)
MayFail == Waits /\ (op.step \in {"capture", "ask", "finalize", "emit"} \/ op.purpose = "saved")

OperationFails(code, calls) ==
    /\ MayFail /\ (op.step = "finalize" /\ op.draft.own => code = "timeout")
    /\ Abandon(IF op.purpose \in {"parse", "saved"}
               THEN FailWith(WithCalls(Interrupted, calls), "failed", code) ELSE WithCalls(Interrupted, calls), code)
    /\ spent' = IF op.step = "ask" THEN SpentOn(calls, FALSE) ELSE spent
    /\ UNCHANGED <<setting, output>>

CancelOperation(calls) ==
    /\ Waits
    /\ Abandon(IF op.purpose \in {"parse", "saved"} /\ session.report = NoReport
               THEN FailWith(WithCalls(Interrupted, calls), "cancelled", "cancelled")
               ELSE WithCalls(Interrupted, calls), "cancelled")
    /\ spent' = IF op.step = "ask" THEN SpentOn(calls, FALSE) ELSE spent
    /\ UNCHANGED <<setting, output>>

(* aclose of the iterator: what was given stays a preview, unless the end   *)
(* was told; aclose of the session closes it for good.                      *)
ClosedIterator ==
    IF session.iterator = "paused" /\ session.report = NoReport
    THEN FailWith([session EXCEPT !.iterator = "ended"], "cancelled", "cancelled")
    ELSE IF session.iterator = "none" THEN session
    ELSE [session EXCEPT !.iterator = "ended"]

CloseIterator ==
    /\ IsFree /\ session.iterator \in {"made", "paused"}
    /\ session' = ClosedIterator
    /\ UNCHANGED <<setting, op, output, spent, answer>>

CloseSession ==
    /\ IsFree /\ ~session.closed
    /\ session' = [ClosedIterator EXCEPT !.closed = TRUE]
    /\ UNCHANGED <<setting, op, output, spent, answer>>

SemanticNext ==
    \/ CallAnalyze \/ CallValidate \/ CallRequest
    \/ \E plan \in SavedPlans \cup {NoPlan} : CallParse(plan)
    \/ StartIterator \/ Capture
    \/ \E x \in Extractions : AskByChunk(x)
    \/ \E p \in Proposals : AskForPlan(p)
    \/ FallBack
    \/ \E accepted \in BOOLEAN :
         Finalize(accepted) \/ CheckGiven(accepted) \/ CheckSaved(accepted) \/ CheckPlan(accepted)
    \/ GiveBatch \/ GiveLast \/ Resume \/ OutputEnds
    \/ \E calls \in CallsMade :
         \/ \E code \in {"source", "timeout"} : OperationFails(code, calls)
         \/ CancelOperation(calls)
    \/ CloseIterator \/ CloseSession

SemanticSpec == SemanticInit /\ [][SemanticNext]_semanticVars
-----------------------------
RecordsGiven == FoldLeft(LAMBDA sum, batch : sum + batch.records, 0, output.given)
IsTold == \E n \in DOMAIN output.given : output.given[n].last

(* A saved plan that is brought to an analysis that failed: whatever its    *)
(* own check ends with, the report starts from that check, which called     *)
(* nobody.                                                                  *)
LostCalls(r) == session.closed /\ session.plan # NoPlan /\ r.calls = 0 /\ r.status \in {"failed", "cancelled"}

(* Vetoes alone may fill the list. *)
FullOfVetoes(issues) == Len(issues) = SessionPolicy.issues /\ ToSet(issues) = {"unsafe"}

(* What a session reports is what happened: "completed" only with the last  *)
(* batch given, a plan the validator takes, the whole source resolved, a    *)
(* score that suffices and nothing to review; a session asks a model in one *)
(* analysis only, reports every call of it and every record it gave, keeps  *)
(* the reason of what is not completed, and gives nothing after a veto -    *)
(* whichever way it was interrupted (parsing/session.py, structure/         *)
(* hybrid.py).                                                              *)
ReportIsTrue ==
    /\ spent.asked <= 1
    /\ IsTold => session.report # NoReport
    /\ spent.unsafe /\ session.plan = NoPlan => output.given = <<>>
    /\ session.report # NoReport => LET r == session.report IN
         /\ ReportFits(r)
         /\ r.status = "completed" =>
              /\ IsTold /\ r.score >= SessionPolicy.threshold
              /\ r.plan.valid /\ r.plan.kind \in setting.kinds
         /\ r.status # "completed" => (IsTold => r.status = "failed")
         /\ r.status = "cancelled" => Has(r.issues, "cancelled") \/ FullOfVetoes(r.issues)
         /\ r.records = RecordsGiven
         /\ r.calls = spent.calls \/ LostCalls(r)
         /\ spent.unsafe /\ session.plan = NoPlan => Has(r.issues, "unsafe")
=============================================================================
