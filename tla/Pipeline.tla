------------------------------ MODULE Pipeline ------------------------------
(***************************************************************************)
(* One run of the SDK orchestrator: a RunSession and the source lease that *)
(* clients share.                                                          *)
(*                                                                         *)
(* Clients are tasks of one event loop that call the stepwise API on one   *)
(* lease (pipeline/orchestrator.py); every call performs stages            *)
(* (RunSession.perform) and execute also ends the run                      *)
(* (RunSession.terminal).  The closer is the task that closes the lease    *)
(* (RunSession.aclose).  Tasks interleave at awaits, and every await can   *)
(* fail, time out or be cancelled.  Between two stages of one call there   *)
(* is no await, so a client enters its next stage in the step that leaves  *)
(* the last one.                                                           *)
(*                                                                         *)
(* The staging store is reduced to the row of this run and its revision    *)
(* (StagingRules has it in full), the loader to what execute may do to     *)
(* that row and to the target (Loader has it in full).                     *)
(***************************************************************************)
EXTENDS Integers, Sequences, FiniteSets

-----------------------------
(* The state machine of a run (pipeline/state.py) and the status a failed   *)
(* stage ends in (pipeline/session.py).                                     *)

Terminal == {"COMPLETED", "COMPLETED_WITH_WARNINGS", "NEEDS_REVIEW",
             "REJECTED_SECURITY", "ROLLED_BACK", "FAILED", "CANCELLED"}

Edges ==
    {<<"CREATED", "SOURCE_PROBING">>, <<"CREATED", "DATABASE_INSPECTING">>,
     <<"SOURCE_PROBING", "TECHNICAL_PARSING">>,
     <<"TECHNICAL_PARSING", "STRUCTURE_PROFILING">>,
     <<"STRUCTURE_PROFILING", "STRUCTURE_ANALYZING">>,
     <<"STRUCTURE_ANALYZING", "PARSE_PLAN_CREATED">>,
     <<"PARSE_PLAN_CREATED", "PARSE_PLAN_VALIDATING">>,
     <<"PARSE_PLAN_VALIDATING", "SEMANTIC_PARSING">>,
     <<"SEMANTIC_PARSING", "NORMALIZED_DATA_PROFILING">>,
     <<"NORMALIZED_DATA_PROFILING", "DATABASE_INSPECTING">>,
     <<"DATABASE_INSPECTING", "MAPPING">>, <<"DATABASE_INSPECTING", "MAPPING_PLAN_CREATED">>,
     <<"MAPPING", "MAPPING_PLAN_CREATED">>,
     <<"MAPPING_PLAN_CREATED", "MAPPING_PLAN_VALIDATING">>,
     <<"MAPPING_PLAN_VALIDATING", "NORMALIZING">>, <<"NORMALIZING", "VALIDATING">>,
     <<"VALIDATING", "STAGING">>, <<"STAGING", "LOADING">>}

Stage == UNION {{e[1], e[2]} : e \in Edges}

Repeatable == {"PARSE_PLAN_VALIDATING", "MAPPING_PLAN_VALIDATING"}

(* Whether perform lets a run in status s begin stage t. *)
MayEnter(s, t) == <<s, t>> \in Edges \/ (s = t /\ t \in Repeatable)

Outcome == {"NOT_STARTED", "DRY_RUN", "COMMITTED", "ROLLED_BACK", "UNKNOWN"}

(* Why a stage fails: a security policy, a mismatch that asks for review, a *)
(* deadline, cancellation, LOAD_OUTCOME_UNKNOWN, anything else.             *)
Kind == {"security", "review", "timeout", "cancel", "unknown", "error"}

StatusAfter(kind, outcome) ==
    IF kind = "cancel" THEN "CANCELLED"
    ELSE IF kind \in {"unknown", "timeout"} THEN "FAILED"
    ELSE IF outcome = "ROLLED_BACK" THEN "ROLLED_BACK"
    ELSE IF kind = "security" THEN "REJECTED_SECURITY"
    ELSE IF kind = "review" THEN "NEEDS_REVIEW"
    ELSE "FAILED"

OutcomeAfter(kind, outcome) == IF kind = "unknown" THEN "UNKNOWN" ELSE outcome

-----------------------------
(* The stages a call performs, given the status of the run and the stages   *)
(* whose results it keeps (done).                                           *)

Calls == {"inspect_source", "analyze_structure", "create_parse_plan", "validate_parse_plan",
          "parse_semantically", "profile_records", "inspect_database",
          "create_mapping_plan", "validate_mapping_plan", "execute"}

Analyze(done) ==
    IF "STRUCTURE_ANALYZING" \in done THEN <<>> ELSE <<"STRUCTURE_PROFILING", "STRUCTURE_ANALYZING">>

CreateParsePlan(status, done) ==
    IF status \in {"PARSE_PLAN_CREATED", "PARSE_PLAN_VALIDATING"} THEN <<>>
    ELSE Append(Analyze(done), "PARSE_PLAN_CREATED")

(* What validate_parse_plan and parse_semantically make up for. *)
MissingParsePlan(status, done) ==
    IF "STRUCTURE_ANALYZING" \notin done \/ status = "STRUCTURE_ANALYZING"
    THEN Append(Analyze(done), "PARSE_PLAN_CREATED") ELSE <<>>

Profile(done) ==
    IF "NORMALIZED_DATA_PROFILING" \in done THEN <<>> ELSE <<"NORMALIZED_DATA_PROFILING">>

Catalog(done) ==
    Profile(done) \o IF "DATABASE_INSPECTING" \in done THEN <<>> ELSE <<"DATABASE_INSPECTING">>

(* validate_mapping_plan first selects the plan it was given, unless one    *)
(* was selected before.                                                     *)
ValidateMapping(status, done) ==
    Catalog(done)
        \o (IF "DATABASE_INSPECTING" \notin done \/ status \in {"DATABASE_INSPECTING", "MAPPING"}
            THEN <<"MAPPING_PLAN_CREATED">> ELSE <<>>)
        \o <<"MAPPING_PLAN_VALIDATING">>

StagesOf(call, status, done) ==
    CASE call = "inspect_source"        -> <<"SOURCE_PROBING", "TECHNICAL_PARSING">>
      [] call = "analyze_structure"     -> Analyze(done)
      [] call = "create_parse_plan"     -> CreateParsePlan(status, done)
      [] call = "validate_parse_plan"   -> Append(MissingParsePlan(status, done), "PARSE_PLAN_VALIDATING")
      [] call = "parse_semantically"    -> MissingParsePlan(status, done)
                                               \o <<"PARSE_PLAN_VALIDATING", "SEMANTIC_PARSING">>
      [] call = "profile_records"       -> Profile(done)
      [] call = "inspect_database"      -> Append(Profile(done), "DATABASE_INSPECTING")
      [] call = "create_mapping_plan"   -> Catalog(done) \o <<"MAPPING", "MAPPING_PLAN_CREATED">>
      [] call = "validate_mapping_plan" -> ValidateMapping(status, done)
      [] call = "execute"               -> ValidateMapping(status, done)
                                               \o <<"NORMALIZING", "VALIDATING", "STAGING", "LOADING">>

(* The results a client must hold to make the call. *)
Holds(call, done) ==
    CASE call = "inspect_source" -> TRUE
      [] call \in {"analyze_structure", "create_parse_plan", "validate_parse_plan", "parse_semantically"}
             -> "TECHNICAL_PARSING" \in done
      [] OTHER -> "SEMANTIC_PARSING" \in done

(* The stages whose operation may stop the run for review. *)
Stoppable == {"STRUCTURE_ANALYZING", "PARSE_PLAN_VALIDATING", "SEMANTIC_PARSING",
              "DATABASE_INSPECTING", "MAPPING", "NORMALIZING", "LOADING"}

(* The stages whose result these calls compare with an argument: a plan, a  *)
(* structure or a catalog the caller brings, and, wherever profile_records  *)
(* is called first, the normalized data itself.                             *)
ComparedWith(call) ==
    CASE call \in {"analyze_structure", "create_parse_plan"}      -> {"STRUCTURE_ANALYZING"}
      [] call \in {"create_mapping_plan", "validate_mapping_plan"} -> {"SEMANTIC_PARSING", "DATABASE_INSPECTING"}
      [] call \in {"profile_records", "inspect_database", "execute"} -> {"SEMANTIC_PARSING"}
      [] OTHER                                                     -> {}

(* After these stages the call itself may stop the run for review; disputes *)
(* tells whether its arguments may differ from the results of the run.      *)
MayStop(call, s, disputes) ==
    \/ call = "parse_semantically" /\ s = "PARSE_PLAN_VALIDATING"
    \/ call = "execute" /\ s \in {"MAPPING_PLAN_VALIDATING", "VALIDATING"}
    \/ disputes /\ call # "analyze_structure" /\ s \in ComparedWith(call)

(* Orchestrator.run looks at the lease once more before these stages. *)
Rechecks(call, s) ==
    \/ s = "PARSE_PLAN_CREATED" /\ call \in {"validate_parse_plan", "parse_semantically"}
    \/ s = "DATABASE_INSPECTING" /\ call \in {"create_mapping_plan", "validate_mapping_plan", "execute"}

-----------------------------
CONSTANTS
    Clients,     \* the tasks that hold the lease
    Setups       \* what the tasks do, and which mishaps there are

(* plan: what each task calls, in order; dry: dry_run of its execute;       *)
(* disputes: the tasks whose arguments may differ from the results of the   *)
(* run; lostAfter: the staging statuses after which the loader may still    *)
(* raise; losesBegin: whether the store may begin a run and lose the answer. *)
Setup ==
    [plan : [Clients -> Seq(Calls)], dry : [Clients -> BOOLEAN], disputes : SUBSET Clients,
     lostAfter : SUBSET {"COMMITTED", "QUARANTINED", "EXECUTING"}, losesBegin : BOOLEAN]

ASSUME PipelineAssumption == Setups \subseteq Setup

VARIABLES
    setup,     \* never changes
    run,       \* RunSession and the fields of its IngestResult
    log,       \* errors, warnings, and the run_finished events, in order
    client,    \* [Clients -> Client]
    closer,    \* the task of aclose
    staging,   \* the row of this run in the staging store
    target     \* what became of the target

vars == <<setup, run, log, client, closer, staging, target>>

Plan       == setup.plan
Dry        == setup.dry
Disputes   == setup.disputes
LostAfter  == setup.lostAfter
LosesBegin == setup.losesBegin

Session == [status : Stage \cup Terminal, outcome : Outcome, dry : BOOLEAN,
            started : BOOLEAN, busy : BOOLEAN, executing : BOOLEAN,
            closed : BOOLEAN, context : BOOLEAN, done : SUBSET Stage]

Note == {"AUDIT_GAP", "CLEANUP_FAILED", "STAGE_FAILED_AFTER_COMMIT", "HOOK_FAILED_AFTER_COMMIT",
         "CANCELLED_AFTER_COMMIT", "OUTCOME_UNAVAILABLE", "REJECTED_RECORDS"}

Log == [errors : Nat, notes : SUBSET Note, finished : Seq(Terminal)]

(* A client: where it awaits; the call it is in, the stages of that call    *)
(* still to do (the first is being done) and the calls after it; whether it *)
(* is inside perform; for terminal, the status it is going for; how the     *)
(* loader failed; whether terminal was cancelled; what it read of staging.  *)
PC == {"idle", "first", "announce", "work", "begin", "fill", "seal", "load", "writing",
       "raised", "complete", "sign", "tell", "read", "move", "done"}

StagingRow == [status : {"none", "OPEN", "SEALED", "EXECUTING", "COMMITTED", "QUARANTINED",
                         "ROLLED_BACK", "FAILED", "CANCELLED", "UNKNOWN"},
               revision : Nat]

Client == [pc : PC, calls : Seq(Calls), call : Calls \cup {"none"}, todo : Seq(Stage),
           inside : BOOLEAN, goal : Terminal \cup {"none"}, kind : Kind,
           cut : BOOLEAN, seen : StagingRow]

Target == {"untouched", "loaded", "replayed"}

-----------------------------
(* Helpers. *)

Become(c, me) == client' = [client EXCEPT ![c] = me]

Noted(s) == [log EXCEPT !.notes = @ \cup s]

(* Slip: execution is only given back when the call returns normally. *)
Freed_Stage(c, r) == [r EXCEPT !.busy = IF client[c].inside THEN FALSE ELSE r.busy]

(* The finally blocks of perform and execution. *)
Freed(c, r) ==
    [r EXCEPT !.busy = IF client[c].inside THEN FALSE ELSE r.busy,
              !.executing = IF client[c].call = "execute" THEN FALSE ELSE r.executing]

(* The call has ended the run, and the client makes no other. *)
Leave(c, r) ==
    /\ run' = Freed(c, r)
    /\ Become(c, [client[c] EXCEPT !.pc = "done", !.calls = <<>>, !.todo = <<>>, !.inside = FALSE])

(* terminal, with the notes the run leaves before it: nothing more if the   *)
(* run is terminal already. *)
EnterTerminal(c, r, me, goal, l, errors) ==
    IF r.status \in Terminal
    THEN Leave(c, r) /\ log' = l
    ELSE /\ run' = r
         /\ Become(c, [me EXCEPT !.pc = "sign", !.goal = goal])
         /\ log' = [l EXCEPT !.errors = @ + errors]

(* Slip: a commit does not shield the run from what fails after it. *)
Shielded_Never(r) == FALSE

Shielded(r) == r.outcome = "COMMITTED"

(* The except blocks of perform. *)
Fail(c, r, me, kind) ==
    IF Shielded(r)
    THEN EnterTerminal(c, r, me, "COMPLETED_WITH_WARNINGS",
                       Noted({IF kind = "cancel" THEN "CANCELLED_AFTER_COMMIT"
                              ELSE "STAGE_FAILED_AFTER_COMMIT"}), 0)
    ELSE EnterTerminal(c, [r EXCEPT !.outcome = OutcomeAfter(kind, r.outcome)], me,
                       StatusAfter(kind, r.outcome), log, 1)

(* The start of a stage: Orchestrator.run where the call asks it again,     *)
(* ensure_open, the edge, stage_started. *)
EnterStage(c, r, me) ==
    IF r.closed /\ Rechecks(me.call, Head(me.todo))
    THEN Leave(c, r) /\ UNCHANGED log
    ELSE IF r.closed \/ ~MayEnter(r.status, Head(me.todo))
    THEN Fail(c, r, me, "error")
    ELSE /\ run' = [r EXCEPT !.status = Head(me.todo)]
         /\ Become(c, [me EXCEPT !.pc = "announce"])
         /\ UNCHANGED log

-----------------------------
(* Calls. *)

(* execution: a run is executed by one client, its terminal hooks included. *)
Admitted(call) == call = "execute" => ~run.busy /\ ~run.executing

(* Slip: perform does not look whether it is alone. *)
Alone_Unchecked == TRUE

Alone == ~run.busy

(* A call: Orchestrator.run, execution, and the first stage, if any.  Every *)
(* refusal here leaves the run alone.                                       *)
Call(c) ==
    LET k      == Head(client[c].calls)
        stages == StagesOf(k, run.status, run.done)
        me     == [client[c] EXCEPT !.call = k, !.calls = Tail(@), !.todo = stages, !.inside = TRUE]
        r      == [run EXCEPT !.busy = TRUE, !.executing = @ \/ k = "execute",
                              !.dry = IF k = "execute" THEN Dry[c] ELSE @]
    IN  /\ client[c].pc = "idle" /\ client[c].calls # <<>>
        /\ Holds(k, run.done)
        /\ IF run.closed \/ run.status \in Terminal \/ ~Admitted(k) \/ (stages # <<>> /\ ~Alone)
           THEN /\ Become(c, [client[c] EXCEPT !.pc = "done", !.calls = <<>>])
                /\ UNCHANGED <<run, log>>
           ELSE IF stages = <<>>
           THEN Become(c, [client[c] EXCEPT !.calls = Tail(@)]) /\ UNCHANGED <<run, log>>
           ELSE IF run.started THEN EnterStage(c, r, me)
           ELSE run' = r /\ Become(c, [me EXCEPT !.pc = "first"]) /\ UNCHANGED log
        /\ UNCHANGED <<setup, closer, staging, target>>

(* An argument of the call is not what the run has: it stops the run, and   *)
(* never enters perform; execute stops it from within execution.            *)
Dispute(c) ==
    LET k == Head(client[c].calls)
        r == [run EXCEPT !.executing = @ \/ k = "execute", !.dry = IF k = "execute" THEN Dry[c] ELSE @]
    IN  /\ client[c].pc = "idle" /\ client[c].calls # <<>> /\ c \in Disputes
        /\ Holds(k, run.done) /\ ~run.closed /\ run.status \notin Terminal /\ Admitted(k)
        /\ ComparedWith(k) \cap run.done # {}
        /\ EnterTerminal(c, r, [client[c] EXCEPT !.call = k, !.calls = Tail(@)], "NEEDS_REVIEW", log, 1)
        /\ UNCHANGED <<setup, closer, staging, target>>

(* A client that has made its calls, or cannot make the next one. *)
Stop(c) ==
    /\ client[c].pc = "idle"
    /\ client[c].calls = <<>> \/ run.status \in Terminal \/ run.closed
    /\ Become(c, [client[c] EXCEPT !.pc = "done", !.calls = <<>>])
    /\ UNCHANGED <<setup, run, log, closer, staging, target>>

-----------------------------
(* Stages. *)

(* check_key, the signed RUN_STARTED and the run_started hooks. *)
First(c) ==
    /\ client[c].pc = "first"
    /\ EnterStage(c, [run EXCEPT !.started = TRUE], client[c])
    /\ UNCHANGED <<setup, closer, staging, target>>

(* The stage_started hooks have run; the operation of the stage begins. *)
Announced(c) ==
    LET s == Head(client[c].todo)
    IN  /\ client[c].pc = "announce"
        /\ Become(c, [client[c] EXCEPT !.pc =
             IF run.dry \/ s \notin {"STAGING", "LOADING"} THEN "work"
             ELSE IF s = "STAGING" THEN "begin" ELSE "load"])
        /\ UNCHANGED <<setup, run, log, closer, staging, target>>

(* The operation of a stage that writes nothing; in LOADING it is the       *)
(* dry-run planner.                                                         *)
Work(c) ==
    LET s == Head(client[c].todo)
    IN  /\ client[c].pc = "work"
        /\ run' = [run EXCEPT !.done = @ \cup {s},
                              !.outcome = IF s = "LOADING" THEN "DRY_RUN" ELSE @]
        /\ Become(c, [client[c] EXCEPT !.pc = "complete"])
        /\ UNCHANGED <<setup, log, closer, staging, target>>

(* run.stop inside an operation; a dry run may be stopped before or after   *)
(* its forecast is kept.                                                    *)
StopInside(c) ==
    LET s == Head(client[c].todo)
    IN  /\ \/ client[c].pc = "begin"
           \/ client[c].pc = "work" /\ s \in Stoppable
        /\ \E r \in {run} \cup (IF s = "LOADING" THEN {[run EXCEPT !.outcome = "DRY_RUN"]} ELSE {}) :
              EnterTerminal(c, r, client[c], "NEEDS_REVIEW", log, 1)
        /\ UNCHANGED <<setup, closer, staging, target>>

Written(s) == [status |-> s, revision |-> staging.revision + 1]

(* The three writes of the STAGING stage.  staging_context is set once      *)
(* begin has answered, so cleanup knows the run only from then on.          *)
Begin(c) ==
    /\ client[c].pc = "begin" /\ staging.status = "none"
    /\ staging' = Written("OPEN")
    /\ run' = [run EXCEPT !.context = TRUE]
    /\ Become(c, [client[c] EXCEPT !.pc = "fill"])
    /\ UNCHANGED <<setup, log, closer, target>>

Fill(c) ==
    /\ client[c].pc = "fill" /\ staging.status = "OPEN"
    /\ staging' = Written("OPEN")
    /\ Become(c, [client[c] EXCEPT !.pc = "seal"])
    /\ UNCHANGED <<setup, run, log, closer, target>>

Seal(c) ==
    /\ client[c].pc = "seal" /\ staging.status = "OPEN"
    /\ staging' = Written("SEALED")
    /\ run' = [run EXCEPT !.done = @ \cup {"STAGING"}]
    /\ Become(c, [client[c] EXCEPT !.pc = "complete"])
    /\ UNCHANGED <<setup, log, closer, target>>

(* A write took effect and its answer was lost. *)
LostWrite(c, kind) ==
    /\ \/ client[c].pc = "begin" /\ staging.status = "none" /\ LosesBegin /\ staging' = Written("OPEN")
       \/ client[c].pc = "fill" /\ staging.status = "OPEN" /\ staging' = Written("OPEN")
       \/ client[c].pc = "seal" /\ staging.status = "OPEN" /\ staging' = Written("SEALED")
    /\ Fail(c, run, client[c], kind)
    /\ UNCHANGED <<setup, closer, target>>

(* Any other failure of an await inside perform: hook, signer, operation,   *)
(* store; after a commit a failed hook is a warning.                        *)
Fails(c, kind) ==
    /\ client[c].pc \in {"first", "announce", "work", "begin", "fill", "seal"}
    /\ Fail(c, run, client[c], kind)
    /\ UNCHANGED <<setup, closer, staging, target>>

-----------------------------
(* The loader. *)

(* The claim of the staged run. *)
Claim(c) ==
    /\ client[c].pc = "load" /\ staging.status = "SEALED"
    /\ staging' = Written("EXECUTING")
    /\ Become(c, [client[c] EXCEPT !.pc = "writing"])
    /\ UNCHANGED <<setup, run, log, closer, target>>

Raised(c, kind) == Become(c, [client[c] EXCEPT !.pc = "raised", !.kind = kind])

(* It fails before it claimed anything. *)
LoadRefused(c, kind) ==
    /\ client[c].pc = "load"
    /\ Raised(c, kind)
    /\ UNCHANGED <<setup, run, log, closer, staging, target>>

Received(c, rejected) ==
    /\ run' = [run EXCEPT !.outcome = "COMMITTED", !.done = @ \cup {"LOADING"}]
    /\ log' = IF rejected THEN Noted({"REJECTED_RECORDS"}) ELSE log
    /\ Become(c, [client[c] EXCEPT !.pc = "complete"])

(* It answers with the receipt of an earlier run that has the same key. *)
Replay(c) ==
    /\ client[c].pc = "load" /\ target = "untouched"
    /\ target' = "replayed"
    /\ Received(c, FALSE)
    /\ UNCHANGED <<setup, closer, staging>>

(* It commits; finalising the staged run fails or succeeds.  The receipt is *)
(* kept, or is not of this plan, or cannot be reported on, or an exception  *)
(* (AUDIT_COMMITTED_UNVERIFIED is one) takes its place.                     *)
Load(c, final) ==
    /\ client[c].pc = "writing"
    /\ target' = "loaded"
    /\ staging' = IF final = "EXECUTING" THEN staging ELSE Written(final)
    /\ \/ Received(c, final = "QUARANTINED")
       \/ Fail(c, run, client[c], "unknown")
       \/ Fail(c, [run EXCEPT !.outcome = "COMMITTED"], client[c], "error")
       \/ /\ final \in LostAfter
          /\ \E kind \in Kind \ {"unknown"} : Raised(c, kind)
          /\ UNCHANGED <<run, log>>
    /\ UNCHANGED <<setup, closer>>

(* It rolls back. *)
RollBack(c, kind, final) ==
    /\ client[c].pc = "writing"
    /\ staging' = IF final = "EXECUTING" THEN staging ELSE Written(final)
    /\ Raised(c, kind)
    /\ UNCHANGED <<setup, run, log, closer, target>>

(* It lost the answer to COMMIT. *)
LoadUnknown(c, final) ==
    /\ client[c].pc = "writing"
    /\ target' \in {"untouched", "loaded"}
    /\ staging' = IF final = "EXECUTING" THEN staging ELSE Written(final)
    /\ Raised(c, "unknown")
    /\ UNCHANGED <<setup, run, log, closer>>

(* Slip: the staged run is only asked for doubts, never for a commit. *)
OutcomeOf_NoCommit(s) ==
    CASE s \in {"ROLLED_BACK", "CANCELLED"}  -> "ROLLED_BACK"
      [] s \in {"EXECUTING", "UNKNOWN"}      -> "UNKNOWN"
      [] OTHER                               -> run.outcome

(* What the staged run says about a loader that raised. *)
OutcomeOf(s) ==
    CASE s \in {"ROLLED_BACK", "CANCELLED"}  -> "ROLLED_BACK"
      [] s = "COMMITTED"                     -> "COMMITTED"
      [] s \in {"EXECUTING", "UNKNOWN"}      -> "UNKNOWN"
      [] OTHER                               -> run.outcome

Consult(c) ==
    /\ client[c].pc = "raised"
    /\ Fail(c, [run EXCEPT !.outcome = OutcomeOf(staging.status)], client[c], client[c].kind)
    /\ UNCHANGED <<setup, closer, staging, target>>

(* The staged run cannot be read. *)
ConsultFails(c) ==
    /\ client[c].pc = "raised"
    /\ EnterTerminal(c, [run EXCEPT !.outcome = "UNKNOWN"], client[c],
                     StatusAfter(client[c].kind, "UNKNOWN"), Noted({"OUTCOME_UNAVAILABLE"}), 1)
    /\ UNCHANGED <<setup, closer, staging, target>>

-----------------------------
(* The end of a stage and of a run. *)

(* After the last stage the call returns; execute goes on to terminal,      *)
(* outside of perform.                                                      *)
Advance(c, l) ==
    LET left == Tail(client[c].todo)
        free == [run EXCEPT !.busy = FALSE]
        out  == [client[c] EXCEPT !.todo = left, !.inside = FALSE]
    IN  IF left # <<>>
        THEN EnterStage(c, run, [client[c] EXCEPT !.todo = left])
        ELSE IF client[c].call = "execute"
        THEN EnterTerminal(c, free, out,
                 IF l.notes # {} THEN "COMPLETED_WITH_WARNINGS" ELSE "COMPLETED", l, 0)
        ELSE /\ run' = free
             /\ Become(c, [out EXCEPT !.pc = "idle"])
             /\ UNCHANGED log

(* The stage_completed hooks and the signed event of the stage. *)
Complete(c) ==
    /\ client[c].pc = "complete"
    /\ Advance(c, log)
    /\ UNCHANGED <<setup, closer, staging, target>>

CompleteFails(c, kind) ==
    /\ client[c].pc = "complete"
    /\ IF Shielded(run)
       THEN Advance(c, Noted({"HOOK_FAILED_AFTER_COMMIT"}))
       ELSE Fail(c, run, client[c], kind)
    /\ UNCHANGED <<setup, closer, staging, target>>

(* run.stop between two stages of a call, outside of perform. *)
StopBetween(c) ==
    /\ client[c].pc = "complete" /\ MayStop(client[c].call, Head(client[c].todo), c \in Disputes)
    /\ EnterTerminal(c, [run EXCEPT !.busy = FALSE], [client[c] EXCEPT !.inside = FALSE],
                     "NEEDS_REVIEW", log, 1)
    /\ UNCHANGED <<setup, closer, staging, target>>

CleanupDue(r) == r.context /\ r.outcome = "NOT_STARTED"

(* The end of terminal: a cancellation inside it wins over its status. *)
Finish(c, r, cut) ==
    Leave(c, IF cut /\ r.outcome # "COMMITTED" THEN [r EXCEPT !.status = "CANCELLED"] ELSE r)

(* terminal sets the status it was going for, whatever the run became       *)
(* meanwhile. *)
SetStatus(c, goal, cut) ==
    LET r == [run EXCEPT !.status = goal]
    IN  IF CleanupDue(r)
        THEN run' = r /\ Become(c, [client[c] EXCEPT !.pc = "read", !.goal = goal, !.cut = cut])
        ELSE Finish(c, r, cut)

(* The signed event of the end; then the run_finished event is kept and its *)
(* hooks called. *)
Sign(c) ==
    /\ client[c].pc = "sign"
    /\ log' = [log EXCEPT !.finished = Append(@, client[c].goal)]
    /\ Become(c, [client[c] EXCEPT !.pc = "tell"])
    /\ UNCHANGED <<setup, run, closer, staging, target>>

Tell(c) ==
    /\ client[c].pc = "tell"
    /\ SetStatus(c, client[c].goal, FALSE)
    /\ UNCHANGED <<setup, log, closer, staging, target>>

GoalAfterGap(goal, cut) ==
    IF run.outcome = "COMMITTED" THEN "COMPLETED_WITH_WARNINGS"
    ELSE IF cut THEN "CANCELLED"
    ELSE IF goal \in {"COMPLETED", "COMPLETED_WITH_WARNINGS"} THEN "FAILED"
    ELSE goal

(* Slip: the gap is not reported. *)
GapNote_Silent == {}

GapNote == {"AUDIT_GAP"}

Gap(c, cut) ==
    LET goal  == GoalAfterGap(client[c].goal, cut)
        added == IF ~cut /\ goal # client[c].goal /\ goal = "FAILED" THEN 1 ELSE 0
    IN  /\ client[c].pc \in {"sign", "tell"}
        /\ log' = [log EXCEPT !.notes = @ \cup GapNote, !.errors = @ + added]
        /\ SetStatus(c, goal, cut)
        /\ UNCHANGED <<setup, closer, staging, target>>

-----------------------------
(* cleanup_staging, in terminal and in aclose. *)

Abandoned == {"OPEN", "SEALED"}

(* Slip: the row is written without comparing its revision. *)
Current_Unchecked(seen) == TRUE

Current(seen) == staging = seen

GivenUp(seen) ==
    [status |-> IF run.status = "CANCELLED" THEN "CANCELLED" ELSE "FAILED",
     revision |-> seen.revision + 1]

Read(c) ==
    /\ client[c].pc = "read"
    /\ IF staging.status \in Abandoned
       THEN /\ Become(c, [client[c] EXCEPT !.pc = "move", !.seen = staging])
            /\ UNCHANGED run
       ELSE Finish(c, run, client[c].cut)
    /\ UNCHANGED <<setup, log, closer, staging, target>>

Move(c) ==
    /\ client[c].pc = "move" /\ Current(client[c].seen)
    /\ staging' = GivenUp(client[c].seen)
    /\ Finish(c, run, client[c].cut)
    /\ UNCHANGED <<setup, log, closer, target>>

CleanupFails(c, cut) ==
    /\ client[c].pc \in {"read", "move"}
    /\ \/ UNCHANGED staging
       \/ /\ client[c].pc = "move" /\ Current(client[c].seen)
          /\ staging' = GivenUp(client[c].seen)
    /\ log' = Noted({"CLEANUP_FAILED"})
    /\ Finish(c, run, client[c].cut \/ cut)
    /\ UNCHANGED <<setup, closer, target>>

(* aclose.  Its cleanup runs in a task of its own, so that cancelling       *)
(* aclose does not cut it short. *)
Close ==
    /\ closer.pc = "open" /\ ~run.closed /\ "TECHNICAL_PARSING" \in run.done
    /\ closer' = [closer EXCEPT !.pc = IF CleanupDue(run) THEN "read" ELSE "rest"]
    /\ UNCHANGED <<setup, run, log, client, staging, target>>

CloseRead ==
    /\ closer.pc = "read"
    /\ closer' = IF staging.status \in Abandoned
                 THEN [closer EXCEPT !.pc = "move", !.seen = staging]
                 ELSE [closer EXCEPT !.pc = "rest"]
    /\ UNCHANGED <<setup, run, log, client, staging, target>>

CloseMove ==
    /\ closer.pc = "move" /\ Current(closer.seen)
    /\ staging' = GivenUp(closer.seen)
    /\ closer' = [closer EXCEPT !.pc = "rest"]
    /\ UNCHANGED <<setup, run, log, client, target>>

CloseFails ==
    /\ closer.pc \in {"read", "move", "rest"} /\ ~closer.failed
    /\ closer' = [closer EXCEPT !.pc = "rest", !.failed = TRUE]
    /\ UNCHANGED <<setup, run, log, client, staging, target>>

CloseCancelled ==
    /\ closer.pc \in {"read", "move", "rest"} /\ ~closer.cut
    /\ closer' = [closer EXCEPT !.cut = TRUE]
    /\ UNCHANGED <<setup, run, log, client, staging, target>>

Closed ==
    LET kept == closer.cut /\ run.outcome = "COMMITTED"
    IN  /\ closer.pc = "rest"
        /\ run' = [run EXCEPT !.closed = TRUE,
              !.status = IF kept \/ (closer.failed /\ @ = "COMPLETED")
                         THEN "COMPLETED_WITH_WARNINGS" ELSE @]
        /\ log' = Noted((IF closer.failed THEN {"CLEANUP_FAILED"} ELSE {})
                          \cup (IF kept THEN {"CANCELLED_AFTER_COMMIT"} ELSE {}))
        /\ closer' = [closer EXCEPT !.pc = "closed"]
        /\ UNCHANGED <<setup, client, staging, target>>

-----------------------------
Init ==
    /\ setup \in Setups
    /\ run = [status |-> "CREATED", outcome |-> "NOT_STARTED", dry |-> TRUE, started |-> FALSE,
              busy |-> FALSE, executing |-> FALSE, closed |-> FALSE, context |-> FALSE, done |-> {}]
    /\ log = [errors |-> 0, notes |-> {}, finished |-> <<>>]
    /\ client = [c \in Clients |->
          [pc |-> "idle", calls |-> Plan[c], call |-> "none", todo |-> <<>>, inside |-> FALSE,
           goal |-> "none", kind |-> "error", cut |-> FALSE, seen |-> [status |-> "none", revision |-> 0]]]
    /\ closer = [pc |-> "open", cut |-> FALSE, failed |-> FALSE,
                 seen |-> [status |-> "none", revision |-> 0]]
    /\ staging = [status |-> "none", revision |-> 0]
    /\ target = "untouched"

Perform(c) ==
    \/ Call(c) \/ Dispute(c) \/ Stop(c) \/ First(c) \/ Announced(c) \/ Work(c) \/ StopInside(c)
    \/ Begin(c) \/ Fill(c) \/ Seal(c)
    \/ \E kind \in Kind \ {"unknown"} :
          LostWrite(c, kind) \/ Fails(c, kind) \/ LoadRefused(c, kind) \/ CompleteFails(c, kind)
    \/ Complete(c) \/ StopBetween(c)

LoadStep(c) ==
    \/ Claim(c) \/ Replay(c) \/ Consult(c) \/ ConsultFails(c)
    \/ \E final \in {"COMMITTED", "QUARANTINED", "EXECUTING"} : Load(c, final)
    \/ \E kind \in Kind \ {"unknown", "cancel"}, final \in {"ROLLED_BACK", "EXECUTING"} : RollBack(c, kind, final)
    \/ \E final \in {"CANCELLED", "EXECUTING"} : RollBack(c, "cancel", final)
    \/ \E final \in {"UNKNOWN", "EXECUTING"} : LoadUnknown(c, final)

TerminalStep(c) ==
    \/ Sign(c) \/ Tell(c) \/ Read(c) \/ Move(c)
    \/ \E cut \in BOOLEAN : Gap(c, cut) \/ CleanupFails(c, cut)

Step(c) == Perform(c) \/ LoadStep(c) \/ TerminalStep(c)

CloseStep == Close \/ CloseRead \/ CloseMove \/ CloseFails \/ CloseCancelled \/ Closed

Next == (\E c \in Clients : Step(c)) \/ CloseStep

Spec == Init /\ [][Next]_vars

(* Fairness.  Every await of a client ends: by an answer, an error or the   *)
(* deadline that bounds it.                                                 *)
FairSpec == Spec /\ \A c \in Clients : WF_vars(Step(c))
-----------------------------
(* Properties. *)

TypeOK ==
    /\ run \in Session
    /\ log \in Log
    /\ client \in [Clients -> Client]
    /\ closer \in [pc : {"open", "read", "move", "rest", "closed"}, cut : BOOLEAN,
                   failed : BOOLEAN, seen : StagingRow]
    /\ staging \in StagingRow
    /\ target \in Target

InLoader(c) == client[c].pc \in {"load", "writing", "raised"}

InTerminal(c) == client[c].pc \in {"sign", "tell", "read", "move"}

Ended == run.status \in Terminal /\ \A c \in Clients : ~InTerminal(c)

(* A commit is never hidden by what fails, times out or is cancelled after  *)
(* it, and a run that executed is not COMPLETED without one.                *)
CommitIsReported ==
    run.status \in Terminal =>
        /\ run.outcome = "COMMITTED" => run.status \in {"COMPLETED", "COMPLETED_WITH_WARNINGS"}
        /\ run.status = "COMPLETED" => run.outcome \in {"COMMITTED", "DRY_RUN"}

(* What the result says of the transaction is what happened to the target,  *)
(* or UNKNOWN.                                                              *)
OutcomeIsTrue ==
    (\A c \in Clients : ~InLoader(c)) =>
        /\ run.outcome = "COMMITTED" => target # "untouched"
        /\ run.outcome \in {"NOT_STARTED", "DRY_RUN", "ROLLED_BACK"} => target # "loaded"

(* A staged run that never reached the loader is given up at the end, or a  *)
(* warning says that it could not be.                                       *)
StagedIsReleased ==
    Ended /\ run.context /\ run.outcome = "NOT_STARTED" /\ "CLEANUP_FAILED" \notin log.notes
        => staging.status \notin {"OPEN", "SEALED"}

(* The same, for every run the store has begun. *)
NothingStaysStaged ==
    Ended /\ run.outcome = "NOT_STARTED" /\ "CLEANUP_FAILED" \notin log.notes
        => staging.status \notin {"OPEN", "SEALED"}

(* While the loader executes, no cleanup takes the staged run from it. *)
ExecutingIsTheLoaders ==
    [][staging.status = "EXECUTING" /\ staging' # staging
        => \E c \in Clients : client[c].pc = "writing"]_vars

(* Only one call has come to its end of the run: no other was let in while  *)
(* the hooks of the end ran, and none stopped the run meanwhile.            *)
OneEnd == \A c, d \in Clients : client[c].goal # "none" /\ client[d].goal # "none" => c = d

(* The last run_finished event tells the status of the result, or a warning *)
(* tells why it does not.                                                   *)
EndIsReported ==
    Ended /\ OneEnd =>
        \/ log.finished # <<>> /\ log.finished[Len(log.finished)] = run.status
        \/ log.notes \cap {"AUDIT_GAP", "CLEANUP_FAILED", "CANCELLED_AFTER_COMMIT"} # {}

(* COMPLETED means that nothing at all went wrong in the calls, the audit   *)
(* included; only the task that closes the lease may have left a warning.   *)
CompletedIsClean ==
    run.status = "COMPLETED" /\ OneEnd =>
        /\ log.errors = 0 /\ log.finished = <<"COMPLETED">>
        /\ log.notes \subseteq {"CLEANUP_FAILED", "CANCELLED_AFTER_COMMIT"}

(* The mode of the result is the mode of the execute that ran. *)
ModeHolds ==
    /\ run.outcome = "DRY_RUN" => run.dry
    /\ run.outcome = "COMMITTED" \/ target # "untouched" => ~run.dry

(* One stage at a time, and the flag of perform is never left behind. *)
OneStage ==
    /\ \A c, d \in Clients : client[c].inside /\ client[d].inside => c = d
    /\ run.busy <=> \E c \in Clients : client[c].inside

(* A lease does one thing at a time, and in the mode it was asked for. *)
LeaseIsExclusive == TypeOK /\ ModeHolds /\ OneStage

(* What the caller is told of the end: the event, a success without a flaw,  *)
(* and what could not be given up.                                           *)
EndIsTrue == EndIsReported /\ CompletedIsClean /\ StagedIsReleased

(* Every execute gives the run back. *)
ExecuteEnds == run.executing ~> ~run.executing
=============================================================================
