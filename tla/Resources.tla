----------------------------- MODULE Resources -----------------------------
(***************************************************************************)
(* SecuritySession of security/session.py: the one budget of a run.  Its   *)
(* methods run under one lock without an await, so each is an operator     *)
(* from a session to a reply: the session afterwards and the code of the   *)
(* error it raised, or "ok".                                               *)
(***************************************************************************)
EXTENDS Integers, Sequences, FiniteSets

CONSTANTS
    Limit,           \* SecurityLimits.maximum, by resource
    ReadChunk,       \* SecurityLimits.read_chunk_bytes
    AllowedFormats,  \* SecurityPolicy.allowed_formats
    None             \* Python's None

(* Resource: what is counted, what is only compared, and the deadlines. *)
CountedResource == {"llm_calls", "llm_tokens", "db_queries"}
SizedResource == {"file_bytes", "stream_bytes", "records", "columns", "nesting_depth",
                  "text_chars", "chunks", "db_batch_rows", "db_batch_bytes"}
TimedResource == {"parser_time_ms", "llm_time_ms", "processing_time_ms"}
Resource == CountedResource \cup SizedResource \cup TimedResource

ASSUME LimitAssumption ==
    /\ Limit \in [Resource -> Nat \ {0}]
    /\ ReadChunk \in Nat \ {0}

ResourceErrorCode ==
    {"SECURITY_LIMIT_EXCEEDED", "SECURITY_INPUT_REJECTED", "SECURITY_POLICY_INVALID",
     "SECURITY_SANDBOX_REQUIRED", "PROCESSING_TIMEOUT", "SECURITY_RUN_CLOSED",
     "SECURITY_OPERATION_FAILED", "SECURITY_OPERATION_CANCELLED"}

(* ResourceAuditEvent, without the numbers a reader is given. *)
ResourceEvent == [code : ResourceErrorCode, outcome : {"rejected", "failed", "cancelled"}]

SecuritySessionSet ==
    [start : Nat, last : Nat, stages : [TimedResource -> Nat \cup {None}],
     counts : [CountedResource -> Nat], event : ResourceEvent \cup {None},
     parser_used : BOOLEAN, snapshot_used : BOOLEAN]

NewSecuritySession(now) ==
    [start |-> now, last |-> now, stages |-> [r \in TimedResource |-> None],
     counts |-> [r \in CountedResource |-> 0], event |-> None,
     parser_used |-> FALSE, snapshot_used |-> FALSE]

Reply(s, code) == [ses |-> s, code |-> code]

-----------------------------
(* The terminal event and the refusals. *)

EventOf(code) ==
    [code |-> code,
     outcome |-> CASE code = "SECURITY_OPERATION_CANCELLED" -> "cancelled"
                   [] code \in {"PROCESSING_TIMEOUT", "SECURITY_OPERATION_FAILED"} -> "failed"
                   [] OTHER -> "rejected"]

Recorded(s, code) == IF s.event = None THEN [s EXCEPT !.event = EventOf(code)] ELSE s

Denied(s, code) == Reply(Recorded(s, code), code)

(* _check: the size or the new count is compared before anything is done. *)
Checked(s, r, value) ==
    CASE s.event # None   -> Reply(s, "SECURITY_RUN_CLOSED")
      [] s.event = None /\ value > Limit[r] -> Denied(s, "SECURITY_LIMIT_EXCEEDED")
      [] OTHER            -> Reply(s, "ok")

Reserved(s, r, amount) ==
    LET value == s.counts[r] + amount
        check == Checked(s, r, value)
    IN  IF check.code = "ok" THEN Reply([s EXCEPT !.counts[r] = value], "ok") ELSE check

-----------------------------
(* Deadlines.  A stage starts with its first use. *)

StageStart(s, r, now) == IF s.stages[r] = None THEN now ELSE s.stages[r]

DeadlineOf(s, r, now) ==
    LET overall == s.start + Limit["processing_time_ms"]
        stage   == StageStart(s, r, now) + Limit[r]
    IN  IF stage <= overall THEN stage ELSE overall

(* _tick: a monotonic clock that went back closes the run. *)
Remaining(s, r, now) ==
    LET started == [s EXCEPT !.last = now, !.stages[r] = StageStart(s, r, now)]
    IN  CASE s.event # None -> Reply(s, "SECURITY_RUN_CLOSED")
          [] s.event = None /\ now < s.last -> Denied(s, "SECURITY_POLICY_INVALID")
          [] s.event = None /\ now >= s.last /\ now >= DeadlineOf(s, r, now) ->
                Denied(started, "PROCESSING_TIMEOUT")
          [] OTHER -> Reply(started, "ok")

(* Slip: the call is counted before the tokens are compared. *)
ReservedLLM_CallFirst(s, tokens, now) ==
    LET time  == Remaining(s, "llm_time_ms", now)
        call  == Reserved(time.ses, "llm_calls", 1)
    IN  IF time.code # "ok" THEN time
        ELSE IF call.code # "ok" THEN call
        ELSE Reserved(call.ses, "llm_tokens", tokens)

(* reserve_llm: both counts or none. *)
ReservedLLM(s, tokens, now) ==
    LET time  == Remaining(s, "llm_time_ms", now)
        call  == Checked(time.ses, "llm_calls", s.counts["llm_calls"] + 1)
        token == Checked(time.ses, "llm_tokens", s.counts["llm_tokens"] + tokens)
    IN  IF time.code # "ok" THEN time
        ELSE IF call.code # "ok" THEN call
        ELSE IF token.code # "ok" THEN token
        ELSE Reply([time.ses EXCEPT !.counts["llm_calls"] = @ + 1,
                                    !.counts["llm_tokens"] = @ + tokens], "ok")

-----------------------------
(* call: how an await of an adapter ends. *)

(* Codes of the errors an adapter may raise into call. *)
RefusalCodes ==
    (ResourceErrorCode \ {"SECURITY_LIMIT_EXCEEDED", "PROCESSING_TIMEOUT"})
        \cup {"PARSER_FORMAT_UNSUPPORTED", "PARSER_UNSUPPORTED_FORMAT",
              "PARSER_FORMAT_CONFLICT", "LLM_POLICY_DENIED"}

(* Slip: what came is given out, whatever happened while it was awaited. *)
AfterAnswer_Unchecked(s, r, now) == Reply(s, "ok")

(* An answer: the deadline and the run are looked at once more.  What that  *)
(* raises is a StructuraGuardError of the run itself, so the first decision *)
(* of the run is what the caller is told.                                   *)
AfterAnswer(s, r, now) ==
    LET again == Remaining(s, r, now)
    IN  IF again.code = "ok" THEN again ELSE Reply(again.ses, again.ses.event.code)

AfterTimeout(s, r, now) ==
    LET again == Remaining(s, r, now)
    IN  IF again.code = "ok" THEN Denied(again.ses, "PROCESSING_TIMEOUT") ELSE again

AfterCancel(s) == Reply(Recorded(s, "SECURITY_OPERATION_CANCELLED"), "cancelled")

(* An error of the adapter: after the first event it is that event which is *)
(* told; a known code is translated; every other one closes the run too.    *)
AfterError(s, code) ==
    CASE s.event # None -> Reply(s, s.event.code)
      [] s.event = None /\ code \in {"SECURITY_LIMIT_EXCEEDED", "LLM_BUDGET_EXCEEDED"} ->
            Denied(s, "SECURITY_LIMIT_EXCEEDED")
      [] s.event = None /\ code \in {"PROCESSING_TIMEOUT", "LLM_TIMEOUT"} ->
            Denied(s, "PROCESSING_TIMEOUT")
      [] s.event = None /\ code \in RefusalCodes -> Denied(s, "SECURITY_INPUT_REJECTED")
      [] OTHER -> Reply(Recorded(s, "SECURITY_OPERATION_FAILED"), code)
=============================================================================
