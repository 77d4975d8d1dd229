------------------------------ MODULE Provider ------------------------------
(***************************************************************************)
(* OpenAICompatibleProvider of llm/openai_compatible.py: one HTTP client   *)
(* with one life, tasks that generate on it and tasks that close it.       *)
(* asyncio tasks are cancelled at their next await, and gather waits for   *)
(* the whole task, not for the call it was found in.                       *)
(***************************************************************************)
EXTENDS Integers, Sequences, FiniteSets

CONSTANTS
    Callers,         \* tasks that generate and end
    Scoped,          \* tasks inside "async with provider"
    Closers,         \* tasks that only close
    Replies,         \* what the wire may bring
    MaxCalls, MaxHistory,   \* bound of the calls; config.max_history
    Nothing

(* OpenAICompatibleConfig. *)
ASSUME ProviderAssumption == MaxHistory \in Nat \ {0}

ProviderTasks == Callers \cup Scoped \cup Closers

VARIABLES
    client,          \* "none", "open", "closed": self._client
    closed,          \* self._closed
    closing,         \* self._close_task
    waitsFor,        \* the tasks _shutdown gathers
    active,          \* self._active
    attempts,        \* self._count
    history,         \* self._history
    released,        \* how often the transport was closed
    pt               \* the tasks: [pc, cancelled, code]

providerVars == <<client, closed, closing, waitsFor, active, attempts, history, released, pt>>

ProviderInit ==
    /\ client = "none" /\ closed = FALSE /\ closing = "none" /\ waitsFor = {}
    /\ active = {} /\ attempts = 0 /\ history = <<>> /\ released = 0
    /\ pt = [t \in ProviderTasks |-> [pc |-> "idle", cancelled |-> FALSE, code |-> Nothing]]

-----------------------------
(* What a request and a reply are turned into. *)

(* A reply: the HTTP status, the error code of its body, and whether body,  *)
(* envelope, usage and schema are in order.                                 *)
StatusCode(status) ==
    CASE status \in {401, 403} -> "LLM_AUTHENTICATION_FAILED"
      [] status = 429 -> "LLM_RATE_LIMIT"
      [] status \in {408, 504} -> "LLM_TIMEOUT"
      [] status >= 500 /\ status # 504 -> "LLM_UNAVAILABLE"
      [] status >= 300 /\ status < 400 -> "LLM_POLICY_DENIED"
      [] OTHER -> "read"

(* The body of a reply that is read: 200, or an error that is explained. *)
BodyCode(reply) ==
    CASE ~reply.bounded -> "LLM_INVALID_RESPONSE"
      [] reply.bounded /\ reply.status # 200 ->
            (CASE reply.error = "context_length_exceeded" -> "LLM_CONTEXT_LIMIT"
               [] reply.error = "unsupported_parameter" -> "LLM_CAPABILITY_MISMATCH"
               [] OTHER -> "LLM_REQUEST_INVALID")
      [] OTHER -> "ok"

(* _response: one choice of the right model that stopped by itself, usage   *)
(* within the limits, and only then the schema.                             *)
ContentCode(reply) ==
    CASE ~reply.envelope -> "LLM_INVALID_RESPONSE"
      [] reply.envelope /\ reply.finish = "length" -> "LLM_CONTEXT_LIMIT"
      [] reply.envelope /\ reply.finish \notin {"length", "stop"} -> "LLM_INVALID_RESPONSE"
      [] reply.envelope /\ reply.finish = "stop" /\ ~reply.usage -> "LLM_CONTEXT_LIMIT"
      [] OTHER -> IF reply.schema THEN "ok" ELSE "LLM_SCHEMA_VIOLATION"

ReplyCode(reply) ==
    CASE StatusCode(reply.status) # "read" -> StatusCode(reply.status)
      [] StatusCode(reply.status) = "read" /\ BodyCode(reply) # "ok" -> BodyCode(reply)
      [] OTHER -> ContentCode(reply)

(* What the transport may raise instead. *)
WireErrors == {"LLM_TIMEOUT", "LLM_INVALID_RESPONSE", "LLM_UNAVAILABLE"}

Recent(calls) == IF Len(calls) > MaxHistory THEN Tail(calls) ELSE calls

-----------------------------
(* Calls. *)

(* A scoped task closes the provider on its way out, whatever happened. *)
AfterCall(t, code) ==
    [pc |-> IF t \in Scoped THEN "exit" ELSE "ended", cancelled |-> FALSE, code |-> code]

StartProvider ==
    /\ client = "none" /\ ~closed
    /\ client' = "open"
    /\ UNCHANGED <<closed, closing, waitsFor, active, attempts, history, released, pt>>

(* generate_structured: refused when the provider is not open, or when      *)
(* _wire refuses route, purpose, prompt or size; counted when it is sent.   *)
GenerateOn(t, wire) ==
    /\ t \in Callers \cup Scoped /\ pt[t].pc = "idle"
    /\ LET open == ~closed /\ client = "open"
       IN  CASE ~open -> pt' = [pt EXCEPT ![t] = AfterCall(t, "LLM_UNAVAILABLE")]
                         /\ UNCHANGED <<active, attempts>>
             [] open /\ wire # "ok" -> pt' = [pt EXCEPT ![t] = AfterCall(t, wire)]
                         /\ UNCHANGED <<active, attempts>>
             [] OTHER -> /\ attempts < MaxCalls /\ attempts' = attempts + 1
                         /\ active' = active \cup {t}
                         /\ pt' = [pt EXCEPT ![t].pc = "exchange"]
    /\ UNCHANGED <<client, closed, closing, waitsFor, history, released>>

(* The end of a call: out of the active set, one record. *)
EndCall(t, outcome, code) ==
    /\ active' = active \ {t}
    /\ history' = Recent(Append(history, [outcome |-> outcome, code |-> code]))
    /\ pt' = [pt EXCEPT ![t] = AfterCall(t, IF outcome = "cancelled" THEN "cancelled" ELSE code)]
    /\ UNCHANGED <<client, closed, closing, waitsFor, attempts, released>>

Replied(t, reply) ==
    /\ pt[t].pc = "exchange" /\ ~pt[t].cancelled
    /\ EndCall(t, IF ReplyCode(reply) = "ok" THEN "success" ELSE "failed", ReplyCode(reply))

WireFails(t, code) ==
    /\ pt[t].pc = "exchange" /\ ~pt[t].cancelled
    /\ EndCall(t, "failed", code)

(* CancelledError at the await of the exchange; the response is closed      *)
(* before it leaves the call.                                               *)
Unwinds(t) ==
    /\ pt[t].pc = "exchange" /\ pt[t].cancelled
    /\ EndCall(t, "cancelled", Nothing)

CancelCaller(t) ==
    /\ pt[t].pc = "exchange" /\ ~pt[t].cancelled
    /\ pt' = [pt EXCEPT ![t].cancelled = TRUE]
    /\ UNCHANGED <<client, closed, closing, waitsFor, active, attempts, history, released>>

-----------------------------
(* Closing. *)

(* aclose: one close task for everybody who closes, awaited behind a shield. *)
CloseProvider(t) ==
    /\ \/ t \in Closers /\ pt[t].pc = "idle"
       \/ t \in Scoped /\ pt[t].pc = "exit"
    /\ closed' = TRUE
    /\ closing' = IF closing = "none" THEN "scheduled" ELSE closing
    /\ pt' = [pt EXCEPT ![t].pc = "closing"]
    /\ UNCHANGED <<client, waitsFor, active, attempts, history, released>>

(* Slip: the active calls are cancelled and not awaited. *)
GatheredBy_Nobody(tasks) == {}

(* What gather waits for: the tasks that were active. *)
GatheredBy(tasks) == tasks

Shutdown ==
    /\ closing = "scheduled" /\ closing' = "gathering"
    /\ waitsFor' = GatheredBy(active)
    /\ pt' = [t \in ProviderTasks |-> IF t \in active THEN [pt[t] EXCEPT !.cancelled = TRUE]
                                      ELSE pt[t]]
    /\ UNCHANGED <<client, closed, active, attempts, history, released>>

(* All of them have ended, as tasks; the client or the transport is closed, *)
(* which may fail.                                                          *)
Release ==
    /\ closing = "gathering" /\ \A t \in waitsFor : pt[t].pc = "ended"
    /\ client' = "closed" /\ released' = released + 1
    /\ closing' \in {"done", "failed"}
    /\ UNCHANGED <<closed, waitsFor, active, attempts, history, pt>>

CloseReturns(t) ==
    /\ pt[t].pc = "closing" /\ closing \in {"done", "failed"}
    /\ pt' = [pt EXCEPT ![t] = [pc |-> "ended", cancelled |-> FALSE,
                 code |-> IF closing = "failed" THEN "LLM_UNAVAILABLE" ELSE pt[t].code]]
    /\ UNCHANGED <<client, closed, closing, waitsFor, active, attempts, history, released>>

ProviderStep(t) ==
    \/ GenerateOn(t, "ok") \/ GenerateOn(t, "LLM_CONTEXT_LIMIT")
    \/ \E reply \in Replies : Replied(t, reply)
    \/ \E code \in WireErrors : WireFails(t, code)
    \/ Unwinds(t) \/ CancelCaller(t)
    \/ CloseProvider(t) \/ CloseReturns(t)

ProviderNext ==
    \/ StartProvider \/ Shutdown \/ Release
    \/ \E t \in ProviderTasks : ProviderStep(t)

(* asyncio runs every task that is ready; a transport that is cancelled     *)
(* unwinds.  Nobody has to call, and nothing has to answer.                 *)
ProviderFairness ==
    /\ WF_providerVars(Shutdown) /\ WF_providerVars(Release)
    /\ \A t \in ProviderTasks : WF_providerVars(Unwinds(t) \/ CloseReturns(t))
    /\ \A t \in Scoped : WF_providerVars(CloseProvider(t))

ProviderSpec == ProviderInit /\ [][ProviderNext]_providerVars /\ ProviderFairness

-----------------------------
(* Properties. *)

(* When the client is released nothing is on the wire any more and nothing  *)
(* can get on it; it is released once however many tasks close, and every   *)
(* call that was counted has left its record or is under way (aclose,       *)
(* _shutdown, the finally of generate_structured).                          *)
ReleasedAtRest ==
    /\ released <= 1
    /\ released = 1 => closed /\ active = {} /\ \A t \in ProviderTasks : pt[t].pc # "exchange"
    /\ Len(history) + Cardinality(active) <= attempts
    /\ attempts <= MaxHistory => Len(history) + Cardinality(active) = attempts

(* "Closing cancels the active calls, waits for the cleanup and closes      *)
(* client and transport exactly once" (docs/llm.md): a provider that is     *)
(* being closed is released.                                                *)
CloseReleases == closed ~> released = 1
=============================================================================
