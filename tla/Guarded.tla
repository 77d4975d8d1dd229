------------------------------ MODULE Guarded ------------------------------
(***************************************************************************)
(* One SecuritySession and the adapters that are charged to it: tasks that *)
(* ask a PolicyAwareLLMRouter or an LLMRunProvider, a database adapter in  *)
(* a thread of its own, one snapshot of a source and one parser lease.     *)
(* Everything between two awaits is one step; the state of the session is  *)
(* read again after every await, because other tasks ran meanwhile.        *)
(***************************************************************************)
EXTENDS Routing

CONSTANTS
    Setups,          \* which users a run has, with which policy
    RunTasks,        \* the tasks that call the LLMRunProvider
    RunDeployment, RunCapabilities,   \* its provider
    Redeployed,      \* capabilities a deployment may turn to
    Answers,         \* what a provider may say
    Source, Formats, \* length of the source; formats a probe may find
    MaxClock         \* bound of the clock

(* The contracts of a policy, of capabilities and of a request; the router  *)
(* is built with one deployment for each route.                             *)
ASSUME GuardedAssumption ==
    /\ None \notin Nat /\ None \notin ResourceEvent
    /\ None \notin LLMErrorCodes \cup ResourceErrorCode \cup {"ok", "cancelled"}
    /\ Source \in Nat /\ RunCapabilities \in ProviderCapabilities /\ RunDeployment \in Deployments
    /\ \A answer \in Answers : answer.code \in LLMErrorCodes \cup {"ok"}
    /\ \A s \in Setups :
          /\ s.policy \in LLMRoutingPolicy /\ PolicyFits(s.policy) /\ s.requests \subseteq LLMRequest
          /\ \A i, j \in DOMAIN s.policy.routes :
                i # j => s.policy.routes[i].deployment # s.policy.routes[j].deployment

VARIABLES
    setup, now, wentBack, ses, prov,
    ad,              \* [start, busy, reserved, count, calls] of an LLM adapter
    task,            \* the LLM tasks
    db, snap, lease  \* the other users of the session

userVars == <<db, snap, lease>>
guardedVars == <<setup, now, wentBack, ses, prov, ad, task, db, snap, lease>>

policy == setup.policy
AdapterOf(t) == IF t \in RunTasks THEN "run" ELSE "router"

NewAdapter == [start |-> 0, busy |-> FALSE, reserved |-> 0, count |-> 0, calls |-> <<>>]
NewTask == [pc |-> "idle", at |-> None, todo |-> {}, inner |-> 0, outer |-> 0,
            code |-> None]

GuardedInit ==
    /\ setup \in Setups
    /\ now = 0 /\ wentBack = FALSE
    /\ ses = NewSecuritySession(0)
    /\ prov = [d \in Deployments |->
                 IF d = RunDeployment THEN RunCapabilities
                 ELSE IF \E i \in DOMAIN policy.routes : policy.routes[i].deployment = d
                 THEN (CHOOSE r \in {policy.routes[i] : i \in DOMAIN policy.routes} :
                          r.deployment = d).capabilities
                 ELSE Redeployed]
    /\ ad = [a \in {"router", "run"} |-> NewAdapter]
    /\ task = [t \in setup.tasks |-> NewTask]
    /\ db = [pc |-> "idle", asked |-> 0]
    /\ snap = [pc |-> "idle", got |-> 0, expected |-> None, kind |-> "file", outer |-> 0]
    /\ lease = [pc |-> "idle", batches |-> 0, outer |-> 0]

-----------------------------
(* The attempts of an LLM adapter. *)

Try(s, a, verdict, at) == [ses |-> s, ad |-> a, verdict |-> verdict, at |-> at]
Refuse(s, a, code) == Try(s, [a EXCEPT !.busy = FALSE], code, None)

(* Slip: the deployment is taken for what it was when the router was built. *)
AsApproved_Snapshot(d, caps) == TRUE

(* The capabilities of the deployment are still those of the policy. *)
AsApproved(d, caps) == prov[d] = caps

OverBudget(a, cost) ==
    a.count >= policy.max_calls \/ a.reserved + cost > policy.max_tokens

(* The reservation, which is never given back. *)
Charged(a, cost) ==
    [a EXCEPT !.busy = TRUE, !.count = @ + 1, !.reserved = @ + cost]

InFlight(d, req, previous, cost) ==
    [deployment |-> d, request |-> req, sent |-> prov[d].environment,
     previous |-> previous, reserved |-> cost]

(* _reserve and the start of an attempt: budget of the adapter, deadline of *)
(* the run, budget of the run, in this order.                               *)
Reserve(s, a, d, caps, req, previous) ==
    LET cost == Allowance(caps)
        time == Remaining(s, "llm_time_ms", now)
        all  == ReservedLLM(time.ses, cost, now)
    IN  CASE OverBudget(a, cost) -> Refuse(s, a, "LLM_BUDGET_EXCEEDED")
          [] ~OverBudget(a, cost) /\ time.code # "ok" -> Refuse(time.ses, a, time.code)
          [] ~OverBudget(a, cost) /\ time.code = "ok" /\ now >= a.start + policy.max_time ->
                Refuse(time.ses, a, "LLM_BUDGET_EXCEEDED")
          [] OTHER -> IF all.code # "ok" THEN Refuse(all.ses, a, all.code)
                      ELSE Try(all.ses, Charged(a, cost), "wait",
                               InFlight(d, req, previous, cost))

(* The next candidate of _generate_structured. *)
TryRoute(s, a, req, todo, previous) ==
    LET route == policy.routes[NextRoute(policy, todo)]
    IN  IF AsApproved(route.deployment, route.capabilities)
          THEN Reserve(s, a, route.deployment, route.capabilities, req, previous)
          ELSE Refuse(s, a, "LLM_POLICY_DENIED")

(* A request that finds the router busy leaves the flag alone: it belongs   *)
(* to the request that set it.                                              *)
GenerateRouter(s, a, req) ==
    LET early == RefusedBefore(policy, req, a.busy)
    IN  IF early # "ok" THEN Try(s, a, early, None)
        ELSE TryRoute(s, a, req, Candidates(policy, req), None)

GenerateRun(s, a, req) ==
    LET caps == RunCapabilities
    IN  CASE ~AsApproved(RunDeployment, caps) \/ a.busy -> Try(s, a, "LLM_POLICY_DENIED", None)
          [] AsApproved(RunDeployment, caps) /\ ~a.busy /\ ~KnownLimits(caps) ->
                Try(s, a, "LLM_CAPABILITY_MISMATCH", None)
          [] AsApproved(RunDeployment, caps) /\ ~a.busy /\ KnownLimits(caps)
             /\ ~SecurityRouteAllows(req, caps) -> Try(s, a, "LLM_POLICY_DENIED", None)
          [] OTHER -> Reserve(s, a, RunDeployment, caps, req, None)

Generate(s, t, req) ==
    IF AdapterOf(t) = "run" THEN GenerateRun(s, ad["run"], req)
                            ELSE GenerateRouter(s, ad["router"], req)

Minimum(m, n) == IF m <= n THEN m ELSE n

(* What becomes of task t after try: it waits for a provider, or call turns *)
(* the error into the verdict of the run.                                   *)
Continue(t, try, todo) ==
    LET a == AdapterOf(t)
        outer == DeadlineOf(try.ses, "llm_time_ms", now)
        failed == AfterError(try.ses, try.verdict)
    IN  /\ ad' = [ad EXCEPT ![a] = try.ad]
        /\ IF try.verdict = "wait"
             THEN /\ ses' = try.ses
                  /\ task' = [task EXCEPT ![t] =
                        [pc |-> "waiting", at |-> try.at, todo |-> todo, outer |-> outer,
                         inner |-> Minimum(outer, try.ad.start + policy.max_time),
                         code |-> None]]
             ELSE /\ ses' = failed.ses
                  /\ task' = [task EXCEPT ![t] = [NewTask EXCEPT !.pc = "done",
                                                                !.code = failed.code]]

End(t, reply) ==
    /\ ses' = reply.ses
    /\ task' = [task EXCEPT ![t] = [NewTask EXCEPT !.pc = "done", !.code = reply.code]]

(* The finally of an attempt: it leaves one record, whatever happened. *)
Noted(a, at, answered, error) ==
    [a EXCEPT !.busy = FALSE, !.calls = Append(@, CallRecord(at, answered, error))]

-----------------------------
(* The steps of an LLM task. *)

(* generate_structured: call looks at the deadline first. *)
Ask(t, req) ==
    /\ task[t].pc = "idle" \/ (task[t].pc = "done" /\ task[t].code = "ok")
    /\ LET first == Remaining(ses, "llm_time_ms", now)
       IN  IF first.code # "ok" THEN End(t, first) /\ UNCHANGED ad
           ELSE Continue(t, Generate(first.ses, t, req),
                         IF AdapterOf(t) = "run" THEN {} ELSE Candidates(policy, req))
    /\ UNCHANGED <<setup, now, wentBack, prov, userVars>>

(* _checked_response; the run tells an overfull context from a wrong answer. *)
Verdict(t, answer) ==
    LET caps == IF AdapterOf(t) = "run" THEN RunCapabilities
                ELSE policy.routes[NextRoute(policy, task[t].todo)].capabilities
        fits == answer.bound /\ answer.input <= caps.input /\ answer.output <= caps.output
    IN  CASE answer.code # "ok" -> answer.code
          [] answer.code = "ok" /\ ~fits -> "LLM_INVALID_RESPONSE"
          [] answer.code = "ok" /\ fits /\ answer.input + answer.output > caps.window ->
                IF AdapterOf(t) = "run" THEN "LLM_CONTEXT_LIMIT" ELSE "LLM_INVALID_RESPONSE"
          [] OTHER -> "ok"

(* An answer in order is still too late when the time is over.  The router  *)
(* asks the run for the time that is left, the run provider only itself.    *)
Settled(t, verdict) ==
    LET a    == ad[AdapterOf(t)]
        over == now >= a.start + policy.max_time
        time == Remaining(ses, "llm_time_ms", now)
    IN  CASE verdict # "ok" -> Reply(ses, verdict)
          [] verdict = "ok" /\ AdapterOf(t) = "run" ->
                Reply(ses, IF over THEN "LLM_TIMEOUT" ELSE "ok")
          [] OTHER -> IF time.code = "ok" /\ over THEN Reply(time.ses, "LLM_BUDGET_EXCEEDED")
                      ELSE time

(* The error code of the record of an attempt that ended with code. *)
RecordedError(code) ==
    CASE code = "ok" -> None
      [] code \in LLMErrorCodes -> code
      [] OTHER -> "LLM_BUDGET_EXCEEDED"

(* The provider answers or fails. *)
Answered(t, answer) ==
    /\ task[t].pc = "waiting"
    /\ LET end   == Settled(t, Verdict(t, answer))
           a     == Noted(ad[AdapterOf(t)], task[t].at, end.code = "ok", RecordedError(end.code))
           rest  == task[t].todo \ {NextRoute(policy, task[t].todo)}
           again == AdapterOf(t) = "router" /\ FallsBack(policy, end.code, rest)
       IN  CASE end.code = "ok" -> /\ End(t, AfterAnswer(end.ses, "llm_time_ms", now))
                                   /\ ad' = [ad EXCEPT ![AdapterOf(t)] = a]
             [] again -> Continue(t, TryRoute(end.ses, a, task[t].at.request, rest, end.code), rest)
             [] OTHER -> Continue(t, Refuse(end.ses, a, end.code), rest)
    /\ UNCHANGED <<setup, now, wentBack, prov, userVars>>

(* asyncio.timeout of the adapter: for the router its budget is spent. *)
InnerTimeout(t) ==
    /\ task[t].pc = "waiting" /\ now >= task[t].inner
    /\ LET code == IF AdapterOf(t) = "run" THEN "LLM_TIMEOUT" ELSE "LLM_BUDGET_EXCEEDED"
       IN  Continue(t, Refuse(ses, Noted(ad[AdapterOf(t)], task[t].at, FALSE, code), code),
                    task[t].todo)
    /\ UNCHANGED <<setup, now, wentBack, prov, userVars>>

(* asyncio.timeout of call: the adapter is cancelled. *)
OuterTimeout(t) ==
    /\ task[t].pc = "waiting" /\ now >= task[t].outer
    /\ ad' = [ad EXCEPT ![AdapterOf(t)] = Noted(@, task[t].at, FALSE, None)]
    /\ End(t, AfterTimeout(ses, "llm_time_ms", now))
    /\ UNCHANGED <<setup, now, wentBack, prov, userVars>>

(* The caller is cancelled. *)
CancelTask(t) ==
    /\ task[t].pc = "waiting"
    /\ ad' = [ad EXCEPT ![AdapterOf(t)] = Noted(@, task[t].at, FALSE, None)]
    /\ End(t, AfterCancel(ses))
    /\ UNCHANGED <<setup, now, wentBack, prov, userVars>>

-----------------------------
(* The other users.  before_query takes the lock twice, and the thread of a *)
(* database adapter may be anywhere between.                                *)

llmVars == <<ad, task>>

QueryDeadline ==
    /\ "db" \in setup.users /\ db.pc = "idle"
    /\ LET time == Remaining(ses, "processing_time_ms", now)
       IN  /\ ses' = time.ses
           /\ db' = [db EXCEPT !.pc = IF time.code = "ok" THEN "reserve" ELSE "refused"]
    /\ UNCHANGED <<setup, now, wentBack, prov, llmVars, snap, lease>>

QueryReserve ==
    /\ db.pc = "reserve"
    /\ LET slot == Reserved(ses, "db_queries", 1)
       IN  /\ ses' = slot.ses
           /\ db' = IF slot.code = "ok" THEN [pc |-> "idle", asked |-> db.asked + 1]
                    ELSE [db EXCEPT !.pc = "refused"]
    /\ UNCHANGED <<setup, now, wentBack, prov, llmVars, snap, lease>>

SourceResource == IF snap.kind = "file" THEN "file_bytes" ELSE "stream_bytes"

(* One byte more than is allowed, to see a source that is too long. *)
RequestedBytes(maximum, got) == Minimum(ReadChunk, maximum - got + 1)

(* What snapshot looks at before the first read: one per session. *)
SnapshotStarts(kind, expected) ==
    LET r    == IF kind = "file" THEN "file_bytes" ELSE "stream_bytes"
        used == [ses EXCEPT !.snapshot_used = TRUE]
    IN  CASE ses.event # None -> Reply(ses, "SECURITY_RUN_CLOSED")
          [] ses.event = None /\ ses.snapshot_used -> Denied(ses, "SECURITY_INPUT_REJECTED")
          [] OTHER -> IF expected = None THEN Reply(used, "ok") ELSE Checked(used, r, expected)

(* The next read: the deadline is looked at before it. *)
SnapshotAwaits(reply, record) ==
    LET time == Remaining(reply.ses, "processing_time_ms", now)
        end  == IF reply.code = "ok" THEN time ELSE reply
    IN  /\ ses' = end.ses
        /\ snap' = IF end.code = "ok"
                     THEN [record EXCEPT !.pc = "reading",
                              !.outer = DeadlineOf(end.ses, "processing_time_ms", now)]
                     ELSE [record EXCEPT !.pc = "refused"]

SnapshotCall(kind, expected) ==
    /\ "snap" \in setup.users /\ snap.pc \in {"idle", "done"}
    /\ SnapshotAwaits(SnapshotStarts(kind, expected),
                      [pc |-> "idle", got |-> 0, expected |-> expected, kind |-> kind,
                       outer |-> 0])
    /\ UNCHANGED <<setup, now, wentBack, prov, llmVars, db, lease>>

(* The chunk is compared with the caps before it is kept; an empty one is   *)
(* the end of the source.                                                   *)
AfterChunk(s, n) ==
    LET total == snap.got + n
        wrong == snap.expected # None /\ (total > snap.expected \/ (n = 0 /\ total # snap.expected))
        size  == Checked(s, SourceResource, total)
    IN  CASE n > RequestedBytes(Limit[SourceResource], snap.got) -> Denied(s, "SECURITY_INPUT_REJECTED")
          [] n <= RequestedBytes(Limit[SourceResource], snap.got) /\ n > 0 /\ size.code # "ok" -> size
          [] OTHER -> IF wrong THEN Denied(s, "SECURITY_INPUT_REJECTED") ELSE Reply(s, "ok")

(* The transport hands out part of what is left, nothing only at its end. *)
ChunkComes(n) ==
    /\ snap.pc = "reading"
    /\ n <= Source - snap.got
    /\ n = 0 => (snap.got = Source \/ RequestedBytes(Limit[SourceResource], snap.got) = 0)
    /\ LET again == AfterAnswer(ses, "processing_time_ms", now)
           next  == IF again.code = "ok" THEN AfterChunk(again.ses, n) ELSE again
       IN  IF next.code = "ok" /\ n > 0
             THEN SnapshotAwaits(next, [snap EXCEPT !.got = @ + n])
             ELSE /\ ses' = next.ses
                  /\ snap' = [snap EXCEPT !.pc = IF next.code = "ok" THEN "done" ELSE "refused"]
    /\ UNCHANGED <<setup, now, wentBack, prov, llmVars, db, lease>>

(* _read_source: whatever the transport raises is an event without a text. *)
ReadFails ==
    /\ snap.pc = "reading"
    /\ \/ ses' = AfterError(ses, "SECURITY_OPERATION_FAILED").ses
       \/ ses' = AfterCancel(ses).ses
       \/ now >= snap.outer /\ ses' = AfterTimeout(ses, "processing_time_ms", now).ses
    /\ snap' = [snap EXCEPT !.pc = "refused"]
    /\ UNCHANGED <<setup, now, wentBack, prov, llmVars, db, lease>>

-----------------------------
(* parse: one lease per session, a call around each await of the parser and *)
(* none while the consumer works on a batch.                                *)

LeaseAwaits(reply, pc) ==
    LET time == Remaining(reply.ses, "parser_time_ms", now)
        end  == IF reply.code = "ok" THEN time ELSE reply
    IN  /\ ses' = end.ses
        /\ lease' = IF end.code = "ok"
                      THEN [lease EXCEPT !.pc = pc,
                               !.outer = DeadlineOf(end.ses, "parser_time_ms", now)]
                      ELSE [lease EXCEPT !.pc = "refused"]

(* size_bytes of the artifact is looked at against both caps. *)
LeaseStarts ==
    LET used == [ses EXCEPT !.parser_used = TRUE]
        file == Checked(used, "file_bytes", Source)
    IN  CASE ses.parser_used -> Denied(ses, "SECURITY_INPUT_REJECTED")
          [] ~ses.parser_used /\ file.code # "ok" -> file
          [] OTHER -> Checked(used, "stream_bytes", Source)

LeaseOpen ==
    /\ "lease" \in setup.users /\ lease.pc \in {"idle", "closed"}
    /\ LeaseAwaits(LeaseStarts, "selecting")
    /\ UNCHANGED <<setup, now, wentBack, prov, llmVars, db, snap>>

LeaseSelected(format) ==
    /\ lease.pc = "selecting"
    /\ LET again == AfterAnswer(ses, "parser_time_ms", now)
           next  == IF again.code = "ok" /\ format \notin AllowedFormats
                      THEN Denied(again.ses, "SECURITY_INPUT_REJECTED") ELSE again
       IN  /\ ses' = next.ses
           /\ lease' = [lease EXCEPT !.pc = IF next.code = "ok" THEN "held" ELSE "refused"]
    /\ UNCHANGED <<setup, now, wentBack, prov, llmVars, db, snap>>

LeasePull ==
    /\ lease.pc = "held" /\ LeaseAwaits(Reply(ses, "ok"), "pulling")
    /\ UNCHANGED <<setup, now, wentBack, prov, llmVars, db, snap>>

(* A batch, or the end of the stream. *)
LeaseBatch(last) ==
    /\ lease.pc = "pulling" /\ (~last => lease.batches < Limit["chunks"])
    /\ LET again == AfterAnswer(ses, "parser_time_ms", now)
       IN  /\ ses' = IF last THEN ses ELSE again.ses
           /\ lease' = CASE last -> [lease EXCEPT !.pc = "closed"]
                         [] ~last /\ again.code = "ok" ->
                               [lease EXCEPT !.pc = "held", !.batches = @ + 1]
                         [] OTHER -> [lease EXCEPT !.pc = "refused"]
    /\ UNCHANGED <<setup, now, wentBack, prov, llmVars, db, snap>>

LeaseFails ==
    /\ lease.pc \in {"selecting", "pulling"}
    /\ \/ \E code \in {"PARSER_FORMAT_CONFLICT", "SECURITY_LIMIT_EXCEEDED", "PARSER_FAILED"} :
             ses' = AfterError(ses, code).ses
       \/ ses' = AfterCancel(ses).ses
       \/ now >= lease.outer /\ ses' = AfterTimeout(ses, "parser_time_ms", now).ses
    /\ lease' = [lease EXCEPT !.pc = "refused"]
    /\ UNCHANGED <<setup, now, wentBack, prov, llmVars, db, snap>>

(* The consumer leaves early, or is cancelled while it holds a batch. *)
LeaseLeft(cancelled) ==
    /\ lease.pc = "held"
    /\ ses' = IF cancelled THEN AfterCancel(ses).ses ELSE ses
    /\ lease' = [lease EXCEPT !.pc = "closed"]
    /\ UNCHANGED <<setup, now, wentBack, prov, llmVars, db, snap>>

-----------------------------
(* The world. *)

Tick ==
    /\ now < MaxClock /\ now' = now + 1
    /\ UNCHANGED <<setup, wentBack, ses, prov, llmVars, userVars>>

(* The monotonic clock of the host is not one, once. *)
StepBack ==
    /\ setup.clock_steps /\ ~wentBack /\ now > 0
    /\ now' = now - 1 /\ wentBack' = TRUE
    /\ UNCHANGED <<setup, ses, prov, llmVars, userVars>>

(* A deployment turns into another one behind the same handle. *)
Redeploy(d) ==
    /\ setup.redeploys /\ prov[d] # Redeployed
    /\ prov' = [prov EXCEPT ![d] = Redeployed]
    /\ UNCHANGED <<setup, now, wentBack, ses, llmVars, userVars>>

LLMStep(t) ==
    \/ \E req \in setup.requests : Ask(t, req)
    \/ \E answer \in Answers : Answered(t, answer)
    \/ InnerTimeout(t) \/ OuterTimeout(t) \/ CancelTask(t)

UserStep ==
    \/ QueryDeadline \/ QueryReserve
    \/ \E kind \in {"file", "stream"}, expected \in {None, Source, Source + 1} :
          SnapshotCall(kind, expected)
    \/ \E n \in 0..(ReadChunk + 1) : ChunkComes(n)
    \/ ReadFails
    \/ LeaseOpen \/ LeasePull \/ LeaseFails
    \/ \E format \in Formats : LeaseSelected(format)
    \/ \E b \in BOOLEAN : LeaseBatch(b) \/ LeaseLeft(b)

GuardedNext ==
    \/ \E t \in setup.tasks : LLMStep(t)
    \/ UserStep
    \/ Tick \/ StepBack
    \/ \E d \in Deployments : Redeploy(d)

GuardedSpec == GuardedInit /\ [][GuardedNext]_guardedVars

-----------------------------
(* Properties. *)

RECORDS_OF(a) == {ad[a].calls[i] : i \in DOMAIN ad[a].calls}
Waiting(a) == {t \in setup.tasks : task[t].pc = "waiting" /\ AdapterOf(t) = a}
InFlightOf(a) == {task[t].at : t \in Waiting(a)}

(* Every request that left the process, answered or not, went to an         *)
(* environment its class, its injection report and the mode of the policy   *)
(* permit - judged by where the deployment was when the request was sent,   *)
(* not by what the router remembers of it (llm/router.py, _candidates,      *)
(* enforce_security_route and the second look at the capabilities).         *)
EgressAllowed ==
    /\ \A r \in RECORDS_OF("router") \cup InFlightOf("router") :
          \E i \in DOMAIN policy.routes :
             LET route == policy.routes[i]
                 there == [route.capabilities EXCEPT !.environment = r.sent]
             IN  /\ route.deployment = r.deployment
                 /\ SecurityRouteAllows(r.request, there)
                 /\ PolicyAllows(policy, [route EXCEPT !.capabilities = there], r.request)
    /\ \A r \in RECORDS_OF("run") \cup InFlightOf("run") :
          SecurityRouteAllows(r.request, [RunCapabilities EXCEPT !.environment = r.sent])

SumReserved(calls) ==
    LET upTo[i \in 0..Len(calls)] == IF i = 0 THEN 0 ELSE upTo[i - 1] + calls[i].reserved
    IN  upTo[Len(calls)]

InFlightCost(a) ==
    IF Waiting(a) = {} THEN 0 ELSE task[CHOOSE t \in Waiting(a) : TRUE].at.reserved

(* What the session counts is exactly what its adapters have attempted: one *)
(* call and the whole allowance for every record and every request in       *)
(* flight, nothing for a refused one, nothing given back after a failure,   *)
(* and never more than the limits of the run and of the policy, however     *)
(* many adapters reserve at once (session.py reserve_llm, router.py         *)
(* _reserve).  A request in flight keeps its adapter busy.                  *)
ChargedExactly ==
    LET calls(a) == Len(ad[a].calls) + Cardinality(Waiting(a))
        tokens(a) == SumReserved(ad[a].calls) + InFlightCost(a)
    IN  /\ ses.counts["llm_calls"] = calls("router") + calls("run")
        /\ ses.counts["llm_tokens"] = tokens("router") + tokens("run")
        /\ \A r \in CountedResource : ses.counts[r] <= Limit[r]
        /\ \A a \in {"router", "run"} :
              /\ ad[a].reserved = tokens(a) /\ tokens(a) <= policy.max_tokens
              /\ calls(a) <= policy.max_calls
              /\ ad[a].busy <=> Waiting(a) # {}
              /\ Cardinality(Waiting(a)) <= 1

(* The records explain every attempt: a fallback names the error of the     *)
(* attempt before, which was of the same request, worth a fallback and made *)
(* to another deployment; a fixed route has none (router.py, the loop of    *)
(* _generate_structured; LLMCallRecord._validate_outcome).                  *)
RecordsExplain ==
    \A a \in {"router", "run"} : \A i \in DOMAIN ad[a].calls :
       LET r == ad[a].calls[i]
           before == ad[a].calls[i - 1]
       IN  /\ RecordFits(r)
           /\ r.fallback_reason # None =>
                 /\ i > 1 /\ before.error_code = r.fallback_reason
                 /\ r.fallback_reason \in Transient /\ policy.mode # "fixed"
                 /\ before.request = r.request /\ before.deployment # r.deployment

(* Nothing is given out late: a step in which a task gets its answer, the   *)
(* parser lease a batch or a caller its snapshot finds the run open and     *)
(* within its time, whatever closed it while the answer was awaited         *)
(* (session.py call, the second remaining_seconds).                         *)
GivenInTime ==
    [][ (\/ \E t \in setup.tasks : task[t].pc = "waiting" /\ task'[t].code = "ok"
         \/ lease.pc \in {"selecting", "pulling"} /\ lease'.pc = "held"
         \/ snap.pc = "reading" /\ snap'.pc = "done")
        => ses'.event = None /\ now < ses.start + Limit["processing_time_ms"]
      ]_guardedVars

(* A snapshot is the whole source and fits the cap: a source that is longer *)
(* than the cap by one byte is refused, never cut off (source.py snapshot). *)
SnapshotIsWhole ==
    /\ snap.pc = "done" => /\ snap.got = Source
                           /\ snap.expected \in {None, Source}
    /\ snap.got <= Limit[SourceResource]

(* A run has one verdict: the first thing that went wrong.  Every task that *)
(* call failed was told that, or that the run is closed, or - when it was   *)
(* the one whose own error closed it - its own error; and a run nobody was  *)
(* failed in is open (session.py _record, call).                            *)
OneVerdict ==
    \A t \in setup.tasks :
       LET code == task[t].code
       IN  task[t].pc = "done" /\ code # "ok" =>
             /\ ses.event # None
             /\ \/ code \in {ses.event.code, "SECURITY_RUN_CLOSED", "cancelled"}
                \/ code \in LLMErrorCodes /\ ses.event.code = "SECURITY_OPERATION_FAILED"

(* The books of a run: what it counted, what its records say, its verdict - *)
(* and the snapshot, which the bytes are counted for, is the whole source   *)
(* (security/session.py, llm/run.py, security/source.py).                   *)
BooksAreTrue == ChargedExactly /\ RecordsExplain /\ OneVerdict /\ SnapshotIsWhole
=============================================================================
