------------------------------ MODULE Routing ------------------------------
(***************************************************************************)
(* The rules of llm/router.py and llm/run.py without their awaits: which   *)
(* deployments a request may reach, what an attempt reserves, what its     *)
(* record says.  A fingerprint is represented by what it hashes.           *)
(***************************************************************************)
EXTENDS Resources

CONSTANTS
    Deployments,     \* concrete providers
    Purposes         \* LLM purposes

Classifications == {"public", "internal", "confidential", "restricted"}
Environments == {"unknown", "local", "cloud", "disabled"}
Modes == {"fixed", "no_llm", "local_only", "privacy_first", "fallback"}

LLMErrorCodes ==
    {"LLM_TIMEOUT", "LLM_RATE_LIMIT", "LLM_UNAVAILABLE", "LLM_INVALID_RESPONSE",
     "LLM_REQUEST_INVALID", "LLM_CAPABILITY_MISMATCH", "LLM_CONTEXT_LIMIT",
     "LLM_POLICY_DENIED", "LLM_AUTHENTICATION_FAILED", "LLM_SCHEMA_VIOLATION",
     "LLM_BUDGET_EXCEEDED", "LLM_UNSAFE_CONTENT", "LLM_SECURITY_REVIEW_REQUIRED",
     "LLM_UNKNOWN_SOURCE_REFERENCE", "LLM_SCRIPT_EXHAUSTED", "LLM_SCRIPT_MISMATCH"}

Transient == {"LLM_TIMEOUT", "LLM_RATE_LIMIT", "LLM_UNAVAILABLE"}

TokenLimit == Nat \cup {None}

ProviderCapabilities ==
    [environment : Environments, tool_calling : BOOLEAN, purposes : SUBSET Purposes,
     input : TokenLimit, output : TokenLimit, window : TokenLimit]

(* validate_purposes: what a deployment may declare. *)
CapabilitiesFit(caps) ==
    IF caps.environment = "disabled"
      THEN caps.purposes = {} /\ ~caps.tool_calling
           /\ {caps.input, caps.output, caps.window} = {None}
      ELSE /\ caps.purposes # {}
           /\ caps.window # None =>
                 \A n \in {caps.input, caps.output} \ {None} : n <= caps.window

LLMRoutePolicy == [deployment : Deployments, capabilities : ProviderCapabilities,
                   allowed : SUBSET Classifications]

LLMRoutingPolicy ==
    [mode : Modes, routes : Seq(LLMRoutePolicy),
     max_calls : Nat, max_tokens : Nat, max_time : Nat]

(* The validators of LLMRoutePolicy and LLMRoutingPolicy. *)
PolicyFits(policy) ==
    /\ policy.mode = "no_llm" => policy.routes = <<>>
    /\ policy.mode # "no_llm" => Len(policy.routes) > 0
    /\ policy.mode = "fixed" => Len(policy.routes) = 1
    /\ \A i, j \in DOMAIN policy.routes :
          i # j => policy.routes[i].capabilities # policy.routes[j].capabilities
    /\ \A i \in DOMAIN policy.routes : policy.routes[i].allowed # {}

(* LLMRequest with its SecurityApproval: `approved` says whether run, policy *)
(* and payload are those the report was made for.                           *)
LLMRequest ==
    [classification : Classifications, purpose : Purposes, local_only : BOOLEAN,
     approved : BOOLEAN]

-----------------------------
(* Where a request may go. *)

(* enforce_security_route: evidence only narrows the route. *)
SecurityRouteAllows(req, caps) ==
    /\ caps.environment \in {"local", "cloud"}
    /\ ~caps.tool_calling
    /\ req.classification = "restricted" \/ req.local_only => caps.environment = "local"

PolicyAllows(policy, route, req) ==
    LET here == route.capabilities.environment = "local"
    IN  /\ req.classification \in route.allowed
        /\ policy.mode = "local_only" => here
        /\ policy.mode = "privacy_first"
             /\ req.classification \in {"confidential", "restricted"} => here

KnownLimits(caps) == None \notin {caps.input, caps.output, caps.window}

(* _candidates: the routes a request may take, and those of them that fit. *)
Permitted(policy, req) ==
    {i \in DOMAIN policy.routes : /\ SecurityRouteAllows(req, policy.routes[i].capabilities)
                                  /\ PolicyAllows(policy, policy.routes[i], req)}

Candidates(policy, req) ==
    {i \in Permitted(policy, req) :
        LET caps == policy.routes[i].capabilities
        IN  req.purpose \in caps.purposes /\ KnownLimits(caps)}

(* They are tried in the order of the policy, local ones first when privacy *)
(* is.                                                                      *)
ComesBefore(policy, i, j) ==
    LET Local(k) == policy.routes[k].capabilities.environment = "local"
    IN  IF policy.mode = "privacy_first" /\ Local(i) # Local(j) THEN Local(i) ELSE i < j

NextRoute(policy, todo) ==
    CHOOSE i \in todo : \A j \in todo \ {i} : ComesBefore(policy, i, j)

(* Why nothing is asked at all. *)
RefusedBefore(policy, req, busy) ==
    CASE policy.mode = "no_llm" \/ ~req.approved -> "LLM_POLICY_DENIED"
      [] policy.mode # "no_llm" /\ req.approved /\ busy -> "LLM_BUDGET_EXCEEDED"
      [] policy.mode # "no_llm" /\ req.approved /\ ~busy /\ Permitted(policy, req) = {} ->
            "LLM_POLICY_DENIED"
      [] OTHER -> IF Candidates(policy, req) = {} THEN "LLM_CAPABILITY_MISMATCH" ELSE "ok"

Allowance(caps) == caps.input + caps.output

-----------------------------
(* One attempt. *)

(* LLMCallRecord; `sent` is the environment the request really went to, a   *)
(* history of the model.                                                    *)
LLMCallRecord ==
    [deployment : Deployments, request : LLMRequest, sent : Environments,
     outcome : {"success", "failed", "cancelled"}, error_code : LLMErrorCodes \cup {None},
     fallback_reason : LLMErrorCodes \cup {None}, reserved : Nat]

(* _validate_outcome. *)
RecordFits(rec) == (rec.outcome = "failed") <=> (rec.error_code # None)

(* call_record. *)
CallRecord(a, answered, error) ==
    [deployment |-> a.deployment, request |-> a.request, sent |-> a.sent,
     outcome |-> CASE answered -> "success"
                   [] ~answered /\ error # None -> "failed"
                   [] OTHER -> "cancelled",
     error_code |-> error, fallback_reason |-> a.previous, reserved |-> a.reserved]

(* Whether the next candidate is tried after a failed attempt. *)
FallsBack(policy, error, rest) ==
    policy.mode # "fixed" /\ error \in Transient /\ rest # {}
=============================================================================
