----------------------------- MODULE MCPipeline -----------------------------
(***************************************************************************)
(* Lease holders for TLC: one that goes through the whole stepwise API, one *)
(* that only executes, and one that validates a plan in between.           *)
(***************************************************************************)
EXTENDS Pipeline

CONSTANTS c1, c2

Route == <<"inspect_source", "analyze_structure", "create_parse_plan", "validate_parse_plan",
           "parse_semantically", "profile_records", "inspect_database",
           "create_mapping_plan", "validate_mapping_plan", "execute">>

Short == <<"inspect_source", "parse_semantically", "execute">>

Never == [c \in Clients |-> FALSE]

(* Two clients execute, one of them dry. *)
Both    == [c \in Clients |-> IF c = c1 THEN Short ELSE <<"execute">>]
OneDry  == [c \in Clients |-> c = c1]

(* The second one validates a plan. *)
Visited == [c \in Clients |-> IF c = c1 THEN Short ELSE <<"validate_mapping_plan">>]

(* One client makes every call, the other none. *)
Single == [c \in Clients |-> IF c = c1 THEN Route ELSE <<>>]

(* The second one makes a mapping plan for a catalog of its own. *)
Mapped == [c \in Clients |-> IF c = c1 THEN Short ELSE <<"create_mapping_plan">>]

Setting(plan, dry, disputes, lost, begin) ==
    [plan |-> plan, dry |-> dry, disputes |-> disputes, lostAfter |-> lost, losesBegin |-> begin]

All ==
    {Setting(Single, Never, {c1}, {"COMMITTED", "EXECUTING"}, FALSE),
     Setting(Both, OneDry, {}, {"COMMITTED", "EXECUTING"}, TRUE),
     Setting(Visited, Never, {}, {"COMMITTED", "EXECUTING"}, FALSE)}

Disputed       == {Setting(Mapped, Never, {c2}, {}, FALSE)}
QuarantineLost == {Setting(Single, Never, {}, {"QUARANTINED"}, FALSE)}
BeginLost      == {Setting(Single, Never, {}, {}, TRUE)}
=============================================================================
