------------------------------ MODULE AuditLog ------------------------------
(***************************************************************************)
(* What the audit chain promises: an append-only log of the security       *)
(* events of one run, each event once, in the order of their time, all     *)
(* under one policy, and about one target once a target was named.         *)
(***************************************************************************)
EXTENDS Integers, Sequences

CONSTANTS
    Ids,         \* event_id values
    Policies,    \* policy_fingerprint values
    TargetIds,     \* target_id values
    Null,        \* no target yet (None)
    Maximum,     \* max_events
    Events       \* the events that may be logged

(* SecurityAuditEvent: the fields the chain decides on, and the rest of the *)
(* body, of which only equality matters.                                    *)
Event == [event_id : Ids, occurred_at : Nat, target_id : TargetIds \cup {Null},
          policy : Policies, body : Nat]

VARIABLE log   \* a sequence of events

(* Whether event e may directly follow event d. *)
Follows(d, e) ==
    /\ d.occurred_at <= e.occurred_at
    /\ d.target_id = Null \/ d.target_id = e.target_id
    /\ d.policy = e.policy

Log(e) ==
    /\ Len(log) < Maximum
    /\ \A i \in 1..Len(log) : log[i].event_id # e.event_id
    /\ log # <<>> => Follows(log[Len(log)], e)
    /\ log' = Append(log, e)

Init == log = <<>>

Next == \E e \in Events : Log(e)

Spec == Init /\ [][Next]_log
=============================================================================
