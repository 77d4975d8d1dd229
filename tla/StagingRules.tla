---------------------------- MODULE StagingRules ----------------------------
(***************************************************************************)
(* The run record of the staging store and the rules on it, as operators   *)
(* without state: stores/_core.py computes them inside one atomic call.    *)
(* Staging uses them for the life of a run, Loader for the runs it loads.  *)
(***************************************************************************)
EXTENDS Integers, Sequences, FiniteSets

CONSTANTS
    RecordIds,       \* record_id values
    Kinds,           \* StagingRetentionPolicy.retain_kinds
    SuccessSeconds, FailureSeconds, MaxRunSeconds,   \* StagingRetentionPolicy
    MaxBatches, MaxRecords,                          \* StagingLimits
    None             \* Python's None

(* StagingRunStatus *)
Status == {"open", "sealed", "executing", "committed", "quarantined",
           "rolled_back", "failed", "cancelled", "unknown", "expired"}

Reference == [kind : Kinds, retained_until : Nat]

(* context.normalized_fingerprint hashes the whole normalized dataset; it is *)
(* represented by what it hashes, the record ids of every batch in order.    *)
StagingRunSpec ==
    [expires_at : Nat, normalized : Seq(Seq(RecordIds)),
     batch_count : Nat \ {0}, record_count : Nat, references : SUBSET Reference]

(* A NormalizedBatch; only the terminal one carries the dataset manifest. *)
Batch == [batch_index : Nat, is_last : BOOLEAN, ids : Seq(RecordIds),
          manifest : Seq(Seq(RecordIds)) \cup {None}]

(* StagingRun.  spec_fingerprint and sealed_fingerprint are represented by  *)
(* the values that are hashed.                                              *)
StagingRun ==
    [spec : StagingRunSpec, spec_fingerprint : StagingRunSpec, status : Status, revision : Nat,
     batch_count : Nat, record_count : Nat,
     sealed_fingerprint : Seq(Seq(RecordIds)) \cup {None},
     cleanup_after : Nat \cup {None}, purged : BOOLEAN]

ASSUME RetentionAssumption ==
    /\ SuccessSeconds \in Nat /\ FailureSeconds \in Nat
    /\ MaxRunSeconds \in Nat \ {0}
    /\ MaxBatches \in Nat /\ MaxRecords \in Nat

ASSUME NoneAssumption ==
    /\ None \notin Nat
    /\ None \notin StagingRun
    /\ None \notin Seq(Seq(RecordIds))

-----------------------------
(* The rules of stores/_core.py, as operators on one run. *)

(* Slip: the shorter of the two intervals. *)
Longest_Shorter ==
    IF SuccessSeconds >= FailureSeconds THEN FailureSeconds ELSE SuccessSeconds

Longest == IF SuccessSeconds >= FailureSeconds THEN SuccessSeconds ELSE FailureSeconds

(* begin: what is checked before the store is opened. *)
SpecAccepted(sp) ==
    /\ sp.record_count <= MaxRecords /\ sp.batch_count <= MaxBatches
    /\ {ref.kind : ref \in sp.references} = Kinds
    /\ \A ref \in sp.references : ref.retained_until >= sp.expires_at + Longest

NewRun(sp) ==
    [spec |-> sp, spec_fingerprint |-> sp, status |-> "open", revision |-> 0,
     batch_count |-> 0, record_count |-> 0, sealed_fingerprint |-> None,
     cleanup_after |-> None, purged |-> FALSE]

(* What stage and seal make of the run row. *)
Staged(rn, n) ==
    [rn EXCEPT !.revision = rn.revision + 1, !.batch_count = rn.batch_count + 1,
               !.record_count = rn.record_count + n]

Sealed(rn, summaries) ==
    [rn EXCEPT !.status = "sealed", !.revision = rn.revision + 1,
               !.sealed_fingerprint = summaries]

(* The table "allowed" of transition. *)
Allowed(s) ==
    CASE s = "open"      -> {"failed", "cancelled"}
      [] s = "sealed"    -> {"executing", "failed", "cancelled"}
      [] s = "executing" -> {"committed", "quarantined", "rolled_back", "failed",
                             "cancelled", "unknown"}
      [] s = "unknown"   -> {"committed", "quarantined", "rolled_back"}
      [] OTHER           -> {}

(* Slip: a run that already has the status is answered like a success. *)
CanTransition_Idempotent(rn, rev, s, t) ==
    /\ rn.revision = rev \/ rn.status = s
    /\ s \in Allowed(rn.status) \cup {rn.status} /\ ~rn.purged
    /\ s = "executing" => t < rn.spec.expires_at

(* Whether transition(expected_revision = rev, status = s) succeeds at time t. *)
CanTransition(rn, rev, s, t) ==
    /\ rn.revision = rev
    /\ s \in Allowed(rn.status) /\ ~rn.purged
    /\ s = "executing" => t < rn.spec.expires_at

(* Slip: UNKNOWN is given a retention like every other outcome. *)
CleanupAfter_Unknown(s, t) ==
    IF s = "executing" THEN None
    ELSE t + (IF s = "committed" THEN SuccessSeconds ELSE FailureSeconds)

CleanupAfter(s, t) ==
    IF s \in {"executing", "unknown"} THEN None
    ELSE t + (IF s = "committed" THEN SuccessSeconds ELSE FailureSeconds)

(* Slip: the revision is not advanced. *)
Transitioned_SameRevision(rn, s, t) ==
    [rn EXCEPT !.status = s, !.cleanup_after = CleanupAfter(s, t)]

Transitioned(rn, s, t) ==
    [rn EXCEPT !.status = s, !.revision = rn.revision + 1,
               !.cleanup_after = CleanupAfter(s, t)]

(* First half of cleanup: an abandoned run expires. *)
Overdue(rn, t) == rn.status \in {"open", "sealed"} /\ t >= rn.spec.expires_at

Expired(rn, t) ==
    IF Overdue(rn, t)
    THEN [rn EXCEPT !.status = "expired", !.revision = rn.revision + 1,
                    !.cleanup_after = rn.spec.expires_at + FailureSeconds]
    ELSE rn

(* Second half: retention is over and only a tombstone is kept. *)
PurgeDue(rn, t) == ~rn.purged /\ rn.cleanup_after # None /\ t >= rn.cleanup_after

Tombstone(rn) ==
    [rn EXCEPT !.spec = [rn.spec EXCEPT !.references = {}], !.purged = TRUE,
               !.revision = rn.revision + 1]

(* What read_records and read_batches answer to; they change nothing. *)
RecordsReadable(rn, t) ==
    /\ ~rn.purged /\ rn.status # "open"
    /\ rn.cleanup_after # None => t < rn.cleanup_after
    /\ \A ref \in rn.spec.references : t < ref.retained_until

BatchesReadable(rn, t) ==
    ~rn.purged /\ (rn.cleanup_after # None => t < rn.cleanup_after)
=============================================================================
