------------------------------- MODULE Staging -------------------------------
(***************************************************************************)
(* The staging store: lifecycle of a staging run from begin to tombstone.  *)
(*                                                                         *)
(* stores/_core.py holds every rule as a pure function from a State to a   *)
(* State; an adapter (stores/postgresql.py, stores/memory.py) runs it as   *)
(* one atomic read-modify-write per call, under a per-run advisory lock or *)
(* an asyncio lock.  One action below is therefore one whole call.  A call *)
(* that raises StagingError leaves the store as it was, so an error path   *)
(* is an action that is not enabled.                                       *)
(*                                                                         *)
(* What is not atomic is the caller: between two calls of one client any   *)
(* number of calls of the others and any amount of time may pass, and the  *)
(* answer of a committed call may be lost (STAGING_OUTCOME_UNKNOWN,        *)
(* STAGING_POST_COMMIT_CLEANUP_FAILED, a cancellation during cleanup).     *)
(* "view" is the last StagingRun each client was given: the revision it    *)
(* passes to seal and transition comes from there and may be stale.        *)
(*                                                                         *)
(* A call with another context, another target or another retention policy *)
(* is refused before it looks at the state; such calls are left out.       *)
(***************************************************************************)
EXTENDS StagingRules

CONSTANTS
    Runs,            \* (namespace, target_id, run_id) keys
    Writers,         \* clients whose target has purpose "writer"
    Maintainers,     \* clients whose target has purpose "maintenance"
    Specs,           \* StagingRunSpec values a writer may pass to begin
    Batches,         \* NormalizedBatch values a writer may pass to stage
    MaxTime          \* the clock stops here: a bound of the model

Clients == Writers \cup Maintainers

ASSUME InputAssumption ==
    /\ MaxTime \in Nat
    /\ Specs \subseteq StagingRunSpec
    /\ Batches \subseteq Batch
    /\ \A b \in Batches :
          /\ b.is_last <=> b.manifest # None
          /\ \A i, j \in 1..Len(b.ids) : b.ids[i] = b.ids[j] => i = j

VARIABLES
    run,       \* [Runs -> StagingRun or None]        the row of table runs
    batches,   \* [Runs -> Seq(Seq(RecordIds))]       StagedBatch rows, in order
    records,   \* [Runs -> Seq(RecordIds)]            StagedRecord rows, in order
    now,       \* the UTC clock of the stores
    view,      \* [Clients -> [Runs -> StagingRun or None]]
    claims     \* [Runs -> Nat] SEALED -> EXECUTING transitions (history)

vars == <<run, batches, records, now, view, claims>>

-----------------------------
(* The calls.  "replied" says whether the caller is given the result. *)

HasRun(r) == run[r] # None

Answer(c, r, rn, replied) ==
    view' = IF replied THEN [view EXCEPT ![c][r] = rn] ELSE view

begin(c, r, sp, replied) ==
    /\ c \in Writers
    /\ SpecAccepted(sp)
    /\ \/ /\ HasRun(r)
          /\ run[r].spec_fingerprint = sp /\ ~run[r].purged
          /\ Answer(c, r, run[r], replied)
          /\ UNCHANGED run
       \/ /\ ~HasRun(r)
          /\ now < sp.expires_at /\ sp.expires_at <= now + MaxRunSeconds
          /\ run' = [run EXCEPT ![r] = NewRun(sp)]
          /\ Answer(c, r, NewRun(sp), replied)
    /\ UNCHANGED <<batches, records, now, claims>>

get_run(c, r) ==
    /\ HasRun(r)
    /\ Answer(c, r, run[r], TRUE)
    /\ UNCHANGED <<run, batches, records, now, claims>>

(* Slip: the terminal manifest is not compared with what was staged. *)
StageAccepted_NoManifest(r, b) ==
    /\ b.batch_index = Len(batches[r]) /\ b.batch_index < run[r].spec.batch_count
    /\ b.is_last <=> b.batch_index = run[r].spec.batch_count - 1
    /\ run[r].record_count + Len(b.ids) <= run[r].spec.record_count
    /\ \A i \in 1..Len(b.ids), j \in 1..Len(records[r]) : b.ids[i] # records[r][j]

(* A batch that is already there and equal is a no-op: a stuttering step. *)
StageAccepted(r, b) ==
    LET sp == run[r].spec
        summaries == Append(batches[r], b.ids)
    IN  /\ b.batch_index = Len(batches[r]) /\ b.batch_index < sp.batch_count
        /\ b.is_last <=> b.batch_index = sp.batch_count - 1
        /\ run[r].record_count + Len(b.ids) <= sp.record_count
        /\ \A i \in 1..Len(b.ids), j \in 1..Len(records[r]) : b.ids[i] # records[r][j]
        /\ b.manifest # None => b.manifest = sp.normalized /\ b.manifest = summaries
                                /\ run[r].record_count + Len(b.ids) = sp.record_count

Appendable(r) == run[r].status = "open" /\ now < run[r].spec.expires_at

stage(c, r, b) ==
    /\ c \in Writers
    /\ HasRun(r)
    /\ Appendable(r)
    /\ StageAccepted(r, b)
    /\ batches' = [batches EXCEPT ![r] = Append(@, b.ids)]
    /\ records' = [records EXCEPT ![r] = @ \o b.ids]
    /\ run' = [run EXCEPT ![r] = Staged(run[r], Len(b.ids))]
    /\ UNCHANGED <<now, view, claims>>

seal(c, r, rev, replied) ==
    /\ c \in Writers
    /\ HasRun(r)
    /\ run[r].revision = rev
    /\ run[r].status = "open"
    /\ now < run[r].spec.expires_at
    /\ run[r].batch_count = run[r].spec.batch_count
    /\ run[r].record_count = run[r].spec.record_count
    /\ run' = [run EXCEPT ![r] = Sealed(run[r], batches[r])]
    /\ Answer(c, r, run'[r], replied)
    /\ UNCHANGED <<batches, records, now, claims>>

transition(c, r, rev, s, replied) ==
    /\ c \in Writers
    /\ HasRun(r)
    /\ CanTransition(run[r], rev, s, now)
    /\ run' = [run EXCEPT ![r] = Transitioned(run[r], s, now)]
    /\ claims' = [claims EXCEPT ![r] = @ + (IF s = "executing" THEN 1 ELSE 0)]
    /\ Answer(c, r, run'[r], replied)
    /\ UNCHANGED <<batches, records, now>>

cleanup(c, r, replied) ==
    /\ c \in Maintainers
    /\ HasRun(r)
    /\ LET expired == Expired(run[r], now)
           purge   == PurgeDue(expired, now)
       IN  /\ run' = [run EXCEPT ![r] = IF purge THEN Tombstone(expired) ELSE expired]
           /\ batches' = IF purge THEN [batches EXCEPT ![r] = <<>>] ELSE batches
           /\ records' = IF purge THEN [records EXCEPT ![r] = <<>>] ELSE records
    /\ Answer(c, r, run'[r], replied)
    /\ UNCHANGED <<now, claims>>

Tick ==
    /\ now < MaxTime
    /\ now' = now + 1
    /\ UNCHANGED <<run, batches, records, view, claims>>

-----------------------------
Init ==
    /\ run = [r \in Runs |-> None]
    /\ batches = [r \in Runs |-> <<>>]
    /\ records = [r \in Runs |-> <<>>]
    /\ now = 0
    /\ view = [c \in Clients |-> [r \in Runs |-> None]]
    /\ claims = [r \in Runs |-> 0]

(* expected_revision is always the revision of the run the client last saw. *)
Call(c, r) ==
    \/ \E sp \in Specs, replied \in BOOLEAN : begin(c, r, sp, replied)
    \/ get_run(c, r)
    \/ \E b \in Batches : stage(c, r, b)
    \/ /\ view[c][r] # None
       /\ \E replied \in BOOLEAN :
             \/ seal(c, r, view[c][r].revision, replied)
             \/ \E s \in Status : transition(c, r, view[c][r].revision, s, replied)
    \/ \E replied \in BOOLEAN : cleanup(c, r, replied)

Next ==
    \/ \E c \in Clients, r \in Runs : Call(c, r)
    \/ Tick

Spec == Init /\ [][Next]_vars
-----------------------------
(* Properties. *)

TypeOK ==
    /\ run \in [Runs -> StagingRun \cup {None}]
    /\ batches \in [Runs -> Seq(Seq(RecordIds))]
    /\ records \in [Runs -> Seq(RecordIds)]
    /\ now \in Nat
    /\ view \in [Clients -> [Runs -> StagingRun \cup {None}]]
    /\ claims \in [Runs -> Nat]

Terminal == {"committed", "quarantined", "rolled_back", "failed", "cancelled", "expired"}

(* The rows of a run always agree with its counters until it is purged, and *)
(* a purged run has none: otherwise _load would refuse the run for good     *)
(* with STAGING_CONTENT_MISMATCH.                                           *)
RowsMatchCounts ==
    \A r \in Runs :
        IF HasRun(r) /\ ~run[r].purged
        THEN /\ run[r].batch_count = Len(batches[r])
             /\ run[r].record_count = Len(records[r])
        ELSE batches[r] = <<>> /\ records[r] = <<>>

(* The revision is a sound CAS token: if the revision a client holds is     *)
(* still the stored one, the run is exactly the run the client saw, through *)
(* any interleaving of calls, lost answers, expiry and purge (no ABA).      *)
CasIsSound ==
    \A c \in Clients, r \in Runs :
        (view[c][r] # None /\ view[c][r].revision = run[r].revision)
            => view[c][r] = run[r]

(* A run that passed seal holds exactly the dataset its context was bound   *)
(* to (normalized_fingerprint), whatever was retried, reordered or sent by  *)
(* a second writer, and no record of it twice.                              *)
SealedIsDataset ==
    \A r \in Runs :
        (HasRun(r) /\ run[r].sealed_fingerprint # None) =>
            /\ run[r].sealed_fingerprint = run[r].spec.normalized
            /\ ~run[r].purged =>
                 /\ batches[r] = run[r].spec.normalized
                 /\ \A i, j \in 1..Len(records[r]) :
                        records[r][i] = records[r][j] => i = j

(* A run whose target outcome is not known (EXECUTING, UNKNOWN) keeps its   *)
(* rows and references: cleanup only ever purges a finished run.            *)
OutcomeKept ==
    \A r \in Runs : (HasRun(r) /\ run[r].purged) => run[r].status \in Terminal

(* The metadata of a closed run can be read, with references that are still *)
(* retained, during the whole life of the run and of its retention, if the  *)
(* outcome was recorded before the run's expiry: what begin demands of      *)
(* retained_until is enough (docs/staging.md; after a late outcome the      *)
(* references may be gone first, and then the read is refused).             *)
RetainedIsReadable ==
    \A r \in Runs :
        LET rn == run[r]
            keep == IF rn.status = "committed" THEN SuccessSeconds ELSE FailureSeconds
            inTime == IF rn.cleanup_after = None
                      THEN now < rn.spec.expires_at
                      ELSE /\ rn.cleanup_after <= rn.spec.expires_at + keep
                           /\ now < rn.cleanup_after
        IN  (HasRun(r) /\ ~rn.purged /\ rn.status # "open" /\ inTime)
                => RecordsReadable(rn, now) /\ BatchesReadable(rn, now)

(* A sealed run is claimed for execution at most once in its life, by       *)
(* whichever of the competing loaders wins the CAS; it is never re-run.     *)
OneClaim == \A r \in Runs : claims[r] <= 1

(* What was sealed is immutable: rows and seal change only by being purged. *)
SealedImmutable ==
    [][\A r \in Runs :
          (HasRun(r) /\ run[r].sealed_fingerprint # None) =>
              /\ run'[r].sealed_fingerprint = run[r].sealed_fingerprint
              /\ \/ batches'[r] = batches[r] /\ records'[r] = records[r]
                 \/ run'[r].purged /\ ~run[r].purged]_vars

(* A declared outcome is never replaced by another one: not by a late       *)
(* transition, not by expiry, not by purge.                                 *)
TerminalIsFinal ==
    [][\A r \in Runs :
          (HasRun(r) /\ run[r].status \in Terminal)
              => run'[r].status = run[r].status]_vars

(* The tombstone stays for ever and unchanged, so its run_id is never used  *)
(* for a second run.                                                        *)
TombstoneStays ==
    [][\A r \in Runs :
          (HasRun(r) /\ run[r].purged) => run'[r] = run[r]]_vars
=============================================================================
