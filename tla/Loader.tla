------------------------------- MODULE Loader -------------------------------
(***************************************************************************)
(* PostgreSQLLoader.execute: loading sealed staging runs into the target,  *)
(* with and without the durable ledger, by several attempts at once.       *)
(*                                                                         *)
(* database/loader.py drives one attempt; database/_load_transaction.py is *)
(* its writer transaction; database/_load_ledger.py keeps the committed    *)
(* marker of an idempotency key in the same database; loading/             *)
(* staged_input.py verifies and finalises the staging run, which lives in  *)
(* a store that shares no transaction with the target.                     *)
(*                                                                         *)
(* Three parties interleave: the attempts, the PostgreSQL server (which    *)
(* alone decides a transaction whose COMMIT was sent, and ends the session *)
(* of a vanished client) and the staging store (which may apply a CAS      *)
(* after its caller gave up on the answer).  An attempt can be cancelled,  *)
(* time out or fail at every await, its process can crash at every step,   *)
(* and the answer of every remote call can be lost.                        *)
(***************************************************************************)
EXTENDS StagingRules

CONSTANTS
    Runs,          \* staging runs, all of them sealed at the start
    Attempts,      \* calls of execute
    Keys,          \* idempotency keys
    Instances,     \* PostgreSQLLoader objects
    Tables,        \* tables of the target, numbered as their names sort
    SpecOf,        \* [Runs -> StagingRunSpec]      what was begun
    Setups         \* which of the attempts there are and what they ask for

(* The attempts that are made, and for each its staging_context, its        *)
(* idempotency_key, its loader, its write_tables; the binding_fingerprint   *)
(* of each run; and two bounds of the model: the runs whose owner may stop  *)
(* them, and the last time of the clock.                                    *)
Setup ==
    [attempts : SUBSET Attempts, run : [Attempts -> Runs],
     key : [Attempts -> Keys \cup {None}], instance : [Attempts -> Instances],
     tables : [Attempts -> SUBSET Tables], binding : [Runs -> Nat],
     stoppable : SUBSET Runs, last : Nat]

ASSUME LoaderAssumption ==
    /\ Setups \subseteq Setup
    /\ Tables \subseteq Nat /\ IsFiniteSet(Tables)
    /\ SpecOf \in [Runs -> StagingRunSpec]
    /\ None \notin Keys /\ None \notin Attempts

VARIABLES
    setup,      \* never changes
    run,        \* [Runs -> StagingRun]          the staging store
    pending,    \* [Attempts -> request or None] a CAS sent to the staging store
    now,        \* the UTC clock
    att,        \* [Attempts -> Attempt]         local variables of execute
    txn,        \* [Attempts -> state of the writer transaction on the server]
    rows,       \* [Attempts -> receipt or None] DML and marker executed in it
    keyLock,    \* [Keys -> Attempts or None]    pg_advisory_xact_lock
    tableLock,  \* [Tables -> Attempts or None]  SHARE ROW EXCLUSIVE
    ledger,     \* [Keys -> receipt or None]     committed rows of execution_commits
    busy,       \* [Instances -> BOOLEAN]        PostgreSQLLoader._active
    unavailable \* [Instances -> BOOLEAN]        PostgreSQLLoader._unavailable

stagingVars  == <<run, pending>>
lockVars     == <<keyLock, tableLock>>
serverVars   == <<txn, rows, keyLock, tableLock, ledger>>
instanceVars == <<busy, unavailable>>
vars == <<setup, run, pending, now, att, txn, rows, keyLock, tableLock, ledger, busy,
          unavailable>>

RunOf      == setup.run
KeyOf      == setup.key
InstanceOf == setup.instance
TablesOf   == setup.tables
BindingOf  == setup.binding

HasLedger(a) == KeyOf[a] # None

(* A PostgreSQLLoadResult: who wrote it, for which run, and what it holds. *)
Receipt == [attempt : Attempts, run : Runs, binding : Nat, quarantined : BOOLEAN,
            replayed : BOOLEAN]

(* States of a transaction on the server; a running one holds its locks. *)
Running == {"open", "committing"}
TxnState == {"none", "committed", "aborted"} \cup Running

(* Where execute is: the await it stands at. *)
InTransaction == {"begin", "key", "verify", "cas", "lock", "commit"}
PC == {"idle", "sent", "settle", "recover", "finish", "answer", "done", "crashed"}
        \cup InTransaction

Outcome == {"none", "committed", "unverified", "rolled_back", "cancelled", "failed",
            "unknown", "refused"}

Attempt ==
    [pc        : PC,
     claimed   : Nat \cup {None},         \* revision of "claimed"
     outcome   : Outcome,                 \* Outcome.status, and how it is reported
     receipt   : Receipt \cup {None},     \* Outcome.result
     finalized : BOOLEAN]                 \* no LOAD_STAGING_FINALIZE_FAILED

NewAttempt(l) == [pc |-> l, claimed |-> None, outcome |-> "none", receipt |-> None,
                  finalized |-> TRUE]

Request == [revision : Nat, status : Status]

(* Python's None is no result and no request. *)
ASSUME RecordAssumption == None \notin Receipt /\ None \notin Request

(* A run that went through begin, stage and seal. *)
SealedRevision(r) == SpecOf[r].batch_count + 1

SealedRun(r) ==
    [NewRun(SpecOf[r]) EXCEPT !.status = "sealed", !.revision = SealedRevision(r),
        !.batch_count = SpecOf[r].batch_count, !.record_count = SpecOf[r].record_count,
        !.sealed_fingerprint = SpecOf[r].normalized]

Init ==
    /\ setup \in Setups
    /\ run = [r \in Runs |-> SealedRun(r)]
    /\ pending = [a \in Attempts |-> None]
    /\ now = 0
    /\ att = [a \in Attempts |-> NewAttempt("idle")]
    /\ txn = [a \in Attempts |-> "none"]
    /\ rows = [a \in Attempts |-> None]
    /\ keyLock = [k \in Keys |-> None]
    /\ tableLock = [t \in Tables |-> None]
    /\ ledger = [k \in Keys |-> None]
    /\ busy = [i \in Instances |-> FALSE]
    /\ unavailable = [i \in Instances |-> FALSE]

-----------------------------
(* execute, up to the claim of the staging run. *)

At(a, l) == att[a].pc = l

(* Without a ledger one instance runs one attempt at a time and none after  *)
(* an unknown outcome; with one the database lock is the only authority.    *)
SlotFree(a) == HasLedger(a) \/ (~busy[InstanceOf[a]] /\ ~unavailable[InstanceOf[a]])

Start(a) ==
    /\ At(a, "idle") /\ a \in setup.attempts
    /\ SlotFree(a)
    /\ busy' = IF HasLedger(a) THEN busy ELSE [busy EXCEPT ![InstanceOf[a]] = TRUE]
    /\ att' = [att EXCEPT ![a].pc = IF HasLedger(a) THEN "begin" ELSE "verify"]
    /\ UNCHANGED <<setup, stagingVars, now, serverVars, unavailable>>

(* get_run and the pages of batches and records, compared with the request: *)
(* sealed rows never change, so the whole reading is one step.  The code    *)
(* asks for expiries after the deadline of the attempt, a moment from now   *)
(* on; the model asks for expiries after now, and lets the budget run out   *)
(* at any await (Fail).                                                     *)
Verified(a) ==
    LET rn == run[RunOf[a]]
        sp == SpecOf[RunOf[a]]
    IN  /\ rn.status = "sealed" /\ rn.revision = SealedRevision(RunOf[a]) /\ ~rn.purged
        /\ rn.spec = sp /\ sp.expires_at > now
        /\ \A ref \in sp.references : ref.retained_until > now
        /\ BatchesReadable(rn, now) /\ RecordsReadable(rn, now)
        /\ rn.sealed_fingerprint = sp.normalized

(* verify_staging succeeded and transition(EXECUTING) is on its way. *)
Verify(a) ==
    /\ At(a, "verify")
    /\ Verified(a)
    /\ pending' = [pending EXCEPT ![a] =
                      [revision |-> run[RunOf[a]].revision, status |-> "executing"]]
    /\ att' = [att EXCEPT ![a].pc = "cas"]
    /\ UNCHANGED <<setup, run, now, serverVars, instanceVars>>

(* The answer of the staging store reaches an attempt that waits for it. *)
Answered(a) ==
    \/ /\ At(a, "cas")
       /\ att' = [att EXCEPT ![a].pc = IF HasLedger(a) THEN "lock" ELSE "begin",
                             ![a].claimed = pending[a].revision + 1]
    \/ /\ At(a, "finish")
       /\ att' = [att EXCEPT ![a].pc = "answer"]

(* The staging store applies the CAS of an attempt, whether or not somebody *)
(* still waits for the answer.                                              *)
StagingApply(a) ==
    /\ pending[a] # None
    /\ CanTransition(run[RunOf[a]], pending[a].revision, pending[a].status, now)
    /\ run' = [run EXCEPT ![RunOf[a]] =
                  Transitioned(run[RunOf[a]], pending[a].status, now)]
    /\ pending' = [pending EXCEPT ![a] = None]
    /\ Answered(a) \/ UNCHANGED att
    /\ UNCHANGED <<setup, now, serverVars, instanceVars>>

(* Refused by the CAS, or lost on the way before it was applied. *)
StagingDrop(a) ==
    /\ pending[a] # None
    /\ pending' = [pending EXCEPT ![a] = None]
    /\ UNCHANGED <<setup, run, now, att, serverVars, instanceVars>>

-----------------------------
(* The writer transaction, seen from the attempt. *)

Begin(a) ==
    /\ At(a, "begin")
    /\ txn' = [txn EXCEPT ![a] = "open"]
    /\ att' = [att EXCEPT ![a].pc = IF HasLedger(a) THEN "key" ELSE "lock"]
    /\ UNCHANGED <<setup, stagingVars, now, rows, lockVars, ledger, instanceVars>>

KeyFree(a) == keyLock[KeyOf[a]] = None

(* check_deadline, as far as the staging run is concerned. *)
InTime(a) == now < SpecOf[RunOf[a]].expires_at

(* Ledger.claim with no marker: the lock is held from here to the end of    *)
(* the transaction, and the statement that looks for the marker runs after  *)
(* it was granted (READ COMMITTED).  check_deadline follows.                *)
ClaimKey(a) ==
    /\ At(a, "key") /\ txn[a] = "open"
    /\ KeyFree(a)
    /\ ledger[KeyOf[a]] = None
    /\ InTime(a)
    /\ keyLock' = [keyLock EXCEPT ![KeyOf[a]] = a]
    /\ att' = [att EXCEPT ![a].pc = "verify"]
    /\ UNCHANGED <<setup, stagingVars, now, txn, rows, tableLock, ledger, instanceVars>>

(* Slip: the key alone decides. *)
SameBinding_KeyOnly(a) == TRUE

SameBinding(a) == ledger[KeyOf[a]].binding = BindingOf[RunOf[a]]

(* Ledger.claim with the marker of the same binding: the receipt is         *)
(* returned and this transaction writes nothing.  "verified" is false when  *)
(* an audit policy is set and the chain cannot be verified through the head *)
(* of the receipt; "closed" when the connection was closed in time.         *)
Replay(a, verified, closed) ==
    /\ At(a, "key") /\ txn[a] = "open"
    /\ KeyFree(a)
    /\ ledger[KeyOf[a]] # None
    /\ SameBinding(a)
    /\ att' = [att EXCEPT ![a].pc = "settle",
                          ![a].outcome = IF verified THEN "committed" ELSE "unverified",
                          ![a].receipt = [ledger[KeyOf[a]] EXCEPT !.replayed = TRUE]]
    /\ IF closed
       THEN txn' = [txn EXCEPT ![a] = "aborted"] /\ UNCHANGED keyLock
       ELSE keyLock' = [keyLock EXCEPT ![KeyOf[a]] = a] /\ UNCHANGED txn
    /\ UNCHANGED <<setup, stagingVars, now, rows, tableLock, ledger, instanceVars>>

(* LOCK TABLE, one statement per table in the order of the sorted names. *)
Held(a) == {t \in TablesOf[a] : tableLock[t] = a}

(* Slip: the names are locked in the order of a set. *)
NextTable_AnyOrder(a, t) == t \in TablesOf[a] \ Held(a)

NextTable(a, t) ==
    t \in TablesOf[a] \ Held(a) /\ \A u \in TablesOf[a] \ Held(a) : t <= u

LockTable(a, t) ==
    /\ At(a, "lock") /\ txn[a] = "open"
    /\ NextTable(a, t)
    /\ tableLock[t] = None
    /\ tableLock' = [tableLock EXCEPT ![t] = a]
    /\ UNCHANGED <<setup, stagingVars, now, att, txn, rows, keyLock, ledger, instanceVars>>

(* The primary key of execution_commits admits one marker per key. *)
MarkerFree(a) ==
    HasLedger(a) =>
        /\ ledger[KeyOf[a]] = None
        /\ \A b \in Attempts \ {a} :
              ~(KeyOf[b] = KeyOf[a] /\ rows[b] # None /\ txn[b] \in Running)

NewReceipt(a, quarantined) ==
    [attempt |-> a, run |-> RunOf[a], binding |-> BindingOf[RunOf[a]],
     quarantined |-> quarantined, replayed |-> FALSE]

(* Catalog and grants checked, plan built and executed, receipt and marker  *)
(* inserted, catalog and grants checked again.                              *)
Write(a, quarantined) ==
    /\ At(a, "lock") /\ txn[a] = "open"
    /\ Held(a) = TablesOf[a]
    /\ MarkerFree(a)
    /\ quarantined => HasLedger(a)
    /\ rows' = [rows EXCEPT ![a] = NewReceipt(a, quarantined)]
    /\ att' = [att EXCEPT ![a].pc = "commit", ![a].receipt = NewReceipt(a, quarantined)]
    /\ UNCHANGED <<setup, stagingVars, now, txn, lockVars, ledger, instanceVars>>

(* check_deadline, commit_started, connection.commit(). *)
SendCommit(a) ==
    /\ At(a, "commit") /\ txn[a] = "open"
    /\ InTime(a)
    /\ txn' = [txn EXCEPT ![a] = "committing"]
    /\ att' = [att EXCEPT ![a].pc = "sent"]
    /\ UNCHANGED <<setup, stagingVars, now, rows, lockVars, ledger, instanceVars>>

CommitAnswered(a) ==
    /\ At(a, "sent") /\ txn[a] = "committed"
    /\ att' = [att EXCEPT ![a].pc = "settle", ![a].outcome = "committed"]
    /\ UNCHANGED <<setup, stagingVars, now, serverVars, instanceVars>>

(* An error, a timeout or a cancellation after commit_started: whatever the *)
(* server did or will do, the outcome is unknown.                           *)
CommitLost(a) ==
    /\ At(a, "sent")
    /\ att' = [att EXCEPT ![a].pc = "settle", ![a].outcome = "unknown",
                          ![a].receipt = None]
    /\ UNCHANGED <<setup, stagingVars, now, serverVars, instanceVars>>

(* Slip: a session lock (pg_advisory_lock) instead of a transaction lock. *)
Released_SessionLock(a) ==
    /\ keyLock' = keyLock
    /\ tableLock' = [t \in Tables |-> IF tableLock[t] = a THEN None ELSE tableLock[t]]

(* The locks of a transaction are released when the server ends it. *)
Released(a) ==
    /\ keyLock' = [k \in Keys |-> IF keyLock[k] = a THEN None ELSE keyLock[k]]
    /\ tableLock' = [t \in Tables |-> IF tableLock[t] = a THEN None ELSE tableLock[t]]

RolledBack(a) ==
    /\ txn' = [txn EXCEPT ![a] = "aborted"]
    /\ rows' = [rows EXCEPT ![a] = None]
    /\ Released(a)

(* Any failure before commit_started.  If the connection could be closed,   *)
(* the transaction is rolled back; if not, nothing is known about it.  The  *)
(* driver may also be missing altogether (FAILED, before any connection).   *)
Fail(a, status, closed) ==
    /\ att[a].pc \in InTransaction
    /\ HasLedger(a) \/ att[a].pc \notin {"verify", "cas"}
    /\ status = "failed" => At(a, "begin") /\ closed
    /\ att' = [att EXCEPT ![a].pc = "settle", ![a].receipt = None,
                          ![a].outcome = IF closed THEN status ELSE "unknown"]
    /\ IF closed
       THEN RolledBack(a)
       ELSE UNCHANGED <<txn, rows, lockVars>>
    /\ UNCHANGED <<setup, stagingVars, now, ledger, instanceVars>>

(* Without a ledger the claim comes before the transaction, and its failure *)
(* is raised at once: nothing is finalised.                                 *)
ClaimFailed(a) ==
    /\ ~HasLedger(a) /\ att[a].pc \in {"verify", "cas"}
    /\ att' = [att EXCEPT ![a].pc = "done", ![a].outcome = "refused"]
    /\ busy' = [busy EXCEPT ![InstanceOf[a]] = FALSE]
    /\ UNCHANGED <<setup, stagingVars, now, serverVars, unavailable>>

-----------------------------
(* After execute_transaction: the staging run is finalised. *)

(* Slip: a load with quarantined groups is finalised like any other. *)
FinalStatus_NoQuarantine(a) ==
    IF att[a].outcome \in {"committed", "unverified"} THEN "committed"
    ELSE att[a].outcome

FinalStatus(a) ==
    IF att[a].receipt # None /\ att[a].receipt.quarantined THEN "quarantined"
    ELSE IF att[a].outcome \in {"committed", "unverified"} THEN "committed"
         ELSE att[a].outcome

(* The receipt of an earlier attempt on the same run. *)
ReplaysOwnRun(a) ==
    att[a].receipt # None /\ att[a].receipt.replayed /\ att[a].receipt.run = RunOf[a]

Settle(a) ==
    /\ At(a, "settle")
    /\ IF att[a].claimed # None
       THEN /\ pending' = [pending EXCEPT ![a] =
                  [revision |-> att[a].claimed, status |-> FinalStatus(a)]]
            /\ att' = [att EXCEPT ![a].pc = "finish"]
       ELSE /\ att' = [att EXCEPT ![a].pc =
                          IF ReplaysOwnRun(a) THEN "recover" ELSE "answer"]
            /\ UNCHANGED pending
    /\ UNCHANGED <<setup, run, now, serverVars, instanceVars>>

(* _recover_staging: the run of a replayed receipt is brought to its end. *)
SealMatches(a) == run[RunOf[a]].sealed_fingerprint = SpecOf[RunOf[a]].normalized

Unresolved(a) == run[RunOf[a]].status \in {"executing", "unknown"}

Recover(a) ==
    /\ At(a, "recover")
    /\ IF SealMatches(a) /\ Unresolved(a)
       THEN /\ pending' = [pending EXCEPT ![a] =
                  [revision |-> run[RunOf[a]].revision, status |-> FinalStatus(a)]]
            /\ att' = [att EXCEPT ![a].pc = "finish"]
       ELSE /\ att' = [att EXCEPT ![a].pc = "answer", ![a].finalized = SealMatches(a)]
            /\ UNCHANGED pending
    /\ UNCHANGED <<setup, run, now, serverVars, instanceVars>>

(* get_run failed, or finish_staging was refused, failed or ran out of      *)
(* time: the answer is the same, with LOAD_STAGING_FINALIZE_FAILED.         *)
FinalizeFailed(a) ==
    /\ att[a].pc \in {"recover", "finish"}
    /\ att' = [att EXCEPT ![a].pc = "answer", ![a].finalized = FALSE]
    /\ UNCHANGED <<setup, stagingVars, now, serverVars, instanceVars>>

(* An unknown outcome blocks the instance that has no ledger to ask. *)
Suspends(a) == att[a].outcome = "unknown"

(* The result or the exception of execute. *)
Return(a) ==
    /\ At(a, "answer")
    /\ att' = [att EXCEPT ![a].pc = "done", ![a].claimed = None]
    /\ IF HasLedger(a)
       THEN UNCHANGED instanceVars
       ELSE /\ busy' = [busy EXCEPT ![InstanceOf[a]] = FALSE]
            /\ unavailable' = [unavailable EXCEPT ![InstanceOf[a]] =
                                  @ \/ Suspends(a)]
    /\ UNCHANGED <<setup, stagingVars, now, serverVars>>

-----------------------------
(* The process of an attempt dies.  Its instance dies with it; a later      *)
(* attempt of the same instance name is a restarted process.                *)
Crash(a) ==
    /\ att[a].pc \notin {"idle", "done", "crashed"}
    /\ att' = [att EXCEPT ![a] = NewAttempt("crashed")]
    /\ busy' = IF HasLedger(a) THEN busy ELSE [busy EXCEPT ![InstanceOf[a]] = FALSE]
    /\ UNCHANGED <<setup, stagingVars, now, serverVars, unavailable>>

Marks(a, k) == k = KeyOf[a]

(* The server commits: DML and marker become visible together. *)
ServerCommit(a) ==
    /\ txn[a] = "committing"
    /\ txn' = [txn EXCEPT ![a] = "committed"]
    /\ ledger' = [k \in Keys |-> IF Marks(a, k) THEN rows[a] ELSE ledger[k]]
    /\ Released(a)
    /\ UNCHANGED <<setup, stagingVars, now, att, rows, instanceVars>>

(* The server rolls back: a COMMIT that failed, a session it ended, or one  *)
(* whose client is gone or has given up.                                    *)
ServerAbort(a) ==
    /\ txn[a] \in Running
    /\ RolledBack(a)
    /\ UNCHANGED <<setup, stagingVars, now, att, ledger, instanceVars>>

-----------------------------
(* The other users of the staging store. *)

(* The owner of a run stops it before execution (RunSession.cleanup_staging *)
(* reads the run and moves it by CAS; a CAS that succeeds is about the run  *)
(* that was read, so both are one step).                                    *)
StopRun(r, s) ==
    /\ r \in setup.stoppable /\ s \in {"failed", "cancelled"}
    /\ run[r].status \in {"open", "sealed"}
    /\ CanTransition(run[r], run[r].revision, s, now)
    /\ run' = [run EXCEPT ![r] = Transitioned(run[r], s, now)]
    /\ UNCHANGED <<setup, pending, now, att, serverVars, instanceVars>>

(* Maintenance applies retention. *)
Cleanup(r) ==
    LET expired == Expired(run[r], now)
    IN  /\ run' = [run EXCEPT ![r] = IF PurgeDue(expired, now) THEN Tombstone(expired)
                                     ELSE expired]
        /\ UNCHANGED <<setup, pending, now, att, serverVars, instanceVars>>

Tick ==
    /\ now < setup.last
    /\ now' = now + 1
    /\ UNCHANGED <<setup, stagingVars, att, serverVars, instanceVars>>

-----------------------------
(* One step of execute, other than dying. *)
Step(a) ==
    \/ Start(a) \/ Verify(a) \/ Begin(a) \/ ClaimKey(a)
    \/ \E verified, closed \in BOOLEAN : Replay(a, verified, closed)
    \/ \E t \in TablesOf[a] : LockTable(a, t)
    \/ \E quarantined \in BOOLEAN : Write(a, quarantined)
    \/ SendCommit(a) \/ CommitAnswered(a) \/ CommitLost(a)
    \/ \E status \in {"rolled_back", "cancelled", "failed"}, closed \in BOOLEAN :
          Fail(a, status, closed)
    \/ ClaimFailed(a)
    \/ Settle(a) \/ Recover(a) \/ FinalizeFailed(a) \/ Return(a)

Server(a) == ServerCommit(a) \/ ServerAbort(a)

Staging(a) == StagingApply(a) \/ StagingDrop(a)

Next ==
    \/ \E a \in Attempts : Step(a) \/ Crash(a) \/ Server(a) \/ Staging(a)
    \/ \E r \in {RunOf[a] : a \in setup.attempts} :
          Cleanup(r) \/ \E s \in {"failed", "cancelled"} : StopRun(r, s)
    \/ Tick

Spec == Init /\ [][Next]_vars

(* An attempt waits for a lock of the transaction of another one. *)
WaitsFor(a, b) ==
    /\ a # b /\ txn[a] = "open"
    /\ \/ At(a, "key") /\ keyLock[KeyOf[a]] = b
       \/ At(a, "lock") /\ \E t \in TablesOf[a] : NextTable(a, t) /\ tableLock[t] = b

Waiting(a) == \E b \in Attempts : WaitsFor(a, b)

GoesOn(a) == a \in setup.attempts /\ ~Waiting(a)

(* Fairness.  execute goes on unless it waits for a lock (that every wait   *)
(* also ends by a timeout is not used); the server decides a COMMIT that    *)
(* was sent and ends the session of a client that is gone.                  *)
Abandoned(a) == txn[a] = "open" /\ att[a].pc \notin InTransaction

Fairness ==
    \A a \in Attempts :
        /\ WF_vars(GoesOn(a) /\ Step(a))
        /\ WF_vars(txn[a] = "committing" /\ Server(a))
        /\ WF_vars(Abandoned(a) /\ ServerAbort(a))

FairSpec == Spec /\ Fairness

-----------------------------
(* Properties. *)

TypeOK ==
    /\ run \in [Runs -> StagingRun]
    /\ pending \in [Attempts -> Request \cup {None}]
    /\ now \in Nat
    /\ att \in [Attempts -> Attempt]
    /\ txn \in [Attempts -> TxnState]
    /\ rows \in [Attempts -> Receipt \cup {None}]
    /\ keyLock \in [Keys -> Attempts \cup {None}]
    /\ tableLock \in [Tables -> Attempts \cup {None}]
    /\ ledger \in [Keys -> Receipt \cup {None}]
    /\ busy \in [Instances -> BOOLEAN]
    /\ unavailable \in [Instances -> BOOLEAN]

Loaded == {a \in Attempts : txn[a] = "committed"}

(* A run is loaded into the target at most once, and so is an idempotency   *)
(* key, whichever attempts crash, are repeated or run side by side, also    *)
(* when the key comes back with another run of the same data.               *)
LoadedOnce ==
    \A a, b \in Loaded :
        a # b => RunOf[a] # RunOf[b] /\ (HasLedger(a) => KeyOf[a] # KeyOf[b])

(* What the staging run says about the target is true, though no            *)
(* transaction spans the two: COMMITTED and QUARANTINED only after the load *)
(* was committed, and any other end only if no attempt on the run has       *)
(* committed or still can (its COMMIT being on the way).                    *)
StagingTellsTruth ==
    \A r \in Runs :
        /\ run[r].status \in {"committed", "quarantined"} =>
              \E a \in Loaded : /\ RunOf[a] = r
                               /\ rows[a].quarantined <=> run[r].status = "quarantined"
        /\ run[r].status \notin {"committed", "quarantined", "executing", "unknown"} =>
              \A a \in Attempts :
                 RunOf[a] = r => txn[a] \notin {"committing", "committed"}

(* What execute reports is true: a result is the receipt of a committed     *)
(* load of the same data, and any other definite answer means that this     *)
(* attempt has written nothing and will write nothing.                      *)
AnswerIsTrue ==
    \A a \in Attempts :
        /\ att[a].outcome \in {"committed", "unverified"} =>
              \E b \in Loaded :
                 /\ att[a].receipt = [rows[b] EXCEPT !.replayed = (a # b)]
                 /\ att[a].receipt.binding = BindingOf[RunOf[a]]
        /\ att[a].outcome \in {"rolled_back", "cancelled", "failed", "refused"} =>
              txn[a] \notin {"open", "committing", "committed"}

(* A result without the warning LOAD_STAGING_FINALIZE_FAILED leaves the run *)
(* that was loaded with its right final status: a replay finishes what a    *)
(* crash, a lost answer or a cancelled finalisation left behind.            *)
FinalizedMeansFinal ==
    \A a \in Attempts :
        (At(a, "done") /\ att[a].outcome \in {"committed", "unverified"}
           /\ att[a].finalized /\ att[a].receipt.run = RunOf[a])
            => run[RunOf[a]].status =
                 IF att[a].receipt.quarantined THEN "quarantined" ELSE "committed"

(* The staging run is as the target says, and final where execute says so. *)
StagingIsTrue == TypeOK /\ StagingTellsTruth /\ FinalizedMeansFinal

(* Attempts never wait for one another in a circle, over the advisory locks *)
(* of the keys and the locks of the tables.                                 *)
NoLockCycle ==
    \A S \in (SUBSET {a \in Attempts : Waiting(a)}) \ {{}} :
        \E a \in S : \A b \in S : ~WaitsFor(a, b)

(* Every attempt that was started ends: a lock held by a dead or hanging    *)
(* attempt is released with its transaction and holds nobody up for ever.   *)
(* An attempt starts once and is never taken up again, so that all of them  *)
(* being at rest again and again says that each of them ends.               *)
EveryAttemptEnds ==
    []<>(\A a \in Attempts : att[a].pc \in {"idle", "done", "crashed"})
=============================================================================
