---------------------------- MODULE LoaderProofs ----------------------------
(***************************************************************************)
(* Proofs about PostgreSQLLoader.execute, for every set of runs, attempts, *)
(* keys, instances and tables.                                             *)
(*                                                                         *)
(* The inductive invariant Inv says, attempt by attempt, what its place in *)
(* execute implies (PlacePart), what its answer and its request to the     *)
(* staging store rest on (ReceiptPart, RequestPart), who has a right to a  *)
(* run and to a key (OwnerPart, KeyPart), and what the staging run and the *)
(* ledger therefore say (TruthPart, LedgerPart).                           *)
(***************************************************************************)
EXTENDS Loader, TLAPS, FiniteSetTheorems, WellFoundedInduction

-----------------------------
(* Rows of the staging store, of execute and of the ledger. *)

(* A run stays well formed when one field is replaced: contracts/staging.py *)
(* validates each StagingRun the store builds.                              *)
LEMMA RunFields ==
    ASSUME NEW rn \in StagingRun
    PROVE  /\ \A x \in Status : [rn EXCEPT !.status = x] \in StagingRun
           /\ \A x \in Nat : [rn EXCEPT !.revision = x] \in StagingRun
           /\ \A x \in Nat : [rn EXCEPT !.batch_count = x] \in StagingRun
           /\ \A x \in Nat : [rn EXCEPT !.record_count = x] \in StagingRun
           /\ \A x \in Seq(Seq(RecordIds)) :
                 [rn EXCEPT !.sealed_fingerprint = x] \in StagingRun
           /\ \A x \in Nat \cup {None} : [rn EXCEPT !.cleanup_after = x] \in StagingRun
           /\ [rn EXCEPT !.purged = TRUE] \in StagingRun
           /\ \A x \in StagingRunSpec : [rn EXCEPT !.spec = x] \in StagingRun
  BY DEF StagingRun

(* The local variables of execute stay well formed when one is replaced. *)
LEMMA AttemptFields ==
    ASSUME NEW x \in Attempt
    PROVE  /\ \A p \in PC : [x EXCEPT !.pc = p] \in Attempt
           /\ \A c \in Nat \cup {None} : [x EXCEPT !.claimed = c] \in Attempt
           /\ \A o \in Outcome : [x EXCEPT !.outcome = o] \in Attempt
           /\ \A p \in Receipt \cup {None} : [x EXCEPT !.receipt = p] \in Attempt
           /\ \A f \in BOOLEAN : [x EXCEPT !.finalized = f] \in Attempt
  BY DEF Attempt

-----------------------------
(* The inductive invariant. *)

(* Places of execute: before the claim of the staging run was answered,     *)
(* between the claim and the end of the transaction, after the transaction. *)
Early(a) == {"idle", "key", "verify", "cas"}
               \cup (IF HasLedger(a) THEN {"begin"} ELSE {})
Writing(a) == {"lock", "commit", "sent"}
               \cup (IF HasLedger(a) THEN {} ELSE {"begin"})
Ending == {"settle", "recover", "finish", "answer", "done"}

Result == {"committed", "unverified"}
Denial == {"rolled_back", "cancelled", "failed"}
Loads == {"committed", "quarantined"}

PlacePart(a) ==
    /\ att[a].pc \in Early(a) => att[a].claimed = None /\ rows[a] = None
    /\ att[a].pc \in Writing(a) => att[a].claimed # None
    /\ att[a].pc = "key" => HasLedger(a)
    /\ att[a].pc \in {"recover", "done", "crashed"} => att[a].claimed = None
    /\ att[a].pc \in {"idle", "begin"} => txn[a] = "none"
    /\ ~HasLedger(a) /\ att[a].pc \in {"verify", "cas"} => txn[a] = "none"
    /\ att[a].pc \in {"begin", "lock"} => rows[a] = None
    /\ att[a].pc \in InTransaction => txn[a] \notin {"committing", "committed"}
    /\ att[a].pc = "commit" /\ txn[a] = "open" => rows[a] # None
    /\ att[a].pc \in {"commit", "sent"} /\ rows[a] # None => att[a].receipt = rows[a]
    /\ txn[a] \in {"committing", "committed"} => rows[a] # None
    /\ rows[a] # None => /\ txn[a] \in {"open", "committing", "committed"}
                         /\ rows[a] = NewReceipt(a, rows[a].quarantined)
    /\ att[a].outcome = "none" <=> att[a].pc \notin Ending
    /\ att[a].outcome = "refused" => att[a].pc = "done"
    /\ att[a].outcome = "unverified" => att[a].claimed = None
    /\ att[a].outcome \in Denial \cup {"refused"} => txn[a] \in {"none", "aborted"}
    /\ att[a].outcome \in Denial \cup {"unknown"} => att[a].receipt = None
    /\ att[a].pc = "recover" => ReplaysOwnRun(a)

(* The load a result stands for: the attempt's own, or the one its key was  *)
(* used for before.                                                         *)
ReceiptPart(a) ==
    att[a].outcome \in Result =>
        \E b \in Loaded :
            /\ att[a].receipt = [rows[b] EXCEPT !.replayed = (a # b)]
            /\ att[a].receipt.binding = BindingOf[RunOf[a]]
            /\ att[a].pc = "settle" => (att[a].claimed # None <=> a = b)

(* A request to the staging store says what is so for ever. *)
RequestPart(a) ==
    pending[a] # None =>
        /\ pending[a].status = "executing" =>
              att[a].pc \in {"cas", "settle", "recover", "answer", "done", "crashed"}
        /\ pending[a].status # "executing" =>
              att[a].pc \in {"finish", "answer", "done", "crashed"}
        /\ att[a].pc = "finish" => pending[a].status = FinalStatus(a)
        /\ pending[a].status \in Loads =>
              \E b \in Loaded :
                  /\ RunOf[b] = RunOf[a]
                  /\ rows[b].quarantined <=> pending[a].status = "quarantined"
        /\ pending[a].status \in Denial => txn[a] \in {"none", "aborted"}

(* An attempt that claimed its run, and what is left of it. *)
Owner(a) ==
    \/ att[a].claimed # None
    \/ rows[a] # None
    \/ pending[a] # None /\ pending[a].status \in Denial \cup {"unknown"}

OwnerPart(a) ==
    Owner(a) =>
        /\ run[RunOf[a]].status \notin {"open", "sealed"}
        /\ \A b \in Attempts \ {a} : RunOf[b] = RunOf[a] => ~Owner(b)

(* Rows with a marker of a key: one transaction at most has them. *)
KeyPart(a) ==
    HasLedger(a) /\ rows[a] # None =>
        /\ txn[a] \in Running => ledger[KeyOf[a]] = None
        /\ txn[a] = "committed" => ledger[KeyOf[a]] # None
        /\ \A b \in Attempts \ {a} : KeyOf[b] = KeyOf[a] => rows[b] = None

LedgerPart(k) ==
    ledger[k] # None => \E b \in Loaded : KeyOf[b] = k /\ ledger[k] = rows[b]

(* An attempt that has written or still can. *)
Live(a) ==
    \/ txn[a] \in {"committing", "committed"}
    \/ att[a].claimed # None /\ att[a].pc \in Writing(a)

TruthPart(r) ==
    /\ run[r].status \in Loads =>
          \E b \in Loaded : /\ RunOf[b] = r
                            /\ rows[b].quarantined <=> run[r].status = "quarantined"
    /\ run[r].status \notin Loads \cup {"executing", "unknown"} =>
          \A a \in Attempts : RunOf[a] = r => ~Live(a)

FinalPart(a) ==
    att[a].pc \in {"answer", "done"} /\ att[a].outcome \in Result
      /\ att[a].finalized /\ att[a].receipt.run = RunOf[a]
        => run[RunOf[a]].status =
             IF att[a].receipt.quarantined THEN "quarantined" ELSE "committed"

(* The advisory lock is taken after "key", tables at "lock" in their order. *)
LockPart(a) ==
    /\ att[a].pc \in {"idle", "begin", "key"} => \A k \in Keys : keyLock[k] # a
    /\ att[a].pc \in {"idle", "begin", "key", "verify", "cas"} =>
          \A t \in Tables : tableLock[t] # a
    /\ att[a].pc = "lock" =>
          \A t \in Held(a), u \in TablesOf[a] \ Held(a) : t < u
    /\ \A t \in Tables : tableLock[t] = a => t \in TablesOf[a]
    /\ \A k \in Keys : keyLock[k] = a => k = KeyOf[a]

AttemptParts(a) ==
    /\ PlacePart(a) /\ ReceiptPart(a) /\ RequestPart(a) /\ OwnerPart(a)
    /\ KeyPart(a) /\ FinalPart(a) /\ LockPart(a)

Inv ==
    /\ TypeOK /\ setup \in Setup
    /\ \A a \in Attempts : AttemptParts(a)
    /\ \A k \in Keys : LedgerPart(k)
    /\ \A r \in Runs : TruthPart(r)

-----------------------------
(* Types. *)

(* The places, outcomes and statuses the actions name. *)
LEMMA Names ==
    /\ {"idle", "begin", "key", "verify", "cas", "lock", "commit", "sent", "settle",
        "recover", "finish", "answer", "done", "crashed"} = PC
    /\ {"none", "committed", "unverified", "rolled_back", "cancelled", "failed",
        "unknown", "refused"} = Outcome
    /\ {"none", "open", "committing", "committed", "aborted"} = TxnState
    /\ Loads \cup Denial \cup {"executing", "unknown"} \subseteq Status
  BY DEF PC, InTransaction, Outcome, TxnState, Running, Loads, Denial, Status

(* What an attempt asks for. *)
LEMMA SetupFields ==
    ASSUME setup \in Setup, NEW a \in Attempts
    PROVE  /\ RunOf[a] \in Runs
           /\ KeyOf[a] \in Keys \cup {None}
           /\ HasLedger(a) => KeyOf[a] \in Keys
           /\ InstanceOf[a] \in Instances
           /\ TablesOf[a] \subseteq Tables
           /\ \A r \in Runs : BindingOf[r] \in Nat
  BY DEF Setup, RunOf, KeyOf, InstanceOf, TablesOf, BindingOf, HasLedger

(* The local variables of execute after two or three of them changed. *)
LEMMA AttemptUpdate ==
    ASSUME NEW x \in Attempt
    PROVE  /\ \A p \in PC, o \in Outcome : [x EXCEPT !.pc = p, !.outcome = o] \in Attempt
           /\ \A p \in PC, g \in Receipt \cup {None} :
                 [x EXCEPT !.pc = p, !.receipt = g] \in Attempt
           /\ \A p \in PC, c \in Nat \cup {None} :
                 [x EXCEPT !.pc = p, !.claimed = c] \in Attempt
           /\ \A p \in PC, f \in BOOLEAN : [x EXCEPT !.pc = p, !.finalized = f] \in Attempt
           /\ \A p \in PC, o \in Outcome, g \in Receipt \cup {None} :
                 /\ [x EXCEPT !.pc = p, !.outcome = o, !.receipt = g] \in Attempt
                 /\ [x EXCEPT !.pc = p, !.receipt = g, !.outcome = o] \in Attempt
  <1>1. ASSUME NEW p \in PC
        PROVE  /\ \A o \in Outcome : [x EXCEPT !.pc = p, !.outcome = o] \in Attempt
               /\ \A g \in Receipt \cup {None} :
                     [x EXCEPT !.pc = p, !.receipt = g] \in Attempt
               /\ \A c \in Nat \cup {None} : [x EXCEPT !.pc = p, !.claimed = c] \in Attempt
               /\ \A f \in BOOLEAN : [x EXCEPT !.pc = p, !.finalized = f] \in Attempt
    <2> DEFINE q == [x EXCEPT !.pc = p]
    <2>1. q \in Attempt
      BY AttemptFields
    <2>2. /\ \A o \in Outcome : [q EXCEPT !.outcome = o] \in Attempt
          /\ \A g \in Receipt \cup {None} : [q EXCEPT !.receipt = g] \in Attempt
          /\ \A c \in Nat \cup {None} : [q EXCEPT !.claimed = c] \in Attempt
          /\ \A f \in BOOLEAN : [q EXCEPT !.finalized = f] \in Attempt
      <3> HIDE DEF q
      <3>. QED BY <2>1, AttemptFields
    <2>. QED BY <2>2
  <1>2. ASSUME NEW p \in PC, NEW o \in Outcome, NEW g \in Receipt \cup {None}
        PROVE  /\ [x EXCEPT !.pc = p, !.outcome = o, !.receipt = g] \in Attempt
               /\ [x EXCEPT !.pc = p, !.receipt = g, !.outcome = o] \in Attempt
    <2> DEFINE qo == [x EXCEPT !.pc = p, !.outcome = o]
               qg == [x EXCEPT !.pc = p, !.receipt = g]
    <2>1. qo \in Attempt /\ qg \in Attempt
      BY <1>1
    <2>2. [qo EXCEPT !.receipt = g] \in Attempt /\ [qg EXCEPT !.outcome = o] \in Attempt
      <3> HIDE DEF qo, qg
      <3>. QED BY <2>1, AttemptFields
    <2>. QED BY <2>2
  <1>. QED BY <1>1, <1>2

(* Every step of execute leaves its local variables well formed. *)
LEMMA StepType ==
    ASSUME Inv, NEW a \in Attempts, Step(a)
    PROVE  att' \in [Attempts -> Attempt]
  <1> DEFINE x == att[a]
  <1>1. /\ TypeOK /\ setup \in Setup /\ x \in Attempt /\ att \in [Attempts -> Attempt]
        /\ PlacePart(a)
        /\ HasLedger(a) => KeyOf[a] \in Keys
    BY SetupFields DEF Inv, TypeOK, AttemptParts
  <1>2. CASE Start(a)
    <2> DEFINE p == IF HasLedger(a) THEN "begin" ELSE "verify"
               q == [x EXCEPT !.pc = p]
    <2>1. att' = [att EXCEPT ![a] = q]
      BY <1>1, <1>2 DEF Start
    <2>2. p \in PC
      BY Names
    <2>3. q \in Attempt
      BY <1>1, <2>2, AttemptFields
    <2>. QED BY <1>1, <2>1, <2>3
  <1>3. CASE Verify(a) \/ ClaimKey(a) \/ Begin(a) \/ SendCommit(a)
    <2>1. PICK p \in {"cas", "verify", "key", "lock", "sent"} :
             att' = [att EXCEPT ![a] = [x EXCEPT !.pc = p]]
      BY <1>1, <1>3 DEF Verify, ClaimKey, Begin, SendCommit
    <2>2. p \in PC
      BY Names
    <2>3. [x EXCEPT !.pc = p] \in Attempt
      BY <1>1, <2>2, AttemptFields
    <2>. QED BY <1>1, <2>1, <2>3
  <1>4. ASSUME NEW verified \in BOOLEAN, NEW closed \in BOOLEAN,
               Replay(a, verified, closed)
        PROVE  att' \in [Attempts -> Attempt]
    <2> DEFINE g == [ledger[KeyOf[a]] EXCEPT !.replayed = TRUE]
               o == IF verified THEN "committed" ELSE "unverified"
               q == [x EXCEPT !.pc = "settle", !.outcome = o, !.receipt = g]
    <2>1. ledger[KeyOf[a]] \in Receipt
      BY <1>1, <1>4 DEF Replay, At, TypeOK, PlacePart
    <2>2. g \in Receipt
      BY <2>1 DEF Receipt
    <2>3. att' = [att EXCEPT ![a] = q]
      BY <1>1, <1>4 DEF Replay
    <2>4. o \in Outcome /\ "settle" \in PC
      BY Names
    <2> HIDE DEF g, o, x
    <2>5. q \in Attempt
      BY <1>1, <2>2, <2>4, AttemptUpdate
    <2>. QED BY <1>1, <2>3, <2>5
  <1>5. ASSUME NEW t \in TablesOf[a], LockTable(a, t)
        PROVE  att' \in [Attempts -> Attempt]
    BY <1>1, <1>5 DEF LockTable
  <1>6. ASSUME NEW quarantined \in BOOLEAN, Write(a, quarantined)
        PROVE  att' \in [Attempts -> Attempt]
    <2> DEFINE g == NewReceipt(a, quarantined)
               q == [x EXCEPT !.pc = "commit", !.receipt = g]
    <2>1. g \in Receipt
      BY <1>1, SetupFields DEF NewReceipt, Receipt
    <2>2. att' = [att EXCEPT ![a] = q]
      BY <1>1, <1>6 DEF Write
    <2>3. "commit" \in PC
      BY Names
    <2> HIDE DEF g, x
    <2>4. q \in Attempt
      BY <1>1, <2>1, <2>3, AttemptUpdate, Names
    <2>. QED BY <1>1, <2>2, <2>4
  <1>7. CASE CommitAnswered(a) \/ ClaimFailed(a)
    <2>1. PICK p \in {"settle", "done"}, o \in {"committed", "refused"} :
             att' = [att EXCEPT ![a] = [x EXCEPT !.pc = p, !.outcome = o]]
      BY <1>1, <1>7 DEF CommitAnswered, ClaimFailed
    <2>2. p \in PC /\ o \in Outcome
      BY Names
    <2>3. [x EXCEPT !.pc = p, !.outcome = o] \in Attempt
      BY <1>1, <2>2, AttemptUpdate
    <2>. QED BY <1>1, <2>1, <2>3
  <1>8. CASE CommitLost(a)
    <2> DEFINE q == [x EXCEPT !.pc = "settle", !.outcome = "unknown", !.receipt = None]
    <2>1. att' = [att EXCEPT ![a] = q]
      BY <1>1, <1>8 DEF CommitLost
    <2>2. "settle" \in PC /\ "unknown" \in Outcome /\ None \in Receipt \cup {None}
      BY Names
    <2> HIDE DEF x
    <2>3. q \in Attempt
      BY <1>1, <2>2, AttemptUpdate
    <2>. QED BY <1>1, <2>1, <2>3
  <1>9. ASSUME NEW status \in {"rolled_back", "cancelled", "failed"}, NEW closed \in BOOLEAN,
               Fail(a, status, closed)
        PROVE  att' \in [Attempts -> Attempt]
    <2> DEFINE o == IF closed THEN status ELSE "unknown"
               q == [x EXCEPT !.pc = "settle", !.receipt = None, !.outcome = o]
    <2>1. att' = [att EXCEPT ![a] = q]
      BY <1>1, <1>9 DEF Fail
    <2>2. "settle" \in PC /\ o \in Outcome /\ None \in Receipt \cup {None}
      BY Names
    <2> HIDE DEF x, o
    <2>3. q \in Attempt
      BY <1>1, <2>2, AttemptUpdate
    <2>. QED BY <1>1, <2>1, <2>3
  <1>10. CASE Settle(a) \/ Recover(a) \/ FinalizeFailed(a)
    <2>1. PICK p \in {"finish", "recover", "answer"}, f \in BOOLEAN :
             \/ att' = [att EXCEPT ![a] = [x EXCEPT !.pc = p]]
             \/ att' = [att EXCEPT ![a] = [x EXCEPT !.pc = p, !.finalized = f]]
      BY <1>1, <1>10 DEF Settle, Recover, FinalizeFailed, SealMatches
    <2>2. p \in PC
      BY Names
    <2>3. [x EXCEPT !.pc = p] \in Attempt
      BY <1>1, <2>2, AttemptFields
    <2>4. [x EXCEPT !.pc = p, !.finalized = f] \in Attempt
      BY <1>1, <2>2, AttemptUpdate
    <2> DEFINE q == [x EXCEPT !.pc = p]
               qf == [x EXCEPT !.pc = p, !.finalized = f]
    <2>5. att' = [att EXCEPT ![a] = q] \/ att' = [att EXCEPT ![a] = qf]
      BY <2>1
    <2>6. q \in Attempt /\ qf \in Attempt
      BY <2>3, <2>4
    <2> HIDE DEF q, qf, x
    <2>. QED BY <1>1, <2>5, <2>6
  <1>11. CASE Return(a)
    <2> DEFINE q == [x EXCEPT !.pc = "done", !.claimed = None]
    <2>1. att' = [att EXCEPT ![a] = q]
      BY <1>1, <1>11 DEF Return
    <2>2. "done" \in PC /\ None \in Nat \cup {None}
      BY Names
    <2> HIDE DEF x
    <2>3. q \in Attempt
      BY <1>1, <2>2, AttemptUpdate
    <2>. QED BY <1>1, <2>1, <2>3
  <1>. QED BY <1>2, <1>3, <1>4, <1>5, <1>6, <1>7, <1>8, <1>9, <1>10, <1>11 DEF Step

(* What transition makes of a run row. *)
LEMMA TransitionedRow ==
    ASSUME NEW rn \in StagingRun, NEW s \in Status, NEW t \in Nat
    PROVE  /\ Transitioned(rn, s, t) \in StagingRun
           /\ Transitioned(rn, s, t).status = s
  <1> DEFINE c == CleanupAfter(s, t)
             q1 == [rn EXCEPT !.status = s]
             q2 == [q1 EXCEPT !.revision = rn.revision + 1]
             q3 == [q2 EXCEPT !.cleanup_after = c]
  <1>1. c \in Nat \cup {None}
    BY RetentionAssumption DEF CleanupAfter
  <1> HIDE DEF c
  <1>2. rn.revision + 1 \in Nat
    BY DEF StagingRun
  <1>3. q1 \in StagingRun
    BY RunFields
  <1> HIDE DEF q1
  <1>4. q2 \in StagingRun
    BY <1>2, <1>3, RunFields
  <1> HIDE DEF q2
  <1>5. q3 \in StagingRun
    BY <1>1, <1>4, RunFields
  <1>. QED BY <1>5 DEF q1, q2, c, Transitioned, StagingRun

(* What maintenance makes of a run row: an overdue run expires, and a       *)
(* tombstone keeps its status.                                              *)
LEMMA ExpiredRow ==
    ASSUME NEW rn \in StagingRun, NEW t \in Nat
    PROVE  /\ Expired(rn, t) \in StagingRun
           /\ \/ Expired(rn, t) = rn
              \/ rn.status \in {"open", "sealed"} /\ Expired(rn, t).status = "expired"
  <1> DEFINE c == rn.spec.expires_at + FailureSeconds
             q1 == [rn EXCEPT !.status = "expired"]
             q2 == [q1 EXCEPT !.revision = rn.revision + 1]
             q3 == [q2 EXCEPT !.cleanup_after = c]
  <1>1. c \in Nat \cup {None}
    BY RetentionAssumption DEF StagingRun, StagingRunSpec
  <1>2. rn.revision + 1 \in Nat /\ "expired" \in Status
    BY DEF StagingRun, Status
  <1>3. q1 \in StagingRun
    BY <1>2, RunFields
  <1> HIDE DEF q1, c
  <1>4. q2 \in StagingRun
    BY <1>2, <1>3, RunFields
  <1> HIDE DEF q2
  <1>5. q3 \in StagingRun
    BY <1>1, <1>4, RunFields
  <1>. QED BY <1>5 DEF q1, q2, c, Expired, Overdue, StagingRun

(* A purged row is a row of the same status. *)
LEMMA TombstoneRow ==
    ASSUME NEW rn \in StagingRun
    PROVE  Tombstone(rn) \in StagingRun /\ Tombstone(rn).status = rn.status
  <1> DEFINE sp == [rn.spec EXCEPT !.references = {}]
             q1 == [rn EXCEPT !.spec = sp]
             q2 == [q1 EXCEPT !.purged = TRUE]
             q3 == [q2 EXCEPT !.revision = rn.revision + 1]
  <1>1. sp \in StagingRunSpec
    BY DEF StagingRun, StagingRunSpec
  <1> HIDE DEF sp
  <1>2. rn.revision + 1 \in Nat
    BY DEF StagingRun
  <1>3. q1 \in StagingRun
    BY <1>1, RunFields
  <1> HIDE DEF q1
  <1>4. q2 \in StagingRun
    BY <1>3, RunFields
  <1> HIDE DEF q2
  <1>5. q3 \in StagingRun
    BY <1>2, <1>4, RunFields
  <1>. QED BY <1>5 DEF q1, q2, sp, Tombstone, StagingRun

(* What a step does to the status of a run: an attempt's request moves it,  *)
(* or the run never started and is stopped or expires.                      *)
Requested(r) ==
    \E c \in Attempts :
        /\ StagingApply(c) /\ RunOf[c] = r
        /\ pending[c].status \in Allowed(run[r].status)
        /\ run'[r].status = pending[c].status

Stopped(r) ==
    /\ run[r].status \in {"open", "sealed"}
    /\ run'[r].status \in {"failed", "cancelled", "expired"}
    /\ UNCHANGED <<pending, att, serverVars>>

(* The row of a run changes by an answered request or when it is stopped. *)
LEMMA RunStep ==
    ASSUME TypeOK, setup \in Setup, [Next]_vars
    PROVE  /\ run' \in [Runs -> StagingRun]
           /\ \A r \in Runs :
                 run'[r].status = run[r].status \/ Requested(r) \/ Stopped(r)
  <1> USE DEF TypeOK
  <1>1. CASE UNCHANGED run
    BY <1>1
  <1>2. ASSUME NEW c \in Attempts, StagingApply(c)
        PROVE  /\ run' \in [Runs -> StagingRun]
               /\ \A r \in Runs : run'[r].status = run[r].status \/ Requested(r)
    <2> DEFINE r == RunOf[c]
               q == Transitioned(run[r], pending[c].status, now)
    <2>1. /\ r \in Runs /\ run[r] \in StagingRun
          /\ pending[c] # None /\ pending[c] \in Request /\ pending[c].status \in Status
          /\ pending[c].status \in Allowed(run[r].status)
          /\ run' = [run EXCEPT ![r] = q]
      BY <1>2, SetupFields DEF StagingApply, CanTransition, Request
    <2>2. q \in StagingRun /\ q.status = pending[c].status
      BY <2>1, TransitionedRow
    <2> HIDE DEF r, q
    <2>3. /\ run' \in [Runs -> StagingRun] /\ run'[r] = q
          /\ \A x \in Runs : x # r => run'[x] = run[x]
      BY <2>1, <2>2
    <2>. QED BY <1>2, <2>1, <2>2, <2>3 DEF Requested, r
  <1>3. ASSUME NEW r \in Runs, NEW s \in {"failed", "cancelled"}, StopRun(r, s)
        PROVE  /\ run' \in [Runs -> StagingRun]
               /\ \A x \in Runs : run'[x].status = run[x].status \/ Stopped(x)
    <2> DEFINE q == Transitioned(run[r], s, now)
    <2>1. /\ run[r] \in StagingRun /\ s \in Status /\ run[r].status \in {"open", "sealed"}
          /\ run' = [run EXCEPT ![r] = q] /\ UNCHANGED <<pending, att, serverVars>>
      BY <1>3 DEF StopRun, Status
    <2>2. q \in StagingRun /\ q.status = s
      BY <2>1, TransitionedRow
    <2> HIDE DEF q
    <2>3. /\ run' \in [Runs -> StagingRun] /\ run'[r] = q
          /\ \A x \in Runs : x # r => run'[x] = run[x]
      BY <2>1, <2>2
    <2>. QED BY <2>1, <2>2, <2>3 DEF Stopped
  <1>4. ASSUME NEW r \in Runs, Cleanup(r)
        PROVE  /\ run' \in [Runs -> StagingRun]
               /\ \A x \in Runs : run'[x].status = run[x].status \/ Stopped(x)
    <2> DEFINE e == Expired(run[r], now)
               q == IF PurgeDue(e, now) THEN Tombstone(e) ELSE e
    <2>1. /\ run[r] \in StagingRun
          /\ run' = [run EXCEPT ![r] = q] /\ UNCHANGED <<pending, att, serverVars>>
      BY <1>4 DEF Cleanup
    <2>2. /\ e \in StagingRun
          /\ \/ e = run[r]
             \/ run[r].status \in {"open", "sealed"} /\ e.status = "expired"
      BY <2>1, ExpiredRow
    <2> HIDE DEF e
    <2>3. q \in StagingRun /\ q.status = e.status
      BY <2>2, TombstoneRow
    <2> HIDE DEF q
    <2>4. /\ run' \in [Runs -> StagingRun] /\ run'[r] = q
          /\ \A x \in Runs : x # r => run'[x] = run[x]
      BY <2>1, <2>3
    <2>. QED BY <2>1, <2>2, <2>3, <2>4 DEF Stopped
  <1>5. \A a \in setup.attempts : RunOf[a] \in Runs
    BY DEF Setup, RunOf
  <1>6. ASSUME NEW a \in Attempts, Step(a) \/ Crash(a) \/ Server(a) \/ StagingDrop(a)
        PROVE  UNCHANGED run
    BY <1>6 DEF Step, Crash, Server, StagingDrop, Start, Verify, Begin, ClaimKey, Replay,
         LockTable, Write, SendCommit, CommitAnswered, CommitLost, Fail, ClaimFailed,
         Settle, Recover, FinalizeFailed, Return, ServerCommit, ServerAbort, stagingVars
  <1>7. Tick \/ UNCHANGED vars => UNCHANGED run
    BY DEF Tick, vars, stagingVars
  <1>. QED BY <1>1, <1>2, <1>3, <1>4, <1>5, <1>6, <1>7 DEF Next, Staging

(* The transition an answer and a refused load ask for. *)
LEMMA FinalStatusType ==
    ASSUME Inv, NEW a \in Attempts, att[a].pc \in {"settle", "recover", "finish"}
    PROVE  /\ FinalStatus(a) \in Loads \cup Denial \cup {"unknown"}
           /\ FinalStatus(a) \in Status
           /\ FinalStatus(a) \in Loads <=> att[a].outcome \in Result
           /\ att[a].outcome \in Denial \cup {"unknown"} => FinalStatus(a) = att[a].outcome
           /\ att[a].outcome \in Result =>
                 (FinalStatus(a) = "quarantined" <=> att[a].receipt.quarantined)
  <1>1. /\ att[a] \in Attempt /\ att[a].outcome \in Outcome /\ PlacePart(a)
        /\ ReceiptPart(a)
    BY DEF Inv, TypeOK, AttemptParts, Attempt
  <1>2. att[a].outcome \in Result \cup Denial \cup {"unknown"}
    BY <1>1, Names DEF PlacePart, Ending, Result, Denial
  <1>3. CASE att[a].outcome \in Denial \cup {"unknown"}
    <2>1. att[a].receipt = None /\ att[a].outcome \notin Result
      BY <1>1, <1>3 DEF PlacePart, Denial, Result
    <2>. QED BY <1>3, <2>1 DEF FinalStatus, Denial, Result, Loads, Status
  <1>4. CASE att[a].outcome \in Result
    <2>1. PICK b \in Loaded : att[a].receipt = [rows[b] EXCEPT !.replayed = (a # b)]
      BY <1>1, <1>4 DEF ReceiptPart
    <2>2. rows[b] \in Receipt
      BY <2>1 DEF Inv, AttemptParts, PlacePart, TypeOK, Loaded
    <2>3. att[a].receipt \in Receipt
      BY <2>1, <2>2 DEF Receipt
    <2>4. att[a].receipt # None
      BY <2>3, RecordAssumption
    <2>5. att[a].receipt.quarantined \in BOOLEAN
      BY <2>3 DEF Receipt
    <2>6. FinalStatus(a) = IF att[a].receipt.quarantined THEN "quarantined" ELSE "committed"
      BY <1>4, <2>4, <2>5 DEF FinalStatus, Result
    <2>. QED BY <1>4, <2>5, <2>6 DEF Denial, Result, Loads, Status
  <1>. QED BY <1>2, <1>3, <1>4

(* Every step keeps every variable well formed. *)
LEMMA TypeStep ==
    ASSUME Inv, [Next]_vars
    PROVE  TypeOK' /\ setup' \in Setup
  <1> USE DEF TypeOK
  <1>1. /\ TypeOK /\ setup \in Setup /\ run' \in [Runs -> StagingRun]
        /\ \A a \in Attempts : PlacePart(a)
    BY RunStep DEF Inv, AttemptParts
  <1>2. CASE UNCHANGED vars
    BY <1>1, <1>2 DEF vars
  <1>3. ASSUME NEW a \in Attempts, Step(a)
        PROVE  TypeOK' /\ setup' \in Setup
    <2>1. att' \in [Attempts -> Attempt]
      BY <1>3, StepType
    <2>2. pending' \in [Attempts -> Request \cup {None}]
      <3>1. \A n \in Nat, s \in Status : [revision |-> n, status |-> s] \in Request
        BY DEF Request
      <3>2. RunOf[a] \in Runs /\ run[RunOf[a]].revision \in Nat
        BY <1>1, SetupFields DEF StagingRun
      <3>3. CASE Verify(a)
        <4>1. [revision |-> run[RunOf[a]].revision, status |-> "executing"] \in Request
          BY <3>1, <3>2, Names
        <4>. QED BY <1>1, <3>3, <4>1 DEF Verify
      <3>4. CASE Settle(a)
        <4>1. FinalStatus(a) \in Status
          BY <3>4, FinalStatusType DEF Settle, At
        <4>2. att[a].claimed \in Nat \cup {None}
          BY <1>1 DEF Attempt
        <4>3. att[a].claimed # None =>
                 [revision |-> att[a].claimed, status |-> FinalStatus(a)] \in Request
          BY <3>1, <4>1, <4>2
        <4>. QED BY <1>1, <3>4, <4>3 DEF Settle
      <3>5. CASE Recover(a)
        <4>1. FinalStatus(a) \in Status
          BY <3>5, FinalStatusType DEF Recover, At
        <4>2. [revision |-> run[RunOf[a]].revision, status |-> FinalStatus(a)] \in Request
          BY <3>1, <3>2, <4>1
        <4>. QED BY <1>1, <3>5, <4>2 DEF Recover
      <3>6. CASE UNCHANGED pending
        BY <1>1, <3>6
      <3>. QED BY <1>3, <3>3, <3>4, <3>5, <3>6
             DEF Step, Start, Begin, ClaimKey, Replay, LockTable, Write, SendCommit,
             CommitAnswered, CommitLost, Fail, ClaimFailed, FinalizeFailed, Return,
             stagingVars
    <2>3. /\ txn' \in [Attempts -> TxnState]
          /\ now' \in Nat /\ setup' \in Setup
          /\ ledger' \in [Keys -> Receipt \cup {None}]
          /\ busy' \in [Instances -> BOOLEAN]
          /\ unavailable' \in [Instances -> BOOLEAN]
      BY <1>1, <1>3, Names DEF Step, Start, Verify, Begin, ClaimKey, Replay,
         LockTable, Write, SendCommit, CommitAnswered, CommitLost, Fail, ClaimFailed,
         Settle, Recover, FinalizeFailed, Return, serverVars, instanceVars, RolledBack,
         Suspends
    <2>4. rows' \in [Attempts -> Receipt \cup {None}]
      <3>1. \A q \in BOOLEAN : NewReceipt(a, q) \in Receipt
        BY <1>1, SetupFields DEF NewReceipt, Receipt
      <3>2. \/ rows' = rows
            \/ \E q \in BOOLEAN : rows' = [rows EXCEPT ![a] = NewReceipt(a, q)]
            \/ rows' = [rows EXCEPT ![a] = None]
        BY <1>3 DEF Step, Start, Verify, Begin, ClaimKey, Replay,
           LockTable, Write, SendCommit, CommitAnswered, CommitLost, Fail, ClaimFailed,
           Settle, Recover, FinalizeFailed, Return, serverVars, RolledBack
      <3>. QED BY <1>1, <3>1, <3>2
    <2>5. /\ keyLock' \in [Keys -> Attempts \cup {None}]
          /\ tableLock' \in [Tables -> Attempts \cup {None}]
      <3>1. \/ keyLock' = keyLock
            \/ keyLock' = [keyLock EXCEPT ![KeyOf[a]] = a]
            \/ keyLock' = [k \in Keys |-> IF keyLock[k] = a THEN None ELSE keyLock[k]]
        BY <1>3 DEF Step, Start, Verify, Begin, ClaimKey, Replay,
           LockTable, Write, SendCommit, CommitAnswered, CommitLost, Fail, ClaimFailed,
           Settle, Recover, FinalizeFailed, Return, serverVars, lockVars, RolledBack, Released
      <3>2. \/ tableLock' = tableLock
            \/ \E t \in TablesOf[a] : tableLock' = [tableLock EXCEPT ![t] = a]
            \/ tableLock' = [t \in Tables |-> IF tableLock[t] = a THEN None ELSE tableLock[t]]
        BY <1>3 DEF Step, Start, Verify, Begin, ClaimKey, Replay,
           LockTable, Write, SendCommit, CommitAnswered, CommitLost, Fail, ClaimFailed,
           Settle, Recover, FinalizeFailed, Return, serverVars, lockVars, RolledBack, Released
      <3>. QED BY <1>1, <3>1, <3>2
    <2>. QED BY <1>1, <2>1, <2>2, <2>3, <2>4, <2>5
  <1>4. ASSUME NEW a \in Attempts, Crash(a)
        PROVE  TypeOK' /\ setup' \in Setup
    <2>1. NewAttempt("crashed") \in Attempt
      BY Names DEF NewAttempt, Attempt
    <2>. QED BY <1>1, <1>4, <2>1 DEF Crash, stagingVars, serverVars
  <1>5. ASSUME NEW a \in Attempts, Server(a)
        PROVE  TypeOK' /\ setup' \in Setup
    BY <1>1, <1>5, Names DEF Server, ServerCommit, ServerAbort, RolledBack, Released,
       stagingVars, instanceVars
  <1>6. ASSUME NEW a \in Attempts, StagingDrop(a)
        PROVE  TypeOK' /\ setup' \in Setup
    BY <1>1, <1>6 DEF StagingDrop, serverVars, instanceVars
  <1>7. ASSUME NEW a \in Attempts, StagingApply(a)
        PROVE  TypeOK' /\ setup' \in Setup
    <2> DEFINE x == att[a]
               c == pending[a].revision + 1
               p == IF HasLedger(a) THEN "lock" ELSE "begin"
               q == [x EXCEPT !.pc = p, !.claimed = c]
               z == [x EXCEPT !.pc = "answer"]
    <2>1. x \in Attempt /\ c \in Nat /\ p \in PC /\ "answer" \in PC
      BY <1>1, <1>7, Names DEF StagingApply, Request
    <2> HIDE DEF x, c, p
    <2>2. q \in Attempt /\ z \in Attempt
      BY <2>1, AttemptUpdate, AttemptFields
    <2>3. att' = [att EXCEPT ![a] = q] \/ att' = [att EXCEPT ![a] = z] \/ att' = att
      BY <1>1, <1>7 DEF StagingApply, Answered, x, c, p
    <2> HIDE DEF q, z
    <2>4. att' \in [Attempts -> Attempt]
      BY <1>1, <2>2, <2>3
    <2>. QED BY <1>1, <1>7, <2>4 DEF StagingApply, serverVars, instanceVars
  <1>8. ASSUME NEW r, Cleanup(r) \/ \E s \in {"failed", "cancelled"} : StopRun(r, s)
        PROVE  TypeOK' /\ setup' \in Setup
    BY <1>1, <1>8 DEF Cleanup, StopRun, serverVars, instanceVars
  <1>9. CASE Tick
    BY <1>1, <1>9 DEF Tick, stagingVars, serverVars, instanceVars
  <1>. QED BY <1>2, <1>3, <1>4, <1>5, <1>6, <1>7, <1>8, <1>9 DEF Next, Staging

-----------------------------
(* What a step leaves alone. *)

(* A step of one attempt does not touch the others. *)
Untouched(a) ==
    /\ att'[a] = att[a] /\ txn'[a] = txn[a] /\ rows'[a] = rows[a]
    /\ pending'[a] = pending[a]
    /\ \A k \in Keys : keyLock'[k] = a <=> keyLock[k] = a
    /\ \A t \in Tables : tableLock'[t] = a <=> tableLock[t] = a

Acts(c) == Step(c) \/ Crash(c) \/ Server(c) \/ Staging(c)

(* A step of one attempt leaves what the others hold alone. *)
LEMMA OthersUntouched ==
    ASSUME Inv, NEW c \in Attempts, Acts(c), NEW a \in Attempts \ {c}
    PROVE  setup' = setup /\ Untouched(a)
  <1>1. /\ TypeOK /\ setup \in Setup /\ PlacePart(c) /\ None \notin Attempts
        /\ HasLedger(c) => KeyOf[c] \in Keys
    BY SetupFields, LoaderAssumption DEF Inv, AttemptParts
  <1>2. CASE Step(c)
    <2> USE DEF Untouched, TypeOK
    <2>1. CASE Start(c) \/ Begin(c) \/ SendCommit(c) \/ CommitAnswered(c) \/ CommitLost(c)
               \/ ClaimFailed(c) \/ FinalizeFailed(c) \/ Return(c)
      BY <1>1, <2>1 DEF Start, Begin, SendCommit, CommitAnswered, CommitLost,
         ClaimFailed, FinalizeFailed, Return, stagingVars, serverVars, lockVars
    <2>2. CASE Verify(c) \/ Settle(c) \/ Recover(c)
      BY <1>1, <2>2 DEF Verify, Settle, Recover, serverVars
    <2>3. CASE ClaimKey(c)
      BY <1>1, <2>3 DEF ClaimKey, KeyFree, stagingVars
    <2>4. ASSUME NEW verified \in BOOLEAN, NEW closed \in BOOLEAN,
                 Replay(c, verified, closed)
          PROVE  setup' = setup /\ Untouched(a)
      BY <1>1, <2>4 DEF Replay, KeyFree, stagingVars
    <2>5. ASSUME NEW t \in TablesOf[c], LockTable(c, t)
          PROVE  setup' = setup /\ Untouched(a)
      BY <1>1, <2>5, SetupFields DEF LockTable, stagingVars
    <2>6. ASSUME NEW quarantined \in BOOLEAN, Write(c, quarantined)
          PROVE  setup' = setup /\ Untouched(a)
      BY <1>1, <2>6 DEF Write, stagingVars, lockVars
    <2>7. ASSUME NEW status \in {"rolled_back", "cancelled", "failed"}, NEW closed \in BOOLEAN,
                 Fail(c, status, closed)
          PROVE  setup' = setup /\ Untouched(a)
      BY <1>1, <2>7 DEF Fail, RolledBack, Released, stagingVars, lockVars
    <2>. QED BY <1>2, <2>1, <2>2, <2>3, <2>4, <2>5, <2>6, <2>7 DEF Step
  <1>3. CASE Crash(c) \/ StagingDrop(c) \/ StagingApply(c)
    BY <1>1, <1>3 DEF Crash, StagingDrop, StagingApply, Answered, Untouched, TypeOK,
       stagingVars, serverVars
  <1>4. CASE Server(c)
    BY <1>1, <1>4 DEF Server, ServerCommit, ServerAbort, RolledBack, Released, Untouched,
       TypeOK, stagingVars
  <1>. QED BY <1>2, <1>3, <1>4 DEF Acts, Staging

(* The steps that are no attempt's: stopping and cleaning a run, the clock. *)
LEMMA Environment ==
    ASSUME Inv, [Next]_vars
    PROVE  \/ \E c \in Attempts : Acts(c)
           \/ UNCHANGED <<setup, pending, att, txn, rows, keyLock, tableLock, ledger>>
  BY DEF Next, Acts, Cleanup, StopRun, Tick, vars, stagingVars, serverVars

(* What was begun and asked for never changes. *)
LEMMA SetupKept ==
    ASSUME [Next]_vars
    PROVE  setup' = setup
  <1>1. ASSUME NEW a \in Attempts, Step(a) \/ Crash(a) \/ Server(a) \/ Staging(a)
        PROVE  setup' = setup
    BY <1>1 DEF Step, Start, Verify, Begin, ClaimKey, Replay, LockTable, Write, SendCommit,
       CommitAnswered, CommitLost, Fail, ClaimFailed, Settle, Recover, FinalizeFailed, Return,
       Crash, Server, ServerCommit, ServerAbort, Staging, StagingApply, StagingDrop
  <1>2. ASSUME NEW r, Cleanup(r) \/ \E s \in {"failed", "cancelled"} : StopRun(r, s)
        PROVE  setup' = setup
    BY <1>2 DEF Cleanup, StopRun
  <1>3. Tick \/ UNCHANGED vars => setup' = setup
    BY DEF Tick, vars
  <1>. QED BY <1>1, <1>2, <1>3 DEF Next

(* A committed load stays, with its rows. *)
LEMMA LoadedKept ==
    ASSUME Inv, [Next]_vars
    PROVE  \A b \in Loaded : b \in Loaded' /\ rows'[b] = rows[b]
  <1> SUFFICES ASSUME NEW b \in Attempts, txn[b] = "committed"
               PROVE  txn'[b] = "committed" /\ rows'[b] = rows[b]
    BY DEF Loaded
  <1>1. TypeOK /\ PlacePart(b)
    BY DEF Inv, AttemptParts
  <1>2. CASE UNCHANGED <<setup, pending, att, txn, rows, keyLock, tableLock, ledger>>
    BY <1>2
  <1>3. ASSUME NEW c \in Attempts \ {b}, Acts(c)
        PROVE  txn'[b] = "committed" /\ rows'[b] = rows[b]
    BY <1>3, OthersUntouched DEF Untouched
  <1>4. CASE Acts(b)
    <2>1. CASE Step(b)
      BY <1>1, <2>1 DEF Step, Start, Verify, Begin, ClaimKey, Replay, LockTable, Write,
         SendCommit, CommitAnswered, CommitLost, Fail, ClaimFailed, Settle, Recover,
         FinalizeFailed, Return, serverVars, PlacePart, At, InTransaction
    <2>2. CASE Crash(b) \/ Server(b) \/ Staging(b)
      BY <1>1, <2>2 DEF Crash, Server, ServerCommit, ServerAbort, Running, Staging,
         StagingApply, StagingDrop, serverVars
    <2>. QED BY <1>4, <2>1, <2>2 DEF Acts
  <1>. QED BY <1>2, <1>3, <1>4, Environment

-----------------------------
(* PlacePart. *)

(* What execute does, seen from the places of PlacePart. *)
LEMMA PlaceOfStep ==
    ASSUME Inv, NEW a \in Attempts, Step(a)
    PROVE  PlacePart(a)'
  <1>1. /\ TypeOK /\ setup \in Setup /\ PlacePart(a) /\ setup' = setup
        /\ att[a] \in Attempt /\ att[a].outcome \in Outcome
    BY TypeStep DEF Inv, AttemptParts, TypeOK, Attempt, Step, Start, Verify, Begin, ClaimKey,
       Replay, LockTable, Write, SendCommit, CommitAnswered, CommitLost, Fail, ClaimFailed,
       Settle, Recover, FinalizeFailed, Return
  <1>0. \A q \in BOOLEAN : NewReceipt(a, q) # None
    <2>1. RunOf[a] \in Runs /\ BindingOf[RunOf[a]] \in Nat
      BY <1>1, SetupFields
    <2>2. \A q \in BOOLEAN : NewReceipt(a, q) \in Receipt
      BY <2>1 DEF NewReceipt, Receipt
    <2>. QED BY <2>2, RecordAssumption
  <1>01. ASSUME NEW quarantined \in BOOLEAN, Write(a, quarantined)
         PROVE  /\ att'[a].pc = "commit" /\ att'[a].receipt = NewReceipt(a, quarantined)
                /\ att'[a].claimed = att[a].claimed /\ att'[a].outcome = att[a].outcome
                /\ rows'[a] = NewReceipt(a, quarantined) /\ txn'[a] = "open"
                /\ att[a].pc = "lock"
                /\ NewReceipt(a, quarantined)' = NewReceipt(a, quarantined)
                /\ rows'[a].quarantined = quarantined
    BY <1>1, <1>01 DEF Write, TypeOK, At, NewReceipt, RunOf, BindingOf
  <1>02. ASSUME Settle(a)
         PROVE  /\ att'[a].pc \in {"finish", "recover", "answer"}
                /\ att'[a].pc = "recover" => att[a].claimed = None /\ ReplaysOwnRun(a)
                /\ att'[a].claimed = att[a].claimed /\ att'[a].outcome = att[a].outcome
                /\ att'[a].receipt = att[a].receipt
                /\ txn'[a] = txn[a] /\ rows'[a] = rows[a] /\ att[a].pc = "settle"
    <2>1. /\ att[a].pc = "settle" /\ txn' = txn /\ rows' = rows
          /\ \/ att' = [att EXCEPT ![a].pc = "finish"]
             \/ /\ att' = [att EXCEPT ![a].pc = "recover"]
                /\ att[a].claimed = None /\ ReplaysOwnRun(a)
             \/ att' = [att EXCEPT ![a].pc = "answer"]
      BY <1>02 DEF Settle, At, serverVars
    <2>. QED BY <1>1, <2>1 DEF TypeOK, Attempt
  <1>03. ASSUME Recover(a)
         PROVE  /\ att'[a].pc \in {"finish", "answer"}
                /\ att'[a].claimed = att[a].claimed /\ att'[a].outcome = att[a].outcome
                /\ att'[a].receipt = att[a].receipt
                /\ txn'[a] = txn[a] /\ rows'[a] = rows[a] /\ att[a].pc = "recover"
    <2>1. /\ att[a].pc = "recover" /\ txn' = txn /\ rows' = rows
          /\ \/ att' = [att EXCEPT ![a].pc = "finish"]
             \/ att' = [att EXCEPT ![a].pc = "answer", ![a].finalized = SealMatches(a)]
      BY <1>03 DEF Recover, At, serverVars
    <2>. QED BY <1>1, <2>1 DEF TypeOK, Attempt
  <1> USE <1>1 DEF PlacePart, TypeOK, Early, Writing, Ending, InTransaction, Denial,
                   HasLedger, KeyOf, At, NewReceipt, RunOf, BindingOf, ReplaysOwnRun
  <1>2. CASE Start(a)
    BY <1>2 DEF Start, stagingVars, serverVars
  <1>3. CASE Verify(a)
    BY <1>3 DEF Verify, serverVars
  <1>4. CASE Begin(a)
    BY <1>4 DEF Begin, stagingVars, lockVars
  <1>5. CASE ClaimKey(a)
    BY <1>5 DEF ClaimKey, stagingVars
  <1>6. ASSUME NEW verified \in BOOLEAN, NEW closed \in BOOLEAN, Replay(a, verified, closed)
        PROVE  PlacePart(a)'
    BY <1>6 DEF Replay, stagingVars
  <1>7. ASSUME NEW t \in TablesOf[a], LockTable(a, t)
        PROVE  PlacePart(a)'
    BY <1>7 DEF LockTable, stagingVars
  <1>8. ASSUME NEW quarantined \in BOOLEAN, Write(a, quarantined)
        PROVE  PlacePart(a)'
    BY <1>0, <1>01, <1>8
  <1>9. CASE SendCommit(a)
    BY <1>9 DEF SendCommit, stagingVars
  <1>10. CASE CommitAnswered(a)
    BY <1>10 DEF CommitAnswered, stagingVars, serverVars
  <1>11. CASE CommitLost(a)
    BY <1>11 DEF CommitLost, stagingVars, serverVars
  <1>12. ASSUME NEW status \in {"rolled_back", "cancelled", "failed"}, NEW closed \in BOOLEAN,
                Fail(a, status, closed)
         PROVE  PlacePart(a)'
    <2>1. /\ att'[a].pc = "settle" /\ att'[a].receipt = None
          /\ att'[a].claimed = att[a].claimed
          /\ att'[a].outcome = IF closed THEN status ELSE "unknown"
          /\ att[a].pc \in InTransaction
      BY <1>12 DEF Fail
    <2>2. \/ closed /\ txn'[a] = "aborted" /\ rows'[a] = None
          \/ ~closed /\ txn'[a] = txn[a] /\ rows'[a] = rows[a]
      BY <1>12 DEF Fail, RolledBack
    <2>. QED BY <2>1, <2>2
  <1>13. CASE ClaimFailed(a)
    <2>1. /\ att'[a].pc = "done" /\ att'[a].outcome = "refused"
          /\ att'[a].claimed = att[a].claimed
          /\ txn'[a] = txn[a] /\ rows'[a] = rows[a]
          /\ ~HasLedger(a) /\ att[a].pc \in {"verify", "cas"}
      BY <1>13 DEF ClaimFailed, stagingVars, serverVars
    <2>. QED BY <2>1
  <1>14. CASE Settle(a)
    BY <1>02, <1>14
  <1>15. CASE Recover(a)
    BY <1>03, <1>15
  <1>16. CASE FinalizeFailed(a)
    BY <1>16 DEF FinalizeFailed, serverVars
  <1>17. CASE Return(a)
    BY <1>17 DEF Return, serverVars
  <1>. QED BY <1>2, <1>3, <1>4, <1>5, <1>6, <1>7, <1>8, <1>9, <1>10, <1>11, <1>12, <1>13,
              <1>14, <1>15, <1>16, <1>17 DEF Step

(* The answer of the staging store to a claim, and to a finalisation. *)
LEMMA AnsweredStep ==
    ASSUME Inv, NEW a \in Attempts, StagingApply(a)
    PROVE  /\ UNCHANGED <<setup, txn, rows, keyLock, tableLock, ledger>>
           /\ pending[a] # None /\ pending'[a] = None
           /\ pending[a].status \in Allowed(run[RunOf[a]].status)
           /\ run'[RunOf[a]].status = pending[a].status
           /\ \A r \in Runs \ {RunOf[a]} : run'[r] = run[r]
           /\ \/ att' = att
              \/ /\ att[a].pc = "cas" /\ pending[a].status = "executing"
                 /\ att'[a].pc = IF HasLedger(a) THEN "lock" ELSE "begin"
                 /\ att'[a].claimed # None /\ att'[a].outcome = att[a].outcome
                 /\ att'[a].receipt = att[a].receipt
              \/ /\ att[a].pc = "finish" /\ att'[a].pc = "answer"
                 /\ pending[a].status = FinalStatus(a)
                 /\ att'[a].claimed = att[a].claimed /\ att'[a].outcome = att[a].outcome
                 /\ att'[a].receipt = att[a].receipt
                 /\ att'[a].finalized = att[a].finalized
  <1>1. /\ TypeOK /\ setup \in Setup /\ att[a] \in Attempt /\ RequestPart(a)
        /\ RunOf[a] \in Runs /\ run[RunOf[a]] \in StagingRun
        /\ pending[a] # None /\ pending[a] \in Request
    BY SetupFields DEF Inv, AttemptParts, TypeOK, StagingApply
  <1>2. /\ UNCHANGED <<setup, txn, rows, keyLock, tableLock, ledger>>
        /\ pending'[a] = None
    BY <1>1 DEF StagingApply, serverVars, TypeOK
  <1>3. /\ pending[a].status \in Allowed(run[RunOf[a]].status)
        /\ run' = [run EXCEPT ![RunOf[a]] =
                      Transitioned(run[RunOf[a]], pending[a].status, now)]
    BY DEF StagingApply, CanTransition
  <1>4. Transitioned(run[RunOf[a]], pending[a].status, now).status = pending[a].status
    BY <1>1, TransitionedRow DEF Request, TypeOK
  <1>5. /\ run'[RunOf[a]].status = pending[a].status
        /\ \A r \in Runs \ {RunOf[a]} : run'[r] = run[r]
    BY <1>1, <1>3, <1>4 DEF TypeOK
  <1>6. CASE At(a, "cas")
    <2>1. pending[a].status = "executing"
      BY <1>1, <1>6 DEF RequestPart, At
    <2>2. pending[a].revision + 1 # None
      BY <1>1, NoneAssumption DEF Request
    <2>3. \/ att' = att
          \/ att' = [att EXCEPT ![a].pc = IF HasLedger(a) THEN "lock" ELSE "begin",
                                ![a].claimed = pending[a].revision + 1]
      BY <1>6 DEF StagingApply, Answered, At
    <2>. QED BY <1>1, <1>2, <1>3, <1>5, <1>6, <2>1, <2>2, <2>3 DEF TypeOK, Attempt, At
  <1>7. CASE At(a, "finish")
    <2>1. pending[a].status = FinalStatus(a)
      BY <1>1, <1>7 DEF RequestPart, At
    <2>2. att' = att \/ att' = [att EXCEPT ![a].pc = "answer"]
      BY <1>7 DEF StagingApply, Answered, At
    <2>. QED BY <1>1, <1>2, <1>3, <1>5, <1>7, <2>1, <2>2 DEF TypeOK, Attempt, At
  <1>8. CASE ~At(a, "cas") /\ ~At(a, "finish")
    BY <1>1, <1>2, <1>3, <1>5, <1>8 DEF StagingApply, Answered
  <1>. QED BY <1>6, <1>7, <1>8

(* Every attempt stays at a place its state allows. *)
LEMMA PlaceStep ==
    ASSUME Inv, [Next]_vars, NEW a \in Attempts
    PROVE  PlacePart(a)'
  <1>1. /\ TypeOK /\ setup \in Setup /\ PlacePart(a) /\ RequestPart(a)
        /\ att[a] \in Attempt /\ att[a].outcome \in Outcome
    BY DEF Inv, AttemptParts, TypeOK, Attempt
  <1> USE <1>1 DEF PlacePart, Early, Writing, Ending, InTransaction, Denial,
                   HasLedger, KeyOf, NewReceipt, RunOf, BindingOf, ReplaysOwnRun
  <1>2. CASE UNCHANGED <<setup, pending, att, txn, rows, keyLock, tableLock, ledger>>
    BY <1>2
  <1>3. ASSUME NEW c \in Attempts \ {a}, Acts(c)
        PROVE  PlacePart(a)'
    <2>1. /\ setup' = setup /\ att'[a] = att[a] /\ txn'[a] = txn[a] /\ rows'[a] = rows[a]
      BY <1>3, OthersUntouched DEF Untouched
    <2>. QED BY <2>1
  <1>4. CASE Crash(a)
    BY <1>4 DEF TypeOK, Crash, NewAttempt, stagingVars, serverVars
  <1>5. CASE ServerCommit(a)
    BY <1>5 DEF TypeOK, ServerCommit, stagingVars
  <1>6. CASE ServerAbort(a)
    BY <1>6 DEF TypeOK, ServerAbort, RolledBack, Running, stagingVars
  <1>7. CASE StagingDrop(a)
    BY <1>7 DEF StagingDrop, serverVars
  <1>8. CASE StagingApply(a)
    BY <1>8, AnsweredStep
  <1>. QED BY <1>2, <1>3, <1>4, <1>5, <1>6, <1>7, <1>8, PlaceOfStep, Environment
           DEF Acts, Server, Staging

-----------------------------
(* ReceiptPart and RequestPart. *)

(* The committed load behind a result, and what the result says of it. *)
LEMMA ResultOf ==
    ASSUME Inv, NEW a \in Attempts, att[a].outcome \in Result
    PROVE  \E b \in Loaded :
              /\ b \in Attempts /\ rows[b] \in Receipt
              /\ att[a].receipt \in Receipt /\ att[a].receipt # None
              /\ att[a].receipt.quarantined = rows[b].quarantined
              /\ att[a].receipt.run = RunOf[b]
              /\ att[a].receipt.replayed = (a # b)
              /\ att[a].pc = "settle" => (att[a].claimed # None <=> a = b)
  <1>1. ReceiptPart(a)
    BY DEF Inv, AttemptParts
  <1>2. PICK b \in Loaded :
           /\ att[a].receipt = [rows[b] EXCEPT !.replayed = (a # b)]
           /\ att[a].pc = "settle" => (att[a].claimed # None <=> a = b)
    BY <1>1 DEF ReceiptPart
  <1>3. /\ b \in Attempts /\ txn[b] = "committed" /\ PlacePart(b)
        /\ rows[b] \in Receipt \cup {None}
    BY DEF Loaded, Inv, AttemptParts, TypeOK
  <1>4. rows[b] \in Receipt /\ rows[b] = NewReceipt(b, rows[b].quarantined)
    BY <1>3 DEF PlacePart
  <1>5. rows[b].run = RunOf[b]
    BY <1>4 DEF NewReceipt
  <1>6. /\ att[a].receipt \in Receipt
        /\ att[a].receipt.quarantined = rows[b].quarantined
        /\ att[a].receipt.run = rows[b].run
        /\ att[a].receipt.replayed = (a # b)
    BY <1>2, <1>4 DEF Receipt
  <1>. QED BY <1>2, <1>3, <1>4, <1>5, <1>6, RecordAssumption

(* What one step makes of the answer of one attempt. *)
LEMMA AnswerMove ==
    ASSUME Inv, [Next]_vars, NEW a \in Attempts
    PROVE  /\ setup' = setup
           /\ \/ att'[a] = att[a]
              \/ att'[a].outcome \notin Result
              \/ /\ att'[a].outcome = att[a].outcome /\ att'[a].receipt = att[a].receipt
                 /\ att'[a].pc # "settle"
              \/ CommitAnswered(a)
              \/ \E verified, closed \in BOOLEAN : Replay(a, verified, closed)
  <1>1. /\ TypeOK /\ att \in [Attempts -> Attempt] /\ PlacePart(a)
    BY DEF Inv, AttemptParts, TypeOK
  <1>2. CASE UNCHANGED <<setup, pending, att, txn, rows, keyLock, tableLock, ledger>>
    BY <1>2
  <1>3. ASSUME NEW c \in Attempts \ {a}, Acts(c)
        PROVE  setup' = setup /\ att'[a] = att[a]
    BY <1>3, OthersUntouched DEF Untouched
  <1>4. ASSUME Start(a) \/ Verify(a) \/ Begin(a) \/ ClaimKey(a) \/ SendCommit(a)
        PROVE  setup' = setup /\ att'[a].outcome \notin Result
    <2>1. att[a].outcome = "none" /\ setup' = setup
      BY <1>1, <1>4 DEF Start, Verify, Begin, ClaimKey, SendCommit, At, PlacePart, Ending
    <2>2. att'[a].outcome = att[a].outcome
      BY <1>1, <1>4 DEF Start, Verify, Begin, ClaimKey, SendCommit, Attempt
    <2>. QED BY <2>1, <2>2 DEF Result
  <1>5. ASSUME NEW quarantined \in BOOLEAN, Write(a, quarantined)
        PROVE  setup' = setup /\ att'[a].outcome \notin Result
    BY <1>1, <1>5 DEF Write, At, PlacePart, Ending, Attempt, Result
  <1>6. ASSUME CommitLost(a) \/ ClaimFailed(a) \/ Crash(a)
        PROVE  setup' = setup /\ att'[a].outcome \notin Result
    BY <1>1, <1>6 DEF CommitLost, ClaimFailed, Crash, NewAttempt, Attempt, Result
  <1>7. ASSUME NEW status \in {"rolled_back", "cancelled", "failed"}, NEW closed \in BOOLEAN,
               Fail(a, status, closed)
        PROVE  setup' = setup /\ att'[a].outcome \notin Result
    BY <1>1, <1>7 DEF Fail, Attempt, Result
  <1>8. ASSUME Settle(a) \/ Recover(a) \/ FinalizeFailed(a) \/ Return(a)
        PROVE  /\ setup' = setup
               /\ att'[a].outcome = att[a].outcome /\ att'[a].receipt = att[a].receipt
               /\ att'[a].pc # "settle"
    <2>1. PICK q \in {"finish", "recover", "answer", "done"}, f \in BOOLEAN :
             \/ att' = [att EXCEPT ![a].pc = q]
             \/ att' = [att EXCEPT ![a].pc = q, ![a].finalized = f]
             \/ att' = [att EXCEPT ![a].pc = q, ![a].claimed = None]
      BY <1>1, <1>8 DEF Settle, Recover, FinalizeFailed, Return, SealMatches
    <2>2. setup' = setup
      BY <1>8 DEF Settle, Recover, FinalizeFailed, Return
    <2>. QED BY <1>1, <2>1, <2>2 DEF Attempt
  <1>9. ASSUME StagingApply(a)
        PROVE  /\ setup' = setup
               /\ \/ att'[a] = att[a]
                  \/ /\ att'[a].outcome = att[a].outcome /\ att'[a].receipt = att[a].receipt
                     /\ att'[a].pc # "settle"
    BY <1>9, AnsweredStep
  <1>10. ASSUME StagingDrop(a) \/ Server(a) \/ \E t \in TablesOf[a] : LockTable(a, t)
         PROVE  setup' = setup /\ att'[a] = att[a]
    BY <1>10 DEF StagingDrop, Server, ServerCommit, ServerAbort, LockTable
  <1>11. ASSUME \/ CommitAnswered(a)
                \/ \E verified, closed \in BOOLEAN : Replay(a, verified, closed)
         PROVE  setup' = setup
    BY <1>11 DEF CommitAnswered, Replay
  <1>. QED BY <1>2, <1>3, <1>4, <1>5, <1>6, <1>7, <1>8, <1>9, <1>10, <1>11, Environment
           DEF Acts, Step, Staging

(* A receipt in memory is that of the ledger. *)
LEMMA ReceiptStep ==
    ASSUME Inv, [Next]_vars, NEW a \in Attempts
    PROVE  ReceiptPart(a)'
  <1>1. /\ TypeOK /\ setup \in Setup /\ att \in [Attempts -> Attempt] /\ PlacePart(a)
        /\ ReceiptPart(a) /\ setup' = setup
    BY AnswerMove DEF Inv, AttemptParts, TypeOK
  <1>2. CASE att'[a] = att[a] \/ /\ att'[a].outcome = att[a].outcome
                                 /\ att'[a].receipt = att[a].receipt
                                 /\ att'[a].pc # "settle"
    <2>1. SUFFICES ASSUME att[a].outcome \in Result
                   PROVE  ReceiptPart(a)'
      BY <1>2 DEF ReceiptPart
    <2>2. PICK b \in Loaded :
             /\ att[a].receipt = [rows[b] EXCEPT !.replayed = (a # b)]
             /\ att[a].receipt.binding = BindingOf[RunOf[a]]
             /\ att[a].pc = "settle" => (att[a].claimed # None <=> a = b)
      BY <1>1, <2>1 DEF ReceiptPart
    <2>3. b \in Loaded' /\ rows'[b] = rows[b]
      BY LoadedKept
    <2>. QED BY <1>1, <1>2, <2>2, <2>3 DEF ReceiptPart, BindingOf, RunOf
  <1>3. CASE att'[a].outcome \notin Result
    BY <1>3 DEF ReceiptPart
  <1>4. CASE CommitAnswered(a)
    <2>1. /\ txn[a] = "committed" /\ att[a].pc = "sent"
          /\ att'[a].receipt = att[a].receipt /\ att'[a].claimed = att[a].claimed
      BY <1>1, <1>4 DEF CommitAnswered, At, Attempt
    <2>2. a \in Loaded /\ a \in Loaded' /\ rows'[a] = rows[a]
      BY <2>1, LoadedKept DEF Loaded
    <2>3. /\ rows[a] \in Receipt /\ rows[a] = NewReceipt(a, rows[a].quarantined)
          /\ att[a].receipt = rows[a] /\ att[a].claimed # None
      BY <1>1, <2>1 DEF PlacePart, TypeOK, Writing
    <2>4. rows[a].replayed = FALSE /\ rows[a].binding = BindingOf[RunOf[a]]
      BY <2>3 DEF NewReceipt
    <2>5. rows[a] = [rows[a] EXCEPT !.replayed = (a # a)]
      BY <2>3, <2>4 DEF Receipt
    <2>. QED BY <1>1, <2>1, <2>2, <2>3, <2>4, <2>5 DEF ReceiptPart, BindingOf, RunOf
  <1>5. ASSUME NEW verified \in BOOLEAN, NEW closed \in BOOLEAN, Replay(a, verified, closed)
        PROVE  ReceiptPart(a)'
    <2>1. /\ att[a].pc = "key" /\ ledger[KeyOf[a]] # None
          /\ ledger[KeyOf[a]].binding = BindingOf[RunOf[a]]
          /\ att'[a].receipt = [ledger[KeyOf[a]] EXCEPT !.replayed = TRUE]
          /\ att'[a].claimed = att[a].claimed
      BY <1>1, <1>5 DEF Replay, At, SameBinding, Attempt
    <2>2. /\ KeyOf[a] \in Keys /\ att[a].claimed = None /\ rows[a] = None
          /\ LedgerPart(KeyOf[a])
      BY <1>1, <2>1, SetupFields DEF PlacePart, Early, Inv
    <2>3. PICK b \in Loaded : ledger[KeyOf[a]] = rows[b]
      BY <2>1, <2>2 DEF LedgerPart
    <2>4. b # a /\ rows[b] \in Receipt /\ b \in Loaded' /\ rows'[b] = rows[b]
      BY <1>1, <2>1, <2>2, <2>3, LoadedKept DEF Loaded, TypeOK
    <2>5. (a # b) = TRUE
      BY <2>4
    <2>6. att'[a].receipt = [rows'[b] EXCEPT !.replayed = (a # b)]
      BY <2>1, <2>3, <2>4, <2>5
    <2>7. att'[a].receipt.binding = BindingOf[RunOf[a]]'
      BY <1>1, <2>1, <2>3, <2>4 DEF Receipt, BindingOf, RunOf
    <2>8. att'[a].claimed = None
      BY <2>1, <2>2
    <2>. QED BY <2>4, <2>6, <2>7, <2>8 DEF ReceiptPart
  <1>6. \/ att'[a] = att[a]
        \/ att'[a].outcome \notin Result
        \/ /\ att'[a].outcome = att[a].outcome /\ att'[a].receipt = att[a].receipt
           /\ att'[a].pc # "settle"
        \/ CommitAnswered(a)
        \/ \E verified, closed \in BOOLEAN : Replay(a, verified, closed)
    BY AnswerMove
  <1>. QED BY <1>2, <1>3, <1>4, <1>5, <1>6

(* What one step makes of the request of one attempt: it is answered or     *)
(* lost, it is sent, or it stays while execute goes on.                     *)
LEMMA RequestMove ==
    ASSUME Inv, [Next]_vars, NEW a \in Attempts
    PROVE  \/ pending'[a] = None
           \/ Verify(a) \/ Settle(a) \/ Recover(a)
           \/ /\ pending'[a] = pending[a]
              /\ \/ att'[a] = att[a]
                 \/ att'[a].pc \in {"answer", "done", "crashed"}
                 \/ pending[a].status = "executing" /\ att'[a].pc = "settle"
              /\ txn[a] \in {"none", "aborted"} /\ pending[a].status # "executing"
                    => txn'[a] \in {"none", "aborted"}
  <1>1. /\ TypeOK /\ att \in [Attempts -> Attempt] /\ PlacePart(a) /\ RequestPart(a)
        /\ txn \in [Attempts -> TxnState] /\ pending \in [Attempts -> Request \cup {None}]
    BY DEF Inv, AttemptParts, TypeOK
  <1> DEFINE Stays ==
        /\ pending'[a] = pending[a]
        /\ \/ att'[a] = att[a]
           \/ att'[a].pc \in {"answer", "done", "crashed"}
           \/ pending[a].status = "executing" /\ att'[a].pc = "settle"
        /\ txn[a] \in {"none", "aborted"} /\ pending[a].status # "executing"
              => txn'[a] \in {"none", "aborted"}
  <1>2. CASE UNCHANGED <<setup, pending, att, txn, rows, keyLock, tableLock, ledger>>
    BY <1>2
  <1>3. ASSUME NEW c \in Attempts \ {a}, Acts(c)
        PROVE  Stays
    BY <1>3, OthersUntouched DEF Untouched
  <1>4. ASSUME \/ Start(a) \/ Begin(a) \/ ClaimKey(a) \/ SendCommit(a)
               \/ CommitAnswered(a) \/ CommitLost(a)
               \/ \E verified, closed \in BOOLEAN : Replay(a, verified, closed)
               \/ \E t \in TablesOf[a] : LockTable(a, t)
               \/ \E quarantined \in BOOLEAN : Write(a, quarantined)
        PROVE  pending'[a] = None
    <2>1. /\ pending' = pending
          /\ att[a].pc \in {"idle", "begin", "key", "lock", "commit", "sent"}
      BY <1>4 DEF Start, Begin, ClaimKey, SendCommit, CommitAnswered, CommitLost, Replay,
         LockTable, Write, At, stagingVars
    <2>. QED BY <1>1, <2>1 DEF RequestPart
  <1>5. ASSUME NEW status \in {"rolled_back", "cancelled", "failed"}, NEW closed \in BOOLEAN,
               Fail(a, status, closed)
        PROVE  Stays \/ pending'[a] = None
    <2>1. /\ pending' = pending /\ att'[a].pc = "settle" /\ att[a].pc \in InTransaction
      BY <1>1, <1>5 DEF Fail, stagingVars, Attempt
    <2>. QED BY <1>1, <2>1 DEF RequestPart, InTransaction
  <1>6. ASSUME ClaimFailed(a) \/ FinalizeFailed(a) \/ Return(a) \/ Crash(a)
        PROVE  Stays
    BY <1>1, <1>6 DEF ClaimFailed, FinalizeFailed, Return, Crash, NewAttempt, Attempt,
       stagingVars, serverVars
  <1>7. ASSUME Server(a)
        PROVE  Stays
    BY <1>1, <1>7 DEF Server, ServerCommit, ServerAbort, RolledBack, stagingVars
  <1>8. ASSUME Staging(a)
        PROVE  pending'[a] = None
    BY <1>1, <1>8, AnsweredStep DEF Staging, StagingDrop
  <1>. QED BY <1>2, <1>3, <1>4, <1>5, <1>6, <1>7, <1>8, Environment DEF Acts, Step

(* What the parts of PlacePart say of the answer that is being finalised. *)
LEMMA Finalising ==
    ASSUME Inv, NEW a \in Attempts, att[a].pc \in {"settle", "recover"},
           att[a].claimed # None \/ att[a].pc = "recover",
           att[a].outcome \in Result
    PROVE  \E b \in Loaded :
              /\ RunOf[b] = RunOf[a]
              /\ rows[b].quarantined <=> FinalStatus(a) = "quarantined"
  <1>1. PlacePart(a) /\ TypeOK
    BY DEF Inv, AttemptParts
  <1>2. PICK b \in Loaded :
           /\ att[a].receipt.quarantined = rows[b].quarantined
           /\ att[a].receipt.run = RunOf[b]
           /\ att[a].pc = "settle" => (att[a].claimed # None <=> a = b)
           /\ rows[b] \in Receipt
    BY ResultOf
  <1>3. RunOf[b] = RunOf[a]
    BY <1>1, <1>2 DEF PlacePart, ReplaysOwnRun
  <1>4. FinalStatus(a) = "quarantined" <=> att[a].receipt.quarantined
    BY FinalStatusType
  <1>. QED BY <1>2, <1>3, <1>4 DEF Receipt

(* A request under way is one its attempt made. *)
LEMMA RequestStep ==
    ASSUME Inv, [Next]_vars, NEW a \in Attempts
    PROVE  RequestPart(a)'
  <1>1. /\ TypeOK /\ att \in [Attempts -> Attempt] /\ PlacePart(a) /\ RequestPart(a)
        /\ txn \in [Attempts -> TxnState] /\ pending \in [Attempts -> Request \cup {None}]
        /\ setup' = setup
    BY AnswerMove DEF Inv, AttemptParts, TypeOK
  <1>2. CASE pending'[a] = None
    BY <1>2 DEF RequestPart
  <1>3. CASE Verify(a)
    <2>1. att'[a].pc = "cas" /\ pending'[a].status = "executing"
      BY <1>1, <1>3 DEF Verify, Attempt
    <2>. QED BY <2>1 DEF RequestPart, Loads, Denial
  <1>4. ASSUME \/ Settle(a) /\ att[a].claimed # None
               \/ Recover(a) /\ SealMatches(a) /\ Unresolved(a)
        PROVE  RequestPart(a)'
    <2>1. /\ att[a].pc \in {"settle", "recover"}
          /\ att[a].claimed # None \/ att[a].pc = "recover"
          /\ att'[a] = [att[a] EXCEPT !.pc = "finish"]
          /\ pending'[a].status = FinalStatus(a) /\ txn' = txn
      BY <1>1, <1>4 DEF Settle, Recover, At, serverVars
    <2>2. /\ att'[a].pc = "finish" /\ att'[a].outcome = att[a].outcome
          /\ att'[a].receipt = att[a].receipt
      BY <1>1, <2>1 DEF Attempt
    <2>3. /\ FinalStatus(a) \in Loads \cup Denial \cup {"unknown"}
          /\ FinalStatus(a) \in Loads <=> att[a].outcome \in Result
          /\ FinalStatus(a)' = FinalStatus(a)
      BY <2>1, <2>2, FinalStatusType DEF FinalStatus
    <2>4. ASSUME FinalStatus(a) \in Loads
          PROVE  \E b \in Loaded' :
                    /\ RunOf[b]' = RunOf[a]'
                    /\ rows'[b].quarantined <=> FinalStatus(a) = "quarantined"
      <3>1. PICK b \in Loaded :
               /\ RunOf[b] = RunOf[a]
               /\ rows[b].quarantined <=> FinalStatus(a) = "quarantined"
        BY <2>1, <2>3, <2>4, Finalising
      <3>. QED BY <1>1, <3>1, LoadedKept DEF RunOf
    <2>5. FinalStatus(a) \in Denial => txn[a] \in {"none", "aborted"}
      <3>1. FinalStatus(a) \in Denial => att[a].outcome \in Denial
        <4>1. att[a].outcome \in Result \cup Denial \cup {"unknown"}
          BY <1>1, <2>1, Names DEF PlacePart, Ending, Result, Denial, Attempt
        <4>. QED BY <4>1, <2>1, <2>3, FinalStatusType DEF Denial, Loads
      <3>. QED BY <1>1, <3>1 DEF PlacePart
    <2>. QED BY <2>1, <2>2, <2>3, <2>4, <2>5 DEF RequestPart, Loads, Denial
  <1>5. ASSUME \/ Settle(a) /\ att[a].claimed = None
               \/ Recover(a) /\ ~(SealMatches(a) /\ Unresolved(a))
        PROVE  RequestPart(a)'
    <2>1. /\ att[a].pc \in {"settle", "recover"} /\ pending' = pending
          /\ att'[a].pc \in {"recover", "answer"}
      BY <1>1, <1>5 DEF Settle, Recover, At, Attempt
    <2>2. pending[a] # None => pending[a].status = "executing"
      BY <1>1, <2>1 DEF RequestPart
    <2>. QED BY <2>1, <2>2 DEF RequestPart, Loads, Denial
  <1>6. ASSUME pending[a] # None, pending'[a] = pending[a],
               \/ att'[a] = att[a]
               \/ att'[a].pc \in {"answer", "done", "crashed"}
               \/ pending[a].status = "executing" /\ att'[a].pc = "settle",
               txn[a] \in {"none", "aborted"} /\ pending[a].status # "executing"
                    => txn'[a] \in {"none", "aborted"}
        PROVE  RequestPart(a)'
    <2>1. /\ pending[a].status = "executing" =>
                att'[a].pc \in {"cas", "settle", "recover", "answer", "done", "crashed"}
          /\ pending[a].status # "executing" =>
                att'[a].pc \in {"finish", "answer", "done", "crashed"}
      BY <1>1, <1>6 DEF RequestPart
    <2>2. att'[a].pc = "finish" => pending[a].status = FinalStatus(a)'
      <3>1. att'[a] = att[a] => FinalStatus(a)' = FinalStatus(a)
        BY DEF FinalStatus
      <3>. QED BY <1>1, <1>6, <3>1 DEF RequestPart
    <2>3. ASSUME pending[a].status \in Loads
          PROVE  \E b \in Loaded' :
                    /\ RunOf[b]' = RunOf[a]'
                    /\ rows'[b].quarantined <=> pending[a].status = "quarantined"
      <3>1. PICK b \in Loaded :
               /\ RunOf[b] = RunOf[a]
               /\ rows[b].quarantined <=> pending[a].status = "quarantined"
        BY <1>1, <1>6, <2>3 DEF RequestPart
      <3>. QED BY <1>1, <3>1, LoadedKept DEF RunOf
    <2>4. pending[a].status \in Denial => txn'[a] \in {"none", "aborted"}
      BY <1>1, <1>6 DEF RequestPart, Denial
    <2>. QED BY <1>6, <2>1, <2>2, <2>3, <2>4 DEF RequestPart
  <1>. QED BY <1>2, <1>3, <1>4, <1>5, <1>6, RequestMove DEF Settle, Recover

-----------------------------
(* OwnerPart and TruthPart. *)

(* The CAS on the status of the run is the only way to come to own it, and  *)
(* to come to be able to write.                                             *)
Claims(a) == StagingApply(a) /\ att[a].pc = "cas" /\ pending[a].status = "executing"

(* A claim finds the run sealed and leaves it executing. *)
LEMMA ClaimedRun ==
    ASSUME Inv, NEW a \in Attempts, Claims(a)
    PROVE  /\ run[RunOf[a]].status = "sealed" /\ run'[RunOf[a]].status = "executing"
           /\ setup' = setup
           /\ \A b \in Attempts \ {a} : Untouched(b)
  <1>1. /\ pending[a].status \in Allowed(run[RunOf[a]].status)
        /\ run'[RunOf[a]].status = pending[a].status /\ setup' = setup
    BY AnsweredStep DEF Claims
  <1>2. run[RunOf[a]].status = "sealed"
    BY <1>1 DEF Claims, Allowed
  <1>. QED BY <1>1, <1>2, OthersUntouched DEF Claims, Acts, Staging

(* An attempt becomes owner only by its claim. *)
LEMMA OwnerMove ==
    ASSUME Inv, [Next]_vars, NEW a \in Attempts, Owner(a)'
    PROVE  Owner(a) \/ Claims(a)
  <1>1. /\ TypeOK /\ att \in [Attempts -> Attempt] /\ PlacePart(a) /\ RequestPart(a)
        /\ rows \in [Attempts -> Receipt \cup {None}]
        /\ pending \in [Attempts -> Request \cup {None}]
    BY DEF Inv, AttemptParts, TypeOK
  <1>2. CASE UNCHANGED <<setup, pending, att, txn, rows, keyLock, tableLock, ledger>>
    BY <1>2 DEF Owner
  <1>3. ASSUME NEW c \in Attempts \ {a}, Acts(c)
        PROVE  Owner(a)
    BY <1>3, OthersUntouched DEF Untouched, Owner
  <1>4. ASSUME \/ Start(a) \/ Begin(a) \/ ClaimKey(a) \/ SendCommit(a)
               \/ CommitAnswered(a) \/ CommitLost(a) \/ ClaimFailed(a)
               \/ FinalizeFailed(a) \/ Return(a) \/ Crash(a)
               \/ \E t \in TablesOf[a] : LockTable(a, t)
        PROVE  Owner(a)
    BY <1>1, <1>4 DEF Start, Begin, ClaimKey, SendCommit, CommitAnswered, CommitLost,
       ClaimFailed, FinalizeFailed, Return, Crash, LockTable, NewAttempt, stagingVars,
       serverVars, Owner, Attempt
  <1>5. ASSUME NEW verified \in BOOLEAN, NEW closed \in BOOLEAN, Replay(a, verified, closed)
        PROVE  Owner(a)
    BY <1>1, <1>5 DEF Replay, stagingVars, Owner, Attempt
  <1>6. ASSUME NEW quarantined \in BOOLEAN, Write(a, quarantined)
        PROVE  Owner(a)
    BY <1>1, <1>6 DEF Write, At, PlacePart, Writing, Owner
  <1>7. ASSUME NEW status \in {"rolled_back", "cancelled", "failed"}, NEW closed \in BOOLEAN,
               Fail(a, status, closed)
        PROVE  Owner(a)
    BY <1>1, <1>7 DEF Fail, RolledBack, stagingVars, Owner, Attempt
  <1>8. CASE Verify(a)
    <2>1. /\ pending'[a].status = "executing" /\ rows' = rows
          /\ att'[a].claimed = att[a].claimed
      BY <1>1, <1>8 DEF Verify, Attempt, serverVars
    <2>. QED BY <2>1 DEF Owner, Denial
  <1>9. CASE Settle(a) \/ Recover(a)
    <2>1. /\ rows' = rows /\ att'[a].claimed = att[a].claimed
          /\ \/ pending' = pending
             \/ att[a].claimed # None
             \/ Recover(a) /\ pending'[a].status = FinalStatus(a)
      BY <1>1, <1>9 DEF Settle, Recover, Attempt, serverVars
    <2>2. ASSUME Recover(a)
          PROVE  FinalStatus(a) \in Loads
      <3>1. att[a].pc = "recover" /\ att[a].receipt # None
        BY <1>1, <2>2 DEF Recover, At, PlacePart, ReplaysOwnRun
      <3>2. att[a].outcome \in Result
        BY <1>1, <3>1, Names DEF PlacePart, Ending, Result, Denial, Attempt
      <3>. QED BY <3>1, <3>2, FinalStatusType
    <2>. QED BY <2>1, <2>2 DEF Owner, Loads, Denial
  <1>10. CASE Server(a)
    BY <1>1, <1>10 DEF Server, ServerCommit, ServerAbort, RolledBack, stagingVars, Owner
  <1>11. CASE StagingDrop(a)
    BY <1>1, <1>11 DEF StagingDrop, serverVars, Owner
  <1>12. CASE StagingApply(a)
    BY <1>1, <1>12, AnsweredStep DEF Owner, Claims
  <1>. QED BY <1>2, <1>3, <1>4, <1>5, <1>6, <1>7, <1>8, <1>9, <1>10, <1>11, <1>12,
              Environment DEF Acts, Step, Staging

(* A run that was claimed is never open or sealed again. *)
LEMMA StatusKept ==
    ASSUME Inv, [Next]_vars, NEW r \in Runs, run[r].status \notin {"open", "sealed"}
    PROVE  /\ run'[r].status \notin {"open", "sealed"}
           /\ run[r].status \in Loads => run'[r].status = run[r].status
  <1>1. run'[r].status = run[r].status \/ Requested(r)
    BY RunStep DEF Inv, Stopped
  <1>2. CASE Requested(r)
    BY <1>2 DEF Requested, Allowed, Loads
  <1>. QED BY <1>1, <1>2

(* A run has one owner. *)
LEMMA OwnerStep ==
    ASSUME Inv, [Next]_vars, NEW a \in Attempts
    PROVE  OwnerPart(a)'
  <1>1. /\ \A b \in Attempts : OwnerPart(b) /\ RunOf[b] \in Runs
        /\ setup' = setup
    BY SetupFields, AnswerMove DEF Inv, AttemptParts
  <1>2. SUFFICES ASSUME Owner(a)'
                 PROVE  /\ run'[RunOf[a]].status \notin {"open", "sealed"}
                        /\ \A b \in Attempts \ {a} : RunOf[b] = RunOf[a] => ~Owner(b)'
    BY <1>1 DEF OwnerPart, RunOf
  <1>3. CASE Owner(a)
    <2>1. /\ run[RunOf[a]].status \notin {"open", "sealed"}
          /\ \A b \in Attempts \ {a} : RunOf[b] = RunOf[a] => ~Owner(b)
      BY <1>1, <1>3 DEF OwnerPart
    <2>2. ASSUME NEW b \in Attempts \ {a}, RunOf[b] = RunOf[a], Owner(b)'
          PROVE  FALSE
      BY <2>1, <2>2, OwnerMove, ClaimedRun
    <2>. QED BY <1>1, <2>1, <2>2, StatusKept
  <1>4. CASE Claims(a)
    <2>1. /\ run[RunOf[a]].status = "sealed" /\ run'[RunOf[a]].status = "executing"
          /\ \A b \in Attempts \ {a} : Untouched(b)
      BY <1>4, ClaimedRun
    <2>2. ASSUME NEW b \in Attempts \ {a}, RunOf[b] = RunOf[a]
          PROVE  ~Owner(b)'
      <3>1. ~Owner(b)
        BY <1>1, <2>1, <2>2 DEF OwnerPart
      <3>. QED BY <2>1, <3>1 DEF Owner, Untouched
    <2>. QED BY <2>1, <2>2
  <1>. QED BY <1>2, <1>3, <1>4, OwnerMove

(* A transaction is opened only by the owner. *)
LEMMA LiveMove ==
    ASSUME Inv, [Next]_vars, NEW a \in Attempts, Live(a)'
    PROVE  Live(a) \/ Claims(a)
  <1>1. /\ TypeOK /\ att \in [Attempts -> Attempt] /\ PlacePart(a)
        /\ txn \in [Attempts -> TxnState] /\ setup' = setup
    BY AnswerMove DEF Inv, AttemptParts, TypeOK
  <1> USE DEF Live, Writing, HasLedger, KeyOf
  <1>2. CASE UNCHANGED <<setup, pending, att, txn, rows, keyLock, tableLock, ledger>>
    BY <1>2
  <1>3. ASSUME NEW c \in Attempts \ {a}, Acts(c)
        PROVE  Live(a)
    <2>1. setup' = setup /\ att'[a] = att[a] /\ txn'[a] = txn[a]
      BY <1>3, OthersUntouched DEF Untouched
    <2>. QED BY <2>1
  <1>4. ASSUME Start(a) \/ Verify(a) \/ ClaimKey(a)
        PROVE  Live(a)
    BY <1>1, <1>4 DEF Start, Verify, ClaimKey, At, PlacePart, Early, serverVars, Attempt
  <1>5. CASE Begin(a)
    BY <1>1, <1>5 DEF Begin, At, PlacePart, Attempt
  <1>6. ASSUME SendCommit(a) \/ CommitAnswered(a) \/ CommitLost(a) \/ ClaimFailed(a)
               \/ FinalizeFailed(a) \/ Return(a) \/ Crash(a)
        PROVE  Live(a)
    BY <1>1, <1>6 DEF SendCommit, CommitAnswered, CommitLost, ClaimFailed, FinalizeFailed,
       Return, Crash, NewAttempt, At, PlacePart, serverVars, Attempt
  <1>7. ASSUME NEW verified \in BOOLEAN, NEW closed \in BOOLEAN, Replay(a, verified, closed)
        PROVE  Live(a)
    BY <1>1, <1>7 DEF Replay, Attempt
  <1>8. ASSUME NEW t \in TablesOf[a], LockTable(a, t)
        PROVE  Live(a)
    BY <1>8 DEF LockTable
  <1>9. ASSUME NEW quarantined \in BOOLEAN, Write(a, quarantined)
        PROVE  Live(a)
    BY <1>1, <1>9 DEF Write, At, Attempt
  <1>10. ASSUME NEW status \in {"rolled_back", "cancelled", "failed"}, NEW closed \in BOOLEAN,
               Fail(a, status, closed)
        PROVE  Live(a)
    BY <1>1, <1>10 DEF Fail, RolledBack, Attempt
  <1>11. CASE Settle(a) \/ Recover(a)
    <2>1. /\ txn' = txn /\ att'[a].pc \in {"recover", "finish", "answer"}
      BY <1>1, <1>11 DEF Settle, Recover, serverVars, Attempt
    <2>. QED BY <2>1
  <1>12. CASE Server(a)
    BY <1>1, <1>12 DEF Server, ServerCommit, ServerAbort, RolledBack
  <1>13. CASE StagingDrop(a)
    BY <1>13 DEF StagingDrop, serverVars
  <1>14. CASE StagingApply(a)
    <2>1. /\ txn' = txn
          /\ att' = att \/ (att[a].pc = "cas" /\ pending[a].status = "executing")
                        \/ att'[a].pc = "answer"
      BY <1>14, AnsweredStep
    <2>. QED BY <1>1, <1>14, <2>1 DEF Claims
  <1> HIDE DEF Live
  <1>15. Step(a) => Live(a) \/ Claims(a)
    BY <1>4, <1>5, <1>6, <1>7, <1>8, <1>9, <1>10, <1>11 DEF Step
  <1>. QED BY <1>2, <1>3, <1>6, <1>12, <1>13, <1>14, <1>15, Environment DEF Acts, Staging

(* The row of a run says what its ledger says. *)
LEMMA TruthStep ==
    ASSUME Inv, [Next]_vars, NEW r \in Runs
    PROVE  TruthPart(r)'
  <1>0. TypeOK /\ setup \in Setup /\ TruthPart(r) /\ setup' = setup
    BY SetupKept DEF Inv
  <1>1. /\ TypeOK /\ setup \in Setup /\ setup' = setup /\ TruthPart(r)
        /\ \A a \in Attempts : /\ OwnerPart(a) /\ RequestPart(a) /\ PlacePart(a)
                               /\ RunOf[a] \in Runs /\ txn[a] \in TxnState
    <2>1. \A a \in Attempts : OwnerPart(a) /\ RequestPart(a) /\ PlacePart(a)
      BY DEF Inv, AttemptParts
    <2>2. \A a \in Attempts : RunOf[a] \in Runs /\ txn[a] \in TxnState
      BY <1>0, SetupFields DEF TypeOK
    <2>. QED BY <1>0, <2>1, <2>2
  <1>2. run'[r].status = run[r].status \/ Requested(r) \/ Stopped(r)
    BY RunStep DEF Inv
  <1>3. ASSUME run'[r].status \in Loads
        PROVE  \E b \in Loaded' : /\ RunOf[b]' = r
                                  /\ rows'[b].quarantined <=> run'[r].status = "quarantined"
    <2>1. \E b \in Loaded : /\ RunOf[b] = r
                            /\ rows[b].quarantined <=> run'[r].status = "quarantined"
      <3>1. CASE run'[r].status = run[r].status
        BY <1>1, <1>3, <3>1 DEF TruthPart
      <3>2. CASE Requested(r)
        <4>1. PICK c \in Attempts : /\ StagingApply(c) /\ RunOf[c] = r
                                    /\ run'[r].status = pending[c].status
          BY <3>2 DEF Requested
        <4>. QED BY <1>1, <1>3, <4>1 DEF RequestPart, StagingApply
      <3>3. CASE Stopped(r)
        BY <1>3, <3>3 DEF Stopped, Loads
      <3>. QED BY <1>2, <3>1, <3>2, <3>3
    <2>2. PICK b \in Loaded : /\ RunOf[b] = r
                              /\ rows[b].quarantined <=> run'[r].status = "quarantined"
      BY <2>1
    <2>. QED BY <1>1, <2>2, LoadedKept DEF RunOf
  <1>4. ASSUME run'[r].status \notin Loads \cup {"executing", "unknown"},
               NEW a \in Attempts, RunOf[a] = r, Live(a)'
        PROVE  FALSE
    <2>1. Live(a) /\ ~Claims(a)
      BY <1>4, LiveMove, ClaimedRun
    <2>2. Owner(a)
      BY <1>1, <2>1 DEF Live, Owner, PlacePart
    <2>3. run[r].status \notin {"open", "sealed"}
      BY <1>1, <1>4, <2>2 DEF OwnerPart
    <2>4. CASE run'[r].status = run[r].status
      BY <1>1, <1>4, <2>1, <2>4 DEF TruthPart
    <2>5. CASE Requested(r)
      <3>1. PICK c \in Attempts : /\ StagingApply(c) /\ RunOf[c] = r
                                  /\ pending[c].status \in Allowed(run[r].status)
                                  /\ run'[r].status = pending[c].status
        BY <2>5 DEF Requested
      <3>2. pending[c] # None /\ pending[c].status \in Denial
        BY <1>4, <2>3, <3>1 DEF StagingApply, Allowed, Loads, Denial
      <3>3. Owner(c)
        BY <3>2 DEF Owner
      <3>4. c = a
        BY <1>1, <1>4, <2>2, <3>1, <3>3 DEF OwnerPart
      <3>5. /\ txn[a] \in {"none", "aborted"}
            /\ att[a].pc \in {"finish", "answer", "done", "crashed"}
        BY <1>1, <3>2, <3>4 DEF RequestPart, Denial
      <3>. QED BY <2>1, <3>5 DEF Live, Writing
    <2>6. CASE Stopped(r)
      BY <2>3, <2>6 DEF Stopped
    <2>. QED BY <1>2, <2>4, <2>5, <2>6
  <1>. QED BY <1>1, <1>3, <1>4 DEF TruthPart, RunOf
-----------------------------
(* KeyPart and LedgerPart. *)

(* Rows come into a transaction by Write alone. *)
LEMMA RowsMove ==
    ASSUME Inv, [Next]_vars, NEW a \in Attempts, rows'[a] # None
    PROVE  rows'[a] = rows[a] \/ \E quarantined \in BOOLEAN : Write(a, quarantined)
  <1>1. TypeOK
    BY DEF Inv
  <1>2. CASE UNCHANGED <<setup, pending, att, txn, rows, keyLock, tableLock, ledger>>
    BY <1>2
  <1>3. ASSUME NEW c \in Attempts \ {a}, Acts(c)
        PROVE  rows'[a] = rows[a]
    BY <1>3, OthersUntouched DEF Untouched
  <1>4. ASSUME Step(a)
        PROVE  \/ rows' = rows \/ rows' = [rows EXCEPT ![a] = None]
               \/ \E quarantined \in BOOLEAN : Write(a, quarantined)
    BY <1>4 DEF Step, Start, Verify, Begin, ClaimKey, Replay, LockTable,
       SendCommit, CommitAnswered, CommitLost, Fail, ClaimFailed, Settle, Recover,
       FinalizeFailed, Return, serverVars, RolledBack
  <1>5. ASSUME Crash(a) \/ Server(a) \/ Staging(a)
        PROVE  rows' = rows \/ rows' = [rows EXCEPT ![a] = None]
    BY <1>5 DEF Crash, Server, ServerCommit, ServerAbort, RolledBack, Staging, StagingApply,
       StagingDrop, serverVars
  <1>. QED BY <1>1, <1>2, <1>3, <1>4, <1>5, Environment DEF Acts, TypeOK

(* A transaction commits, and the ledger changes, at the server alone. *)
LEMMA CommitMove ==
    ASSUME Inv, [Next]_vars
    PROVE  /\ UNCHANGED ledger \/ \E c \in Attempts : ServerCommit(c)
           /\ \A a \in Attempts :
                 txn'[a] = "committed" => txn[a] = "committed" \/ ServerCommit(a)
  <1>1. TypeOK
    BY DEF Inv
  <1>2. CASE UNCHANGED <<setup, pending, att, txn, rows, keyLock, tableLock, ledger>>
    BY <1>2
  <1>3. ASSUME NEW c \in Attempts, Acts(c), ~ServerCommit(c)
        PROVE  /\ UNCHANGED ledger
               /\ \/ txn' = txn
                  \/ \E s \in {"open", "committing", "aborted"} : txn' = [txn EXCEPT ![c] = s]
    BY <1>3 DEF Acts, Step, Start, Verify, Begin, ClaimKey, Replay, LockTable, Write,
       SendCommit, CommitAnswered, CommitLost, Fail, ClaimFailed, Settle, Recover,
       FinalizeFailed, Return, Crash, Server, ServerAbort, RolledBack, Staging,
       StagingApply, StagingDrop, serverVars
  <1>4. ASSUME NEW c \in Attempts, ServerCommit(c)
        PROVE  txn' = [txn EXCEPT ![c] = "committed"]
    BY <1>4 DEF ServerCommit
  <1>. QED BY <1>1, <1>2, <1>3, <1>4, Environment DEF TypeOK

(* The lock of a key has one holder. *)
LEMMA KeyStep ==
    ASSUME Inv, [Next]_vars, NEW a \in Attempts
    PROVE  KeyPart(a)'
  <1>1. /\ TypeOK /\ setup' = setup /\ setup \in Setup
        /\ \A b \in Attempts : KeyPart(b) /\ PlacePart(b)
    BY SetupKept DEF Inv, AttemptParts
  <1>2. SUFFICES ASSUME HasLedger(a), rows'[a] # None
                 PROVE  /\ txn'[a] \in Running => ledger'[KeyOf[a]] = None
                        /\ txn'[a] = "committed" => ledger'[KeyOf[a]] # None
                        /\ \A b \in Attempts \ {a} : KeyOf[b] = KeyOf[a] => rows'[b] = None
    BY <1>1 DEF KeyPart, HasLedger, KeyOf
  <1>3. KeyOf[a] \in Keys /\ \A b \in Attempts : KeyOf[b] = KeyOf[a] => HasLedger(b)
    BY <1>1, <1>2, SetupFields DEF HasLedger
  <1>4. \A b \in Attempts :
           rows[b] # None => txn[b] \in {"open", "committing", "committed"}
    BY <1>1 DEF PlacePart
  <1>5. ASSUME NEW b \in Attempts, NEW quarantined \in BOOLEAN, Write(b, quarantined),
               KeyOf[b] = KeyOf[a]
        PROVE  /\ ledger[KeyOf[a]] = None /\ ledger' = ledger /\ txn'[b] = "open"
               /\ \A d \in Attempts \ {b} : KeyOf[d] = KeyOf[a] => rows'[d] = None
    <2>1. /\ ledger[KeyOf[a]] = None /\ ledger' = ledger /\ txn'[b] = "open"
          /\ \A d \in Attempts \ {b} : rows'[d] = rows[d]
          /\ \A d \in Attempts \ {b} :
                KeyOf[d] = KeyOf[a] => ~(rows[d] # None /\ txn[d] \in Running)
      BY <1>1, <1>3, <1>5 DEF Write, MarkerFree, TypeOK, HasLedger
    <2>2. ASSUME NEW d \in Attempts \ {b}, KeyOf[d] = KeyOf[a], rows[d] # None
          PROVE  FALSE
      BY <1>1, <1>3, <1>4, <2>1, <2>2 DEF KeyPart, Running
    <2>. QED BY <2>1, <2>2
  <1>6. CASE \E quarantined \in BOOLEAN : Write(a, quarantined)
    BY <1>5, <1>6 DEF Running
  <1>7. CASE rows'[a] = rows[a]
    <2>1. /\ rows[a] # None /\ txn[a] \in {"open", "committing", "committed"}
          /\ txn[a] \in Running => ledger[KeyOf[a]] = None
          /\ txn[a] = "committed" => ledger[KeyOf[a]] # None /\ txn'[a] = "committed"
          /\ \A b \in Attempts \ {a} : KeyOf[b] = KeyOf[a] => rows[b] = None
      BY <1>1, <1>2, <1>4, <1>7, LoadedKept DEF KeyPart, Loaded
    <2>2. ASSUME NEW b \in Attempts \ {a}, KeyOf[b] = KeyOf[a], rows'[b] # None
          PROVE  FALSE
      <3>1. PICK quarantined \in BOOLEAN : Write(b, quarantined)
        BY <2>1, <2>2, RowsMove
      <3>. QED BY <1>2, <1>5, <2>2, <3>1
    <2>3. /\ txn'[a] \in Running => ledger'[KeyOf[a]] = None
          /\ txn'[a] = "committed" => ledger'[KeyOf[a]] # None
      <3>1. CASE UNCHANGED ledger
        <4>1. ~ServerCommit(a)
          BY <1>3, <2>1, <3>1 DEF ServerCommit, Marks, Running
        <4>. QED BY <2>1, <3>1, <4>1, CommitMove DEF Running
      <3>2. ASSUME NEW c \in Attempts, ServerCommit(c)
            PROVE  /\ txn'[a] \in Running => ledger'[KeyOf[a]] = None
                   /\ txn'[a] = "committed" => ledger'[KeyOf[a]] # None
        <4>1. /\ txn[c] = "committing" /\ rows[c] # None
              /\ txn' = [txn EXCEPT ![c] = "committed"]
              /\ ledger'[KeyOf[a]] = IF KeyOf[a] = KeyOf[c] THEN rows[c] ELSE ledger[KeyOf[a]]
          BY <1>1, <1>3, <3>2 DEF ServerCommit, Marks, PlacePart
        <4>2. KeyOf[a] = KeyOf[c] => c = a
          BY <2>1, <4>1
        <4>. QED BY <1>1, <2>1, <4>1, <4>2 DEF TypeOK, Running
      <3>. QED BY <3>1, <3>2, CommitMove
    <2>. QED BY <2>2, <2>3
  <1>. QED BY <1>2, <1>6, <1>7, RowsMove

(* A ledger entry has its rows. *)
LEMMA LedgerStep ==
    ASSUME Inv, [Next]_vars, NEW k \in Keys
    PROVE  LedgerPart(k)'
  <1>1. TypeOK /\ setup' = setup /\ LedgerPart(k)
    BY SetupKept DEF Inv
  <1>2. CASE ledger'[k] = ledger[k]
    <2>1. SUFFICES ASSUME ledger[k] # None
                   PROVE  LedgerPart(k)'
      BY <1>2 DEF LedgerPart
    <2>2. PICK b \in Loaded : KeyOf[b] = k /\ ledger[k] = rows[b]
      BY <1>1, <2>1 DEF LedgerPart
    <2>3. b \in Loaded' /\ rows'[b] = rows[b]
      BY LoadedKept
    <2>. QED BY <1>1, <1>2, <2>2, <2>3 DEF LedgerPart, KeyOf
  <1>3. ASSUME NEW c \in Attempts, ServerCommit(c), ledger'[k] # ledger[k]
        PROVE  LedgerPart(k)'
    <2>1. /\ KeyOf[c] = k /\ ledger'[k] = rows[c] /\ rows' = rows
          /\ txn'[c] = "committed"
      BY <1>1, <1>3 DEF ServerCommit, Marks, TypeOK
    <2>. QED BY <1>1, <2>1 DEF LedgerPart, Loaded, KeyOf
  <1>. QED BY <1>2, <1>3, CommitMove

-----------------------------
(* FinalPart. *)

(* How execute comes to a final answer without a warning. *)
LEMMA FinalMove ==
    ASSUME Inv, [Next]_vars, NEW a \in Attempts,
           att'[a].pc \in {"answer", "done"}, att'[a].outcome \in Result, att'[a].finalized
    PROVE  /\ att'[a].outcome = att[a].outcome /\ att'[a].receipt = att[a].receipt
           /\ \/ att[a].pc \in {"answer", "done"} /\ att[a].finalized
              \/ StagingApply(a) /\ att[a].pc = "finish"
              \/ Settle(a) /\ att[a].claimed = None /\ ~ReplaysOwnRun(a)
              \/ Recover(a) /\ SealMatches(a) /\ ~Unresolved(a)
  <1>1. /\ TypeOK /\ att \in [Attempts -> Attempt] /\ att[a] \in Attempt
    BY DEF Inv, TypeOK
  <1>2. CASE UNCHANGED <<setup, pending, att, txn, rows, keyLock, tableLock, ledger>>
    BY <1>2
  <1>3. ASSUME NEW c \in Attempts \ {a}, Acts(c)
        PROVE  att'[a] = att[a]
    BY <1>3, OthersUntouched DEF Untouched
  <1>4. ASSUME \/ Start(a) \/ Verify(a) \/ Begin(a) \/ ClaimKey(a) \/ SendCommit(a)
               \/ CommitAnswered(a) \/ CommitLost(a)
        PROVE  FALSE
    BY <1>1, <1>4 DEF Start, Verify, Begin, ClaimKey, SendCommit, CommitAnswered, CommitLost,
       Attempt
  <1>11. ASSUME NEW verified \in BOOLEAN, NEW closed \in BOOLEAN, Replay(a, verified, closed)
         PROVE  FALSE
    BY <1>1, <1>11 DEF Replay, Attempt
  <1>12. ASSUME NEW quarantined \in BOOLEAN, Write(a, quarantined)
         PROVE  FALSE
    BY <1>1, <1>12 DEF Write, Attempt
  <1>13. ASSUME NEW status \in {"rolled_back", "cancelled", "failed"}, NEW closed \in BOOLEAN,
                Fail(a, status, closed)
         PROVE  FALSE
    BY <1>1, <1>13 DEF Fail, Attempt
  <1>5. ASSUME ClaimFailed(a) \/ FinalizeFailed(a) \/ Crash(a)
        PROVE  FALSE
    BY <1>1, <1>5 DEF ClaimFailed, FinalizeFailed, Crash, NewAttempt, Attempt, Result
  <1>6. ASSUME \/ \E t \in TablesOf[a] : LockTable(a, t)
               \/ Server(a) \/ StagingDrop(a)
        PROVE  att'[a] = att[a]
    BY <1>6 DEF LockTable, Server, ServerCommit, ServerAbort, StagingDrop
  <1>7. CASE Return(a)
    BY <1>1, <1>7 DEF Return, At, Attempt
  <1>8. CASE Settle(a)
    BY <1>1, <1>8 DEF Settle, Attempt
  <1>9. CASE Recover(a)
    BY <1>1, <1>9 DEF Recover, Attempt
  <1>10. CASE StagingApply(a)
    BY <1>1, <1>10, AnsweredStep
  <1>. QED BY <1>2, <1>3, <1>4, <1>5, <1>6, <1>7, <1>8, <1>9, <1>10, <1>11, <1>12,
              <1>13, Environment DEF Acts, Step, Staging

(* What is final is what was committed. *)
LEMMA FinalStep ==
    ASSUME Inv, [Next]_vars, NEW a \in Attempts
    PROVE  FinalPart(a)'
  <1>1. /\ TypeOK /\ setup' = setup /\ setup \in Setup /\ RunOf[a] \in Runs
        /\ PlacePart(a) /\ FinalPart(a) /\ TruthPart(RunOf[a])
        /\ \A b \in Attempts : OwnerPart(b) /\ PlacePart(b)
    <2>1. setup' = setup /\ setup \in Setup /\ RunOf[a] \in Runs
      BY SetupKept, SetupFields DEF Inv
    <2>. QED BY <2>1 DEF Inv, AttemptParts
  <1> DEFINE Final == IF att[a].receipt.quarantined THEN "quarantined" ELSE "committed"
  <1>2. SUFFICES ASSUME att'[a].pc \in {"answer", "done"}, att'[a].outcome \in Result,
                        att'[a].finalized, att'[a].receipt.run = RunOf[a]
                 PROVE  run'[RunOf[a]].status = IF att'[a].receipt.quarantined
                                                THEN "quarantined" ELSE "committed"
    BY <1>1 DEF FinalPart, RunOf
  <1>3. /\ att'[a].outcome = att[a].outcome /\ att'[a].receipt = att[a].receipt
        /\ \/ att[a].pc \in {"answer", "done"} /\ att[a].finalized
           \/ StagingApply(a) /\ att[a].pc = "finish"
           \/ Settle(a) /\ att[a].claimed = None /\ ~ReplaysOwnRun(a)
           \/ Recover(a) /\ SealMatches(a) /\ ~Unresolved(a)
    BY <1>2, FinalMove
  <1>4. SUFFICES run'[RunOf[a]].status = Final
    BY <1>3
  <1>5. PICK b \in Loaded :
           /\ b \in Attempts /\ rows[b] \in Receipt
           /\ att[a].receipt \in Receipt /\ att[a].receipt # None
           /\ att[a].receipt.quarantined = rows[b].quarantined
           /\ RunOf[b] = RunOf[a]
           /\ att[a].receipt.replayed = (a # b)
           /\ att[a].pc = "settle" => (att[a].claimed # None <=> a = b)
    BY <1>2, <1>3, ResultOf
  <1>6. CASE att[a].pc \in {"answer", "done"} /\ att[a].finalized
    <2>1. run[RunOf[a]].status = Final
      BY <1>1, <1>2, <1>3, <1>6 DEF FinalPart
    <2>. QED BY <1>1, <2>1, StatusKept DEF Loads
  <1>7. CASE StagingApply(a) /\ att[a].pc = "finish"
    <2>1. run'[RunOf[a]].status = pending[a].status
      BY <1>7, AnsweredStep
    <2>2. pending[a].status = FinalStatus(a)
      BY <1>7 DEF Inv, AttemptParts, RequestPart, StagingApply
    <2>3. /\ FinalStatus(a) \in Loads
          /\ FinalStatus(a) = "quarantined" <=> att[a].receipt.quarantined
      BY <1>2, <1>3, <1>7, FinalStatusType
    <2>. QED BY <2>1, <2>2, <2>3 DEF Loads
  <1>8. CASE Settle(a) /\ att[a].claimed = None /\ ~ReplaysOwnRun(a)
    <2>1. att[a].pc = "settle"
      BY <1>8 DEF Settle, At
    <2>. QED BY <1>2, <1>3, <1>5, <1>8, <2>1 DEF ReplaysOwnRun
  <1>9. CASE Recover(a) /\ SealMatches(a) /\ ~Unresolved(a)
    <2>1. run' = run /\ run[RunOf[a]].status \notin {"executing", "unknown"}
      BY <1>9 DEF Recover, Unresolved
    <2>2. txn[b] = "committed" /\ rows[b] # None
      BY <1>1, <1>5 DEF Loaded, PlacePart
    <2>3. run[RunOf[a]].status \in Loads
      BY <1>1, <1>5, <2>1, <2>2 DEF TruthPart, Live
    <2>4. PICK d \in Loaded : /\ RunOf[d] = RunOf[a]
                              /\ rows[d].quarantined <=> run[RunOf[a]].status = "quarantined"
      BY <1>1, <2>3 DEF TruthPart
    <2>5. d \in Attempts /\ rows[d] # None
      BY <1>1, <2>4 DEF Loaded, PlacePart
    <2>6. d = b
      BY <1>1, <1>5, <2>2, <2>4, <2>5 DEF OwnerPart, Owner
    <2>. QED BY <1>5, <2>1, <2>3, <2>4, <2>6 DEF Loads, Receipt
  <1>. QED BY <1>3, <1>6, <1>7, <1>8, <1>9

-----------------------------
(* LockPart. *)

(* The steps that take no lock: the attempt goes on, or ends and releases. *)
LEMMA LocksKept ==
    ASSUME Inv, NEW a \in Attempts, setup' = setup,
           UNCHANGED <<keyLock, tableLock>> \/ Released(a),
           \/ att'[a].pc = att[a].pc
           \/ att'[a].pc \notin {"idle", "begin", "key", "verify", "cas", "lock"}
           \/ att[a].pc = "idle" /\ att'[a].pc \in {"begin", "verify"}
           \/ att[a].pc = "verify" /\ att'[a].pc = "cas"
           \/ att[a].pc = "begin" /\ att'[a].pc \in {"key", "lock"}
           \/ att[a].pc = "cas" /\ HasLedger(a) /\ att'[a].pc = "lock"
           \/ att[a].pc = "cas" /\ ~HasLedger(a) /\ att'[a].pc = "begin"
    PROVE  LockPart(a)'
  <1>1. /\ LockPart(a) /\ TypeOK /\ None \notin Keys /\ None \notin Attempts
        /\ TablesOf[a] \subseteq Tables
    BY SetupFields, LoaderAssumption DEF Inv, AttemptParts
  <1>2. /\ \A k \in Keys : keyLock'[k] = a => keyLock[k] = a
        /\ \A t \in Tables : tableLock'[t] = a => tableLock[t] = a
        /\ Held(a)' = Held(a) \/ Held(a)' = {}
    BY <1>1 DEF Released, TypeOK, Held, TablesOf
  <1>3. /\ \A t \in Tables : tableLock'[t] = a => t \in TablesOf[a]'
        /\ \A k \in Keys : keyLock'[k] = a => k = KeyOf[a]'
    BY <1>1, <1>2 DEF LockPart, TablesOf, KeyOf
  <1>4. att'[a].pc \in {"idle", "begin", "key"} => \A k \in Keys : keyLock'[k] # a
    BY <1>1, <1>2 DEF LockPart, HasLedger
  <1>5. att'[a].pc \in {"idle", "begin", "key", "verify", "cas"} =>
           \A t \in Tables : tableLock'[t] # a
    BY <1>1, <1>2 DEF LockPart
  <1>6. att'[a].pc = "lock" => \A t \in Held(a)', u \in TablesOf[a] \ Held(a)' : t < u
    <2>1. att[a].pc # "lock" /\ att'[a].pc = "lock" => Held(a) = {}
      BY <1>1 DEF LockPart, Held
    <2>. QED BY <1>1, <1>2, <2>1 DEF LockPart
  <1>. QED BY <1>3, <1>4, <1>5, <1>6 DEF LockPart, TablesOf

(* Table locks are taken in order. *)
LEMMA LockStep ==
    ASSUME Inv, [Next]_vars, NEW a \in Attempts
    PROVE  LockPart(a)'
  <1>1. /\ TypeOK /\ att \in [Attempts -> Attempt] /\ att[a] \in Attempt
        /\ LockPart(a) /\ PlacePart(a) /\ setup' = setup /\ setup \in Setup
        /\ TablesOf[a] \subseteq Tables /\ Tables \subseteq Nat
        /\ None \notin Attempts
    <2>1. setup' = setup /\ setup \in Setup /\ TablesOf[a] \subseteq Tables
      BY SetupKept, SetupFields DEF Inv
    <2>. QED BY <2>1, LoaderAssumption DEF Inv, AttemptParts, TypeOK
  <1>2. ASSUME att'[a] = att[a],
               \A k \in Keys : keyLock'[k] = a <=> keyLock[k] = a,
               \A t \in Tables : tableLock'[t] = a <=> tableLock[t] = a
        PROVE  LockPart(a)'
    <2>1. Held(a)' = Held(a)
      BY <1>1, <1>2 DEF Held, TablesOf
    <2>. QED BY <1>1, <1>2, <2>1 DEF LockPart, TablesOf, KeyOf
  <1>3. CASE UNCHANGED <<setup, pending, att, txn, rows, keyLock, tableLock, ledger>>
    BY <1>2, <1>3
  <1>4. ASSUME NEW c \in Attempts \ {a}, Acts(c)
        PROVE  LockPart(a)'
    BY <1>2, <1>4, OthersUntouched DEF Untouched
  <1>5. ASSUME Start(a) \/ Verify(a) \/ Begin(a) \/ SendCommit(a) \/ CommitAnswered(a)
               \/ CommitLost(a) \/ ClaimFailed(a) \/ FinalizeFailed(a) \/ Return(a)
               \/ Crash(a)
        PROVE  LockPart(a)'
    <2>1. UNCHANGED <<keyLock, tableLock>>
      BY <1>5 DEF Start, Verify, Begin, SendCommit, CommitAnswered, CommitLost,
         ClaimFailed, FinalizeFailed, Return, Crash, serverVars, lockVars
    <2>2. \/ att'[a].pc \notin {"idle", "begin", "key", "verify", "cas", "lock"}
          \/ att[a].pc = "idle" /\ att'[a].pc \in {"begin", "verify"}
          \/ att[a].pc = "verify" /\ att'[a].pc = "cas"
          \/ att[a].pc = "begin" /\ att'[a].pc \in {"key", "lock"}
      BY <1>1, <1>5 DEF Start, Verify, Begin, SendCommit, CommitAnswered, CommitLost,
         ClaimFailed, FinalizeFailed, Return, Crash, NewAttempt, At, Attempt
    <2>. QED BY <1>1, <2>1, <2>2, LocksKept
  <1>6. ASSUME Settle(a) \/ Recover(a) \/ \E quarantined \in BOOLEAN : Write(a, quarantined)
        PROVE  LockPart(a)'
    <2>1. UNCHANGED <<keyLock, tableLock>>
      BY <1>6 DEF Settle, Recover, Write, serverVars, lockVars
    <2>2. att'[a].pc \in {"recover", "answer", "finish", "commit"}
      BY <1>1, <1>6 DEF Settle, Recover, Write, Attempt
    <2>. QED BY <1>1, <2>1, <2>2, LocksKept
  <1>7. ASSUME NEW status \in {"rolled_back", "cancelled", "failed"}, NEW closed \in BOOLEAN,
               Fail(a, status, closed)
        PROVE  LockPart(a)'
    <2>1. UNCHANGED <<keyLock, tableLock>> \/ Released(a)
      BY <1>7 DEF Fail, RolledBack, lockVars
    <2>2. att'[a].pc = "settle"
      BY <1>1, <1>7 DEF Fail, Attempt
    <2>. QED BY <1>1, <2>1, <2>2, LocksKept
  <1>8. CASE ClaimKey(a)
    <2>1. /\ att'[a].pc = "verify" /\ att[a].pc = "key" /\ KeyOf[a] \in Keys
          /\ keyLock' = [keyLock EXCEPT ![KeyOf[a]] = a] /\ tableLock' = tableLock
      BY <1>1, <1>8, SetupFields DEF ClaimKey, At, Attempt, PlacePart
    <2>. QED BY <1>1, <2>1 DEF LockPart, TypeOK, KeyOf, TablesOf
  <1>9. ASSUME NEW verified \in BOOLEAN, NEW closed \in BOOLEAN, Replay(a, verified, closed)
        PROVE  LockPart(a)'
    <2>1. /\ att'[a].pc = "settle" /\ att[a].pc = "key" /\ KeyOf[a] \in Keys
          /\ tableLock' = tableLock
          /\ keyLock' = keyLock \/ keyLock' = [keyLock EXCEPT ![KeyOf[a]] = a]
      BY <1>1, <1>9, SetupFields DEF Replay, At, Attempt, PlacePart
    <2>. QED BY <1>1, <2>1 DEF LockPart, TypeOK, KeyOf, TablesOf
  <1>10. ASSUME NEW t \in TablesOf[a], LockTable(a, t)
         PROVE  LockPart(a)'
    <2>1. /\ att' = att /\ att[a].pc = "lock" /\ t \in Tables /\ keyLock' = keyLock
          /\ tableLock' = [tableLock EXCEPT ![t] = a]
          /\ \A u \in TablesOf[a] \ Held(a) : t <= u
      BY <1>1, <1>10 DEF LockTable, At, NextTable, lockVars
    <2>2. Held(a)' = Held(a) \cup {t}
      BY <1>1, <2>1 DEF Held, TablesOf, TypeOK
    <2>3. \A x \in Held(a)', u \in TablesOf[a] \ Held(a)' : x < u
      <3>1. SUFFICES ASSUME NEW x \in Held(a) \cup {t},
                            NEW u \in TablesOf[a] \ (Held(a) \cup {t})
                     PROVE  x < u
        BY <2>2
      <3>2. x \in Nat /\ u \in Nat
        BY <1>1, <2>1 DEF Held
      <3>. QED BY <1>1, <2>1, <3>2 DEF LockPart
    <2>. QED BY <1>1, <2>1, <2>3 DEF LockPart, TypeOK, KeyOf, TablesOf
  <1>11. ASSUME Server(a) \/ StagingDrop(a)
         PROVE  LockPart(a)'
    <2>1. /\ att' = att
          /\ UNCHANGED <<keyLock, tableLock>> \/ Released(a)
      BY <1>11 DEF Server, ServerCommit, ServerAbort, RolledBack, StagingDrop, serverVars
    <2>. QED BY <1>1, <2>1, LocksKept
  <1>12. CASE StagingApply(a)
    <2>1. /\ UNCHANGED <<keyLock, tableLock>>
          /\ \/ att' = att
             \/ att[a].pc = "cas" /\ HasLedger(a) /\ att'[a].pc = "lock"
             \/ att[a].pc = "cas" /\ ~HasLedger(a) /\ att'[a].pc = "begin"
             \/ att'[a].pc = "answer"
      BY <1>12, AnsweredStep
    <2>. QED BY <1>1, <2>1, LocksKept
  <1>. QED BY <1>3, <1>4, <1>5, <1>6, <1>7, <1>8, <1>9, <1>10, <1>11, <1>12, Environment
           DEF Acts, Step, Staging
-----------------------------
(* The invariant and what follows from it. *)

LEMMA InvInit == Init => Inv
  <1> SUFFICES ASSUME Init
               PROVE  Inv
    OBVIOUS
  <1>1. setup \in Setup
    BY LoaderAssumption DEF Init
  <1>2. \A r \in Runs : /\ SealedRun(r) \in StagingRun
                         /\ SealedRun(r).status = "sealed"
    <2> TAKE r \in Runs
    <2> DEFINE sp == SpecOf[r]
               q0 == NewRun(sp)
               q1 == [q0 EXCEPT !.status = "sealed"]
               q2 == [q1 EXCEPT !.revision = SealedRevision(r)]
               q3 == [q2 EXCEPT !.batch_count = sp.batch_count]
               q4 == [q3 EXCEPT !.record_count = sp.record_count]
               q5 == [q4 EXCEPT !.sealed_fingerprint = sp.normalized]
    <2>1. /\ sp \in StagingRunSpec /\ sp.batch_count \in Nat /\ sp.record_count \in Nat
          /\ sp.normalized \in Seq(Seq(RecordIds)) /\ SealedRevision(r) \in Nat
      BY LoaderAssumption DEF StagingRunSpec, SealedRevision
    <2>2. q0 \in StagingRun
      BY <2>1, None \in Nat \cup {None}, None \in Seq(Seq(RecordIds)) \cup {None}
         DEF NewRun, StagingRun, Status
    <2>3. "sealed" \in Status
      BY DEF Status
    <2> HIDE DEF q0, sp
    <2>4. q1 \in StagingRun
      BY <2>2, <2>3, RunFields
    <2> HIDE DEF q1
    <2>5. q2 \in StagingRun
      BY <2>1, <2>4, RunFields
    <2> HIDE DEF q2
    <2>6. q3 \in StagingRun
      BY <2>1, <2>5, RunFields
    <2> HIDE DEF q3
    <2>7. q4 \in StagingRun
      BY <2>1, <2>6, RunFields
    <2> HIDE DEF q4
    <2>8. q5 \in StagingRun
      BY <2>1, <2>7, RunFields
    <2>9. SealedRun(r) = q5
      BY DEF q4, q3, q2, q1, q0, sp, SealedRun
    <2>10. q5.status = "sealed"
      BY <2>2 DEF q4, q3, q2, q1, StagingRun
    <2>. QED BY <2>8, <2>9, <2>10
  <1>3. NewAttempt("idle") \in Attempt
    BY Names DEF NewAttempt, Attempt
  <1>4. TypeOK
    <2>1. run \in [Runs -> StagingRun] /\ att \in [Attempts -> Attempt]
      BY <1>2, <1>3 DEF Init
    <2>2. /\ pending \in [Attempts -> Request \cup {None}]
          /\ rows \in [Attempts -> Receipt \cup {None}]
          /\ ledger \in [Keys -> Receipt \cup {None}]
          /\ txn \in [Attempts -> TxnState]
      BY Names DEF Init
    <2>3. /\ now \in Nat
          /\ keyLock \in [Keys -> Attempts \cup {None}]
          /\ tableLock \in [Tables -> Attempts \cup {None}]
          /\ busy \in [Instances -> BOOLEAN]
          /\ unavailable \in [Instances -> BOOLEAN]
      BY DEF Init
    <2>. QED BY <2>1, <2>2, <2>3 DEF TypeOK
  <1>5. ASSUME NEW a \in Attempts
        PROVE  AttemptParts(a)
    <2>1. /\ att[a].pc = "idle" /\ att[a].claimed = None /\ att[a].outcome = "none"
          /\ att[a].receipt = None /\ txn[a] = "none" /\ rows[a] = None
          /\ pending[a] = None
      BY DEF Init, NewAttempt
    <2>2. /\ \A k \in Keys : keyLock[k] # a
          /\ \A t \in Tables : tableLock[t] # a
      BY LoaderAssumption DEF Init
    <2>3. PlacePart(a)
      BY <2>1 DEF PlacePart, Early, Writing, Ending, InTransaction, Denial, Running
    <2>4. ReceiptPart(a) /\ RequestPart(a) /\ OwnerPart(a) /\ KeyPart(a)
      BY <2>1 DEF ReceiptPart, RequestPart, OwnerPart, Owner, KeyPart, Result
    <2>5. FinalPart(a) /\ LockPart(a)
      BY <2>1, <2>2 DEF FinalPart, LockPart
    <2>. QED BY <2>3, <2>4, <2>5 DEF AttemptParts
  <1>6. \A k \in Keys : LedgerPart(k)
    BY DEF LedgerPart, Init
  <1>7. ASSUME NEW r \in Runs
        PROVE  TruthPart(r)
    <2>1. run[r].status = "sealed"
      BY <1>2 DEF Init
    <2>2. \A a \in Attempts : ~Live(a)
      BY DEF Live, Init, NewAttempt
    <2>. QED BY <2>1, <2>2 DEF TruthPart, Loads
  <1>. QED BY <1>1, <1>4, <1>5, <1>6, <1>7 DEF Inv

(* Every step keeps the invariant. *)
LEMMA InvStep == Inv /\ [Next]_vars => Inv'
  <1> SUFFICES ASSUME Inv, [Next]_vars
               PROVE  Inv'
    OBVIOUS
  <1>1. TypeOK' /\ setup' \in Setup
    BY TypeStep
  <1>2. \A a \in Attempts : AttemptParts(a)'
    BY PlaceStep, ReceiptStep, RequestStep, OwnerStep, KeyStep, FinalStep, LockStep
       DEF AttemptParts
  <1>3. (\A k \in Keys : LedgerPart(k)') /\ (\A r \in Runs : TruthPart(r)')
    BY LedgerStep, TruthStep
  <1>. QED BY <1>1, <1>2, <1>3 DEF Inv

(* The inductive invariant holds in every reachable state of execute. *)
THEOREM LoaderInvariant == Spec => []Inv
  BY InvInit, InvStep, PTL DEF Spec

(* The staging run never says of the target what is not so, whatever        *)
(* crashes, is repeated or comes late (loading/staged_input.py, _finalize   *)
(* of database/loader.py), and a result without the warning                 *)
(* LOAD_STAGING_FINALIZE_FAILED leaves it final.                            *)
THEOREM StagingTruth == Spec => []StagingIsTrue
  <1>1. ASSUME Inv
        PROVE  StagingTellsTruth
    <2>1. ASSUME NEW r \in Runs,
                 run[r].status \notin {"committed", "quarantined", "executing", "unknown"},
                 NEW a \in Attempts, RunOf[a] = r
          PROVE  txn[a] \notin {"committing", "committed"}
      BY <1>1, <2>1 DEF Inv, TruthPart, Live, Loads
    <2>2. ASSUME NEW r \in Runs, run[r].status \in {"committed", "quarantined"}
          PROVE  \E a \in Loaded : /\ RunOf[a] = r
                                   /\ rows[a].quarantined <=> run[r].status = "quarantined"
      BY <1>1, <2>2 DEF Inv, TruthPart, Loads
    <2>. QED BY <2>1, <2>2 DEF StagingTellsTruth
  <1>2. Inv => FinalizedMeansFinal
    BY DEF Inv, AttemptParts, FinalPart, FinalizedMeansFinal, At, Result
  <1>3. Inv => StagingIsTrue
    BY <1>1, <1>2 DEF StagingIsTrue, Inv
  <1>. QED BY <1>3, LoaderInvariant, PTL

(* What execute reports is so: a result is the receipt of a committed load  *)
(* of the same data, and a definite refusal means that nothing was written. *)
THEOREM AnswerTruth == Spec => []AnswerIsTrue
  <1>1. ASSUME Inv, NEW a \in Attempts, att[a].outcome \in {"committed", "unverified"}
        PROVE  \E b \in Loaded :
                  /\ att[a].receipt = [rows[b] EXCEPT !.replayed = (a # b)]
                  /\ att[a].receipt.binding = BindingOf[RunOf[a]]
    BY <1>1 DEF Inv, AttemptParts, ReceiptPart, Result
  <1>2. ASSUME Inv, NEW a \in Attempts,
               att[a].outcome \in {"rolled_back", "cancelled", "failed", "refused"}
        PROVE  txn[a] \notin {"open", "committing", "committed"}
    BY <1>2 DEF Inv, AttemptParts, PlacePart, Denial
  <1>3. Inv => AnswerIsTrue
    BY <1>1, <1>2 DEF AnswerIsTrue
  <1>. QED BY <1>3, LoaderInvariant, PTL

(* No run and no idempotency key is loaded twice: the CAS of the staging    *)
(* store gives the run to one attempt, the marker in the target the key.    *)
THEOREM LoadedAtMostOnce == Spec => []LoadedOnce
  <1>1. ASSUME Inv, NEW a \in Loaded, NEW b \in Loaded, a # b
        PROVE  RunOf[a] # RunOf[b] /\ (HasLedger(a) => KeyOf[a] # KeyOf[b])
    <2>1. /\ a \in Attempts /\ b \in Attempts
          /\ rows[a] # None /\ rows[b] # None
          /\ OwnerPart(a) /\ KeyPart(a)
      BY <1>1 DEF Loaded, Inv, AttemptParts, PlacePart
    <2>. QED BY <1>1, <2>1 DEF OwnerPart, Owner, KeyPart
  <1>2. Inv => LoadedOnce
    BY <1>1 DEF LoadedOnce
  <1>. QED BY <1>2, LoaderInvariant, PTL
-----------------------------
(* No circle of waiting attempts. *)

(* A finite set of table numbers that is not empty has a largest one. *)
LEMMA LargestTable ==
    ASSUME NEW T \in SUBSET Nat, IsFiniteSet(T), T # {}
    PROVE  \E m \in T : \A t \in T : t <= m
  <1> DEFINE Above(m) == {t \in T : m < t}
             Sizes == {Cardinality(Above(m)) : m \in T}
  <1>1. \A m \in T : IsFiniteSet(Above(m)) /\ Cardinality(Above(m)) \in Nat
    BY FS_Subset, FS_CardinalityType
  <1>2. /\ Sizes \subseteq Nat /\ Sizes # {}
        /\ \A m \in T : Cardinality(Above(m)) \in Sizes
    BY <1>1
  <1> HIDE DEF Above
  <1>3. PICK n \in Sizes : \A d \in Sizes : ~(<<d, n>> \in OpToRel(<, Nat))
    BY <1>2, WFMin, NatLessThanWellFounded
  <1>4. n \in Nat /\ \A d \in Sizes : d \in Nat /\ ~(d < n)
    BY <1>2, <1>3 DEF OpToRel
  <1>5. PICK m \in T : n = Cardinality(Above(m))
    BY <1>4
  <1>6. ASSUME NEW t \in T, m < t
        PROVE  FALSE
    <2>1. Above(t) \in SUBSET Above(m) /\ t \in Above(m) /\ t \notin Above(t)
      <3>1. \A u \in T : t < u => m < u
        BY <1>6
      <3>2. ~(t < t)
        OBVIOUS
      <3>. QED BY <1>6, <3>1, <3>2, Zenon DEF Above
    <2>2. /\ Cardinality(Above(t)) <= Cardinality(Above(m))
          /\ Cardinality(Above(t)) # Cardinality(Above(m))
      BY <1>1, <2>1, FS_Subset
    <2>3. Cardinality(Above(t)) \in Sizes
      BY <1>2
    <2>. QED BY <1>1, <1>4, <1>5, <2>2, <2>3
  <1>. QED BY <1>6

(* Who is waited for: an attempt past "key" holds an advisory lock, and one *)
(* past the claim of its run a table.                                       *)
LEMMA WaitedFor ==
    ASSUME Inv, NEW a \in Attempts, NEW b \in Attempts, WaitsFor(a, b), Waiting(b)
    PROVE  /\ att[b].pc = "lock"
           /\ att[a].pc = "lock" =>
                 \A t \in TablesOf[a], u \in TablesOf[b] :
                    NextTable(a, t) /\ NextTable(b, u) => t < u
  <1>1. /\ LockPart(b) /\ PlacePart(a) /\ setup \in Setup
        /\ HasLedger(a) => KeyOf[a] \in Keys
        /\ TablesOf[a] \subseteq Tables /\ TablesOf[b] \subseteq Tables
        /\ Tables \subseteq Nat
    BY SetupFields, LoaderAssumption DEF Inv, AttemptParts
  <1>2. att[b].pc \in {"key", "lock"}
    BY DEF Waiting, WaitsFor, At
  <1>3. att[b].pc = "lock"
    <2>1. \/ att[a].pc = "key" /\ keyLock[KeyOf[a]] = b
          \/ \E t \in TablesOf[a] : tableLock[t] = b
      BY DEF WaitsFor, At
    <2>2. att[a].pc = "key" => KeyOf[a] \in Keys
      BY <1>1 DEF PlacePart
    <2>3. att[b].pc = "key" => /\ \A k \in Keys : keyLock[k] # b
                              /\ \A t \in Tables : tableLock[t] # b
      BY <1>1 DEF LockPart
    <2>. QED BY <1>1, <1>2, <2>1, <2>2, <2>3
  <1>4. ASSUME att[a].pc = "lock",
               NEW t \in TablesOf[a], NEW u \in TablesOf[b], NextTable(a, t), NextTable(b, u)
        PROVE  t < u
    <2>1. PICK w \in TablesOf[a] : NextTable(a, w) /\ tableLock[w] = b
      BY <1>4 DEF WaitsFor, At
    <2>2. w = t
      <3>1. t \in Nat /\ w \in Nat
        BY <1>1, <1>4, <2>1
      <3>2. t <= w /\ w <= t
        BY <1>4, <2>1 DEF NextTable
      <3>. QED BY <3>1, <3>2
    <2>3. t \in Held(b)
      BY <1>1, <2>1, <2>2 DEF LockPart, Held
    <2>. QED BY <1>1, <1>3, <1>4, <2>3 DEF LockPart, NextTable
  <1>. QED BY <1>3, <1>4

(* The attempts never wait for one another in a circle: whoever waits at    *)
(* the advisory lock of a key waits for one that stands at the tables, and  *)
(* who waits for a table waits for one whose next table comes later         *)
(* (sorted LOCK TABLE statements of database/_load_transaction.py).         *)
THEOREM NoCircle == Spec => []NoLockCycle
  <1>1. ASSUME Inv, NEW S \in SUBSET {a \in Attempts : Waiting(a)},
               \A a \in S : \E b \in S : WaitsFor(a, b), S # {}
        PROVE  FALSE
    <2>1. \A a \in S : a \in Attempts /\ Waiting(a)
      OBVIOUS
    <2> DEFINE T == {t \in Tables : \E a \in S : /\ att[a].pc = "lock"
                                                 /\ t \in TablesOf[a] /\ NextTable(a, t)}
    <2>2. Tables \subseteq Nat /\ IsFiniteSet(Tables)
      BY LoaderAssumption
    <2>3. T \in SUBSET Nat /\ IsFiniteSet(T)
      BY <2>2, FS_Subset
    <2>4. \A a \in S : att[a].pc = "lock" =>
             \E t \in T : t \in TablesOf[a] /\ NextTable(a, t)
      BY <1>1, <2>1, SetupFields DEF Inv, Waiting, WaitsFor, At
    <2>5. \A a \in S : \E b \in S : WaitsFor(a, b) /\ att[b].pc = "lock"
      BY <1>1, <2>1, WaitedFor
    <2>6. T # {}
      BY <1>1, <2>4, <2>5
    <2>7. PICK m \in T : \A t \in T : t <= m
      BY <2>3, <2>6, LargestTable
    <2>8. PICK a \in S : att[a].pc = "lock" /\ m \in TablesOf[a] /\ NextTable(a, m)
      OBVIOUS
    <2>9. PICK b \in S : WaitsFor(a, b) /\ att[b].pc = "lock"
      BY <2>5
    <2>10. PICK u \in T : u \in TablesOf[b] /\ NextTable(b, u)
      BY <2>4, <2>9
    <2>11. m < u
      BY <1>1, <2>1, <2>8, <2>9, <2>10, WaitedFor
    <2>. QED BY <2>3, <2>7, <2>11
  <1>2. ASSUME Inv, NEW S \in (SUBSET {a \in Attempts : Waiting(a)}) \ {{}}
        PROVE  \E a \in S : \A b \in S : ~WaitsFor(a, b)
    BY <1>1, <1>2
  <1>3. Inv => NoLockCycle
    BY <1>2 DEF NoLockCycle
  <1>. QED BY <1>3, LoaderInvariant, PTL
-----------------------------
(* What is never taken back. *)

(* A committed load, its marker in execution_commits and a final status of  *)
(* its staging run stay as they are: no later attempt, replay or            *)
(* maintenance replaces them.                                               *)
ResultKept ==
    /\ \A k \in Keys : ledger[k] # None => ledger'[k] = ledger[k]
    /\ \A a \in Attempts : txn[a] = "committed" => txn'[a] = "committed" /\ rows'[a] = rows[a]
    /\ \A r \in Runs :
          run[r].status \in {"committed", "quarantined"} => run'[r].status = run[r].status

(* Committing is final in the target, in the ledger and in the store. *)
THEOREM ResultsAreKept == Spec => [][ResultKept]_vars
  <1>1. ASSUME Inv, [Next]_vars, NEW k \in Keys, ledger[k] # None
        PROVE  ledger'[k] = ledger[k]
    <2>1. ASSUME NEW c \in Attempts, ServerCommit(c), KeyOf[c] = k
          PROVE  FALSE
      <3>1. KeyPart(c) /\ PlacePart(c) /\ txn[c] = "committing"
        BY <1>1, <2>1 DEF Inv, AttemptParts, ServerCommit
      <3>2. rows[c] # None
        BY <3>1 DEF PlacePart
      <3>3. HasLedger(c)
        BY <2>1, LoaderAssumption DEF HasLedger
      <3>. QED BY <1>1, <2>1, <3>1, <3>2, <3>3 DEF KeyPart, Running
    <2>. QED BY <1>1, <2>1, CommitMove DEF ServerCommit, Marks
  <1>2. Inv /\ [Next]_vars => ResultKept
    BY <1>1, LoadedKept, StatusKept DEF ResultKept, Loaded, Loads
  <1>3. Inv /\ [Next]_vars => [ResultKept]_vars
    BY <1>2
  <1>. QED BY <1>3, LoaderInvariant, PTL DEF Spec
=============================================================================
