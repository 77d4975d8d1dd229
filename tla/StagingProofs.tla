---------------------------- MODULE StagingProofs ----------------------------
(***************************************************************************)
(* Proofs about the staging store, for every set of runs, clients, specs   *)
(* and batches and every retention policy.                                 *)
(*                                                                         *)
(* Every property is about one run.  Lemma OneRun says what one step does  *)
(* to one run (nothing, or one of five kinds of change); the invariants    *)
(* are then proved kind by kind, without looking at clients or answers.    *)
(***************************************************************************)
EXTENDS Staging, TLAPS

-----------------------------
(* The rules of StagingRules. *)

(* A run stays well formed when one field is replaced: contracts/staging.py *)
(* validates each StagingRun the store builds.                              *)
LEMMA FieldsType ==
    ASSUME NEW rn \in StagingRun
    PROVE  /\ \A x \in Status : [rn EXCEPT !.status = x] \in StagingRun
           /\ \A x \in Nat : [rn EXCEPT !.revision = x] \in StagingRun
           /\ \A x \in Nat : [rn EXCEPT !.batch_count = x] \in StagingRun
           /\ \A x \in Nat : [rn EXCEPT !.record_count = x] \in StagingRun
           /\ \A x \in Seq(Seq(RecordIds)) :
                 [rn EXCEPT !.sealed_fingerprint = x] \in StagingRun
           /\ \A x \in Nat \cup {None} : [rn EXCEPT !.cleanup_after = x] \in StagingRun
           /\ [rn EXCEPT !.purged = TRUE] \in StagingRun
           /\ \A x \in StagingRunSpec : [rn EXCEPT !.spec = x] \in StagingRun
  BY DEF StagingRun

(* What transition makes of a run row. *)
LEMMA TransitionedRow ==
    ASSUME NEW rn \in StagingRun, NEW s \in Status, NEW t \in Nat
    PROVE  LET q == Transitioned(rn, s, t)
           IN  /\ q \in StagingRun
               /\ q.spec = rn.spec /\ q.spec_fingerprint = rn.spec_fingerprint
               /\ q.status = s /\ q.revision = rn.revision + 1
               /\ q.batch_count = rn.batch_count /\ q.record_count = rn.record_count
               /\ q.sealed_fingerprint = rn.sealed_fingerprint
               /\ q.cleanup_after = CleanupAfter(s, t) /\ q.purged = rn.purged
  <1> DEFINE c == CleanupAfter(s, t)
             q1 == [rn EXCEPT !.status = s]
             q2 == [q1 EXCEPT !.revision = rn.revision + 1]
             q3 == [q2 EXCEPT !.cleanup_after = c]
  <1>1. c \in Nat \cup {None}
    BY RetentionAssumption DEF CleanupAfter
  <1> HIDE DEF c
  <1>2. rn.revision + 1 \in Nat
    BY DEF StagingRun
  <1>3. q1 \in StagingRun
    BY FieldsType
  <1> HIDE DEF q1
  <1>4. q2 \in StagingRun
    BY <1>2, <1>3, FieldsType
  <1> HIDE DEF q2
  <1>5. q3 \in StagingRun
    BY <1>1, <1>4, FieldsType
  <1>6. Transitioned(rn, s, t) \in StagingRun
    BY <1>5 DEF q1, q2, c, Transitioned
  <1>. QED BY <1>6 DEF Transitioned, StagingRun

(* What stage makes of a run row. *)
LEMMA StagedRow ==
    ASSUME NEW rn \in StagingRun, NEW n \in Nat
    PROVE  LET q == Staged(rn, n)
           IN  /\ q \in StagingRun
               /\ q.spec = rn.spec /\ q.spec_fingerprint = rn.spec_fingerprint
               /\ q.status = rn.status /\ q.revision = rn.revision + 1
               /\ q.batch_count = rn.batch_count + 1
               /\ q.record_count = rn.record_count + n
               /\ q.sealed_fingerprint = rn.sealed_fingerprint
               /\ q.cleanup_after = rn.cleanup_after /\ q.purged = rn.purged
  <1> DEFINE q1 == [rn EXCEPT !.revision = rn.revision + 1]
             q2 == [q1 EXCEPT !.batch_count = rn.batch_count + 1]
             q3 == [q2 EXCEPT !.record_count = rn.record_count + n]
  <1>1. /\ rn.revision + 1 \in Nat /\ rn.batch_count + 1 \in Nat
        /\ rn.record_count + n \in Nat
    BY DEF StagingRun
  <1>2. q1 \in StagingRun
    BY <1>1, FieldsType
  <1> HIDE DEF q1
  <1>3. q2 \in StagingRun
    BY <1>1, <1>2, FieldsType
  <1> HIDE DEF q2
  <1>4. q3 \in StagingRun
    BY <1>1, <1>3, FieldsType
  <1>5. Staged(rn, n) \in StagingRun
    BY <1>4 DEF q1, q2, Staged
  <1>. QED BY <1>5 DEF Staged, StagingRun

(* What seal makes of a run row. *)
LEMMA SealedRow ==
    ASSUME NEW rn \in StagingRun, NEW m \in Seq(Seq(RecordIds))
    PROVE  LET q == Sealed(rn, m)
           IN  /\ q \in StagingRun
               /\ q.spec = rn.spec /\ q.spec_fingerprint = rn.spec_fingerprint
               /\ q.status = "sealed" /\ q.revision = rn.revision + 1
               /\ q.batch_count = rn.batch_count /\ q.record_count = rn.record_count
               /\ q.sealed_fingerprint = m
               /\ q.cleanup_after = rn.cleanup_after /\ q.purged = rn.purged
  <1> DEFINE q1 == [rn EXCEPT !.status = "sealed"]
             q2 == [q1 EXCEPT !.revision = rn.revision + 1]
             q3 == [q2 EXCEPT !.sealed_fingerprint = m]
  <1>1. rn.revision + 1 \in Nat /\ "sealed" \in Status
    BY DEF StagingRun, Status
  <1>2. q1 \in StagingRun
    BY <1>1, FieldsType
  <1> HIDE DEF q1
  <1>3. q2 \in StagingRun
    BY <1>1, <1>2, FieldsType
  <1> HIDE DEF q2
  <1>4. q3 \in StagingRun
    BY <1>3, FieldsType
  <1>5. Sealed(rn, m) \in StagingRun
    BY <1>4 DEF q1, q2, Sealed
  <1>. QED BY <1>5 DEF Sealed, StagingRun

(* What the first half of cleanup makes of a run row that is overdue. *)
LEMMA ExpiredRow ==
    ASSUME NEW rn \in StagingRun, NEW t \in Nat, Overdue(rn, t)
    PROVE  LET q == Expired(rn, t)
           IN  /\ q \in StagingRun
               /\ q.spec = rn.spec /\ q.spec_fingerprint = rn.spec_fingerprint
               /\ q.status = "expired" /\ q.revision = rn.revision + 1
               /\ q.batch_count = rn.batch_count /\ q.record_count = rn.record_count
               /\ q.sealed_fingerprint = rn.sealed_fingerprint
               /\ q.cleanup_after = rn.spec.expires_at + FailureSeconds
               /\ q.purged = rn.purged
  <1> DEFINE c == rn.spec.expires_at + FailureSeconds
             q1 == [rn EXCEPT !.status = "expired"]
             q2 == [q1 EXCEPT !.revision = rn.revision + 1]
             q3 == [q2 EXCEPT !.cleanup_after = c]
  <1>1. c \in Nat \cup {None}
    BY RetentionAssumption DEF StagingRun, StagingRunSpec
  <1>2. rn.revision + 1 \in Nat /\ "expired" \in Status
    BY DEF StagingRun, Status
  <1>3. q1 \in StagingRun
    BY <1>2, FieldsType
  <1> HIDE DEF q1, c
  <1>4. q2 \in StagingRun
    BY <1>2, <1>3, FieldsType
  <1> HIDE DEF q2
  <1>5. q3 \in StagingRun
    BY <1>1, <1>4, FieldsType
  <1>6. Expired(rn, t) \in StagingRun
    BY <1>5 DEF q1, q2, c, Expired
  <1>. QED BY <1>6 DEF Expired, StagingRun

(* What the second half of cleanup makes of a run row: references gone, the *)
(* rest of the spec, the outcome and the seal kept.                         *)
LEMMA TombstoneRow ==
    ASSUME NEW rn \in StagingRun
    PROVE  LET q == Tombstone(rn)
           IN  /\ q \in StagingRun
               /\ q.spec.normalized = rn.spec.normalized
               /\ q.spec.batch_count = rn.spec.batch_count
               /\ q.spec_fingerprint = rn.spec_fingerprint
               /\ q.status = rn.status /\ q.revision = rn.revision + 1
               /\ q.sealed_fingerprint = rn.sealed_fingerprint
               /\ q.cleanup_after = rn.cleanup_after /\ q.purged = TRUE
  <1> DEFINE sp == [rn.spec EXCEPT !.references = {}]
             q1 == [rn EXCEPT !.spec = sp]
             q2 == [q1 EXCEPT !.purged = TRUE]
             q3 == [q2 EXCEPT !.revision = rn.revision + 1]
  <1>1. /\ sp \in StagingRunSpec
        /\ sp.normalized = rn.spec.normalized /\ sp.batch_count = rn.spec.batch_count
    BY DEF StagingRun, StagingRunSpec
  <1> HIDE DEF sp
  <1>2. rn.revision + 1 \in Nat
    BY DEF StagingRun
  <1>3. q1 \in StagingRun
    BY <1>1, FieldsType
  <1> HIDE DEF q1
  <1>4. q2 \in StagingRun
    BY <1>3, FieldsType
  <1> HIDE DEF q2
  <1>5. q3 \in StagingRun
    BY <1>2, <1>4, FieldsType
  <1>6. Tombstone(rn) \in StagingRun
    BY <1>5 DEF q1, q2, sp, Tombstone
  <1>7. Tombstone(rn).spec = sp
    BY DEF Tombstone, StagingRun, sp
  <1>. QED BY <1>1, <1>6, <1>7 DEF Tombstone, StagingRun

-----------------------------
(* What a step does to one run. *)

RowsSame(r) == batches'[r] = batches[r] /\ records'[r] = records[r]

Untouched(r) == run'[r] = run[r] /\ RowsSame(r) /\ claims'[r] = claims[r]

Begun(r) ==
    /\ ~HasRun(r) /\ RowsSame(r) /\ claims'[r] = claims[r]
    /\ \E sp \in Specs : SpecAccepted(sp) /\ run'[r] = NewRun(sp)

Grown(r) ==
    /\ HasRun(r) /\ run[r].status = "open" /\ claims'[r] = claims[r]
    /\ \E b \in Batches :
          /\ StageAccepted(r, b)
          /\ run'[r] = Staged(run[r], Len(b.ids))
          /\ batches'[r] = Append(batches[r], b.ids)
          /\ records'[r] = records[r] \o b.ids

Closed(r) ==
    /\ HasRun(r) /\ run[r].status = "open" /\ RowsSame(r) /\ claims'[r] = claims[r]
    /\ run[r].batch_count = run[r].spec.batch_count
    /\ run'[r] = Sealed(run[r], batches[r])

Moved(r) ==
    /\ HasRun(r) /\ ~run[r].purged /\ RowsSame(r)
    /\ \E s \in Status :
          /\ s \in Allowed(run[r].status)
          /\ run'[r] = Transitioned(run[r], s, now)
          /\ claims'[r] = claims[r] + (IF s = "executing" THEN 1 ELSE 0)

Lapsed(r) ==
    /\ HasRun(r) /\ Overdue(run[r], now) /\ RowsSame(r) /\ claims'[r] = claims[r]
    /\ run'[r] = Expired(run[r], now)

Purged(r) ==
    /\ HasRun(r) /\ claims'[r] = claims[r]
    /\ PurgeDue(Expired(run[r], now), now)
    /\ run'[r] = Tombstone(Expired(run[r], now))
    /\ batches'[r] = <<>> /\ records'[r] = <<>>

RunStep(r) ==
    \/ Untouched(r) \/ Begun(r) \/ Grown(r) \/ Closed(r) \/ Moved(r) \/ Lapsed(r)
    \/ Purged(r)

(* What a client was told: what it knew, or the run as it is after the step. *)
ViewStep(r) == \A c \in Clients : view'[c][r] = view[c][r] \/ view'[c][r] = run'[r]

(* A step of the system is, for each run, one of the kinds above, and an    *)
(* answer is never older than the step that gives it.                       *)
LEMMA OneRun ==
    ASSUME TypeOK, [Next]_vars, NEW r \in Runs
    PROVE  RunStep(r) /\ ViewStep(r) /\ now' \in Nat
  <1> USE DEF TypeOK, Untouched, RowsSame
  <1>1. CASE UNCHANGED vars
    BY <1>1 DEF vars, RunStep, ViewStep
  <1>2. CASE Tick
    BY <1>2 DEF Tick, RunStep, ViewStep
  <1>3. ASSUME NEW c \in Clients, NEW q \in Runs, Call(c, q)
        PROVE  RunStep(r) /\ ViewStep(r) /\ now' \in Nat
    <2>0. ASSUME NEW rn, NEW replied, Answer(c, q, rn, replied), run'[q] = rn
          PROVE  ViewStep(r)
      BY <2>0 DEF Answer, ViewStep
    <2>1. ASSUME NEW sp \in Specs, NEW replied \in BOOLEAN, begin(c, q, sp, replied)
          PROVE  RunStep(r) /\ ViewStep(r) /\ now' \in Nat
      <3>1. CASE HasRun(q) /\ UNCHANGED run /\ Answer(c, q, run[q], replied)
        BY <2>0, <2>1, <3>1 DEF begin, RunStep
      <3>2. CASE /\ ~HasRun(q) /\ Answer(c, q, NewRun(sp), replied)
                 /\ run' = [run EXCEPT ![q] = NewRun(sp)]
        <4>1. run'[q] = NewRun(sp) /\ (r # q => run'[r] = run[r])
          BY <3>2
        <4>2. ViewStep(r)
          BY <2>0, <3>2, <4>1
        <4>3. CASE r = q
          BY <2>1, <3>2, <4>1, <4>2, <4>3 DEF begin, RunStep, Begun
        <4>4. CASE r # q
          BY <2>1, <4>1, <4>2, <4>4 DEF begin, RunStep
        <4>. QED BY <4>3, <4>4
      <3>. QED BY <2>1, <3>1, <3>2 DEF begin
    <2>2. CASE get_run(c, q)
      BY <2>0, <2>2 DEF get_run, RunStep
    <2>3. ASSUME NEW b \in Batches, stage(c, q, b)
          PROVE  RunStep(r) /\ ViewStep(r) /\ now' \in Nat
      <3>1. ViewStep(r) /\ now' \in Nat
        BY <2>3 DEF stage, ViewStep
      <3>2. CASE r = q
        BY <2>3, <3>1, <3>2 DEF stage, Appendable, RunStep, Grown
      <3>3. CASE r # q
        BY <2>3, <3>1, <3>3 DEF stage, RunStep
      <3>. QED BY <3>2, <3>3
    <2>4. ASSUME NEW rev, NEW replied \in BOOLEAN, seal(c, q, rev, replied)
          PROVE  RunStep(r) /\ ViewStep(r) /\ now' \in Nat
      <3>1. ViewStep(r) /\ now' \in Nat
        BY <2>0, <2>4 DEF seal
      <3>2. CASE r = q
        BY <2>4, <3>1, <3>2 DEF seal, RunStep, Closed
      <3>3. CASE r # q
        BY <2>4, <3>1, <3>3 DEF seal, RunStep
      <3>. QED BY <3>2, <3>3
    <2>5. ASSUME NEW rev, NEW s \in Status, NEW replied \in BOOLEAN,
                 transition(c, q, rev, s, replied)
          PROVE  RunStep(r) /\ ViewStep(r) /\ now' \in Nat
      <3>1. ViewStep(r) /\ now' \in Nat
        BY <2>0, <2>5 DEF transition
      <3>2. CASE r = q
        <4>1. Moved(r)
          BY <2>5, <3>2 DEF transition, CanTransition, Moved
        <4>. QED BY <3>1, <4>1 DEF RunStep
      <3>3. CASE r # q
        BY <2>5, <3>1, <3>3 DEF transition, RunStep
      <3>. QED BY <3>2, <3>3
    <2>6. ASSUME NEW replied \in BOOLEAN, cleanup(c, q, replied)
          PROVE  RunStep(r) /\ ViewStep(r) /\ now' \in Nat
      <3> DEFINE expired == Expired(run[q], now)
      <3>1. ViewStep(r) /\ now' \in Nat
        BY <2>0, <2>6 DEF cleanup
      <3>2. CASE r # q
        BY <2>6, <3>1, <3>2 DEF cleanup, RunStep
      <3>3. CASE r = q /\ PurgeDue(expired, now)
        BY <2>6, <3>1, <3>3 DEF cleanup, RunStep, Purged
      <3>4. CASE r = q /\ ~PurgeDue(expired, now)
        <4>1. HasRun(r) /\ RowsSame(r) /\ claims'[r] = claims[r] /\ run'[r] = expired
          BY <2>6, <3>4 DEF cleanup
        <4>2. CASE Overdue(run[r], now)
          BY <3>1, <3>4, <4>1, <4>2 DEF RunStep, Lapsed
        <4>3. CASE ~Overdue(run[r], now)
          BY <3>1, <3>4, <4>1, <4>3 DEF RunStep, Expired
        <4>. QED BY <4>2, <4>3
      <3>. QED BY <3>2, <3>3, <3>4
    <2>. QED BY <1>3, <2>1, <2>2, <2>3, <2>4, <2>5, <2>6 DEF Call
  <1>. QED BY <1>1, <1>2, <1>3 DEF Next

-----------------------------
(* The inductive invariant, part by part. *)

(* Only a finished run has a cleanup time, and only such a run is purged. *)
OutcomePart(r) ==
    HasRun(r) => /\ run[r].cleanup_after # None => run[r].status \in Terminal
                 /\ run[r].purged => run[r].status \in Terminal

(* A run that can still be claimed has not been claimed. *)
ClaimPart(r) ==
    /\ claims[r] <= 1
    /\ (~HasRun(r) \/ run[r].status \in {"open", "sealed"}) => claims[r] = 0

RowsPart(r) ==
    IF HasRun(r) /\ ~run[r].purged
    THEN /\ run[r].batch_count = Len(batches[r])
         /\ run[r].record_count = Len(records[r])
    ELSE batches[r] = <<>> /\ records[r] = <<>>

(* The references outlive the run by the longer of the two intervals. *)
ReferencePart(r) ==
    (HasRun(r) /\ ~run[r].purged) =>
        \A ref \in run[r].spec.references :
            ref.retained_until >= run[r].spec.expires_at + Longest

Distinct(s) == \A i, j \in 1..Len(s) : s[i] = s[j] => i = j

(* The last batch is only taken with the manifest of the whole dataset. *)
DatasetPart(r) ==
    /\ Distinct(records[r])
    /\ HasRun(r) =>
          /\ ~run[r].purged /\ run[r].batch_count = run[r].spec.batch_count
                => batches[r] = run[r].spec.normalized
          /\ run[r].status = "open" => run[r].sealed_fingerprint = None
          /\ run[r].sealed_fingerprint # None =>
                /\ run[r].sealed_fingerprint = run[r].spec.normalized
                /\ ~run[r].purged => batches[r] = run[r].spec.normalized

(* No client knows a revision the store has not reached, and the revision   *)
(* determines the run.                                                      *)
ViewPart(r) ==
    \A c \in Clients :
        view[c][r] # None =>
            /\ HasRun(r)
            /\ view[c][r].revision <= run[r].revision
            /\ view[c][r].revision = run[r].revision => view[c][r] = run[r]

Inv ==
    /\ TypeOK
    /\ \A r \in Runs : /\ OutcomePart(r) /\ ClaimPart(r) /\ RowsPart(r)
                        /\ ReferencePart(r) /\ DatasetPart(r) /\ ViewPart(r)

-----------------------------
(* Type correctness. *)

(* begin builds a well-formed run. *)
LEMMA NewRunType ==
    ASSUME NEW sp \in StagingRunSpec
    PROVE  NewRun(sp) \in StagingRun
  <1>1. "open" \in Status
    BY DEF Status
  <1>. QED BY <1>1 DEF NewRun, StagingRun

(* What a client is given is a run if the store holds one. *)
LEMMA AnswerType ==
    ASSUME TypeOK, NEW c \in Clients, NEW r \in Runs, NEW rn \in StagingRun,
           NEW replied, Answer(c, r, rn, replied)
    PROVE  view' \in [Clients -> [Runs -> StagingRun \cup {None}]]
  BY DEF TypeOK, Answer

(* Every step of the store keeps every row well formed. *)
LEMMA TypeStep ==
    ASSUME TypeOK, [Next]_vars
    PROVE  TypeOK'
  <1>1. CASE UNCHANGED vars
    BY <1>1 DEF vars, TypeOK
  <1>2. CASE Tick
    BY <1>2 DEF Tick, TypeOK
  <1>3. ASSUME NEW c \in Clients, NEW r \in Runs, Call(c, r)
        PROVE  TypeOK'
    <2>0. HasRun(r) => run[r] \in StagingRun
      BY DEF TypeOK, HasRun
    <2>1. ASSUME NEW sp \in Specs, NEW replied \in BOOLEAN, begin(c, r, sp, replied)
          PROVE  TypeOK'
      <3>1. NewRun(sp) \in StagingRun
        BY NewRunType, InputAssumption
      <3>2. \/ HasRun(r) /\ UNCHANGED run /\ Answer(c, r, run[r], replied)
            \/ run' = [run EXCEPT ![r] = NewRun(sp)] /\ Answer(c, r, NewRun(sp), replied)
        BY <2>1 DEF begin
      <3>3. view' \in [Clients -> [Runs -> StagingRun \cup {None}]]
        BY <2>0, <3>1, <3>2, AnswerType
      <3>4. run' \in [Runs -> StagingRun \cup {None}]
        BY <3>1, <3>2 DEF TypeOK
      <3>. QED BY <2>1, <3>3, <3>4 DEF begin, TypeOK
    <2>2. CASE get_run(c, r)
      <3>1. view' \in [Clients -> [Runs -> StagingRun \cup {None}]]
        BY <2>0, <2>2, AnswerType DEF get_run
      <3>. QED BY <2>2, <3>1 DEF get_run, TypeOK
    <2>3. ASSUME NEW b \in Batches, stage(c, r, b)
          PROVE  TypeOK'
      <3>1. b.ids \in Seq(RecordIds) /\ Len(b.ids) \in Nat
        BY InputAssumption DEF Batch
      <3>2. Staged(run[r], Len(b.ids)) \in StagingRun
        BY <2>0, <2>3, <3>1, StagedRow DEF stage
      <3>3. run' \in [Runs -> StagingRun \cup {None}]
        BY <2>3, <3>2 DEF stage, TypeOK
      <3>4. /\ Append(batches[r], b.ids) \in Seq(Seq(RecordIds))
            /\ records[r] \o b.ids \in Seq(RecordIds)
        BY <3>1 DEF TypeOK
      <3>. QED BY <2>3, <3>3, <3>4 DEF stage, TypeOK
    <2>4. ASSUME NEW rev, NEW replied \in BOOLEAN, seal(c, r, rev, replied)
          PROVE  TypeOK'
      <3>1. Sealed(run[r], batches[r]) \in StagingRun
        BY <2>0, <2>4, SealedRow DEF seal, TypeOK
      <3>2. run' \in [Runs -> StagingRun \cup {None}] /\ run'[r] \in StagingRun
        BY <2>4, <3>1 DEF seal, TypeOK
      <3>3. view' \in [Clients -> [Runs -> StagingRun \cup {None}]]
        BY <2>4, <3>2, AnswerType DEF seal
      <3>. QED BY <2>4, <3>2, <3>3 DEF seal, TypeOK
    <2>5. ASSUME NEW rev, NEW s \in Status, NEW replied \in BOOLEAN,
                 transition(c, r, rev, s, replied)
          PROVE  TypeOK'
      <3>1. Transitioned(run[r], s, now) \in StagingRun
        BY <2>0, <2>5, TransitionedRow DEF transition, TypeOK
      <3>2. run' \in [Runs -> StagingRun \cup {None}] /\ run'[r] \in StagingRun
        BY <2>5, <3>1 DEF transition, TypeOK
      <3>3. view' \in [Clients -> [Runs -> StagingRun \cup {None}]]
        BY <2>5, <3>2, AnswerType DEF transition
      <3>4. claims' \in [Runs -> Nat]
        BY <2>5 DEF transition, TypeOK
      <3>. QED BY <2>5, <3>2, <3>3, <3>4 DEF transition, TypeOK
    <2>6. ASSUME NEW replied \in BOOLEAN, cleanup(c, r, replied)
          PROVE  TypeOK'
      <3> DEFINE expired == Expired(run[r], now)
      <3>1. expired \in StagingRun
        BY <2>0, <2>6, ExpiredRow DEF cleanup, TypeOK, Expired
      <3>2. Tombstone(expired) \in StagingRun
        BY <3>1, TombstoneRow
      <3> HIDE DEF expired
      <3>3. run' \in [Runs -> StagingRun \cup {None}] /\ run'[r] \in StagingRun
        BY <2>6, <3>1, <3>2 DEF cleanup, TypeOK, expired
      <3>4. view' \in [Clients -> [Runs -> StagingRun \cup {None}]]
        BY <2>6, <3>3, AnswerType DEF cleanup
      <3>5. /\ batches' \in [Runs -> Seq(Seq(RecordIds))]
            /\ records' \in [Runs -> Seq(RecordIds)]
        <4>1. <<>> \in Seq(Seq(RecordIds)) /\ <<>> \in Seq(RecordIds)
          OBVIOUS
        <4>. QED BY <2>6, <4>1 DEF cleanup, TypeOK
      <3>. QED BY <2>6, <3>3, <3>4, <3>5 DEF cleanup, TypeOK
    <2>. QED BY <1>3, <2>1, <2>2, <2>3, <2>4, <2>5, <2>6 DEF Call
  <1>. QED BY <1>1, <1>2, <1>3 DEF Next

(* The store starts empty. *)
LEMMA TypeInit ==
    ASSUME Init
    PROVE  TypeOK
  BY DEF Init, TypeOK

(* Every row the store ever holds, and everything a client was ever told,   *)
(* is well formed.                                                          *)
THEOREM TypeCorrect == Spec => []TypeOK
  BY TypeInit, TypeStep, PTL DEF Spec

-----------------------------
(* The parts are preserved, kind of change by kind of change. *)

(* The row of a run after the first half of cleanup. *)
LEMMA AfterExpiry ==
    ASSUME NEW rn \in StagingRun, NEW t \in Nat
    PROVE  LET q == Expired(rn, t)
           IN  /\ q \in StagingRun
               /\ q.spec = rn.spec /\ q.purged = rn.purged
               /\ q.sealed_fingerprint = rn.sealed_fingerprint
               /\ q.revision >= rn.revision
               /\ q.status \in Terminal \/ q = rn
               /\ rn.status \in Terminal => q = rn
  <1>1. CASE Overdue(rn, t)
    BY <1>1, ExpiredRow DEF Overdue, Terminal, StagingRun
  <1>2. CASE ~Overdue(rn, t)
    BY <1>2 DEF Expired, StagingRun
  <1>. QED BY <1>1, <1>2

(* A run in the store is a well-formed run. *)
LEMMA RunType ==
    ASSUME TypeOK, NEW r \in Runs
    PROVE  /\ HasRun(r) => run[r] \in StagingRun
           /\ now \in Nat /\ claims[r] \in Nat
           /\ batches[r] \in Seq(Seq(RecordIds)) /\ records[r] \in Seq(RecordIds)
  BY DEF TypeOK, HasRun

(* The row after stage, in terms of the row before. *)
LEMMA GrownRow ==
    ASSUME TypeOK, NEW r \in Runs, Grown(r)
    PROVE  \E b \in Batches :
              /\ StageAccepted(r, b) /\ b.ids \in Seq(RecordIds)
              /\ run'[r] = Staged(run[r], Len(b.ids))
              /\ run'[r] \in StagingRun /\ run'[r] # None
              /\ run'[r].spec = run[r].spec
              /\ run'[r].status = run[r].status /\ run'[r].revision = run[r].revision + 1
              /\ run'[r].batch_count = run[r].batch_count + 1
              /\ run'[r].record_count = run[r].record_count + Len(b.ids)
              /\ run'[r].sealed_fingerprint = run[r].sealed_fingerprint
              /\ run'[r].cleanup_after = run[r].cleanup_after
              /\ run'[r].purged = run[r].purged
              /\ batches'[r] = Append(batches[r], b.ids)
              /\ records'[r] = records[r] \o b.ids
  <1>1. PICK b \in Batches : /\ StageAccepted(r, b)
                            /\ run'[r] = Staged(run[r], Len(b.ids))
                            /\ batches'[r] = Append(batches[r], b.ids)
                            /\ records'[r] = records[r] \o b.ids
    BY DEF Grown
  <1>2. b.ids \in Seq(RecordIds) /\ Len(b.ids) \in Nat
    BY InputAssumption DEF Batch
  <1>3. run[r] \in StagingRun
    BY RunType DEF Grown
  <1> DEFINE q == Staged(run[r], Len(b.ids))
  <1>4. /\ q \in StagingRun /\ q # None
        /\ q.spec = run[r].spec
        /\ q.status = run[r].status /\ q.revision = run[r].revision + 1
        /\ q.batch_count = run[r].batch_count + 1
        /\ q.record_count = run[r].record_count + Len(b.ids)
        /\ q.sealed_fingerprint = run[r].sealed_fingerprint
        /\ q.cleanup_after = run[r].cleanup_after
        /\ q.purged = run[r].purged
    BY <1>2, <1>3, StagedRow, NoneAssumption
  <1> HIDE DEF q
  <1>5. run'[r] = q
    BY <1>1 DEF q
  <1> WITNESS b \in Batches
  <1>. QED BY <1>1, <1>2, <1>4, <1>5

(* The row after seal. *)
LEMMA ClosedRow ==
    ASSUME TypeOK, NEW r \in Runs, Closed(r)
    PROVE  /\ run'[r] \in StagingRun /\ run'[r] # None
           /\ run'[r].spec = run[r].spec
           /\ run'[r].status = "sealed" /\ run'[r].revision = run[r].revision + 1
           /\ run'[r].batch_count = run[r].batch_count
           /\ run'[r].record_count = run[r].record_count
           /\ run'[r].sealed_fingerprint = batches[r]
           /\ run'[r].cleanup_after = run[r].cleanup_after
           /\ run'[r].purged = run[r].purged
           /\ RowsSame(r)
  <1>1. run[r] \in StagingRun /\ batches[r] \in Seq(Seq(RecordIds))
    BY RunType DEF Closed
  <1>2. run'[r] = Sealed(run[r], batches[r]) /\ RowsSame(r)
    BY DEF Closed
  <1>. QED BY <1>1, <1>2, SealedRow, NoneAssumption

(* The row after transition: SEALED and OPEN are never entered, EXECUTING   *)
(* only from SEALED, and only a terminal status sets a cleanup time.        *)
LEMMA MovedRow ==
    ASSUME TypeOK, NEW r \in Runs, Moved(r)
    PROVE  \E s \in Status :
              /\ s \in Allowed(run[r].status)
              /\ s \notin {"open", "sealed"}
              /\ s \in {"executing", "unknown"} \/ s \in Terminal
              /\ s = "executing" => run[r].status = "sealed"
              /\ run[r].status \notin Terminal
              /\ run'[r] \in StagingRun /\ run'[r] # None
              /\ run'[r].spec = run[r].spec
              /\ run'[r].status = s /\ run'[r].revision = run[r].revision + 1
              /\ run'[r].batch_count = run[r].batch_count
              /\ run'[r].record_count = run[r].record_count
              /\ run'[r].sealed_fingerprint = run[r].sealed_fingerprint
              /\ run'[r].cleanup_after = CleanupAfter(s, now)
              /\ run'[r].purged = run[r].purged
              /\ claims'[r] = claims[r] + (IF s = "executing" THEN 1 ELSE 0)
              /\ RowsSame(r)
  <1>1. PICK s \in Status :
           /\ s \in Allowed(run[r].status)
           /\ run'[r] = Transitioned(run[r], s, now)
           /\ claims'[r] = claims[r] + (IF s = "executing" THEN 1 ELSE 0)
    BY DEF Moved
  <1>2. /\ s \notin {"open", "sealed"}
        /\ s \in {"executing", "unknown"} \/ s \in Terminal
        /\ s = "executing" => run[r].status = "sealed"
        /\ run[r].status \notin Terminal
    BY <1>1 DEF Allowed, Terminal
  <1>3. run[r] \in StagingRun /\ now \in Nat /\ RowsSame(r)
    BY RunType DEF Moved
  <1> WITNESS s \in Status
  <1>. QED BY <1>1, <1>2, <1>3, TransitionedRow, NoneAssumption

(* The row of an abandoned run after cleanup. *)
LEMMA LapsedRow ==
    ASSUME TypeOK, NEW r \in Runs, Lapsed(r)
    PROVE  /\ run[r].status \notin Terminal
           /\ run'[r] \in StagingRun /\ run'[r] # None
           /\ run'[r].spec = run[r].spec
           /\ run'[r].status = "expired" /\ run'[r].revision = run[r].revision + 1
           /\ run'[r].batch_count = run[r].batch_count
           /\ run'[r].record_count = run[r].record_count
           /\ run'[r].sealed_fingerprint = run[r].sealed_fingerprint
           /\ run'[r].purged = run[r].purged
           /\ RowsSame(r)
  <1>1. run[r] \in StagingRun /\ now \in Nat
    BY RunType DEF Lapsed
  <1>2. run'[r] = Expired(run[r], now) /\ RowsSame(r) /\ Overdue(run[r], now)
    BY DEF Lapsed
  <1>3. run[r].status \notin Terminal
    BY <1>2 DEF Overdue, Terminal
  <1>. QED BY <1>1, <1>2, <1>3, ExpiredRow, NoneAssumption

(* The row of a run whose retention is over, after cleanup. *)
LEMMA PurgedRow ==
    ASSUME TypeOK, NEW r \in Runs, OutcomePart(r), Purged(r)
    PROVE  /\ ~run[r].purged
           /\ run'[r] \in StagingRun /\ run'[r] # None
           /\ run'[r].spec.normalized = run[r].spec.normalized
           /\ run'[r].status \in Terminal
           /\ run[r].status \in Terminal => run'[r].status = run[r].status
           /\ run'[r].revision > run[r].revision
           /\ run'[r].sealed_fingerprint = run[r].sealed_fingerprint
           /\ run'[r].purged
  <1> DEFINE q == Expired(run[r], now)
  <1>1. run[r] \in StagingRun /\ now \in Nat
    BY RunType DEF Purged
  <1>2. /\ q \in StagingRun
        /\ q.spec = run[r].spec /\ q.purged = run[r].purged
        /\ q.sealed_fingerprint = run[r].sealed_fingerprint
        /\ q.revision >= run[r].revision
        /\ q.status \in Terminal \/ q = run[r]
        /\ run[r].status \in Terminal => q = run[r]
    BY <1>1, AfterExpiry
  <1>3. run'[r] = Tombstone(q) /\ ~q.purged /\ q.cleanup_after # None
    BY DEF Purged, PurgeDue
  <1>4. q.status \in Terminal
    BY <1>2, <1>3 DEF Purged, OutcomePart
  <1> HIDE DEF q
  <1>5. /\ run'[r] \in StagingRun /\ run'[r].spec.normalized = q.spec.normalized
        /\ run'[r].status = q.status /\ run'[r].revision = q.revision + 1
        /\ run'[r].sealed_fingerprint = q.sealed_fingerprint /\ run'[r].purged
    BY <1>2, <1>3, TombstoneRow
  <1>6. run'[r].revision > run[r].revision
    BY <1>1, <1>2, <1>5 DEF StagingRun
  <1>. QED BY <1>2, <1>3, <1>4, <1>5, <1>6, NoneAssumption

(* A run is purged only when its outcome is known: UNKNOWN and EXECUTING    *)
(* never get a cleanup time.                                                *)
LEMMA OutcomeStep ==
    ASSUME TypeOK, NEW r \in Runs, OutcomePart(r), RunStep(r)
    PROVE  OutcomePart(r)'
  <1> USE DEF OutcomePart, HasRun
  <1>1. CASE Untouched(r)
    BY <1>1 DEF Untouched
  <1>2. CASE Begun(r)
    BY <1>2 DEF Begun, NewRun
  <1>3. CASE Grown(r)
    BY <1>3, GrownRow DEF Grown
  <1>4. CASE Closed(r)
    BY <1>4, ClosedRow DEF Closed, Terminal
  <1>5. CASE Moved(r)
    BY <1>5, MovedRow DEF Moved, CleanupAfter
  <1>6. CASE Lapsed(r)
    BY <1>6, LapsedRow DEF Terminal
  <1>7. CASE Purged(r)
    BY <1>7, PurgedRow
  <1>. QED BY <1>1, <1>2, <1>3, <1>4, <1>5, <1>6, <1>7 DEF RunStep

(* A run is claimed once: EXECUTING is entered from SEALED only, and SEALED *)
(* is never entered again.                                                  *)
LEMMA ClaimStep ==
    ASSUME TypeOK, NEW r \in Runs, ClaimPart(r), OutcomePart(r), RunStep(r)
    PROVE  ClaimPart(r)'
  <1> USE DEF ClaimPart, HasRun
  <1>1. CASE Untouched(r)
    BY <1>1 DEF Untouched
  <1>2. CASE Begun(r)
    BY <1>2 DEF Begun
  <1>3. CASE Grown(r)
    BY <1>3 DEF Grown
  <1>4. CASE Closed(r)
    BY <1>4 DEF Closed
  <1>5. CASE Moved(r)
    BY <1>5, MovedRow, RunType DEF Moved
  <1>6. CASE Lapsed(r)
    BY <1>6, LapsedRow DEF Lapsed
  <1>7. CASE Purged(r)
    BY <1>7, PurgedRow DEF Purged, Terminal
  <1>. QED BY <1>1, <1>2, <1>3, <1>4, <1>5, <1>6, <1>7 DEF RunStep

(* The counters of a run row follow its rows. *)
LEMMA RowsStep ==
    ASSUME TypeOK, NEW r \in Runs, RowsPart(r), OutcomePart(r), RunStep(r)
    PROVE  RowsPart(r)'
  <1> USE DEF RowsPart, HasRun
  <1>1. CASE Untouched(r)
    BY <1>1 DEF Untouched, RowsSame
  <1>2. CASE Begun(r)
    <2>1. batches'[r] = <<>> /\ records'[r] = <<>>
      BY <1>2 DEF Begun, RowsSame
    <2>2. PICK sp \in Specs : run'[r] = NewRun(sp)
      BY <1>2 DEF Begun
    <2>3. run'[r].batch_count = 0 /\ run'[r].record_count = 0
      BY <2>2 DEF NewRun
    <2>. QED BY <2>1, <2>3
  <1>3. CASE Grown(r)
    <2>1. PICK b \in Batches :
             /\ run'[r].batch_count = run[r].batch_count + 1
             /\ run'[r].record_count = run[r].record_count + Len(b.ids)
             /\ run'[r].purged = run[r].purged /\ run'[r] # None
             /\ b.ids \in Seq(RecordIds)
             /\ batches'[r] = Append(batches[r], b.ids)
             /\ records'[r] = records[r] \o b.ids
      BY <1>3, GrownRow
    <2>2. HasRun(r) /\ ~run[r].purged
      BY <1>3 DEF Grown, OutcomePart, Terminal
    <2>3. /\ Len(batches'[r]) = Len(batches[r]) + 1
          /\ Len(records'[r]) = Len(records[r]) + Len(b.ids)
      BY <2>1, RunType
    <2>. QED BY <2>1, <2>2, <2>3
  <1>4. CASE Closed(r)
    BY <1>4, ClosedRow DEF Closed, RowsSame
  <1>5. CASE Moved(r)
    BY <1>5, MovedRow DEF Moved, RowsSame
  <1>6. CASE Lapsed(r)
    BY <1>6, LapsedRow DEF Lapsed, RowsSame
  <1>7. CASE Purged(r)
    BY <1>7, PurgedRow DEF Purged
  <1>. QED BY <1>1, <1>2, <1>3, <1>4, <1>5, <1>6, <1>7 DEF RunStep

(* What begin demanded of the references stays true until they are dropped. *)
LEMMA ReferenceStep ==
    ASSUME TypeOK, NEW r \in Runs, ReferencePart(r), OutcomePart(r), RunStep(r)
    PROVE  ReferencePart(r)'
  <1> USE DEF ReferencePart, HasRun
  <1>1. CASE Untouched(r)
    BY <1>1 DEF Untouched
  <1>2. CASE Begun(r)
    BY <1>2 DEF Begun, NewRun, SpecAccepted
  <1>3. CASE Grown(r)
    BY <1>3, GrownRow DEF Grown
  <1>4. CASE Closed(r)
    BY <1>4, ClosedRow DEF Closed
  <1>5. CASE Moved(r)
    BY <1>5, MovedRow DEF Moved
  <1>6. CASE Lapsed(r)
    BY <1>6, LapsedRow DEF Lapsed
  <1>7. CASE Purged(r)
    BY <1>7, PurgedRow
  <1>. QED BY <1>1, <1>2, <1>3, <1>4, <1>5, <1>6, <1>7 DEF RunStep

(* Two sequences without repetitions and without a common element, one      *)
(* after the other.                                                         *)
LEMMA DistinctConcat ==
    ASSUME NEW S, NEW s \in Seq(S), NEW t \in Seq(S), Distinct(s), Distinct(t),
           \A i \in 1..Len(t), j \in 1..Len(s) : t[i] # s[j]
    PROVE  Distinct(s \o t)
  <1> DEFINE u == s \o t
  <1>1. /\ Len(u) = Len(s) + Len(t)
        /\ \A i \in 1..Len(u) : u[i] = IF i <= Len(s) THEN s[i] ELSE t[i - Len(s)]
    OBVIOUS
  <1> HIDE DEF u
  <1>2. ASSUME NEW i \in 1..Len(u), NEW j \in 1..Len(u), u[i] = u[j]
        PROVE  i = j
    <2>0. Len(s) \in Nat /\ Len(t) \in Nat
      OBVIOUS
    <2>1. CASE i <= Len(s) /\ j <= Len(s)
      BY <1>1, <1>2, <2>0, <2>1 DEF Distinct
    <2>2. CASE i > Len(s) /\ j > Len(s)
      <3>1. i - Len(s) \in 1..Len(t) /\ j - Len(s) \in 1..Len(t)
        BY <1>1, <2>0, <2>2
      <3>2. t[i - Len(s)] = t[j - Len(s)]
        BY <1>1, <1>2, <2>0, <2>2
      <3>3. i - Len(s) = j - Len(s)
        BY <3>1, <3>2 DEF Distinct
      <3>. QED BY <2>0, <3>3
    <2>3. CASE i <= Len(s) /\ j > Len(s)
      <3>1. i \in 1..Len(s) /\ j - Len(s) \in 1..Len(t)
        BY <1>1, <2>0, <2>3
      <3>. QED BY <1>1, <1>2, <2>0, <2>3, <3>1
    <2>4. CASE i > Len(s) /\ j <= Len(s)
      <3>1. j \in 1..Len(s) /\ i - Len(s) \in 1..Len(t)
        BY <1>1, <2>0, <2>4
      <3>. QED BY <1>1, <1>2, <2>0, <2>4, <3>1
    <2>. QED BY <1>1, <2>0, <2>1, <2>2, <2>3, <2>4
  <1>. QED BY <1>2 DEF Distinct, u

(* A run can be sealed only with the dataset it was begun for, because the  *)
(* batch that completes it carries the manifest.                            *)
LEMMA DatasetStep ==
    ASSUME TypeOK, NEW r \in Runs, DatasetPart(r), RowsPart(r), OutcomePart(r),
           RunStep(r)
    PROVE  DatasetPart(r)'
  <1> USE DEF DatasetPart, HasRun
  <1>1. CASE Untouched(r)
    BY <1>1 DEF Untouched, RowsSame
  <1>2. CASE Begun(r)
    <2>1. PICK sp \in Specs : run'[r] = NewRun(sp)
      BY <1>2 DEF Begun
    <2>2. sp.batch_count # 0
      BY InputAssumption DEF StagingRunSpec
    <2>3. /\ run'[r].batch_count = 0 /\ run'[r].spec = sp
          /\ run'[r].sealed_fingerprint = None
      BY <2>1 DEF NewRun
    <2>. QED BY <1>2, <2>2, <2>3 DEF Begun, RowsSame
  <1>3. CASE Grown(r)
    <2>1. PICK b \in Batches :
             /\ StageAccepted(r, b) /\ b.ids \in Seq(RecordIds)
             /\ run'[r].spec = run[r].spec
             /\ run'[r].status = run[r].status
             /\ run'[r].batch_count = run[r].batch_count + 1
             /\ run'[r].sealed_fingerprint = run[r].sealed_fingerprint
             /\ run'[r].purged = run[r].purged
             /\ batches'[r] = Append(batches[r], b.ids)
             /\ records'[r] = records[r] \o b.ids
      BY <1>3, GrownRow
    <2>2. /\ HasRun(r) /\ run[r].status = "open" /\ ~run[r].purged
          /\ run[r].sealed_fingerprint = None /\ run[r] \in StagingRun
      BY <1>3, RunType DEF Grown, OutcomePart, Terminal
    <2>3. Distinct(records'[r])
      <3>1. Distinct(b.ids)
        BY InputAssumption DEF Distinct
      <3>2. \A i \in 1..Len(b.ids), j \in 1..Len(records[r]) : b.ids[i] # records[r][j]
        BY <2>1 DEF StageAccepted
      <3>3. records[r] \in Seq(RecordIds) /\ Distinct(records[r])
        BY RunType
      <3>4. Distinct(records[r] \o b.ids)
        BY <2>1, <3>1, <3>2, <3>3, DistinctConcat
      <3>. QED BY <2>1, <3>4
    <2>4. ASSUME run'[r].batch_count = run'[r].spec.batch_count
          PROVE  batches'[r] = run'[r].spec.normalized
      <3>1. b.batch_index = run[r].batch_count
        BY <2>1, <2>2 DEF StageAccepted, RowsPart
      <3>2. run[r].batch_count = run[r].spec.batch_count - 1
        BY <2>1, <2>2, <2>4 DEF StagingRun, StagingRunSpec
      <3>3. b.is_last
        BY <2>1, <3>1, <3>2 DEF StageAccepted
      <3>4. b.manifest # None
        BY <3>3, InputAssumption
      <3>. QED BY <2>1, <3>4 DEF StageAccepted
    <2>. QED BY <2>1, <2>2, <2>3, <2>4
  <1>4. CASE Closed(r)
    <2>1. ~run[r].purged
      BY <1>4 DEF Closed, OutcomePart, Terminal
    <2>. QED BY <1>4, <2>1, ClosedRow DEF Closed, RowsSame
  <1>5. CASE Moved(r)
    BY <1>5, MovedRow DEF Moved, RowsSame
  <1>6. CASE Lapsed(r)
    BY <1>6, LapsedRow DEF Lapsed, RowsSame
  <1>7. CASE Purged(r)
    <2>1. Distinct(records'[r])
      BY <1>7 DEF Purged, Distinct
    <2>. QED BY <1>7, <2>1, PurgedRow DEF Purged, Terminal
  <1>. QED BY <1>1, <1>2, <1>3, <1>4, <1>5, <1>6, <1>7 DEF RunStep

(* Every change of a run advances its revision. *)
LEMMA RevisionGrows ==
    ASSUME TypeOK, NEW r \in Runs, OutcomePart(r), RunStep(r), HasRun(r)
    PROVE  /\ run'[r] # None
           /\ run'[r] = run[r] \/ run'[r].revision > run[r].revision
           /\ run[r].revision \in Nat /\ run'[r].revision \in Nat
  <1>0. run[r] \in StagingRun /\ run[r].revision \in Nat
    BY RunType DEF StagingRun
  <1>1. CASE Untouched(r)
    BY <1>0, <1>1 DEF Untouched, HasRun
  <1>2. CASE Begun(r)
    BY <1>2 DEF Begun
  <1>3. CASE Grown(r)
    <2>1. run'[r] # None /\ run'[r].revision = run[r].revision + 1
      BY <1>3, GrownRow
    <2>. QED BY <1>0, <2>1
  <1>4. CASE Closed(r)
    BY <1>0, <1>4, ClosedRow
  <1>5. CASE Moved(r)
    BY <1>0, <1>5, MovedRow
  <1>6. CASE Lapsed(r)
    BY <1>0, <1>6, LapsedRow
  <1>7. CASE Purged(r)
    <2>1. run'[r] \in StagingRun /\ run'[r] # None /\ run'[r].revision > run[r].revision
      BY <1>7, PurgedRow
    <2>2. run'[r].revision \in Nat
      BY <2>1 DEF StagingRun
    <2>. QED BY <1>0, <2>1, <2>2
  <1>. QED BY <1>1, <1>2, <1>3, <1>4, <1>5, <1>6, <1>7 DEF RunStep

(* A client knows the current run or an older revision of it. *)
LEMMA ViewKept ==
    ASSUME TypeOK, NEW r \in Runs, OutcomePart(r), ViewPart(r), RunStep(r), ViewStep(r)
    PROVE  ViewPart(r)'
  <1> SUFFICES ASSUME NEW c \in Clients, view'[c][r] # None
               PROVE  /\ run'[r] # None
                      /\ view'[c][r].revision <= run'[r].revision
                      /\ view'[c][r].revision = run'[r].revision => view'[c][r] = run'[r]
    BY DEF ViewPart, HasRun
  <1>1. CASE view'[c][r] = run'[r]
    <2>1. ASSUME ~HasRun(r)
          PROVE  run'[r] = None \/ run'[r].revision = 0
      <3>1. Untouched(r) \/ Begun(r)
        BY <2>1 DEF RunStep, Grown, Closed, Moved, Lapsed, Purged
      <3>2. CASE Untouched(r)
        BY <2>1, <3>2 DEF Untouched, HasRun
      <3>3. CASE Begun(r)
        BY <3>3 DEF Begun, NewRun
      <3>. QED BY <3>1, <3>2, <3>3
    <2>2. run'[r].revision \in Nat
      BY <1>1, <2>1, RevisionGrows DEF HasRun
    <2>. QED BY <1>1, <2>2
  <1>2. CASE view'[c][r] = view[c][r]
    <2>1. /\ HasRun(r) /\ view[c][r].revision <= run[r].revision
          /\ view[c][r].revision = run[r].revision => view[c][r] = run[r]
      BY <1>2 DEF ViewPart
    <2>2. view[c][r].revision \in Nat
      BY <1>2 DEF TypeOK, StagingRun
    <2>. QED BY <1>2, <2>1, <2>2, RevisionGrows
  <1>. QED BY <1>1, <1>2 DEF ViewStep

-----------------------------
(* The invariant and the theorems. *)

(* The empty store satisfies the invariant. *)
LEMMA InvInit ==
    ASSUME Init
    PROVE  Inv
  <1>1. TypeOK
    BY TypeInit
  <1>2. ASSUME NEW r \in Runs
        PROVE  /\ OutcomePart(r) /\ ClaimPart(r) /\ RowsPart(r)
               /\ ReferencePart(r) /\ DatasetPart(r) /\ ViewPart(r)
    <2>1. /\ ~HasRun(r) /\ batches[r] = <<>> /\ records[r] = <<>> /\ claims[r] = 0
          /\ \A c \in Clients : view[c][r] = None
      BY DEF Init, HasRun
    <2>. QED BY <2>1 DEF OutcomePart, ClaimPart, RowsPart, ReferencePart, DatasetPart,
                         Distinct, ViewPart
  <1>. QED BY <1>1, <1>2 DEF Inv

(* Every step keeps the invariant. *)
LEMMA InvStep ==
    ASSUME Inv, [Next]_vars
    PROVE  Inv'
  <1>1. TypeOK /\ TypeOK'
    BY TypeStep DEF Inv
  <1>2. ASSUME NEW r \in Runs
        PROVE  /\ OutcomePart(r)' /\ ClaimPart(r)' /\ RowsPart(r)'
               /\ ReferencePart(r)' /\ DatasetPart(r)' /\ ViewPart(r)'
    <2>1. RunStep(r) /\ ViewStep(r)
      BY <1>1, OneRun
    <2>2. /\ OutcomePart(r) /\ ClaimPart(r) /\ RowsPart(r)
          /\ ReferencePart(r) /\ DatasetPart(r) /\ ViewPart(r)
      BY DEF Inv
    <2>. QED BY <1>1, <2>1, <2>2, OutcomeStep, ClaimStep, RowsStep, ReferenceStep,
                DatasetStep, ViewKept
  <1>. QED BY <1>1, <1>2 DEF Inv

(* The invariant holds in every reachable state. *)
LEMMA Invariance == Spec => []Inv
  BY InvInit, InvStep, PTL DEF Spec

(* The counters of a run agree with its rows, and a tombstone has none, so  *)
(* the consistency check of _load never refuses a run the store wrote.      *)
THEOREM RowsAgree == Spec => []RowsMatchCounts
  <1>1. Inv => RowsMatchCounts
    BY DEF Inv, RowsPart, RowsMatchCounts
  <1>. QED BY <1>1, Invariance, PTL

(* A revision a client holds is the current one only if the run is exactly  *)
(* the one it was given: expected_revision is a sound CAS token.            *)
THEOREM RevisionIsIdentity == Spec => []CasIsSound
  <1>1. Inv => CasIsSound
    BY DEF Inv, ViewPart, CasIsSound
  <1>. QED BY <1>1, Invariance, PTL

(* A sealed run holds exactly the dataset its context was bound to. *)
THEOREM SealedExactly == Spec => []SealedIsDataset
  <1>1. Inv => SealedIsDataset
    BY DEF Inv, DatasetPart, Distinct, SealedIsDataset
  <1>. QED BY <1>1, Invariance, PTL

(* No run is purged while its outcome in the target is open. *)
THEOREM PurgedIsFinished == Spec => []OutcomeKept
  <1>1. Inv => OutcomeKept
    BY DEF Inv, OutcomePart, OutcomeKept
  <1>. QED BY <1>1, Invariance, PTL

(* No run is claimed twice by transition(EXECUTING). *)
THEOREM ClaimedOnce == Spec => []OneClaim
  <1>1. Inv => OneClaim
    BY DEF Inv, ClaimPart, OneClaim
  <1>. QED BY <1>1, Invariance, PTL

(* The retention begin demands of the references is enough for every        *)
(* outcome that is recorded before the run expires.                         *)
THEOREM RetentionSuffices == Spec => []RetainedIsReadable
  <1>1. ASSUME Inv, NEW r \in Runs, HasRun(r), ~run[r].purged, run[r].status # "open",
               IF run[r].cleanup_after = None
               THEN now < run[r].spec.expires_at
               ELSE /\ run[r].cleanup_after <= run[r].spec.expires_at
                         + (IF run[r].status = "committed" THEN SuccessSeconds
                                                            ELSE FailureSeconds)
                    /\ now < run[r].cleanup_after
        PROVE  RecordsReadable(run[r], now) /\ BatchesReadable(run[r], now)
    <2>1. /\ run[r].spec.expires_at \in Nat /\ now \in Nat
          /\ run[r].cleanup_after \in Nat \cup {None}
      BY <1>1, RunType DEF Inv, StagingRun, StagingRunSpec
    <2>2. /\ Longest \in Nat /\ SuccessSeconds <= Longest /\ FailureSeconds <= Longest
          /\ SuccessSeconds \in Nat /\ FailureSeconds \in Nat
      BY RetentionAssumption DEF Longest
    <2>3. ASSUME NEW ref \in run[r].spec.references
          PROVE  now < ref.retained_until
      <3>1. ref.retained_until >= run[r].spec.expires_at + Longest
        BY <1>1 DEF Inv, ReferencePart
      <3>2. ref.retained_until \in Nat
        BY <1>1, RunType DEF Inv, StagingRun, StagingRunSpec, Reference
      <3>3. now < run[r].spec.expires_at + Longest
        BY <1>1, <2>1, <2>2
      <3>. QED BY <2>1, <2>2, <3>1, <3>2, <3>3
    <2>. QED BY <1>1, <2>3 DEF RecordsReadable, BatchesReadable
  <1>2. Inv => RetainedIsReadable
    BY <1>1 DEF RetainedIsReadable
  <1>. QED BY <1>2, Invariance, PTL

(* Rows and seal of a sealed run change only by being purged. *)
THEOREM SealIsKept == Spec => SealedImmutable
  <1>1. ASSUME Inv, [Next]_vars, NEW r \in Runs, HasRun(r),
               run[r].sealed_fingerprint # None
        PROVE  /\ run'[r].sealed_fingerprint = run[r].sealed_fingerprint
               /\ \/ batches'[r] = batches[r] /\ records'[r] = records[r]
                  \/ run'[r].purged /\ ~run[r].purged
    <2>0. TypeOK /\ OutcomePart(r) /\ run[r].status # "open"
      BY <1>1 DEF Inv, DatasetPart
    <2>1. RunStep(r)
      BY <1>1, <2>0, OneRun
    <2>2. CASE Untouched(r)
      BY <2>2 DEF Untouched, RowsSame
    <2>3. ~Begun(r) /\ ~Grown(r) /\ ~Closed(r)
      BY <1>1, <2>0 DEF Begun, Grown, Closed
    <2>4. CASE Moved(r)
      BY <2>0, <2>4, MovedRow DEF RowsSame
    <2>5. CASE Lapsed(r)
      BY <2>0, <2>5, LapsedRow DEF RowsSame
    <2>6. CASE Purged(r)
      BY <2>0, <2>6, PurgedRow
    <2>. QED BY <2>1, <2>2, <2>3, <2>4, <2>5, <2>6 DEF RunStep
  <1>2. Inv /\ [Next]_vars =>
          [\A r \in Runs :
             (HasRun(r) /\ run[r].sealed_fingerprint # None) =>
                 /\ run'[r].sealed_fingerprint = run[r].sealed_fingerprint
                 /\ \/ batches'[r] = batches[r] /\ records'[r] = records[r]
                    \/ run'[r].purged /\ ~run[r].purged]_vars
    BY <1>1
  <1>. QED BY <1>2, Invariance, PTL DEF Spec, SealedImmutable

(* A terminal status is never replaced. *)
THEOREM OutcomeIsFinal == Spec => TerminalIsFinal
  <1>1. ASSUME Inv, [Next]_vars, NEW r \in Runs, HasRun(r), run[r].status \in Terminal
        PROVE  run'[r].status = run[r].status
    <2>0. TypeOK /\ OutcomePart(r) /\ run[r].status \notin {"open", "sealed"}
      BY <1>1 DEF Inv, Terminal
    <2>1. RunStep(r)
      BY <1>1, <2>0, OneRun
    <2>2. CASE Untouched(r)
      BY <2>2 DEF Untouched
    <2>3. ~Begun(r) /\ ~Grown(r) /\ ~Closed(r)
      BY <1>1, <2>0 DEF Begun, Grown, Closed
    <2>4. ~Moved(r)
      BY <1>1, <2>0, MovedRow
    <2>5. ~Lapsed(r)
      BY <1>1, <2>0, LapsedRow
    <2>6. CASE Purged(r)
      BY <1>1, <2>0, <2>6, PurgedRow
    <2>. QED BY <2>1, <2>2, <2>3, <2>4, <2>5, <2>6 DEF RunStep
  <1>2. Inv /\ [Next]_vars =>
          [\A r \in Runs :
             (HasRun(r) /\ run[r].status \in Terminal)
                 => run'[r].status = run[r].status]_vars
    BY <1>1
  <1>. QED BY <1>2, Invariance, PTL DEF Spec, TerminalIsFinal

(* A tombstone is never changed or reused. *)
THEOREM TombstoneIsFinal == Spec => TombstoneStays
  <1>1. ASSUME Inv, [Next]_vars, NEW r \in Runs, HasRun(r), run[r].purged
        PROVE  run'[r] = run[r]
    <2>0. TypeOK /\ OutcomePart(r) /\ run[r].status \in Terminal
      BY <1>1 DEF Inv, OutcomePart
    <2>1. RunStep(r)
      BY <1>1, <2>0, OneRun
    <2>2. run[r].status \notin {"open", "sealed"}
      BY <2>0 DEF Terminal
    <2>3. ~Begun(r) /\ ~Grown(r) /\ ~Closed(r) /\ ~Moved(r)
      BY <1>1, <2>2 DEF Begun, Grown, Closed, Moved
    <2>4. ~Lapsed(r)
      BY <2>0, LapsedRow
    <2>5. ~Purged(r)
      BY <1>1, <2>0, PurgedRow
    <2>. QED BY <2>1, <2>3, <2>4, <2>5 DEF RunStep, Untouched
  <1>2. Inv /\ [Next]_vars =>
          [\A r \in Runs : (HasRun(r) /\ run[r].purged) => run'[r] = run[r]]_vars
    BY <1>1
  <1>. QED BY <1>2, Invariance, PTL DEF Spec, TombstoneStays
=============================================================================
