# Verification of structuraguard

TLA+ modules for the parts of structuraguard that decide what reaches a target
database and what is said about it afterwards. TLC checks them on small
instances; TLAPS proves the most important of their properties for every
instance. All paths below are relative to
`src/packages/structuraguard/src/structuraguard/`.

## 1. The system

The SDK turns an untrusted source into rows of a PostgreSQL target: it parses,
has a language model propose a structure and a mapping, validates both by code,
stages the normalised data, and loads it in one transaction. A run passes
through these parts:

```
facade (sdk.py) -> orchestrator + RunSession -> parsers, structure, mapping, validation
                          |                          \-> LLM router -> providers
                          v                                (all charged to one SecuritySession)
                    staging store  <---CAS--->  loader  --writer transaction-->  target
                          ^                       |  \-> durable ledger (same database)
                    maintenance                   \-> audit chain (same transaction)
```

| Part | State it keeps | Operations | Talks to | What makes it hard | What makes it correct |
|---|---|---|---|---|---|
| Staging store (`stores/`) | one row per run, its batches and records | `begin stage seal transition get_run batches records cleanup` | pipeline, loader, maintenance | stale revisions, lost answers, retries, expiry, purge | a sealed run is the dataset it was bound to; CAS is sound; one claim; outcomes are final; nothing undecided is purged |
| Loader (`database/loader.py`, `_load_transaction.py`, `_load_ledger.py`, `loading/staged_input.py`) | slot of an instance, transaction, advisory and table locks, markers of the ledger | `execute` | staging store, target, audit chain | two stores without a common transaction, COMMIT without an answer, crashes, two processes with one key | data is loaded once; what staging and callers are told is true; every attempt ends |
| Load planning (`loading/planning.py`, `groups.py`) | work lists, groups, savepoints | `build_plan`, `dependency_groups`, `_write` | loader, constraint reader | two graphs that must agree, a group refused in the middle | exactly what belongs to a wrong unit is held back; what is committed is whole |
| Audit chain (`security/audit.py`, `audit_store.py`, `database/audit.py`) | rows of the chain, an advisory lock | `append verify verify_records verify_through append_rollback_event` | loader, pipeline | concurrent appends, rollback, lost answers, reading while it grows | an append-only log; receipts stay verifiable |
| Run session (`pipeline/session.py`, `state.py`, `loading.py`, `orchestrator.py`) | status, outcome, flags `busy` and `executing`, results, staging context | `perform stop terminal execution aclose` and the calls of the orchestrator | hooks, signer, staging store, loader | several tasks on one lease, hooks that call back, failure of every await, cancellation | commits are reported, staged data is released, the mode holds, the end is audited |
| Security session (`security/session.py`) | counts, stage deadlines, first event | `check reserve reserve_llm call remaining_seconds parse snapshot` | parsers, router, adapters | one budget for concurrent adapters, answers after the deadline | nothing is overspent; a closed run gives nothing out |
| LLM router and run (`llm/router.py`, `run.py`) | attempts, reserved tokens, busy flag | `generate_structured` | providers, security session | fallback after failure, late answers | data goes only where its class allows; every attempt is charged and recorded |
| Database inspection and dry run (`database/`) | slot, `unavailable`, worker thread | `inspect`, `plan` | target | a thread that outlives a cancelled call | one inspection at a time; cleanup without an answer closes the adapter |
| Parsers (`parsers/`) | registry state and sessions, one stream per selection, sandbox process | `register session select parse` | security session | cancellation during cleanup, a process started after its caller left | no stream and no process is left behind |
| Semantic parsing (`parsing/session.py`, `structure/`) | open, analysing, started, closed, report | `analyze_structure validate_parse_plan parse_semantically aclose` | router, parsers | early exit, closing while analysing | one report per session, and it tells how it ended |
| Placeholder store (`security/placeholder_store.py`) | encrypted entries, two clocks | `put get discard purge_expired rotate_key close` | redaction | expiry, limits, rotation | a value is only given to its run, and not after its time |
| Builtin parsers of text, delimited text and JSON (`parsers/builtin/`) | the unit, row or container that is open, the batch | `parse` | stream, sandbox | a text that comes in pieces cut anywhere, limits met in the middle of something | the same text gives the same content however it is cut |
| Plans of parsing (`structure/`, `contracts/parsing.py`) | what is selected so far, lineage, limits | check, validate, execute, sample, profile, draft | semantic session | two passes over a source that may differ, batches cut anywhere | a plan means the same in both passes; nothing of the source is lost silently |
| Database catalog (`database/_catalog.py`, `domain/database_*.py`) | none between calls | read, assemble, sort, fingerprint | inspection, loader | circles of foreign keys, names that differ in case only, structures that change | a catalog is whole and ordered, and tells of every change |
| Mapping, normalisation, profiling, validation, contracts, domain | none between calls | functions of their input | pipeline | - | - |

`PROJECT.json` lists every part with its files and its status, and the hazards
of the code, each at its line with the properties that catch it.

## 2. Modules

### Staging and loading

**`StagingRules`, `Staging`.** `stores/_core.py` computes every rule as a function
from a state to a state, and an adapter runs it as one atomic read-modify-write
under a lock per run; so `StagingRules` holds the rules as operators on the run
row (`Transitioned`, `Sealed`, `Expired`, `Tombstone`, ...) and each action of
`Staging` is one whole call (`begin`, `stage`, `seal`, `transition`, `cleanup`,
`get_run`). `run`, `batches` and `records` are the tables, `now` the clock, `view`
what each client was last told and so the revision it will pass, `claims` a
history of claims. The parameter `replied` is false when the call commits and the
answer is lost. A fingerprint is represented by what it hashes.

**`Loader`.** Several calls of `execute`, the PostgreSQL server and the staging
store run side by side. `att[a].pc` names the await an attempt stands at; `txn`,
`rows`, `keyLock`, `tableLock` and `ledger` belong to the server, which alone
decides a COMMIT that was sent; `run` and `pending` to the staging store (rows
follow `StagingRules`), which may apply a CAS after its caller gave up. The
actions follow the code: `Start`, `Begin`, `ClaimKey` or `Replay`, `Verify`,
`StagingApply`, `LockTable`, `Write`, `SendCommit`, `CommitAnswered` or
`CommitLost`, `Settle`, `Recover`, `Return`; `Fail` at every await of the
transaction, `Crash` at every step; `StopRun`, `Cleanup` and `Tick` are the other
users of the store. Without a ledger the claim comes before the transaction and
`busy`/`unavailable` guard the instance.

**`LoadPlan`.** What `Loader!Write` has as one step. The input is a dataset: units
(target rows), their source records, dependencies, related records and the units
validation found wrong. `Visit` is the work list of `_quarantine_groups`,
`Collect` and `NextGroup` that of `dependency_groups`, which builds a graph of its
own; `Pass`, `Savepoint`, `Statement`, `Refused`, `Release`, `Commit` and `Abort`
are the writer. The reference the closure is checked against is `Hull`, the least
set closed under `Together`, defined without any graph.

### Audit chain and database

**`AuditLog`, `AuditChain`.** `AuditLog` is what the chain promises: events are
appended, once each, in the order of time. `AuditChain` has `append` with its
three awaits (`Find`, `ReadTail`, `Insert` or `Conflict`), the end of the caller's
transaction (`Commit`, `GiveUp`), the advisory lock, and verification page by page
(`StartCheck`, `ReadPage`, `Verdict`). `setting.transactional` tells
`database/audit.py` from the memory store of `security/audit_store.py`. A digest is represented by the
events it authenticates. `ImplementsLog` maps the committed rows to the log.

**`Inspection`.** The calls of one object that inspects: the SQLite adapter, the
PostgreSQL adapter or the dry-run planner (`adapter`). A thread cannot be stopped:
it is asked to end, waited for, and left behind when the wait is over; the object
then takes no call any more. Deadlines and cancellations arrive at any await, also
at those of the cleanup.

**`Catalog`.** First what a catalog is: the contract, the graph of the foreign
keys with its components and levels, the canonical form behind the fingerprint.
Then how one is read from SQLite or PostgreSQL, made whole, and compared later
with a database that may have changed.

### Pipeline

**`Pipeline`.** It has the edges of `pipeline/state.py`, the stages each call
of the orchestrator performs and the status a failure ends in; several clients
call the stepwise API on one lease and a closer closes it. A client's `pc` is the await
it stands at: hooks of a stage (`First`, `Announced`), its operation (`Work`;
`Begin`, `Fill`, `Seal` for staging; `Claim`, `Load`, ... for the loader), its end
(`Complete`), and `terminal` (`Sign`, `Tell`, `Read`, `Move`). `Fails`,
`LostWrite`, `RollBack`, `LoadUnknown`, `Gap` and `CleanupFails` are the mishaps.
Between two stages of a call there is no await, so leaving one and entering the
next is one step. `staging` and `target` are what this component can observe of
store and loader.

### Security

**`Resources`, `Routing`, `Guarded`.** The methods of `SecuritySession` run under
one lock without an await, so `Resources` has them as operators from a session to
a reply (the session afterwards and the code raised); `Routing` has the rules of
the router and of the run provider without their awaits. `Guarded` lets tasks of
both adapters, a database adapter, a snapshot and a parser lease share one
session: what happens between two awaits is one step. `ses` is the session, `ad`
the two adapters, `task` the callers, `prov` what each deployment really is now.

**`Provider`.** `llm/openai_compatible.py`: one HTTP client with one life, tasks
that generate on it, the owner of its context, and tasks that close it.

**`Vault`.** `mask` and `restore_fields` over the encrypted store with its handles,
its limits, its key, and the two clocks of which either may go wrong.

**`Replay`, `Proposal`, `Document`, `Semantic`.** What is asked of a model. `Replay`
holds every batch of a second reading against the contract and the batches
before it; `Proposal` has the request, the answer in aliases, the plan made of it
and its validation; `Document` the entities asked chunk by chunk, checked against
quotations, merged; `Semantic` the session around them, whose readings may fail
and whose waits may be cancelled at any point, and the report it gives.

### Reading

**`Extraction`, `ParserStream`.** The contract of physical batches and their
manifest, and the validated stream inside the sessions of the registry: what it
lets through, who may close it, when the registry may change again.
**`Selection`**: the probes of the registered parsers and the choice.
**`Sandbox`**: one parser in a process of its own, for a caller that may be
cancelled at every await, over a backend that may start late and never say that
the process is gone. **`Discovery`**: metadata of plugins, read while an installer
rewrites it.

**`Delimited`, `TextLines`, `JsonTree`.** From decoded text that comes in pieces to
the batches of `Extraction`: dialects, quoting and blank rows; physical lines, log
events and Markdown blocks; JSON documents with a root array and JSON lines.

### Plans of parsing

**`ParsePlan`** is what a plan may say and what its records make (contract, static
check, normalised dataset). **`PlanRun`** applies a plan to the batches of a source,
once for the validator and once for the executor: the limits on what is read
(`Unstreamed`, `WhyRefused`), the selection, and the output, whose batches are bounded
twice, by what their records take (`Room`) and once more when they are finished
with all that surrounds the records and, in the last one, the manifest
(`Remeasured`, for `_batch_limit`). **`Profile`** and **`Planning`**
sample a source, observe it, draft plans for each family without any model, choose
one, and run it by `PlanRun`.

### How the modules compose

`Staging` and `Loader` both extend `StagingRules`: the store that `Staging` checks
against arbitrary clients is the store the loader's attempts use. `LoadPlan`
refines one step of `Loader`. `Pipeline` abstracts store and loader to the status
of one row and the fate of the target: the steps it allows them (`Claim`, `Load`
with or without finalisation, `RollBack`, `LoadUnknown`, `Replay`) are the
outcomes `Loader` has. These two abstractions are by inspection, not checked as
refinements. `Guarded` is `Resources` and `Routing` with the awaits; `Planning`
extends `Profile`, `Profile` extends `PlanRun`, `PlanRun` `ParsePlan`; `Proposal` extends
`Replay`; the parsers and `ParserStream` share `Extraction`.

The MC modules give the constants of the instances. `MCData`, `MCReading`,
`MCSecurity` and `MCDatabase` hold several parts that share no state: a behaviour
is one part's while the others stay in one initial state, so the state spaces add
up and do not multiply.

| MC module | Parts |
|---|---|
| `MCLoader`, `MCPipeline`, `MCProvider`, `MCPlanning` | `Loader`, `Pipeline`, `Provider`, `Planning` alone |
| `MCData` | `Staging`, `LoadPlan`, `TextLines`, `JsonTree`, `Delimited`, `PlanRun`, `Planning` |
| `MCReading` | `ParserStream`, `Selection`, `Sandbox`, `Discovery` |
| `MCSecurity` | `Guarded`, `Provider`, `Vault`, `Document`, `Semantic`, `Proposal` |
| `MCDatabase` | `AuditChain`, `Inspection`, `Catalog`, and `Loader` with two attempts |

Definitions called `X_Y` beside a definition `X`, commented with "Slip", are
plausible mistakes in `X`. No specification uses them: each shows, put in the
place of `X`, that some property notices it. The map of `PROJECT.json` lists the
definitions that carry code, with the lines each stands for.

## 3. Runs

A `setup` variable, chosen in `Init` and never changed, lets one run cover
several small scenarios that differ in who asks for what.

| Run | Instance | Shows |
|---|---|---|
| `loader` | seven setups: three attempts at one run under one key; two runs or two datasets under one key; one run under two keys, expiring; two runs into the same two tables, two runs on one instance, and one run on two instances, without a ledger; 886 thousand states up to symmetry | loaded once, staging and answers tell the truth, no circular waiting |
| `pipeline` | the whole stepwise API by one client, who also brings a catalog of its own; two executes in two modes with a lost begin; an execute and a stray call; with failure, timeout or cancellation of every await and `aclose` at any time; 358 thousand states, fair | commits are reported, outcomes are true, the end is audited, one client at a time is in a stage, only the loader ends EXECUTING, executes give the run back |
| `data` | a staged run with two writers, a maintenance client, two batches, right and wrong specs, clock up to 5; every dataset of four units over three tables and three records with both error policies; texts, JSON and pages of a few characters, cut everywhere, under small limits; plans of every kind over small sources, with foreign and altered batches; sources of every family, whole and cut in two | CAS without ABA, the sealed dataset is the right one, final outcomes, retention; the closure is exact and what is committed whole; content does not depend on the cut; a plan means the same in both passes; a derived plan leaves nothing out unsaid |
| `reading` | two streams of one or two sessions beside two registrars, one of them closed by another task; three parsers with every kind of answer; a worker under every backend; a metadata file of two inodes that is rewritten and renamed | accepted batches are an extraction, nothing after closing, leases hold the registry, content decides, a runner leaves no process behind, what was discovered is one revision |
| `security` | seven setups of one session: one or two router tasks, a run provider, a database adapter, a snapshot, a lease, in every mode of routing; the store with two handles and both clocks; one provider; small documents, proposals and semantic sessions; 410 thousand states | data goes only where it may, books are true, nothing is given late, the client is released at rest, maps reach only their run, quotations are the source's, a plan is whole, a report is true |
| `database` | three appends (repeated event, reused id, out of order, over the limit) in both stores with one verifier and pages of one record; two inspecting tasks with two cancellations each, three adapters; catalogs over all graphs of three tables and many of four, with changes between two calls; two attempts of `Loader` at one run under one key; fair | receipts verify, the chain implements `AuditLog`, every append ends; every attempt to load ends; one connection at a time, every inspection ends; a catalog is whole, ordered and tells of changes |
| `pipeline_visit`, `pipeline_quarantine`, `pipeline_lost_begin`, `provider_close`, `planning_groups`, `plan_typed` | one setup each | the disagreements of section 5 |

`CatalogIsTrue`, `BooksAreTrue`, `SandboxIsSettled`, `ContentIsRead` and the like
are conjunctions of named parts, which their comments explain one by one.

`CHECK_DEADLOCK FALSE` is set because each of these systems may stop without a
fault: attempts and appends are over, leases are closed, plans are written, a
text is read, and the other parts of a composite stand still. That they do not
stop too early is what the temporal properties are for.

### Why the bounds are enough

- `Loader.cfg`: three attempts are needed for "the first lost its answer, the
  second crashes while it recovers, the third replays"; the other scenarios are
  conflicts of two. Two tables suffice for a lock cycle. `stoppable` names the runs
  whose owner interferes; the clock (`last`) moves only where expiry matters,
  because `Fail` already allows a deadline to pass at any await.
- `Pipeline.cfg`: the stages before staging differ only in their edges, and the
  first setup walks all of them; the others use the shortest way to execute.
- `Data.cfg`, staging: calls concern one run each, so runs do not interact. Two
  writers are needed for a race and a maintenance client for purge. The retention
  intervals differ and are passed within the clock's range (`MaxTime`), on either
  side of the expiry. Load plans: a chain over three tables, a record with two
  units, and a relation meet in four units, with the orders of hashes, tables and
  creation all different; statements of at most two rows (`BatchSize`) give batch
  borders inside a group. Texts: the alphabets hold one character of each kind the
  code tells apart, the lengths reach every pair of them across a cut, and every
  limit is met, missed by one and passed. Plans: batches of five bytes with two
  records and an envelope of one let a batch pass `Room` and fail when it is
  finished, in the middle and at the manifest.
- `Reading.cfg`: `MaxBatches` 3 and `MaxRecords` 3 are met and passed; `MaxFrame` 2
  and `MaxResult` 3 let the last frame pass the result by one byte. Two inodes
  suffice for a file that is replaced while it is open.
- `Security.cfg`: the limits (`MCLimit`) are those at which two callers can both be
  the last one; the clock (`MaxClock` 4) passes every stage deadline and, once, goes
  back. Two handles and two runs are what mixing them up takes.
- `Database.cfg`: `Maximum` 2 with three appends reaches the limit; `Retries` 2 (16
  in the code) is reached by the memory store and never in a transaction; a page of
  one record (256 in the code) puts an append between any two records a verifier
  reads. Two tasks and two cancellations give a cancelled cleanup with the
  next task at the slot.

### Fairness

- `database`, attempts to load: an attempt goes on unless it waits for a lock (`asyncio` runs
  it, and every await has a deadline), the server decides a COMMIT it received, and
  it ends the session of a client that is gone (TCP and `statement_timeout`). The
  timeout of the lock wait itself is not used: progress comes from the release of
  the lock with its transaction.
- `pipeline`: every await of a client ends, by an answer, an error or the deadline
  `perform` and `terminal` put around it; no fairness for closing.
- `database`, the rest: every await of an append ends and its transaction is ended by its
  caller; timers of an inspection fire and the loop runs what is ready, but a
  thread need never end.
- `provider_close`: the event loop runs what is ready (`Shutdown`, `Release`, the
  unwinding of cancelled tasks, the exit of a context); no answer ever has to come.

## 4. Proofs

A theorem holds for every value of the constants that satisfies the assumptions
named in the modules: any number of runs, clients, attempts, tasks, tables, any
limits and any policy. Each proof follows the same way: an invariant stronger
than the property, one lemma for each action (and under it one step for each part
the action can disturb), and the property from the invariant.

| Module | Invariant | Theorems |
|---|---|---|
| `StagingProofs` | `Inv` | `TypeCorrect`, `RowsAgree`, `RevisionIsIdentity`, `SealedExactly`, `PurgedIsFinished`, `ClaimedOnce`, `RetentionSuffices`; actions `SealIsKept`, `OutcomeIsFinal`, `TombstoneIsFinal` |
| `LoadPlanProofs` | `PlanInv` | `TypeCorrect`, `QuarantineIsExact`, `GroupsAreExact`, `ParentsFirst`, `LoadIsWhole`, `ReceiptAddsUp` |
| `LoaderProofs` | `Inv` | `StagingTruth`, `AnswerTruth`, `LoadedAtMostOnce`, `NoCircle`; action `ResultsAreKept` |
| `DatabaseProofs` | `AuditInv`, `InspectionInv` | `ReceiptsAlwaysVerify`, `InspectionsExclude`; refinement `ChainImplementsLog` |
| `PipelineProofs` | `PipelineInv`, `CommitInv`, `EndInv`, `ReleaseInv` | `LeaseExclusive`, `OutcomeTruth`, `CommitReported`, `EndTold`, `EndTruth`; action `ExecutingIsKept` |
| `SecurityProofs` | `GuardedInv`, `ProviderInv`, `VaultInv` | `GoesOnlyWhereItMay`, `BooksOfTheRun`, `ProviderReleasesAtRest`, `VaultKeepsMaps`; action `NothingIsLate` |
| `ReadingProofs` | `SandboxInv`, `StreamInv`, `Gathered`, `DiscoveryInv`, `ChoiceInv` | `SandboxSettles`, `StreamInvariant`, `LeaseIsHeld`, `CompletedWasRead`, `ReadIsExtraction`, `DiscoveryFindsSound`, `SelectionByContent`; action `ClosingIsHeeded` |
| `SemanticProofs` | `SemanticInv` | `ReportsAreTrue` |

### Staging

Assumed: `RetentionAssumption` (natural numbers), `NoneAssumption` (`None` is none
of the values) and `InputAssumption` (specs and batches have their types, the
terminal batch and only it carries a manifest, a batch has no record twice, as the
contracts validate).

1. *Rows.* For every rule (`TransitionedRow`, `StagedRow`, `SealedRow`,
   `ExpiredRow`, `TombstoneRow`) a lemma says which fields of the row it replaces.
2. *One run.* Lemma `OneRun` turns a step of `Next` into what it does to one run:
   nothing, creation, growth, sealing, transition, or cleanup. Clients, answers
   and lost answers are gone after that.
3. *Invariant.* `Inv` adds to the stated invariants what makes them inductive.
   `OutcomePart`: only a finished run has a cleanup time, so only such a run is
   purged. `ClaimPart`: a run that can still be claimed has not been. `RowsPart`.
   `ReferencePart`: the references keep what `begin` demanded of them.
   `DatasetPart`: once all batches are there they are the dataset, because the last
   one is only taken with the manifest of the whole; an open run has no seal.
   `ViewPart`: no view is newer than its run, without which "equal revisions,
   equal runs" would not survive a step.

### Load planning

Assumed: `LoadPlanAssumption`. Units are numbers and finitely many, no two were made
at the same time, and an input is one that `prepare` lets through (every record
has a unit, dependencies point to earlier tables).

1. *Graphs.* An edge joins only what belongs together (`EdgeTogether`); the anchors
   connect whatever does. So a set is closed under either graph exactly if it is
   whole (`ClosedIsWhole`), and planner and writer, who never compare their graphs,
   agree. Every unit of a hull has that hull (`HullOfMember`).
2. *Invariant.* `PlanInv` has one part for each phase. `Closing`: what is rejected
   is within the hull, and the neighbours of what is not pending are rejected; at
   the end of the work list the set is closed, therefore whole, therefore the hull.
   `Grouping`: the same for one group, and what is in no group yet is whole, without
   which the next group could run into an earlier one. `Listed`: groups are
   disjoint hulls. `Writing`: the transaction has exactly what it takes from the
   groups that are done, and from the open one what is no longer in `left`.
3. *Theorems.* For `ParentsFirst` the open group is whole, so a parent is in it, in an
   earlier table than the statement's; `ReceiptAddsUp` counts disjoint parts.

### Loader

Assumed: `LoaderAssumption`, `RecordAssumption` and those of `StagingRules`; that
tables are finitely many matters to `NoCircle` alone. `Inv` says of each attempt what its place in `execute`
implies (`PlacePart`), which load its answer stands for (`ReceiptPart`) and that a
request to the staging store, which may be applied long after its sender is gone,
says what is so for ever (`RequestPart`). `OwnerPart` is what makes two attempts at
one run harmless: whoever claimed it, wrote for it, or still has a request under way
that denies or doubts the load is its only owner, and the run is past SEALED, so
nobody can claim it again. `KeyPart` says the same of a key: one transaction at most
has rows with its marker, because the advisory lock is held from before the marker
is looked for until the transaction has ended. From these follow what the run says
(`TruthPart`) and what the ledger says (`LedgerPart`). `LockPart` has the order of
the locks: who waits for the key lock holds none, who waits for a table holds only
earlier ones. So in `NoCircle` a waiter for a key waits for one that waits, if at
all, for a table, and along waiters for tables the tables grow.

### Audit chain

`AuditInv` rests on the length of digests. A writer that read the digest of the
present tail has checked its event against this tail, since a chain that has grown
has a longer digest; an envelope that is not yet committed belongs to the holder of
the advisory lock and still fits. What a verifier has read is a prefix of the chain, and
its anchor lies in it. `ChainImplementsLog` maps `Init` to the empty log and each
step to the appending of one event or to no step.

### Inspection

`InspectionInv`: the call under way holds the slot; a blocked object has no call
under way; a thread or a connection that a call left behind blocks the object; and
in which steps cancellations can have been counted. The last part came from a failed
attempt: without it a catalog could be given to a cancelled task, and what excludes
it is that no adapter but the planner closes its connection with a thread alive.

### Pipeline

`PipelineInv` is stated over values (a client, the run, its row, the target), so that one
lemma, `MovedKeeps`, serves every action: the client that moved is `Sound` again and
what it changed keeps the others sound. `PairPart`: one client is inside `perform`,
one call of `execute` is in progress, `busy` has its client, and no outcome denies a
loaded target unless a client is just finding out (`raised`). `CommitInv` adds what
the end of a run may say (`Told`), that a committed run is in LOADING or over, and
`GoalPart`: nobody ends the run from outside `perform` while another task executes it.

The end of a run (`EndIsTrue`) takes two more. `EndInv` follows what `terminal` tells:
a status that ends the run is the goal of some client that has told it, or the
closer's with a warning (`WhosePart`); without a warning the last event is that goal
(`EventPart`); a client on its way to COMPLETED has nobody in `perform`, no error and
no note behind it (`SuccessPart`). That only one call comes to an end (`OneEnd`) is in
the property, not assumed. A step is one of five shapes (`GoesOn`, `ComesToEnd`,
`Signs`, `SetsStatus`, `Cleans`), and each shape keeps `EndInv`. `ReleaseInv` is about
what `cleanup_staging` gives up: a staged run that nobody has claimed and no warning
speaks of has a `Keeper`, the client that executes, from the answer of `begin` to the end of
its cleanup. It needs that no call leaves without `terminal` after staging, and
the one way to do so is the second look at the lease (`Rechecks`), so `OrderPart` keeps
that look before STAGING in what is still to do.

Three theorems have a hypothesis, each of which excludes exactly a finding of section
5. `OutcomeTruth` assumes that no load that committed with quarantined records loses
its answer (`pipeline_quarantine`). `CommitReported` and `EndTruth` assume
`Undisturbed`: no two clients parse, and none brings an argument that is disputed
while another is to execute (`pipeline_visit`). `EndTold`, the part of `EndTruth`
about events and success, needs neither. Both hypotheses hold of the setups of the
run `pipeline`.

### Security session

Assumed: `GuardedAssumption`, which is what the contracts of policies, capabilities
and requests validate, and that a router has one deployment for each route (the
constructor refuses another). `GuardedInv`: the session is within its limits
(`Within`); a task that waits was told nothing, and one that is done was told the
verdict of the run or its own (`TaskPart`); an adapter is busy exactly if one task waits for it,
and its `Books` balance: its sums are those of its records and of what is in flight,
every record is right (`RecordRight`), and what is in flight (`FlightRight`) goes to a
deployment whose capabilities, looked up at the moment of sending, are the approved
ones, and follows the last record as a fallback may; what it may still try are
candidates (`AdapterPart`). The session's counts are the sums of both adapters
(`SumPart`). A snapshot has what it has counted (`UserPart`). `SumReserved`, a recursive
function, is reasoned about by the least counterexample. `NothingIsLate` carries
`InTime` along each reply: the second look at the time after the await is what makes
it hold.

### Provider

Assumed: `ProviderAssumption` (the history has a positive bound). `ProviderInv`: who is
active is in the exchange (`OnTheWire`), a call that counted is in the history or on
its way (`CallsAddUp`), whoever is active when the provider gathers its tasks is one it
waits for, and the client is released exactly when the closing task has ended. So
at that moment nobody is active: `ProviderReleasesAtRest`.

### Placeholders

Assumed: `VaultAssumption`. Sizes are natural numbers, a text is a finite sequence, and
the findings in it are finitely many, lie in it and are not empty: the scanner reports
the places of matches in this very text, and `SensitiveFinding` refuses an empty span.

`VaultInv` follows a map from its making to its use: what was put in is what masking
made (`WasMasked`), under the binding of its run (`WasPut`), and a handle reveals only
what was put in for it. The round trip of the masking is a theorem about functions:

1. *Spans.* `Joined` takes up the findings from the first to the last. Whatever any
   finding covers is covered by a span, and the spans lie apart, in their order
   (`MergedCovers`).
2. *Telling.* The masked text, item by item, is told by a function of the places of the
   original (`Tells`, `MaskedTells`): an untouched place tells its letter, a span
   tells its placeholder. Replacing placeholders by what they stand for joins
   neighbouring pieces of the original, hence gives the original back (`RestoredIs`).
3. *Hiding.* The letters of the masked text and the untouched places of the original
   correspond one to one (`ToldHides`), so nothing that a finding covers is left.
4. *Folds.* Restoring and masking are folds over sequences and sets. Of these only one
   step is ever needed (`FoldOnce`), and what holds after the first step and is kept
   by each holds at the end: the least place where it failed has no predecessor
   (`FoldIsThere`, `FoldStays`).

`VaultKeepsMaps` is `MapsAreKept` for every text and every set of findings.

### Streams, sandbox, discovery, selection

Assumed: `StreamAssumption`, `DiscoveryAssumption`, `SelectionAssumption` (limits are
numbers, registrations are a sequence with distinct identities).

- *Streams.* `StreamInv` says of each stream who is inside its iterator, at most one of
  reader, closer and session, that a closed stream was closing, and that a completed one
  has seen the end and is closed (`StreamFits`); of a session that its place in `open`
  matches the lease count and that its clean-up knows every stream it opened
  (`SessionFits`); and that a registry once frozen stays so while leases are out.
  `LeaseIsHeld`, `CompletedWasRead` and `ClosingIsHeeded` follow. `Gathered` relates what
  a validator accepted so far to the flattening of the batches: numbers, sums, references,
  keys, tables and trees are those of the whole, and only the last batch ends it, with a
  manifest that agrees. `ReadIsExtraction` then states that the code's check, batch by
  batch with running totals, is the same as checking the whole (`SegmentsFollow` against
  `FollowsOn` kept one by one).
- *Sandbox.* `SandboxInv`: where the runner is and what it knows of its process
  (`StartPart`); only a process that is up lets a parse end well (`ToldPart`); what was
  let through has been counted but for the last frame (`BytesPart`).
- *Discovery.* `FileInv`: what has been read is the beginning of what the file holds as
  long as its time is the one seen first, and a later write gives a later time. So a
  result whose two looks at the file agree is one revision (`DiscoveryFindsSound`).
- *Selection.* `ChoiceInv`: what was probed, and with which answer, determines the choice,
  and names and suffixes do not (`SelectionByContent`).

### Semantic sessions

Assumed: `SemanticAssumption`. Modes, counts and plans have their types; a plan made
without a model has the confidence that the policy asks for and at most 100 per cent
(`structure/analysis.py` offers no other); what extracts entities leaves no block
unresolved without an issue, nor more issues than the policy allows
(`structure/document_entities.py`); the limit of issues is positive.

`ReportIsTrue` is about a report at the end of any sequence of calls, failures,
cancellations and closes. `SemanticInv` says what each of its clauses rests on:

1. *Analyses.* Whatever makes an analysis - `Unasked`, `Finalized` of a draft, `Saved` -
   makes one that `Fits`: what is unresolved is a block, without a plan there is an
   issue, and a plan without an issue resolves everything with a sufficient score. So
   "completed" is never said of less (`FinalizedFits`, `SavedFits`).
2. *Operations.* `OperationFits`: the iterator runs exactly as long as its operation
   does, an analysis of the session's own runs only while the session is open and has
   none, and the check of a saved plan never asks a model. `AskedFits`: so one analysis
   asks, and afterwards the session has it or is closed.
3. *Calls.* `CallsFit`: the calls are those of the draft, of `last_analysis` or of the
   analysis, whichever would be reported next. The exception is named (`LostCalls`):
   a saved plan brought to a closed session whose analysis failed starts from zero.
4. *Vetoes.* `VetoFits`: after a veto the session has no plan and nothing was given.
   `WithReason` keeps the veto in a full list of issues, and the reason of the end
   beside it unless vetoes fill the list (`WithReasonIs`, `FullOfVetoes`): with one slot
   left `_fail` lets the veto go first (`parsing/session.py:318`), and the status tells
   the rest.
5. *Records.* `RecordsGiven` is a fold; `AddingFolds`, `AddingIsOne` and `SumOfGiven`
   give of it what a further batch adds.

Every early end goes through one lemma (`EndsBadly`), whether `_fail` is called by a
failure, a cancellation, the close of a paused iterator or the start of one whose
session was closed; the regular ends are `FinishKeeps` and `LastReported`.

### What is only model-checked

- Liveness (`EveryAttemptEnds`, `EveryAppendEnds`, `EveryInspectionEnds`,
  `ExecuteEnds`, `CloseReleases`): fairness and ENABLED are outside the prover.
- What recursive definitions compute (`PlanIsFollowed`, `DerivedIsTotal`,
  `EntitiesAreGrounded`, `CatalogIsTrue`, `ContentIsRead`). The induction
  theorems of the library take an operator, which none of the provers can instantiate, and
  modules with RECURSIVE operators (`Catalog`, `Document`, `PlanRun`, `Planning`,
  `Profile`, and `MCData`, which reaches some of them) lose the SMT prover.
  Recursive functions and folds are within reach where the claim is about the least place
  at which it could fail (`SumReserved`, `FlattenSeq`, `FoldIsThere`).
- `ProposalIsWhole`: its folds carry a state and its selections use `SelectSeq`, which the
  prover does not take.

## 5. Where code and documentation disagree

Found by a run:

- `pipeline_visit`: a call that is stopped outside `perform` (a catalog or plan that
  is not the run's, or `parse_semantically` between its stages) ends the run as
  NEEDS_REVIEW although another task executes it and its load commits
  (`CommitIsReported`). For the same reason a stage called during the terminal hooks
  of `execute` fails the run a second time: `perform` looks at `busy` only, and
  `execute` has cleared it by then.
- `pipeline_quarantine`: a load that committed with quarantined records and then
  raised is reported as `NOT_STARTED`, because `pipeline/loading.py` does not
  know the staging status QUARANTINED (`OutcomeIsTrue`).
- `pipeline_lost_begin`: `staging_context` is set after `begin` has answered; a
  run whose answer was lost stays OPEN until it expires, and no warning says so
  (`NothingStaysStaged`).
- `provider_close`: a provider closed by a task while the owner of its context waits
  in a call never ends closing: the close waits for the owner, whose exit waits for
  the close (`CloseReleases`).
- `planning_groups`: blocks of a kind that no observation mentions are in no group of
  a document plan (`BlocksAreKept`).
- `plan_typed`: two span entities of one type may have a field of one name and
  different semantic types. Such a plan is accepted, and its execution ends with the
  `ValueError` of the manifest's contract (`structure/execution.py:196`), after
  batches may have been yielded; `ParsePlanExecutor.execute` documents no other
  failure than `ParseExecutionError` (`FailuresAreTyped`).

Met while modelling, without a run of their own:

- `terminal` chooses its status before it awaits signer and hooks and sets it
  afterwards (`pipeline/session.py:499`), so a failed cleanup of a concurrent
  `aclose` can be overwritten by COMPLETED while its warning stays.
- Legacy tree paths that occur twice are reported within one batch, not across two.
- `Planner.tables` raises an untyped `ValueError` for a header that is repeated
  directly after itself.
- The planner of a dry run does not become unavailable after CLEANUP_FAILED of the
  assembling thread inside `_plan`, as the docstring of `database/dry_run.py` says.
- A cancelled SQLite inspection reports CLEANUP_FAILED, a PostgreSQL one the
  cancellation first.
- Merged regions never block a table plan, which ADR 0009 has them do.
- A derived document plan with a metadata or duplicate block between the blocks of
  a section is always refused (`noncontiguous_record`).
- "Agreement" of document entities becomes 1 also when one response proposes an
  anchor twice; a proposal counts as complete although a batch holds lines outside
  its blocks; segmented tree roots always go to review.
- `_parse` appends validation issues without the bound `max_issues`; the report of a
  FAILED session loses the calls of a failed analysis when a saved plan is used
  afterwards; a saved plan drops the veto of an UNSAFE analysis (`validate_saved` means it).
- A tabular proposal with a footer leaves rows between the end of data and the footer,
  and between header and data, in no record and without review.

The setups of `pipeline` leave those mishaps out, or out of what is asked, so that
the run checks the rest; section 4 says how the theorems treat them. In the same way
the plans of `data` have no field of two types, so that `PlanIsFollowed` can say
that nothing untyped is raised; `plan_typed` takes just those plans.

## 6. What the models leave out

- Staging: payload and page sizes, the JSON codec, principals (a call by another
  principal is refused before it looks at the state), the memory adapter's copies.
- Loader: the catalogue and grant checks inside the transaction are part of
  `Write` and `Fail`; network errors and deadlines are one nondeterministic
  failure each; the audit append inside the transaction is in `AuditChain`.
- Load planning: which unit is wrong is an input; so are the constraint lookups
  and the server's refusal of a statement. SQL text is left out.
- Audit: HMAC is collision-free; key rotation, size limits of a record and
  delivery intents are left out.
- Pipeline: what a stage computes; fingerprint mismatches are a failure or a
  review chosen freely; deadlines are a kind of failure.
- Security: a fingerprint is what it hashes; HTTP and JSON are outcomes; patterns of
  classification are an input; policies are not narrowed during a run.
- Parsers: decoding of bytes, numbers and escapes of JSON, and the patterns that
  recognise a format. Sizes count characters, one byte each or two for a wide one.
- Plans: a record is as long as its values, an envelope and a manifest have sizes of
  their own (`RunLimits`). Of the preflight of a batch (`structure/_runtime.py`) the
  bytes and the depth of trees are one bound on the number of its references
  (`heavy`). Two failures cannot be reached and are left out: `table_range_limit`
  (the rows of a table have been counted into `source_total_items` by then, under the
  same limit) and `terminal_manifest_changed` (`consume` held the last batch's against
  the plan's). Conversions of values are an outcome; scores are per cent; ties that the code
  breaks by a hash go by the order of the source.
- Discovery: two changes of an inode have different times.
- Everything in `PROJECT.json` with status `not_modelled`, with its reason.

## 7. Plan

Next, most important first:

- `ProposalIsWhole`, once its selections are written as folds.
- The loader as `Pipeline` sees it, with `Loader` shown to implement it.
- `CatalogIsTrue` and `EntitiesAreGrounded`, with recursive functions in place of the
  recursive operators.
