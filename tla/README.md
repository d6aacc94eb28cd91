# FactBase: a TLA+ verification of its write paths

FactBase stores claims, the evidence for and against them, and the research that
produced that evidence, as append-only rows of a PostgreSQL database. The server
(`src/src`, TypeScript on Express and node-postgres) promises that histories are
linear, immutable and reproducible although many callers write at once and
connections fail. This project states those promises in TLA+, checks them with
TLC on small instances, and proves the central ones with TLAPS for all instances.

Paths below are relative to the repository (`src/` here is its root, so the
implementation is under `src/src/`).

## 1. The system

All services are stateless; the only state is in PostgreSQL and, for the length
of a call, in a transaction, its row locks and the pool client it runs on. Calls
interact through rows, row locks (`SELECT ... FOR UPDATE`), unique indexes,
advisory locks and the bounded pool of `db.ts`.

| Component | State | Operations | What is hard | What makes it correct |
|---|---|---|---|---|
| HTTP API (`app.ts`, `routes/`, `controllers/`) | none | validate, call a service, map its error to a status | nothing but its callers' retries | each service outcome has its status |
| Claims and claim versions (`claimService.ts`, `claimVersionService.ts`) | `claims`, `claim_versions` | create a claim with version 1; append a version based on a stated one | two revisions of one base; the conflict that only the index sees; the re-read after it; COMMIT or ROLLBACK that gets lost | linear history, no lost update, truthful answers, no leaked client |
| Claim historical authority (`claimHistoricalAuthority*.ts`) | `claim_identity_authorities`, `claim_version_authorities` | certify an identity or a version in the writer's transaction; verify parity on read | rows and their certificates must be written together | a certificate repeats a committed row of a certified claim |
| Claim version reads (`claimVersionReadService.ts`) | none | list, detail, diff | several queries in one snapshot while versions are appended | a read is one moment of the history |
| Transaction runners (`transaction.ts`, `failureTransport.ts`, `rcv021OwnedTransaction.ts`, `rcv021BindingAdapter.ts`) | a leased client | connect, BEGIN, work, COMMIT or ROLLBACK, release or destroy | failures of the failure path; a client returned inside a transaction; COMMIT answered with ROLLBACK | no outcome is reported that did not happen, no client is leaked or poisoned |
| Evidence and assessments (`evidenceService.ts`) | `evidence_*`, `evidence_assessments`, comparisons | attach evidence, assess a relation, respond to an assessment | responses to each other under concurrency; locks taken by foreign keys; a deferred constraint that judges the whole transaction | responses form a forest within one relation; a checked request is not refused by the database |
| Derivations, RCV-015 (`derivation*.ts`) | rules, inputs, executions, outputs, audits | store a rule, derive, read | inputs read while assessments are appended; rules and derivations that outlive the build that made them | a derivation is a function of its rule and its recorded inputs, and a later build sees that |
| Evidence provenance, RCV-016 (`rcv016*.ts`) | snapshots and memberships | traverse, build, persist, verify | cyclic provenance graphs; rows that the caller read earlier and hands over | a stored snapshot is the closure of its roots, and reads back as long as its rows are as it says |
| Dependency analysis, RCV-017 (`rcv017*.ts`) | analyses of a snapshot, with their steps as rows | find dependencies, project, persist, verify | paths that meet or not; rows that a constraint trigger judges; a read over two connections | two branches are said to be dependent exactly when their paths meet; what an analysis rests on is stored |
| Contradictions, RCV-018 (`rcv018*.ts`) | analyses of assertions, and findings that analyses share | compare, persist, verify | findings stored once under their hash by concurrent writers; prerequisites looked up by id | each reported pair contradicts, none is missed, and no finding is left without its analysis |
| Temporal evolution, RCV-019 | timelines, transitions | assemble, derive, persist | ordering of equal times | transitions replay to the states |
| Radar ingestion, RCV-020 (`rcv020*.ts`) | providers, occurrences, observations, bindings | persist a bundle, read, verify | plain inserts that only an advisory lock protects; rows and annexes judged apart by writer, triggers and reader | an occurrence is bound once and reproducibly, and what is stored reads back |
| Active research, RCV-021 (`rcv021*.ts`) | operations, closes, runs, starts, attempts, resolutions, results, terminal resolutions, selections | persist a bundle of rows in one transaction; verify the stored graph | several writers of one operation; row locks of several operations; rows with times of the caller's; replays after a lost answer | a finished run is frozen, a closed operation admits no run, what is accepted reads back |
| Semantic analysis, RCV-022 (`rcv022*.ts`) | fragments, matches, assessments, envelopes | insert with `ON CONFLICT DO NOTHING` and read again, verify | two writers of one id | the row that won has the content of the one that lost, or it is told |
| Research scheduler (`researchScheduler*.ts`) | policies, decisions | create a policy, evaluate a slot, RUN_NOW, deadline gate, verify | several workers on one slot; repeated evaluations; two lock orders | one decision per slot, runs do not overlap |
| Claim-level evidence view (`claimLevelEvidenceView.ts`) | none | join the other readers' results | nothing concurrent of its own | a projection |

Interactions: the API calls the claim, evidence and derivation services. The
derivation and snapshot services read what evidence and claims wrote. The
scheduler creates runs through the RCV-021 writer. RCV-021 results are bound to
RCV-020 occurrences by `rcv021Wave5Integration.ts` in a series of transactions.
RCV-016 to RCV-019 analyse the graph below a claim version; RCV-022 records
decisions about the result.

## 2. Modules

| Module | Models | Kind |
|---|---|---|
| `ClaimVersions` | claim creation and revision, their authority rows, the transaction and the pool around them | detailed specification |
| `ClaimHistory` | what those services promise | abstract specification |
| `MCClaimVersions` | instances of `ClaimVersions` and the refinement mapping to `ClaimHistory`, which the proofs use too | model checking |
| `ClaimVersionsProofs` | types and histories of `ClaimVersions`, what its callers are told, its certificates, and that it implements `ClaimHistory` | proofs |
| `ResearchHistory` | the rows of RCV-021, the semantic core, the gates of the writer and the verifier of the stored graph, as operators | pure functions |
| `ResearchLedger` | what `persistRcv021Bundle` promises: whole bundles, one at a time | abstract specification |
| `ResearchOrchestration` | `persistRcv021Bundle` with its transaction, row locks, waits and deadlocks | detailed specification of `ResearchLedger` |
| `MCResearchOrchestration`, `MCResearch` | the bundles callers submit in each instance, and the orders the documents state; the instances in one specification | model checking |
| `ResearchHistoryProofs` | what the gates of the writer keep true of stored rows | proofs |
| `ResearchOrchestrationProofs` | its transactions: refinement of `ResearchLedger`, locks, and what follows for readers and callers | proofs |
| `SchedulerLedger` | the scheduler's tables beside those of RCV-021: whole decisions, policies, bundles and amendments, one at a time | abstract specification, over `ResearchLedger` |
| `ResearchScheduler` | `createSchedulerRunNow` and `createResearchSchedulerPolicyV1` with their transactions and locks | detailed specification of `SchedulerLedger` |
| `SchedulerReader` | `verifySchedulerHistory` over a pool of connections, statement by statement, on top of `SchedulerLedger` | detailed specification |
| `SchedulerTime` | the date arithmetic of `researchSchedulerTime.ts` beside a calendar | algorithms and their reference |
| `SchedulerProofs` | `ResearchScheduler` implements `SchedulerLedger`, and what decisions say stays true | proofs |
| `SchedulerTimeProofs` | the date arithmetic is exact for every date | proofs |
| `EvidenceAssessments` | `createEvidenceForClaimVersion` and `createEvidenceAssessment` with their transactions and locks | detailed specification |
| `Derivations` | rules, `createDerivation` and the two reads, by processes of several builds, beside the calls of `EvidenceAssessments` | detailed specification, over `EvidenceAssessments` |
| `MCDerivations` | rows, rules, builds and requests of its instances | model checking |
| `DerivationsProofs` | theorems about `Derivations` | proofs |
| `MCSchedulerLedger`, `MCResearchScheduler`, `MCSchedulerReader`, `MCSchedulerTime` | rows, requests and edges of each instance | model checking |
| `ObservationHistory` | the rows of RCV-020, what its write verifier, its constraints and triggers, and its read verifier ask of them | pure functions |
| `ObservationBinding` | the slices of Wave 5 over a pool of connections with sessions: the owned transaction, the binding adapter and `persistRcv020Authority` | detailed specification, over `ResearchLedger` |
| `MCObservationBinding` | slices, bundles and annexes of its instances | model checking |
| `ObservationProofs` | its locks, answers and stored bundles, and that what is written reads back | proofs |
| `ProvenanceSnapshots` | the builder of RCV-016 snapshots and the verifier of stored ones, as operators | pure functions |
| `DependencyAnalysis` | the builder of RCV-017 analyses, their rows, the constraint trigger and the verifier | pure functions |
| `Contradictions` | the builder of RCV-018 analyses, their write projection and their replay | pure functions |
| `ProvenanceStore` | writers and readers of the three, over a pool of connections | detailed specification |
| `MCProvenance` | graphs, assertions and races of its instances | model checking |
| `ProvenanceStoreProofs` | theorems about `ProvenanceStore` and the builders | proofs |

### ClaimVersions

One action is one database round trip with the code that follows it up to the
next `await`; the intermediate TypeScript has no state to share. A *request* is
one call. The ids drawn by `randomUUID` are distinct, so a creating request
stands for the claim and its first version, a revising one for its version.

| Variable | In the code |
|---|---|
| `db`, `work` | committed rows of the four tables; rows of a transaction in flight |
| `tx`, `snap`, `lock` | the server's side: transaction status, REPEATABLE READ snapshot, holder of the `FOR UPDATE` lock of a claim |
| `pc`, `req`, `current`, `answer` | the client's side: next statement, input, the row read as current, the result or the error in flight |
| `lease` | the pool client: held, broken, returned, destroyed |
| `faults` | how many failures have been injected (bound `MaxFaults`) |

`Arrive` is the call; `Connect`, `Begin`, `Commit`, `Rollback`, `RollbackFails`,
`Release` are the skeleton that `runClaimTransaction` and `createClaimVersion`
share; `InsertClaim`, `InsertFirst`, `PersistIdentity` create;
`RequireIdentity`, `AwaitLock`, `LockClaim`, `ReadCurrent`, `InsertRevision`
revise; `PersistAuthority` certifies either; `Refresh` is
`refreshConflictVersionNumber`. `ServerError` rejects a statement, `Disconnect`
kills a connection under one, and `ServerAborts` / `ServerCommits` are the server
noticing, later, with or without the COMMIT that was on its way. The client and
the server are separate because that is where answers and data come apart.

Both isolation levels are modelled since `BEGIN` names none and takes the
server's default: READ COMMITTED statements see what is committed when they
start; under REPEATABLE READ the snapshot is taken by the first query, before a
lock is granted, so the row lock does not protect the read and the unique index
has to.

### ClaimHistory

Two variables and two actions: `Create` starts a claim's history, `Revise` is a
conditional append. `MCClaimVersions!History` maps `history` to the committed
versions of each claim in order and `certified` to the ids that have an authority
row; an entry's base is the number its *caller* stated, so the mapping would
expose a revision that follows another version than the caller saw.

### ResearchHistory, ResearchLedger, ResearchOrchestration

Callers of RCV-021 bring whole rows, with ids and times of their own, so the rows
they may submit are the constant `Bundles` (sets of rows), `db` is a set of rows,
and a row's tables and columns are a record. Rows are compared by id and, for the
rest of their canonical text, by equality. What the text contains, and the
subject and trigger bindings an operation carries, are left out.

| Variable | In the code |
|---|---|
| `db`, `work` | committed rows; rows an open transaction has inserted |
| `lock` | operations a transaction holds `FOR UPDATE` |
| `pc`, `bundle`, `answer` | where a call stands, what it was given, how the writer's last call ended |

`Submit` is `verifyRcv021WriteProposal` and BEGIN. `InsertOperation`,
`OperationConflict`, `OperationsInserted` are the inserts of operations before
anything is locked; `LockOperation`, `ParentMissing`, `Locked` are
`lockRcv021AffectedOperations`. From there no other writer can touch these
operations, so the rest of `persistRcv021ScopedBundle` is one action, `Write` (or
`Refuse`), whose guard `Writable` is the conjunction of the gates: unique keys
and replays (`Insertable`), foreign keys, the closed check
(`RunsOfOpenOperations`), `childReplayOrReject` (`ChildrenOfLiveRuns`), and the
stored contexts of `rcv021TerminalWriteContext.ts` (`TerminalContext`,
`CreationContext`, `PendingContext`). Their meaning is the semantic core:
`OperationLifecycle`, `RunCreation`, `AttemptResolution`, `Retry`, `AttemptSet`,
`TerminalResolution`, `Manifest`, `DeadlineEvidence`, one operator per function of
`rcv021SemanticCore.ts` and `rcv021DeadlineProvenance.ts`. Selections are inserted
one by one (`InsertSelection`, `SelectionConflict`), because their occurrence key
is shared by all operations and the insert may wait for another writer.
`ConnectionLost` rolls back or, at COMMIT, may have committed; `DeadlockVictim`
is PostgreSQL ending a cycle of waits, with `Waits` defined from the two kinds
of wait the code can be in.

`ResearchLedger` has one variable, the committed rows, and one action: `Persist`
adds a bundle that passes every gate (`Accepts`) against the rows of that moment.
`ResearchOrchestration` extends the operators and implements the ledger
(`BundlesAreAtomic`); the scheduler is built on the ledger, so its models need not
repeat the statements of an RCV-021 writer.

### SchedulerLedger

`SchedulerLedger` extends `ResearchLedger` with three tables.

| Variable | In the code |
|---|---|
| `streams` | `scheduler_policy_streams`: one policy per operation |
| `versions` | `scheduler_policy_versions` |
| `decisions` | `scheduler_decisions`, together with the prefix manifest, its members and the binding to the run, which the same transaction inserts under the same slot |

`DueSlot`, `Owner`, `Reason`, `PolicyHistory` are the functions of
`researchSchedulerSemanticCore.ts`; `AtCutoff`, `VerifiedAt`, `OutputAuthentic` the
history at a time; `Prefix` and `Nonterminal` what a decision rests on;
`ChainAuthentic` and `ChainTail` the chain of decisions. `createSchedulerRunNow` is
`Eligible` (its checks up to the deadline gate), then `Replays` or `Admissible` and
`NewDecision`. Time is data: no service of the scheduler reads a clock, the caller
brings `evaluationAt`, and requests may arrive in any order of their times. Only
`RUN_NOW` decisions exist, since the writer throws where the evaluation says
`NO_ACTION`. Policy versions after the first are inserted by hand (`StoreAmendment`,
as the tests do), within the table's constraints only. A run's further columns
(strategy, provider) are what `Replays` compares through the run row; the deadline
stands for them. Selections are left out of the history at a cutoff; no decision
depends on one.

### ResearchScheduler

| Variable | In the code |
|---|---|
| `call`, `at`, `reply` | what each caller asked for, where its transaction stands, how its last call ended |
| `held` | the stream and operation rows it holds `FOR UPDATE` |
| `draft` | what it has inserted and not committed |

`RunNow`, `LockStream`, `LockOperation`, then `Decide`, `Replay` or `Refuse`, and
`CommitCall`. From the second lock on nobody else can write what the transaction
reads: RCV-021 writers lock the operation (`PersistBundle` waits for it), and
inserting a version takes a key-share lock on the stream that waits for
`FOR UPDATE` (`Amend`). So the reads and inserts in between are one action; that
this is sound is what `DecisionsAreAtomic` checks, the mutant without the second
lock violates it. Policies: `LockAuthorizedOperation`, then `InsertPolicy`,
`AuthenticatePolicy` or `PolicyConflict`. `DeadlockVictim` is PostgreSQL's detector,
`CallLost` a lost connection, which at COMMIT may have committed.

### SchedulerReader

One action per statement of `verifySchedulerHistory`: `Connect`, `ReadStream`,
`LoadPolicies`, `LoadDecisions`, `ConnectAgain` (the history comes over a second
client of the same pool), `LoadGraph`, `Judge`. Between any two of them
`SchedulerLedger` may take a step. `DecisionVerifies` is the loop over the decisions,
`InitialPastVerifies` the check before it at the first version's effective time.

### SchedulerTime

The formulas of the code beside a calendar that `Turn` advances one day at a time
with nothing but the length of months. The unit is a day. Years travel as text, a
sign and a number of digits.

### EvidenceAssessments and Derivations

| Variable | In the code |
|---|---|
| `db`, `work` | committed rows; the rows an open transaction has inserted |
| `held`, `shared`, `todo` | relations (`claim_version_evidence`) a transaction has locked `FOR UPDATE`; `FOR KEY SHARE`, by inserting a reference; those its current INSERT has still to refer to |
| `pc`, `req`, `answer` | where a call stands, its input, how it ended |
| `snap`, `read` | the rows a REPEATABLE READ transaction sees, and what its queries have loaded of them |
| `script` | which requests may come, fixed in a behaviour |

A call is made once, and its number is the id of the row it creates: evidence and
its relation are inserted together and share one. Numbers also stand for an order,
namely that in which an INSERT meets the relations it refers to: comparisons are
sorted by id, a snapshot's relations come in the order of their creation.

`LockRelation`, `CheckResponse`, `CheckComparisons`, `InsertAssessment`,
`InsertComparison` and the refusals between them are `createEvidenceAssessment`.
`ChainConflict` is `inspectAssessmentParentChain`, walk and all. `CheckResponse` is
two SELECTs, on rows only the holder of the relation can add to. The comparisons are
one INSERT; its rows lock their relations one after the other, so each row is a step.
`Waits` and `DeadlockVictim` are PostgreSQL's side of that.

`LoadVersion`, `LoadRelations`, `LoadAssessments`, `LoadComparisons` are the queries
of `loadClaimVersion` and `loadDerivationInputSnapshot`, which agree in what they
read. A derivation goes on with `InsertDerivation` (the rule, looked up in the same
snapshot, and the row), `InsertEvidenceInput` for each relation and `InsertInputs`.
`Anomalies` is `getDerivationDetails`.

A *build* is the artifact hashes a process computes (interpreter, execution
contract, snapshot builder). Code of another build may compute something else from
the same rows: an input is the builder that assembled it and the rows, an output
the interpreter and its input. So equal outputs mean that the same code has
seen the same rows. The execution contract is part of what the other two hashes are
taken over (`BuildAssumption`). Left out: what a rule computes, the anomalies
for texts that are no longer canonical or parsable, and `diffClaimVersions`.

### ObservationHistory and ObservationBinding

| Variable | In the code |
|---|---|
| `db`, `observed` | committed rows of RCV-021 (of the ledger, one step per bundle) and of RCV-020 |
| `task`, `proc` | what a caller asks for (an integrated slice of research bundles with a selection to bind, a binding, a bundle, an operational slice), and where its call stands |
| `holder` | who holds each connection of the pool, `Lost` when nobody ever gives it back |
| `session` | what PostgreSQL knows of a connection: transaction status, rows in flight, whether they are somebody else's, advisory locks |
| `published`, `leaked`, `troubles` | what shows a violation: other users' work that a call of ours has committed; connections whose lock or unlock query failed; how many failures there were |

`Call`, `Lease` and `ProbeIdle` or `ProbeSoiled` begin an owned transaction:
`runRcv021OwnedTransaction` asks whether the connection is idle before it uses it.
`CommitOwned`, `CommitRolledBack` and `CommitLost` are its ends: the tag of COMMIT
tells whether the server committed. `Guard`, `Check` and `Unlock` are the binding
adapter with `pg_advisory_lock` around it, `GuardRefused`, `GuardFails` and
`UnlockFails` the queries outside its `try`. `Insert`, `InsertFails`, `Store`, `Read`
are `persistRcv020Authority`, which has no idle probe, inserts row by row without
`ON CONFLICT`, and is judged by the deferred triggers at COMMIT; `InFlight` is what an
insert of a unique key waits for, `Taken` what it fails on. `Soil` is another user of the pool who
gives a connection back inside a transaction; `Crash` a restart of the process, after
which callers call again.

`ObservationHistory` has three groups: `Authentic` is `verifyRcv020Write` with the
semantic core, `UniqueKeys`, `ForeignKeys` and `TriggersPass` what the migration asks,
`Readable` the verifier of a reader. They are written apart because the code has them apart, and the
property is that they agree.

The rows are those a reader loads (`Loaded`; `Root` is what an occurrence was derived
from): besides the history of attempts, captures and verdicts, the retention events and
authenticated handoffs of its captures. An occurrence, a capture and a handoff each name
a source, a monitor and a configuration (`Lineage`); the migration asks that the three
belong together (`LineageStored`) and that the attempt is one of the occurrence
(`OfOccurrence`), not that a capture or handoff names those of its occurrence. A handoff
names its capture and a hash, one of the capture's two; `insertHandoff` writes nothing
where its key and text are stored, whatever its other columns say (`Replayed`). A bundle
that is not about an occurrence may bring such rows alone, as it may bring a verdict:
the writer looks up the parents of neither. Where a reader computes a text or hash that the writer takes
over or completes with a default (those of attempts, resolutions, captures, comparisons,
verdicts, retention events and handoffs), the row may be one of the constant `Garbled`,
which passes the writer and no reader.

### ProvenanceSnapshots, DependencyAnalysis, Contradictions

Rows are records with a family and a number for an id; numbers are ordered as the
ids are. A hash is the value it stands for, so an object that names another by its
hash holds it. `WalkOn` is one turn of the snapshot builder's loop over its queue, and
`Depths` what the loop ends with; `Cycles` is the search of `rcv016CycleDiagnostics.ts`,
and `Verified` the conjunction of what `verifyRead` asks. `SearchOn` is one turn of
`buildClosure`, and `Closure` the least witness of each version a branch reaches;
`Shared`, `CommonUpstream`, `NoCommonUpstream` and `KnowledgeIncomplete` are the four
kinds of findings; `Project` the rows made of them and `TriggerHolds` the constraint
trigger that judges these rows in SQL. `Evaluations` is the loop over pairs of
assertions, `ToInsert` what the write verifier leaves to be stored, `Replayed` the
read verifier, which builds the analysis again from the rows stored under its ids.

### ProvenanceStore

| Variable | In the code |
|---|---|
| `db` | committed rows, snapshots with their members, analyses with their rows, comparisons, findings |
| `later`, `calls`, `troubles` | what may still be recorded, asked and fail, fixed in a behaviour |
| `pc`, `req`, `answer` | where a call stands, its input, how it ended |
| `work` | what a builder made, or a read has loaded; of a comparison also the findings to insert and those inserted |
| `view` | what a REPEATABLE READ transaction sees |
| `lease` | who holds each connection |

`WriteSnapshot`, `WriteAnalysis`, `WriteComparison` and `Read` are the calls, with the
pure checks before a connection is taken. `InsertSnapshot` and `InsertAnalysis` are
one action each: their queries see one view, and locks are KEY SHARE on rows that
nobody updates. `InsertFinding` is a step of its own, since two comparisons insert the
same findings under a primary key: it waits for the other transaction, and fails if
that commits (23505). `LoadAnalysis`, `Reconnect`, `BeginSnapshot` and
`LoadAnalysedSnapshot` are the read of an analysis, whose snapshot is loaded over a
second connection while the first is held. `LoseCommit` is a COMMIT without an answer,
`Fail` any other query that fails. The code never deletes, so `db` only grows.

## 3. Runs

### Claims

`claim_versions` (173 thousand states): one creation and two revisions of any base
up to 2, certified or not, over a pool of two connections, with one failure
anywhere, under a server default of READ COMMITTED or of REPEATABLE READ (the
variable `repeatable`, constant in a behaviour). It shows that

* `LinearHistory`: versions are numbered 1, 2, 3 ... and each is based on the one below;
* `AuthorityParity`: a certificate repeats a committed row of a certified claim;
* `AnswersAreTrue`, four parts: a call that resolves has its version in the database,
  one above the base its caller stated and certified exactly when asked for
  (`SuccessIsDurable`); one that rejects has left nothing, unless it rejects with
  the combined rollback error, which leaves the outcome open (`FailureLeavesNothing`);
  the version a conflict reports is committed and is not the caller's base, also
  after the re-read that follows a 23505 (`ConflictIsInformative`); the "has no
  current version" error cannot happen (`ClaimsHaveAVersion`);
* `EveryCallAnswered`: locks, index and pool never leave requests waiting;
* `ImplementsClaimHistory`: every commit is one step of `ClaimHistory`.

Bounds: two revisers are enough for each pairwise race, on either side of a
creation; a third reviser would only repeat one of the two roles. `MaxBase = 2`
lets a caller state the right base, a stale one and one that does not exist yet.
A pool of two clients is smaller than the three requests, so `Connect` does wait,
and two transactions, each with its snapshot, can be open at once. One fault can
strike every statement, COMMIT and ROLLBACK included; with a lost connection it
takes one more to lose the next request as well, which shares nothing with the
first but locks the server has freed.

### Research

`research` (284 thousand states) puts three instances in one specification; a
behaviour belongs to one of them.

* lifecycle: two writers race two closes (one backdated), run creations, a rerun,
  two starts, a late result and three terminals of one operation;
* attempts: one run with deadline 2, attempts that fail, succeed, reach the deadline
  with and without the recorded cause or start late, a retry and a branch of it,
  and each kind of terminal;
* crossing: bundles over two operations and selections of both that compete for
  two occurrences.

Connections may be lost at any point and bundles submitted again. It shows

* `BundlesAreAtomic`: every commit is one step of `ResearchLedger`;
* `EndsAreFinal`: a closed operation admits no run, and nothing is added to a
  finished one;
* `RunsAreCoherent`: a manifest lists the results of its run (`ManifestsAreComplete`),
  attempts form one chain (`AttemptsAreSequential`), late attempts are explained by
  the recorded deadline (`DeadlinesAreExplained`), reruns follow finished runs
  (`RerunsFollowTerminals`);
* `AcceptedIsStored`: an accepted bundle is stored with the content submitted;
* `HistoriesStayReadable`: what the writer lets grow row by row, the reader's
  verifier accepts; `RunsCanFinish`: no accepted row leads into a dead end other
  than the two the definition names, a deadline that passed during an attempt and
  a backdated close;
* `LocksNeverDeadlock`: a cycle of waits can only be about selections, since
  operations are locked in one order.

`research_progress` (48 thousand states): the crossing instance by itself with
fairness; `EveryBundleAnswered`.

Bounds: two writers give every pairwise race; three would only add waiters to a
queue. Each instance has at least two rows for every unique key (two closes, two
starts, two terminals with one id and two without, two attempts with one
predecessor, two selections of one occurrence), so that every conflict happens.
Times run from 0 to 3 with the deadline at 2, which puts rows before, at and
after every bound the code compares with.

### Scheduler

* `scheduler_calls` (195 thousand states): two schedulers, interchangeable, and an
  administrator with locks and lost connections, beside manual runs, ends, a closure
  and a second version that switches the policy off. `DecisionsAreAtomic`: every transaction is one step of `SchedulerLedger`,
  so what the readers' run shows of decisions holds with locks as well.
  `RetriesAreIdempotent`: a request whose decision exists gets it again, however
  late, unless the operation was closed, rows were written into the past the
  decision rests on, or the new version takes its slot (or is no version that may
  follow).
* `scheduler_policies` (29 thousand states): two administrators with policies that
  compete for an operation, a scheduler, a second version. `CallsEnd`: every call is
  answered, deadlocks between the two lock orders included.
* `scheduler_reader` (57 thousand states), again three instances: one reader beside
  requests in four slots, a manual run, runs that end before and after the next
  request, an attempt, a closure and a second version that switches the policy off
  or leaves it on; one reader beside few rows, three kinds of amendment, a manual
  run with no time to run and one that ends before it starts; two readers over three connections.
  `ScheduledRunsDoNotOverlap`: the run of a decision is created after every earlier
  scheduled run has ended (manual runs may overlap with scheduled ones, nothing in
  RCV-021 forbids it). `DecisionsStayTrue`: decisions form one chain in slot order,
  and a slot reported as missed stays unused. `WrittenHistoryVerifies`: what the
  writers commit verifies, though it is read without a transaction; the four
  exceptions the property names are real (below). `VerificationsEnd`: the
  connection more than there are readers is needed, as with as many readers as
  connections each holds one and waits for another; `db.ts` builds a pool of ten
  without a connection timeout, so ten verifications at once can stop.
* `scheduler_time` (12 thousand days): three years around each edge (the ends of
  PostgreSQL's range, year 0, ends of centuries and eras, 9999).
  `FormulasAreExact`: the formulas count days as the calendar does, a date in
  range has one text, which is read back as the date, and the slot that is due is the
  latest that has begun.

Bounds: with an interval of 2 there are two times per slot, one on the boundary and
one past it, and times 0 to 8 reach slots 0 to 3, of which one may be skipped.
Two schedulers race in every pair of steps. One reader suffices for safety, since
readers write nothing; the pool needs two.

### Evidence and derivations

`derivations` (74 thousand states): three calls from one of four scripts, with one
connection lost anywhere. *Assessing* has assessments that compare with each
other's relation, respond to each other, or refer to evidence created at the same
time, beside a read; *Refusing* each way an assessment can be wrong; *Deriving*
derivations by four builds, deterministic and recorded, beside new evidence and
assessments; *Ruling* rules that compete for a key and derivations by them. It shows

* `ConstraintsNeverFire`: what the services check before they insert still holds
  when they insert and commit, so none of the foreign keys, checks and deferred
  triggers of RCV-010, 011, 014 and 015 refuses anything, except the unique key of
  a rule, which the code relies on;
* `ReadsAreClosed`: a read of four queries returns every assessment with its
  relation, parent and comparisons, and a response graph without anomalies;
* `OnlyAssessmentsDeadlock`: of all calls that lock relations, only assessments that
  insert comparisons can be in a deadlock;
* `OutputsReproduce`: a deterministic rule gives one result for one state of the
  evidence, whichever builds have applied it;
* `ReadsBackAsWritten`: any build, at any later time, is told of a stored derivation
  exactly how it differs from the build that made it, and of no other anomaly;
* `CallsAreAnswered`, deadlocks and lost connections included.

Bounds: two assessments on two relations make the shortest cycle of waits, the third
call is the one that must not be drawn in. Four builds differ from the
rule's in nothing, the builder, the interpreter, and all three hashes.
`CHECK_DEADLOCK FALSE`, as calls are made once and then nothing is left to do.

### Observations

`observation` (110 thousand states): pairs of calls over two connections, each of
which may be repeated once, with one failure of any kind anywhere. In *races* two
slices select one occurrence, bind the same bundle by one of its occurrences or by
two, diverging bundles, another's occurrence or a bundle that takes a key twice, or
meet an operational slice. In *reads* every combination of six
lifecycles, seven histories of attempts and four verdicts is persisted by one caller,
read back, and added to by another with one of four annexes: one of two
verdicts, a handoff with a retention event, or a lifecycle event. Histories with a capture also meet
annexes that dispute it: a handoff with another hash, of another occurrence, with a
stored key and another text, with a text that is not the hashed one, and a retention event of
that sort. One observation of another source says a stored handoff again. It shows

* `AnswersAreStored`: a call that was told its bundles are stored or its occurrence is
  bound is right, whatever broke, restarted or raced it;
* `ForeignWorkStaysForeign`: an owned transaction does not commit what another user of
  the pool left behind on its connection;
* `SlicesResume`: a slice that stopped anywhere goes on from what is stored when it is
  repeated, and is refused only for an occurrence that another selection has taken;
* `BindingsNeverCollide`: where everybody binds one bundle by one occurrence, the plain
  inserts of RCV-020 hit a unique key only if the bundle itself takes one twice;
* `WrittenIsReadable`: whatever the writer and the triggers let through reads back, within
  the limits that `Legible` names (below); and a later commit takes an occurrence away
  from its readers only by bringing a handoff or retention event that they refuse
  (`Disputes`), never by a verdict, a lifecycle event or another observation;
* `ObservationCallsEnd`: every call ends, unless a lock or unlock query has failed,
  whose connection is never given back.

Bounds: two callers give each race for a lock, a key or a connection; a third one would
stand in the same queue. One failure strikes at every point of either call, and
`MaxCalls = 2` is the retry after it.

### Provenance

`provenance` (49 thousand states) has four groups of scripts.

* *Graphs*: each of the 128 sets of seven statements between four versions (a cycle, a
  parallel and a self-referring statement among them) is walked from one root or three,
  to depths 1 to 3 and under a policy that is too narrow, stored, and analysed for
  three branches under policies of several depths and limits.
* *Races*: writers and readers of one snapshot and its analysis over two connections,
  with a missing Foundation target that is recorded later, a lost COMMIT, and each kind
  of row that is altered, hidden or made up.
* *Alike*: each three assertions of three values that share domain and context or not.
* *Disputes*: two comparisons that insert the same finding, either of which may fail;
  assertions and domains that are stored otherwise or not at all; and statements of
  several families, recorded before or after.

It shows

* `SnapshotsAreComplete`: a snapshot is the set of versions within its depth, with all
  their statements, and its diagnostics are the elementary cycles, each once; both
  defined by walks and chains beside the loops of the code;
* `FindingsAreExact`: two branches share a version, have a common upstream or none
  exactly as there are paths that meet, and each witness is the least path; two
  assertions contradict each other exactly when they are about the same and the domain
  excludes their values, whatever their order;
* `StoredIsAuthenticated`: a stored object is accepted by its reader exactly when the
  rows it repeats are stored so, and no later row undoes that; each stored finding is
  one of a stored comparison, whichever attempts failed;
* `ConstraintsAgree`: neither locks nor the trigger refuse an analysis of an authentic
  snapshot and of relations that are stored;
* `AnalysesRestOnStored`: the snapshot, members, relations, assertions, domains and
  findings a stored analysis names are stored, whoever stored them;
* `ProvenanceCallsEnd`, unless reads of analyses hold all connections (`Starved`, below).

Bounds: paths in four versions meet, branch, cycle and run out of depth; three branches
are the fewest with a finding about two of them that the third does not share. The
depth of all behaviours is bounded by one call per caller, of which there are four, so
that a reader can come after each writer. A pool of two is what two starved readers need.

### Where code and documents differ

Two runs check one sentence of the documents each, and TLC finds it violated.

| Run | The documents say | The code |
|---|---|---|
| `research_order_closure` | "No Run may be created after closure" (`docs/provenance/rcv021-active-research-orchestration-contract-v1.md:83`) | a close is verified against the operation alone, so it may be dated before a run that exists; the reader then rejects the operation |
| `evidence_case` | "assessment service rejects damaged parent chains before insert" (`tests/evidence.test.cjs:1121`), and of comparisons, "Self comparison is independent of UUID letter casing." (:952) | the id a response names is compared with stored ids as the request spells it, so one in upper case, which the controller admits, is refused with 409 `missing_ancestor` though nothing is damaged |

The backdated close is also why `HistoriesStayReadable` and `RunsCanFinish` except
operations with one (`Backdated`).

Of the scheduler: "All Scheduler write paths use the lock order: policy stream → RCV-021
Operation" (`docs/provenance/factbase-research-scheduler-policy-implementation-design-v1.md:465`),
but the policy writer locks the operation first (`researchSchedulerPolicyV1.ts:117`
and 121, against `researchSchedulerPostgresWriter.ts:331` and 333); the deadlocks this
makes possible are actions of `ResearchScheduler`, and `CallsEnd` holds with them. "If
slot `n` already has a decision, the existing immutable decision is the idempotent
result" (`docs/provenance/factbase-research-scheduler-policy-contract-v1.md:183`), but
a closed operation is refused before the decision is looked up
(`researchSchedulerPostgresWriter.ts:346`), which `RetriesAreIdempotent` excepts.

Of RCV-020, where `Legible` and `leaked` are the exceptions:

* A reader never authenticates an observation that compares with a prior capture: the
  prior one is not loaded (`rcv020PostgresReadRepository.ts:230`,
  `rcv020ReadVerifier.ts:82`), although CAPTURED_UNCHANGED is an outcome of the contract
  (`docs/provenance/rcv020-observatory-radar-ingestion-contract-v1.md:313`, :323).
* Sequence numbers of a lifecycle are compared as texts (`rcv020ReadVerifier.ts:66`), so
  a configuration with a tenth event no longer reads back.
* Bundles without a lifecycle event or a verdict, and empty captures that count items,
  pass the writer and not the reader.
* The reader wants captures of the occurrence's own source, monitor and configuration
  (`rcv020ReadVerifier.ts:79`); neither `validateCapture`
  (`rcv020SemanticCore.ts:225-234`) nor a foreign key does.
* The reader computes texts and hashes that the writer stores as they come or completes
  with defaults, the hash of a verdict among them (`rcv020ReadVerifier.ts:74-79`, :82,
  :96-98): a row whose own are different (`Garbled`) is stored and unreadable.
* A handoff or a retention event may come in a later bundle, alone. The reader refuses the occurrence
  for a handoff whose `captureHash` is neither hash of its capture, or whose source,
  monitor, configuration or occurrence is not the one read (`rcv020ReadVerifier.ts:98`). The
  writer checks the shape of these columns only (`rcv020WriteVerifier.ts:105`) and no
  foreign key ties them to the capture (`rcv020_add_observatory_radar_ingestion.sql:384-405`).
  So a verified, committed annex can make an occurrence unreadable that was readable; since rows
  are immutable, it stays so. `WrittenIsReadable` says that nothing else does.
* The advisory lock is that of the occurrence a call names
  (`rcv021BindingAdapter.ts:22`). A bundle has all its occurrences inserted under it, so
  two calls that bind one bundle by two of them collide.
* A monitor's second bundle fails, since it repeats rows that are inserted plainly;
  `executeRcv020OperationalSlice` throws after its COMMIT when the occurrence has more
  than one attempt, and its retry then fails on the unique keys.
* The writer of RCV-020 has no idle probe: unlike the owned transaction it would commit
  what another user left behind. A lock or unlock query that fails outside the adapter's
  `try` keeps its connection for ever.

Of RCV-017: the read of an analysis asks the pool for a second connection while it holds
its first (`rcv017PostgresReadRepository.ts:152-175`), so as many concurrent reads as
the pool has connections wait for each other (`Starved`); `db.ts` sets no timeout.

Of RCV-018:

* Prerequisites are looked up by id (`rcv018PostgresRepository.ts:50-52`), not by hash, so
  a comparison of an assertion that is stored with another content is stored, and never
  reads back. The design's "successful only after exact read-back and Read-Verifier
  success" (`docs/provenance/rcv018-implementation-design-v1.md:188`) has no code.
* Of the five families of statements an assertion may bind, the reader knows one
  (`rcv018ReadVerifier.ts:35`); a comparison with any other is stored and unreadable.
* The findings' own rows are compared with nothing on reading, only their hashes are.

Other exceptions are part of the properties above. "Operation creation before
close or Run creation" (`docs/provenance/rcv021-implementation-design-v1.md:463`) is
a requirement on stored times that `validateRunCreation` does not read. `to_char`
prints years before 1 and after 9999 in other texts than the grammar of the scheduler
has, so "formatting is the exact inverse" (its implementation design, :280) holds
between them only. The order "result observation before selection" (RCV-021
implementation design, :467) is not enforced on the stored times either.

Of the reader of the scheduler, `WrittenHistoryVerifies` excepts `PastRewritten`,
since rows may be dated into the past a decision rests on; `PoliciesMoved`, since
versions and decisions are read by separate statements and an operator may commit a
version and a scheduler a decision in between; `LateAtTheStart`, since the reader
judges deadlines at the first version's effective time, which no writer does, and a
run that was late by then makes every later verification fail; and `EndedUnstarted`, a
run whose terminal is dated before its start: at a cutoff between the two it has ended
without having started, and the policy's history is rejected for ever. "Duplicate,
late, or out-of-order terminal resolution fails closed"
(`docs/provenance/rcv021-active-research-orchestration-contract-v1.md:115`), but
`validateRunTerminalResolution` (`rcv021SemanticCore.ts:119`) compares a terminal with
the deadline, the attempts and the results, and never with the start. That the
property needs the last exception, and `RetriesAreIdempotent` the one for a version
that takes a decided slot, showed when their proofs failed; TLC then
found a behaviour for the former.

## 4. Fairness

`ClaimVersions`: weak fairness of each request's `Client` and `Server` steps. An
awaited query settles (node-postgres rejects it when the connection ends), the
code has no loop, and PostgreSQL ends what a dead connection left. Nothing makes a
caller call (`Arrive`) or a failure happen (`ServerError`, `Disconnect`).

`ResearchOrchestration`: strong fairness of each writer's `Step`. Weak fairness is
not enough here, since callers keep submitting and a lock can be free and taken
again for ever; PostgreSQL queues the transactions that wait for a row, so a waiter
is served. `Submit` and `ConnectionLost` are not fair.

`ResearchScheduler`: strong fairness of each caller's steps, for the same reason.
`SchedulerReader`: strong fairness of each reader's steps; node-postgres serves
waiting `connect` calls in order. Requests, bundles, amendments and losses are not fair.

`Derivations`: weak fairness of each call's `Step`, deadlock detection included. A
lock, once free for a waiter, stays so until somebody takes it, and since calls are
made once that can happen only finitely often. Calls and losses are not fair.

`ObservationBinding`: strong fairness of each caller's `Step`, as for
`ResearchOrchestration`: the pool, the advisory lock and the unique keys serve their
queues in order, but what a waiter waits for can be free and taken again by calls that
are repeated. Calls, breaks, soiled connections and restarts are not fair.

`ProvenanceStore`: weak fairness of each call's `Step`, since calls are made once.
Recording further rows, calls, and failures are not fair.

## 5. Proofs

`ClaimVersionsProofs` proves, for all sets of requests, claims, pool sizes, bounds
and both isolation levels, from `RequestAssumption` (creators and revisers are
disjoint finite sets, the parameters are naturals, `None` is not a request):

* `TypeCorrect`: `Spec => []TypeOK`;
* `HistoriesAreLinear`: `Spec => []LinearHistory`;
* `VersionsAreForever`: no step removes or rewrites a committed version.

`LinearHistory` is not inductive: whether a commit keeps it depends on what the
committed rows were computed from. The invariant `Inv` follows them from the read
to the commit. Its conjuncts besides `TypeOK` and `LinearHistory`:

* `Roles`: statements of creations are executed by creators, of revisions by revisers;
* `Fresh`: a request that has not written has no row of its own anywhere, so ids are not reused;
* `SnapshotIsPast`: a snapshot is a subset of the committed rows (rows are never deleted);
* `ReadIsCommitted`: the version read as current is a committed row of the request's claim;
* `PendingRows`: each uncommitted version is a first one or follows a committed row,
  and no other version, committed or in flight, has its key. That holds after an
  insert because of the index, and afterwards because an insert of the same key has
  to wait; it makes the proof independent of the row lock and of the isolation level.

Each lemma follows one conjunct through the actions (`TypeStep`, `VersionsStep`,
`ControlStep`, `FreshStep`, `ReadStep`, `RowsStep`); `InvStep` collects them.

Its second part proves from the same assumption

* `CertificatesHold`: `Spec => []AuthorityParity`;
* `CallersAreTold`: `Spec => []AnswersAreTrue`;
* `HistoriesAreAtomic`: `Spec => ImplementsClaimHistory`.

`AnswersAreTrue` speaks of the whole life of a request, so `Telling` says at each point of
a call where its row may be: nowhere before the insert, in its own transaction until the
commit, committed or on the way only where the answer says "unknown". For the refinement,
`Recorded` says that committed versions of a claim are finitely many and numbered 1 to N,
that an id names one version, and that the number of a written row is one more than the
version its request has read. A commit then appends to the chain the abstract
specification has (`ClaimHistory` counts, `ClaimVersions` follows predecessors: that both
agree is what the invariant is for), and every other action leaves it alone.

`ResearchHistoryProofs` and `ResearchOrchestrationProofs` prove, for all writers and
bundles, from `BundleAssumption` (rows have the columns of the tables, ids are drawn as
UUIDs, so that a child's id names one parent) and `WriterAssumption`:

* `BundlesAppearWhole`: `Spec => BundlesAreAtomic`, the refinement of `ResearchLedger`;
* `EndsStayFinal`: `Spec => EndsAreFinal`;
* `AcceptanceIsKept`: `Spec => AcceptedIsStored`;
* `RunsStayCoherent`, `ReadersAgree`: `RunsAreCoherent` and `HistoriesStayReadable` always
  hold;
* `NoDeadEnds`: `RunsCanFinish` always holds, if `FailureIsFresh`: the id of the failure a
  caller would record is not in use. TLC evaluates that for the instance
  (`FailureAssumption` of `MCResearch`);
* `OperationsNeverDeadlock`: `Spec => []LocksNeverDeadlock`.

`Sound(D)` collects what every stored history satisfies: parents are stored, runs are
coherent, attempts are numbered from 1, deadlines are explained. A bundle that passes the
gates against D keeps it (`AcceptedKeepsSound`). But the gates read D at different moments of a
transaction and COMMIT adds the rows to a later database. `Guarded` is therefore about the
locks: `Standing` says which operation rows a writer holds at each point and that all it
has inserted hangs from them, `Exclusive` that nobody else holds these, `Apart` that
uncommitted rows of two writers share no key, `InOrder` that operations are inserted and
locked in ascending order. From these, what others commit in between is of other
operations and changes no gate's answer, so a commit is one atomic `Persist` of
`ResearchLedger`. `InOrder` also rules out cycles of waits by a least element of the cycle.

`DerivationsProofs` proves, for all calls, rows, rules, builds and losses, from
`CallerAssumption`, `BuildAssumption` and `StoredAssumption` (what is stored beforehand
meets the constraints, has unique ids that no call is given, and was derived by its
rules):

* `DerivationsReproduce`: `Spec => []OutputsReproduce`;
* `DeadlocksAreAssessments`: `Spec => []OnlyAssessmentsDeadlock`;
* `ConstraintsHold`: `Spec => []ConstraintsNeverFire`;
* `ReadsAreWhole`: `Spec => []ReadsAreClosed`;
* `DerivationsReadBack`: `Spec => []ReadsBackAsWritten`.

`OutputsReproduce` compares two committed rows, whose calls may lie far apart; what
makes it inductive is where each came from. `RulesAreKnown`: a rule is an old one or
the one its call asked for, so an id determines its rule. `SnapshotIsPast`: the rule a
transaction has found is committed. `DerivationsAreMade`: a derivation, in flight or
committed, has the builder and, if deterministic, the interpreter of its rule, because
`VerifyRule` let no other build pass. For the deadlocks, `Locks` says at which points of
a call each kind of lock may be held: evidence inputs take key-share locks only, which
block nothing but a `FOR UPDATE` that holds nothing yet. The 29 actions enter the
proof through one description of a step (`Steps`: it changes one caller's entries,
commits only what was in flight, and adds rows of the right form), which each is shown
to satisfy; `StepsKeepInv` needs no more.

The last three rest on a second invariant, `Evidence`. `Written` and `Reading` say what a
call has checked, loaded and inserted at each point; since rows are only added, what has
been checked or found in a snapshot holds until the commit. `Contributed` says that the
rows of a call (`Owner`) are stored together, as one `Whole`: nobody else adds to a
derivation or compares for an assessment, which the deferred triggers and the reader of a
derivation depend on. `Coherent`, of the committed rows and hence of every snapshot,
says that evidence makes sense by itself; a commit keeps it because a response is younger
than what it responds to (`GraphGrows`) and nothing refers to an id that is not stored
yet (`OthersStand`).

`ProvenanceStoreProofs` proves, for all rows, calls, policies, pool sizes and numbers of
failures, from `StoreAssumption` (callers are numbers, `None` is not one; rows, also those
still to be recorded, are finitely many, one to an identity and with the columns of their
tables; the first ones have what they refer to; calls have the form of the contracts):

* `AnalysesRestOnStoredRows`: `Spec => []AnalysesRestOnStored`;
* `SnapshotsSayAll`: `Spec => []SnapshotsAreComplete`;
* `FindingsSayAll`: `Spec => []FindingsAreExact`;
* `StoredIsAuthentic`: `Spec => []StoredIsAuthenticated`;
* `ConstraintsAccept`: `Spec => []ConstraintsAgree`.

A writer of RCV-017 checks what its transaction sees, and commits to a store that has
moved on. `Inv` says that a view is a past of the store (`Past`); that an analysis at
"commit" was checked against its view (`Checked`); that the bindings it selected are
among the keys of its snapshot, which holds since it was built (`BindingsAreKeys`); and
that the members of a stored snapshot are these keys (`MembersAreKeys`). What holds of a
view holds of every later store (`SelectionGrows`, `BoundGrows`), so what is committed
rests on what is stored. A comparison has no view: its assertions are in the store from
the moment they were looked up (`PrerequisitesGrow`), and its findings are there or
among those it has inserted. Every action is shown to store what is in order
(`StoresInOrder`) and to leave its caller where the invariant asks no more than it has.

The other four need what the builders compute, which recursion over a graph of rows
decides. No theorem of the library is of use for that: those that say that a recursive
function exists take an operator as a parameter. So the proof has its own, about functions
instead of operators.

* *Loops* (`Depths`, `Closure`). A function that calls itself once, with the next state,
  is a `Loop`. `LoopExists` constructs it: the value at a state is that of the last state in
  the least set which has the state and is closed under next; where the loop goes on for
  ever there is none, and any value will do. `LoopEnds` needs an invariant of the states and two
  numbers, of which the first goes down or the second does. The walk is measured by the
  depths that may still fall and by its queue, the search by the versions not yet expanded
  and by its queue.
* *The walk.* Its invariant is that each depth is that of a way from the roots, and each
  version whose statements are not yet followed is in the queue. When the queue is empty,
  the versions reached are those `Within` the policy's depth of the roots, and the statements
  walked are those of the versions within one less (`WalkIsClosure`).
* *The search of cycles* calls itself for each way on. The function exists as the least
  family of sets that has what each path closes and what its calls have (`UnionRecursion`);
  it ends because a path without repetition has no more versions than there are
  (`InjectiveIsShort`). `CyclesAreElementary`:
  what is found is a chain that returns, without a version twice, turned to its least
  rotation. `ElementaryCyclesAreFound`: a chain is a path of the search from its first
  version, so the search comes to its last statement.
* *The search for witnesses* expands the least path in its queue. Its invariant says that
  every way on from what was expanded is known or overtaken, and that the queue has nothing
  before what was expanded: a version that is expanded has its least path for good. A
  least path that the search did not have would have a beginning it did not have either,
  which is shorter. With the order of witnesses (length, then ids, `BeforeIs`) and unique
  ids, least paths are unique.

`MadeInv` carries this to the store: what a caller holds, and what is stored, is what a
builder made of rows and a call of the right form, so a stored snapshot is verified when its rows
are stored (the verifier's cycles are those of the same statements, its unrecorded versions
those of the same knowledge), and an analysis found again (`InputOf`) has the same
findings. A comparison is replayed from its assertions in the order of their ids, which is
the order in which they were compared. `RefInv` says that the foreign keys hold in the
store and in every view of it; the trigger looks for rows that a snapshot refers to, and
finds them because the rows of an authentic snapshot are stored. That the tables made of
an analysis pass the trigger (`TriggerHolds`) is then table by table: the steps of a witness
are a path of statements, the members of a finding are branches of its direction, and
what is said of two branches is said once.

`ObservationProofs` proves, for all callers, slices, bundles, pools and numbers of
failures, from `BundleAssumption`, `ObservationAssumption` (rows have the columns of the
tables, and a bundle says a handoff once) and `BindingAssumption` (a bind names an
occurrence of its bundle):

* `AnswersAlwaysStored`: `Spec => []AnswersAreStored`;
* `BindingsNeverCollideEver`: `Spec => []BindingsNeverCollide`;
* `WrittenAlwaysReadable`: `Spec => WrittenIsReadable`, which is an invariant and an
  action property;
* `ForeignWorkNeverCommitted`: `Spec => ForeignWorkStaysForeign`.

Two things are followed. One is who stands where (`Standing`, `Carried`, `Apart`): a
connection in use has one caller, an advisory lock one session, a bind holds the lock
from its check to its unlock, rows are in flight only between an insert and its commit
and share no key with rows stored or in flight elsewhere. A bind that finds nothing
stored is therefore alone with its bundle (`Solitary`). The other is what is stored
(`Kept`): each row came in a verified bundle that is there as a whole, but for handoffs
that repeat a stored one, with all rows that hang on it (`Whole`); keys are unique; the
lineage of an occurrence is stored (`Placed`), lifecycles are legal and each verdict
agrees with the attempts it is about. A commit keeps it because a bundle brings the parents of its
rows along: if something of it hung on a stored row, it would bring that row's key too
and fail (`NothingHangsAcross`). So what a reader loads around an occurrence, apart from
verdicts, retention events and handoffs, is what the write verifier saw in its bundle
(`OccurrenceIsWhole`), and the reader's conditions follow one by one (`StoredReadsBack`).
Around an occurrence that is readable, and so has its verdict, a commit adds retention
events and handoffs only (`OnlyAnnexesCome`); two readings that differ in these have the
same history (`SameHistory`), so if the second one fails, one of the new rows is refused
(`AnnexesMayDispute`).
Most actions enter the proof as a `Move`: one caller goes on, on the connection it has,
takes or gives back, and what it stores, if anything, is a commit.

`SchedulerProofs` proves, for all callers, requests, policies, amendments and bundles,
from `BundleAssumption`, `SchedulerAssumption` and `CallerAssumption`:

* `TransactionsAreAtomic`: `SchedulerSpec => DecisionsAreAtomic`, the refinement of
  `SchedulerLedger`;
* `ScheduledRunsNeverOverlap`, `DecisionsStayTrueForever`: `StoreSpec` keeps
  `ScheduledRunsDoNotOverlap` and `DecisionsStayTrue`;
* `SchedulersKeepTheLedger`: so does `SchedulerSpec`;
* `RetriesFindTheirDecision`: `SchedulerSpec => RetriesAreIdempotent`;
* `ReadersAcceptWhatIsWritten`: `ReaderSpec => WrittenHistoryVerifies`, with
  `ReaderAssumption`.

`SchedulerAssumption` has the form of requests and rows, and what `deriveSchedulerRunId`
(`researchSchedulerCanonical.ts:404`) gives: an id of its own to each operation, policy and
slot, so that a run with the id of a slot is a run of the slot's operation, whoever wrote it.

`DecisionsStayTrue` compares a decision with all others, and a decision is made from the
tail of the chain alone. What makes it inductive (`LedgerInv`) is that each decision is
`Backed`: its slot is the one due at its time under a version of its policy, its run is
stored with that time, and no slot is used twice. The tail then holds the last slot
(`TailIsLast`), a new slot lies after it (`NewSlotIsLast`), and what was said of earlier
slots is untouched. Amendments only add versions and bundles only add rows, so `Backed`
survives both. In the same way the run of a new decision follows all earlier ones.

For the transactions, `CallsInv` says which rows a caller has locked at each point
(`SchedulerStands`, `AdministratorStands`) and that its draft was right when it was made
against the tables. `Spared(y)` names what a caller y relies on: the stream of its policy, the
chain, the versions and the history of its operation. A commit by anybody else changes
nothing of that, because it would need a row that y holds (`LocksExclusive`), so a draft is
still right when it is committed and the commit is one step of the ledger (`CommitIsWhole`).

The last two ask what becomes of a decision later. `GroundInv` says that what it rests on
can be found again: a version of its policy has its slot, and the runs of its
manifest, its own run left out, have all ended within it. Since the gates let nothing into an
ended run, rows that come later change the history at that time only where they are
dated into it, and then its manifest differs (`CutStands`), which is `Undisturbed`; a
version that comes later leaves the owner of the slot or takes it (`OwnerStays`), which is
`Overruled`. So every check before the lookup of a decision passes again
(`DecidedAgain`). A reader has no transaction. `ReadersInv` says that its
decisions are stored and an authentic chain, that the reason of each is true of those it
has (`DecisionsRead`), and that each is `Grounded` in the history it has (`HistoryRead`),
which it read later; so every decision verifies (`DecisionsVerify`) and so does the chain (`ChainVerifies`). It
also judges the history at the first version's effective time, where no writer did
(`BeginningVerifies`): a history that verifies at the first decision verifies at an
earlier moment if no run was late then and none had ended unstarted (`CutEarlier`).

`SchedulerTimeProofs` proves, for calendars that start in any years and are turned for
any time, from `CalendarAssumption` (years are integers, `None` is not one):

* `TimeIsExact`: `Spec => []FormulasAreExact`.

`DatesAreNumbered` says that the date is one and the count of days its number. It is
inductive because the number of a date is the number of the day before its month and its
day (`DaysOfDates`), and months and years follow each other (`MonthsFollow`,
`YearsFollow`, `DatesFollow`). The number of the first day counts the leap years of its
era (`LeapsAreCounted`), which is an induction of its own, by the least number of years for
which it would be wrong. The way back (`DatesOfDays`) is the one part that is not
bookkeeping: that the three divisions of `civilFromDays` take exactly the leap days out of
a day of an era is `EraParts`, in which a year of an era is so many centuries, fours of
years and years.

Checked by TLC only:

* the liveness properties, which no backend here proves under fairness;
* `SlicesResume` of `ObservationBinding`: it says that a slice which was written to be
  resumed can be, so it is about the bundles of an instance and not about all.

## 6. What is not modelled

* Texts, hashes and canonical JSON: rows are compared for equality; that equal
  hashes mean equal texts is assumed.
* Input validation and HTTP status codes: an action's inputs are what validation
  lets through.
* SQL migrations as operations. Their tables, keys and foreign keys are the guards
  of the inserts; their immutability triggers are the absence of any action that
  updates or deletes.
* The server's clock. Times of research rows are the caller's.
* RCV-019: a pure projection of a claim's history, inserted in one transaction and read
  back in another; it is like RCV-016 to RCV-018, without references to rows of others.
* RCV-022: its writers are primitives that run in a transaction of their caller, and
  nothing in `src/src` calls them; `ON CONFLICT DO NOTHING` with a re-read needs the
  two writers and the isolation level that a caller would bring.
* The claim-level view and the HTTP API: functions of what the other readers return.
* Of RCV-020, items, trust zones, raw objects and quarantined payloads, and whether a
  reading counts as replayable; the look-up and the insert of a handoff are one step, as
  the insert of any row with its key; of RCV-016 to RCV-018, byte limits,
  texts and payloads, and how a statement's fields are spelled.

## 7. Plan

1. `ClaimVersions`, `ClaimHistory`, proofs. Done; left: the reads of
   `claimVersionReadService.ts`.
2. `ResearchOrchestration`, proofs. Done.
3. `SchedulerLedger`, `ResearchScheduler`, `SchedulerReader`, `SchedulerTime`, proofs.
   Done.
4. `EvidenceAssessments`, `Derivations`, proofs. Done; left: `diffClaimVersions`.
5. `ObservationHistory`, `ObservationBinding`, proofs. Done; left: a bundle's items and
   raw objects.
6. `ProvenanceSnapshots`, `DependencyAnalysis`, `Contradictions`, `ProvenanceStore`,
   proofs. Done; left: that the turns of the walk and of the search are as many as the
   limits of the policies allow.
7. RCV-022 with a caller that repeats a bundle after a lost answer; RCV-019; the
   claim-level view as operators over the results of the readers; the reader of the
   claims' historical authority.
