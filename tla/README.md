# A TLA+ model of the AIEOS backend

The backend serves teachers, students and reviewers of schools: it generates
teaching content with AI models, steers it through review to publication,
assigns it to learners, and collects their attempts. It is a FastAPI service
with two daemons beside it, on PostgreSQL, NATS JetStream and Temporal. This
directory holds TLA+ modules of the parts in which several processes,
transactions or services meet, the TLC configurations that check them, and
theorems about them that TLAPS proves. Paths below are relative to `src/`.

- [1. The system](#1-the-system)
- [2. Modules and code](#2-modules-and-code)
- [3. Runs and bounds](#3-runs-and-bounds)
- [4. Where the code does something else](#4-where-the-code-does-something-else)
- [5. Proofs](#5-proofs)
- [6. What is abstracted, and what is not modelled](#6-what-is-abstracted-and-what-is-not-modelled)
- [7. Plan](#7-plan)

To check one module: `tlc -config MCOutboxDispatch.cfg MCOutboxDispatch`; to
prove one: `tlapm ContentLifecycleProofs.tla`.

## 1. The system

### How the parts interact

A request reaches an application service of a domain (`src/aieos/domains/*/application`)
through the API layer. The service runs **one PostgreSQL transaction** under
READ COMMITTED with row-level security: it takes the advisory lock of the
request's idempotency scope, looks up a recorded outcome, locks the head row of
its aggregate, compares the revision the client read (If-Match), and writes the
new state together with an **outbox row**, **workflow intents**, an **audit
record** and the **idempotency outcome**. What must happen outside the database
happens later and elsewhere: the **event dispatcher** publishes outbox rows to
JetStream, the **workflow dispatcher** starts Temporal workflows and signals
them, and the Temporal worker runs the review workflow. AI work is different:
generation and preparation are **runs** with a lease, a sequence of short
transactions around calls of a model, executed inside the request.

```
 client -> API -> domain service --(one transaction)--> state + outbox + intents + audit + outcome
                                                           |          |
                       event dispatcher daemon  <----------+          +---> workflow dispatcher daemon
                                |                                                    |
                            JetStream                                     Temporal server <-> review worker
 client -> API -> generation run: claim | model call | heartbeat | Content transaction | finalize
```

### Components

"Model" is the module of the part; `–` says it is not modelled.

| Component (source) | State | Operations | What makes it correct | Model |
|---|---|---|---|---|
| Event outbox, dispatcher (`platform/events`) | `integration.outbox_messages`: status, attempt_count, available_at, claimed_by, claimed_until | insert, claim_once, publish, mark_published, release_for_retry | PUBLISHED means stored, one copy to a claim at most; settled is final; nobody moves another's live claim; everything is settled in the end | OutboxDispatch |
| Dispatcher daemons (`platform/events/nats/daemon.py`, `platform/workflows/temporal/daemon.py`) | none | candidates by tenant, one bounded attempt each, poll, shutdown | every tenant has its turn in each pass | fairness only |
| Event envelopes (`platform/events`, `domains/*/application/events*`) | none | build CloudEvents of domain facts | data only | – |
| Content (`domains/content`) | head (stewardship state, current and published version, revision), versions, decisions, publications | create, append, submit for review, approve, request changes, reject, publish | one line of versions; only approved versions are published; one winner to a revision; every revision has its event, audit record and outcome | ContentLifecycle |
| Content materialization (`domains/content/application/ai_*`) | versions of an AI run | create with version and submission, all artifacts in one transaction | once to a run | GenerationRun, PreparationRun |
| Migration import (`migration_import.py`) | import records, IMPORT versions | gate, import, record of a failure | once to a source, whatever becomes of the gate | MigrationImport |
| Idempotency (`platform/api/idempotency*`) | outcomes by (tenant, principal, operation, key) | acquire scope, lookup, record | a repetition is replayed, a reused key is refused | in every command model |
| Review workflow dispatch (`platform/workflows`) | start and command intents with claims | claim, start, describe, signal, result, finalize | DELIVERED means it happened at Temporal; a command waits for its start; give-ups are justified | ReviewWorkflow |
| Review workflow (`platform/workflows/temporal/content_review.py`) | the observed command, a conflict flag | run, signal handler | its first decision stands; repetitions are ignored | ReviewWorkflow |
| Generation runs (`domains/teaching/application/generate.py`, `domains/ai`) | `ai.generation_runs`: status, key, Work revision, lease | claim or resolve, reclaim, evict, reconcile, heartbeat, materialize, finalize, fail | an outcome has its worksheet and is unique to a Work revision; answers are true | GenerationRun |
| Preparation kits (`domains/teaching/application/prepare.py`, `platform/education`) | preparation runs with a quality summary | as above, with six artifacts, a quality baseline and recovery | all or nothing; one owner to a run; a kit is refused for its flaws alone | PreparationRun, PreparationKit |
| Teaching works, executions, observations, memory, remediation (`domains/teaching`) | rows with a revision | create, refine; start, complete, abandon; record, correct; remediate | one winner to a revision; nothing changes after the end; a remediation stands on an assessment that stands | Classroom |
| Teaching assignments (`domains/teaching`) | assignment with state, due date, revision | create, update due, close, cancel | one revision at a time, and none once it is over | Classroom, LearningAttempts |
| Student attempts (`domains/learning`) | attempt, responses, submission | start, save, submit | one attempt and one submission; the submission is a snapshot; evidence never changes | LearningAttempts |
| Classroom assessment (`domains/assessment`) | assessment with revisions | record, correct, void | names what was taught; its evidence is whole | Classroom |
| Evaluations, intelligence (`domains/assessment`) | evaluations by submission and policy | ensure one, ensure all, report | one evaluation to a submission; nobody waits in a circle; a report never blames an answer that was not wrong | Evaluations, EvaluationPolicy |
| Assets (`domains/asset`) | asset, revisions, safety decisions, objects of a store | upload, register, transition, activate, assess, reconcile | an activated revision had its bytes; "usable" was true at one moment; missing means missing | AssetCatalog |
| Reads (`domains/*/application/*queries*`, `platform/api/pagination.py`) | a signed cursor in the client's hands | lists page by page, one item, artifacts of a Work, the mission and home pages | an untouched row is listed once; what is listed can be opened | Pages, WorkArtifacts |
| School and parent intelligence (`domains/parent_intelligence`, `domains/school_intelligence`) | none | pages and reports from current scope and one snapshot | nothing of another child or class; nothing cut off; counts fit | ParentIntelligence, SchoolIntelligence |
| Security (`platform/security`) | principals, tenant access, grants | authenticate, authorize | a decision for every command, asked again by its transaction | RequestPath, Classroom |
| Audit ledger (`platform/security/audit`, nine migrations) | `security.audit_records`, append only | check, append; upgrade, downgrade | code and CHECKs agree; no migration strands a record | AuditLedger |
| API (`platform/api`, `platform/runtime/*_api*`) | none | headers, activation gate, problem mapping, routes | a refusal has its status; the gate stops mutations | RequestPath, ApiProblems |
| AI gateway, providers (`platform/ai*`, `domains/ai`) | none | call a model, parse, validate | timeouts and errors become a failed run | in the runs |
| Runtime, registries, fixtures, other migrations, deployment | configuration | compose, readiness | gates refuse an unsafe configuration | – (but for the activation gate) |

`PROJECT.json` lists every component with its status.

### What is hard here

- **Interleaving of transactions.** READ COMMITTED plus row locks: a locking
  SELECT that waited re-reads the row it locked, but the rest of its join is as
  old as its snapshot. Unique indexes are the only thing between several keys
  that ask for one worksheet or one kit, and between overlapping batches of
  evaluations; an insert at one waits for the other transaction to end.
- **Stale knowledge.** Dispatchers work on rows outside any transaction; a lease
  may run out under them, and their late finalization meets a row somebody else
  has claimed since. Runs are read without a lock and acted on in later
  transactions. A classroom assessment reads the execution of another domain
  without a lock; a grant is withdrawn between two checks of one command; the
  object of an asset is inspected between two transactions.
- **Lost answers.** A publish, a start, a signal or a COMMIT may have happened
  although its caller saw a timeout; all are repeated.
- **Ordering.** A decision can be recorded before its workflow has started, and
  a signal can reach a workflow before its first task. References are listed
  before the objects they name.
- **Crashes** between a claim and its finalization, and anywhere in a run.
- **Boundaries.** Attempts are counted at the claim and compared at the release;
  a read takes one row more than its limit to learn that it was cut; sums of
  limits decide whether a page is shown at all.
- **Lists without a snapshot.** A cursor names a row; the table moves between
  two pages.
- **Vocabularies stated many times.** The actions of the audit ledger are named
  in the code, in nine migrations and in their downgrades.

`PROJECT.json` lists these under `hazards`, each at its line with the properties
that cover it, or why none does.

## 2. Modules and code

`AtLeastOnceDelivery` is the abstract specification (ADR-AIEOS-025): an item is
recorded, the other side takes it, it is reported published or given up, and
reports are final. Outbox events, workflow starts and review commands are each
shown to implement it.

### OutboxDispatch — `platform/events/nats`, `platform/events/persistence`

| Model | Code |
|---|---|
| `rows[m]` | a row of `integration.outbox_messages`; `due` is `available_at <= now`, `expired` is `claimed_until <= now` |
| `work[p]` | where a process is in `dispatch_once_detailed`; a process is one incarnation, since `claimed_by` ends in a fresh uuid |
| `ClaimAndPublish`, `Claimable` | `claim_once` (one transaction, FOR UPDATE SKIP LOCKED) and the publish that follows it |
| `Receive`, `GiveUp`, `Accepted` | `publish`: ack of the expected stream, stream mismatch, APIError; timeout or disconnection |
| `MarkPublished`, `ReleaseForRetry`, `Fence` | the two UPDATEs, fenced by status, claimed_by and attempt_count |
| `BrokerStores`, `MsgId`, `WindowEnds` | JetStream, which drops a Nats-Msg-Id it has in its duplicate window; the window ends at any time (external) |

`reclaims`, `refused`, `lapsed` and `slips` are history: what the properties say
of attempts, give-ups and copies needs to know of take-overs, refusals and windows
that have ended.

### ContentLifecycle — `domains/content`, `platform/api` idempotency, `platform/audit`

A request is a process: `scope` (waiting for the advisory lock), `head` (waiting
for the row lock), `body` (holding both), then one step for its writes and the
commit, since nothing it writes is visible before. Which locks it holds follows
from how far it is. `Fail` is any exception, lost connection or crash: it rolls
back. `Askable` is what a client can send: a version and the revision it read
(which may be stale by the time the request is served), or a repetition of a
request that was carried out. `snapshot` is what the statement that waits for
the head row saw before it waited; `NumberReadable` is the separate read of the
version number that makes it harmless.

### ReviewWorkflow — `platform/workflows`

`intents["start"]` and `intents["command"]` are the two intent tables, by review
cycle; `work[p]` follows `dispatch_start` and `dispatch_command` with the calls
of the gateway one by one (`StartReturns`, `ReconcileStart`, `Describe`,
`SignalReturns`, `ResultReturns`, `GiveUp`); `server[c]` is the execution at
Temporal with the signals it has not handled (`inbox`) and the workflow object's
`ready` (run has set the identity), `decided` and `conflict`. The server and the
scheduling of workflow tasks are modelled from how the code uses the SDK: the
signals of an activation are applied before `run` is started, and a
`RuntimeError` of `run` fails the task, which is retried, not the workflow.

### GenerationRun — `domains/teaching/application/generate.py`, `domains/ai` persistence, `ai_for_review.py`

`runs[r]` is a row of `ai.generation_runs`, named by the request that inserted
it; `contents` the runs that have an AI ContentVersion; `jobs[q]` a request with
the step it is in, one action per transaction or model call. `FenceA` and
`FenceB` are the partial unique indexes. `Resolve` is `_resolve_existing_run` up
to its first write, `Reconcile` the look into Content, `Reclaim` and `Evict` the
two ways a stale run is taken, `Heartbeat`, `Materialize`, `Finalize` and
`MarkFailed` what an executor does. A request compares leases with the time of
its own beginning, so `late` remembers the leases that ran out since: they are
fresh in its eyes.

### LearningAttempts — `domains/learning`, `platform/runtime/student_learning_command.py`, teaching assignments

One assignment, its learners and its teacher. A learner's request first looks
for an outcome without a lock (`Begin`), asks the school about the membership
outside the transaction (`AskSchool`), then takes scope, assignment row and
attempt row (`LockOrder`, `Lock`); `Check` makes the reads and the verdict,
the write actions the compare-and-swap, the inserts and the commit. Reads and
writes are two steps, so the model would show a command that wrote from a read
its locks do not protect.

### PreparationRun, PreparationKit — `domains/teaching/application/prepare.py`, `platform/education`

The protocol of a kit differs from that of a worksheet in two ways the model
keeps: an executor owns its run only while `version` (the run's
`aggregate_revision`) is the one it claimed, so a reclaim takes the run from it;
and it holds the row lock of the run while **another** transaction writes the six
artifacts. `Prepare(q)` is the next step of a request, whichever it is: claim,
look at the artifacts, recover, reclaim, evict, heartbeat, model call, verdict,
write, finalize. `kits[r]` is what Content holds of a run, `reviewed` the runs
with an artifact somebody has decided on since: recovery refuses those.
`PreparationKit` has the contracts of a kit (`KitValid`), the six artifacts made
of it and the quality baseline, which looks at the artifacts, not at the kit.

### AssetCatalog — `domains/asset`

`asset` and `revisions` are the rows, `blobs` the keys with bytes, `lost` those
whose object went, with nothing in the database to tell. `Upload` and
`RegisterRevision` are two requests with an object store between them;
`ReadCandidate`, `InspectCandidate`, `CommitActivation` the transaction, the look
at the object and the second transaction of an activation; `LoadAsset`,
`LoadRevision`, `InspectUse`, `ConfirmAsset` the reads of an assessment of
current use, repeated up to `MaxAttempts` times when they do not fit together.
`Reconcile` and `List` compare references and objects.

### Evaluations, EvaluationPolicy — `domains/assessment`

A request acquires its scope, reads the submissions and the evaluations there
are, and inserts what is missing one by one (`Ensure`, `Insert`): an insert at an
identity another open transaction has inserted waits for its end, then inserts or
reads. The report reads submissions, evaluations and versions in statements of
one READ COMMITTED transaction. `EvaluationPolicy` is policy v1 as operators:
from questions and a snapshot to outcomes, evidence and what the teacher is shown.

### Classroom, with RequestPath, ApiProblems, AuditLedger — `domains/teaching`, `domains/assessment`, `platform/api`, `platform/security`

The commands of a teacher, from the first header to the commit. A request that
does not reach a command is answered at once (`TurnAway`, the operators of
`RequestPath`); one that does asks the authority (`Authorize`), takes its scope
(`Acquire`), locks and checks (`Work`) and writes row, event, audit record and
outcome (`Commit`), or rolls back (`Fail`). There is one row of each kind:
work, assignment, execution, observation, assessment, memory; two requests are in
progress at a time; a second teacher may try to touch them. `Withdraw` takes away
authority while a request is under way. `ApiProblems` maps every refusal to its
status; `AuditLedger` says which audit records the code builds and the database
admits, at every stage of its nine migrations.

### MigrationImport — `domains/content/application/migration_import.py`

`Enter` takes the gate of a source, a session lock on its own connection that the
server may free at any time (`LoseGate`); `Read`, `Validate`, `_materialize_new`,
`Commit` are the import transaction, `ReadForFailure`, `WriteFailure`,
`CommitFailure` the one that records a failure. `writer[s]` is the transaction
with an uncommitted row of a source, where others wait. The CHECKs and the
trigger of the records are guards of the writes.

### ParentIntelligence, SchoolIntelligence — `domains/parent_intelligence`, `domains/school_intelligence`

Both answer from what the school says at the request and one snapshot of the
database, and store nothing; so both are operators, from a context (the gate, the
decision, the school's answers, the time) and a database to a page, a report or a
refusal. What they guarantee is proved of every context and database.

### Pages, WorkArtifacts — the reads of Content and teaching

One client walks one list (`Begin`, `Ask`, `Answer`) while anything may happen to
the table (`Insert`, `Rewrite`, `Enrol`, `Tick`). `encode` and `decode` are the
signed cursor. The operators below give the reads of one row, the home page of a
learner and the mission of a teacher, which counts its reviews by walking a list.
`WorkArtifacts` has the two judges of the six artifacts of a preparation: the
recovery of a run, which wants them as written, and the list of a Work, which
must show them after reviews, edits and publications.

## 3. Runs and bounds

| Run | Instance | Result |
|---|---|---|
| `outbox` | 1 event, 3 incarnations, 2 attempts, 1 crash, 1 slip; fairness | pass |
| `content` | 1 content, 2 requests in flight, 2 keys, revisions up to 4 | pass |
| `review` | 1 cycle, 2 dispatchers, 2 attempts, 1 crash, 1 slip; fairness | pass |
| `generation` | 3 requests, 2 keys, 2 Work revisions, 1 crash, 1 slip, 1 unknown commit | pass |
| `preparation` | 3 requests, 2 keys, 2 Work revisions, 1 crash, 1 slip; kits of 2 questions | pass |
| `assets` | 2 callers, 2 revisions, 2 objects, 1 of them lost, 4 changes, 2 attempts | pass |
| `evaluations` | 2 requests in flight, 3 in all, 2 keys, 2 submissions | pass |
| `classroom` | 2 requests in flight, 2 teachers, 2 keys, nine desks | pass |
| `learning` | 1 learner and the teacher, 2 requests in flight, 2 keys, revisions up to 2 | pass |
| `review_not_found` | as `review` | violation, section 4 |
| `review_early_signal` | as `review` | violation, section 4 |
| `generation_twice` | 3 requests, 2 keys, 1 revision, 1 crash | violation, section 4 |

Why these are enough:

- **outbox, review.** Rows do not share state but for the process that works on
  one at a time, so one event (one cycle with its start and its command)
  contains the interactions; the proofs of section 5 cover any number of events.
  Three incarnations are a dead owner, a slow owner and the one that takes over;
  a budget of two has a retry and its end, and three copies of an event get into
  the stream; attempts reach the budget and, by a take-over, pass it. `MaxSlips` bounds how
  often a lease runs out under a live owner: the configuration asks only for
  positive numbers, so a lease may well be shorter than a publish.
- **content.** Four revisions are create, append, submit, decide and publish or
  append again; `MaxRevision` bounds what a command may expect. A third request
  in flight would wait for the same two locks. Two contents do not share a row.
- **generation, preparation.** Three requests are the least with which one
  executes, one evicts and one takes its place; two revisions the least with
  which an outcome can be stale. The kits of `MCPreparationRun` are a sound one
  and five with a flaw each: a question twice, a question of an unknown objective, a
  worksheet too short, one that is all alike, a claim of alignment.
- **assets.** Two revisions let the current one be replaced under an assessment,
  two objects let a lost one differ from the one that is used; callers repeat
  operations, so two are any number that do not overlap three at a time.
- **evaluations.** Two submissions let batches overlap in one and in both, and
  insert in the same order; the third request is a repetition, or a report after
  both. The exams hold a question of every kind, one of them with no right
  choice; the snapshots are all right, wrong and open, open and of the wrong kind.
- **classroom.** A *desk* (`MCDesks`) is the operations of one story with a
  budget of requests: a lesson, a cancelled one, an assessment with corrections
  and its remediation, assignments, works, memory. Rows of different desks meet
  only through the commands that are together on one. Every environment and
  every malformed envelope is offered, two levels of result, three works.
- **learning.** Two revisions are enough for a save and a submission to race
  after another save, and for a due update to race a close.

Deadlock is checked where requests never run out (`content`, `learning`). The
others may rightly stop: every event is settled, every request answered, every
bound reached.

What the properties say, by run:

- **outbox.** `DeliveryRefinement`: the abstract specification, so PUBLISHED
  events are in the stream and outcomes are final; it says nothing of how often
  an event is there. `DuplicatesAccounted` does: a crash between publish and mark
  may duplicate an event, as the tests say, but a claim adds one copy at most, and
  a second copy needs a duplicate window that has ended. `QuarantineJustified`: the boundary of the budget.
  `EventuallySettled`: liveness.
- **content.** `PublishedWasApproved`, `DecisionsAreSignalled`: the head never
  says more than the facts, and a decision that matters to a workflow has its
  command. `EveryRevisionAccounted`: concurrent commands neither share, skip nor
  lose a revision. `LoserSeesConflict`: the loser of a race is told of a
  conflict, not of a broken invariant. `CommittedNeverRefused`: a repetition is
  replayed whatever has happened since.
- **review.** `ReportsAreTrue` (of starts, of commands, and that an observed
  decision stands), `IntentsAreDelivered` (the abstract specification, for starts
  and for commands), `QuarantineJustified`, and `IntentsSettled`: with a
  dispatcher that survives every intent is settled, but for a command whose start
  was given up. That exception is real: such a command stays PENDING for ever, as
  a command is claimed only behind a DELIVERED start.
- **generation.** `SucceededHasContent` and `AnswersAreTrue` hold
  unconditionally. `WorksheetFenced` and `OneModelCall` hold as long as the run
  is *undisturbed*: executors keep their leases and learn of their commits, and
  there is one key or no crash. Outside it they are false: a live run is evicted,
  a revision gets two worksheets (section 4). `FailedStaysOrIsOutcome` is of both
  worlds: an undisturbed FAILED run stays so; a disturbed one may become SUCCEEDED,
  but only with its worksheet and while its revision has no other run that is
  RUNNING or SUCCEEDED.
- **preparation.** `OutcomeHasKit`: SUCCEEDED has its six artifacts and a passing
  quality, FAILED has none unless its executor was lost between the two commits.
  `OneOwner`: two executors never hold a run. `KitFenced`: a second kit of a
  Work revision only over an abandoned run — what `WorksheetFenced` says of
  generation only when nothing is disturbed, the version of the run secures here
  through every crash and slip. `VerdictsAreRight`: a kit is refused for what is
  wrong with it, and what is written passes the baseline.
- **assets.** `UseIsTrue`: "usable" was true at one moment although it is put
  together from reads of two systems. `ActivationSound`: the pointer moves to
  a revision that has passed and whose bytes were seen. `MissingIsReal`: a
  registration during a report is not reported as a loss.
- **evaluations.** `OneEvaluation`, `BatchIsComplete`, `NoWaitCycle` of the
  inserts; `EvidenceSound` of the policy; `MissedWereWrong` of the report, whose
  two statements see different states: the learners it lists and blames, from the
  first, agree with the counts, from the second, but for wrong answers of learners
  who submitted in between.
- **classroom.** `ObservationsFrozen`, `AssessedWasTaught`, `OriginIsCurrent`
  relate rows that different commands lock; `RevisionsAccounted` as in Content;
  `OnlyEntitled`: authority withdrawn before the last check admits nothing.
- **learning.** `SubmissionIsSnapshot`, `EvidenceIsFrozen`: a submission holds
  exactly what its locks protect, and nothing moves after it or after the close.
  `EveryRevisionAudited`, `CommittedNeverRefused` as for Content (repetitions the
  school lets pass). `NoWaitCycle`: scopes, assignment and attempts are locked in
  one order.

**Fairness** (`outbox`, `review`): weak fairness of each process's own steps,
since the daemon polls for ever, each call has a timeout (`GiveUp` is always
enabled while it waits) and a process that has crashed is no longer obliged;
weak fairness of the clocks (`BecomeDue`, `LeaseExpires`). Nothing is assumed of
the broker, of Temporal, of the worker, of crashes or of new events. The claim
of a row is fair although rows compete for a process, because a claimed row
leaves the queue within bounded attempts.

## 4. Where the code does something else

Three runs check a statement of the repository that the code does not keep.

1. **`review_not_found`** (`platform/workflows/temporal/gateway.py:170`). A retry
   that finds the workflow running, and signals it after it has completed on an
   earlier attempt's signal, gets NOT_FOUND and quarantines the command as
   `workflow_not_found`. A test says "retry reconciles completed workflow"
   (`tests/platform/workflows/test_gci_i07_temporal.py:378`), which holds only if
   the workflow had completed before `describe`.
2. **`review_early_signal`** (`platform/workflows/temporal/content_review.py:69`).
   A signal that is in the history before the first workflow task is handled
   before `run` has set the identity it is compared with, so a workflow refuses
   its own decision as `workflow_identity_conflict`, fails every task and the
   command is quarantined. It needs only a worker that is later than the
   dispatcher: one daemon pass sends start and command one after the other.
3. **`generation_twice`** (`domains/teaching/application/generate.py:647`). A
   request of another key decides from an unlocked read that a run is stale, and
   fails it later without looking at the lease again, although it may have been
   reclaimed in between. The executor goes on, its fences are gone, and two
   worksheets of one Work revision are submitted for review. A test of
   concurrent keys expects one
   (`tests/domains/teaching/test_tos_dev03r1_lifecycle.py:326`).

Shown by proof rather than by a run: `PaddedRefSilencesReport`. A ClassRef with
spaces around it passes the check of a principal's scope and fails the check of
the facts read for it, so that the school report fails as a whole and no class
is reported. No statement of the repository says which of the two checks is meant.

## 5. Proofs

Eight modules hold theorems for every value of the constants. Each rests only on
the ASSUME of the modules it extends (constants are numbers, the "none" values
are no members) or on assumptions written in the theorem.

**State machines: an inductive invariant, one lemma or step per action, one
conjunct at a time, and a PTL step.**

- **AttemptsAndEventsProofs**, `OutboxDispatch`: the invariant joins its type
  invariant and the safety invariants with `BrokerView` and `DuplicatesAccounted`. `PublishedReachedStream` alone is not inductive:
  MarkPublished needs that a process with an ack in hand has its event in the
  stream, which needs that a reply "stream" is given only with the store.
  `QuarantineJustified` needs that a permanent error stems from a recorded
  refusal, and that the fence makes the process's attempt number the row's.
  `DuplicatesAccounted` counts what is stored and what is still in flight
  (`CountedStep`): a copy leaves the wire for the stream, and enters the wire only
  with a claim, which is one attempt more.
  `SettledIsFinal`, `LiveClaimRespected` and `DeliveryRefinement` follow from it
  step by step: a claim, a release and all lost messages are stutters.
- **ContentLifecycleProofs.** The base of the invariant is: types; locks are
  exclusive (two requests inside their transactions differ in scope, two in
  their bodies differ in content); all recorded facts are well formed; one
  outcome to a scope. On it rest `LinearHistory` and `StateRestsOnFacts` (a
  decided or published version is never ahead of the head), `OneWinnerPerRevision`
  (an outcome has spent a revision below the head's), and `CommittedNeverRefused`
  (a request past its scope lock has no outcome, and nobody else can record one
  while it holds the scope). `PublicationForward` says that the published pointer
  never moves back. `DecisionsAreSignalled` needs that the check of the review
  cycle and the decision it leads to are under one lock of the head;
  `EveryRevisionAccounted` is proved of all natural numbers at once, with the
  addition that a head that is absent has revision 0.
- **GenerationRunProofs.** The invariant adds to the types that a settled executor
  has its worksheet behind it (whoever is finalizing or settling works on a run in
  `contents`), that the outcomes of a revision are fenced, and that every answer
  was a SUCCEEDED run of its revision when it was given. From it follow
  `SucceededHasContent`, `AnswersAreTrue` and `SucceededIsFinal`. For what holds in
  an undisturbed world only, see below.
- **AttemptsAndEventsProofs**, `LearningAttempts`: every command locks the assignment first, so that
  one request at most has any row lock (`OneHolder`), and what it has read under
  it is still so when it writes (`ReadsHold`). `SubmissionIsSnapshot` and
  `NoWaitCycle` follow from these two, `EvidenceIsFrozen` from them and the WHERE
  clause of the attempt's update. `CommittedNeverRefused` rests on `ScopesAlone`
  (who is inside its transaction has its scope alone, and without an outcome).
  `EveryRevisionAudited` is proved of all natural numbers, with the addition that
  an attempt that was not started has revision 0.
- **ReviewWorkflowProofs.** What makes the reports inductive is what is known of a
  dispatcher between the call and its note (`JobsSound`: an answer in hand, and
  what is about to be noted, is so at Temporal), of a request on the wire
  (`CallsSound`: a signal is only sent once its start is DELIVERED) and of an
  execution (`ExecutionsSound`: one in conflict is never ready and keeps its
  signals, a completed one was decided). With them `ReportsAreTrue` and `QuarantineJustified` carry
  themselves; leases, crashes and late answers never enter, since no report rests
  on a lease. `IntentsAreDelivered` is shown for starts and for commands with the
  one abstract specification of the outbox: a start becomes `stored` when its
  execution appears, a command when its decision is observed.
- **PreparationRunProofs.** An executor holds a version of its run (`claim`), never
  above the run's, and equal to it while it has the row lock (`JobsSound`); two
  executors of a run hold different versions (`ClaimsDiffer`), since a run only
  moves to higher ones. That gives `OneOwner`. `KitsSound` says of a run with
  artifacts that it has SUCCEEDED, is locked by who settles it, or was abandoned,
  and with the fence on revisions (`Fenced`) gives `KitFenced` and `OutcomeHasKit`. `VerdictsAreRight` is about the operators:
  the six artifacts of a kit are laid out entry by entry (`KeyLayout`,
  `KeyEntries`), the quality baseline accepts only coherent ones
  (`QualityIsCoherent`), and what was built from a valid kit passes what the
  builder could break (`BuildPasses`), so that a refusal is the kit's own.
  Assumed: the kits that are offered are a sequence of kits.
- **ClassroomProofs.** A command locks the row it changes and reads the others without
  a lock. Its invariant (`CommandsExcludeEachOther`) says of one request what its
  uncommitted row relies on (`Solo`: an observation on an execution in progress, an
  assessment on what was taught, a remediation on an assessment that stands), and of
  two that they have different scopes and no row in common (`Pair`). `CommitStable`:
  what one commits leaves the uncommitted rows of the others sound, since either they
  would have to hold the row it changes, or the row is an ended execution or a bound
  assignment, which no longer changes (`TaughtStays`). The operations that create a
  row find their own outcome when they are repeated (`MakerKnown`), so a row is not
  created twice. `AssessmentsWereTaught`, `ObservationsStayFrozen` and
  `OriginsAreCurrent` are read off. `RevisionsAreAccounted` adds that each of the
  three books grows with the row, revision by revision (`Books`).
  `WithdrawnAreTurnedAway` has an invariant of its own (`Doors`): once something a
  request needs is withdrawn, a check that fails is still before it, because nothing
  withdrawn comes back, or it has its answer. The three are proved for any number of
  requests, operations and withdrawals; what the model leaves out is that a kind of
  row is created once, by one teacher with one key (`CreationKey`).
- **EvaluationsProofs.** Of a request the invariant says what its work list means
  (`WorkSound`: what it has looked at is evaluated, by it or before; the submission
  it is about to insert comes first in the list) and what its uncommitted rows are
  (`RowsSound`: sound, of submissions before all it still has to look at, and of no
  submission that is evaluated); rows of two requests are of different submissions
  (`Disjoint`). An insert keeps this because it waits for the row of another and
  adds none to a committed one; a commit because nobody else has rows of the same
  submissions. `OneEvaluation` and `BatchIsComplete` are read off at the commit.
  `NoWaitCycle`: of the inserts in a circle the one furthest in the list would wait
  for one that is further (`Greatest`). The policy is a matter of operators:
  `OutcomesAreSound` says what each outcome means, kind of question by kind,
  `ItemOf` that a question finds its own item, `RollupSound` and `EvidenceOf` what the
  rollup of them means. `MissedWereWrong` counts by two injections, from the learners
  blamed to evaluations and from these to the learners blamed or late
  (`MissedBound`), and stays true because wrong answers stay (`BlamableGrows`). Assumed: responses are of the three kinds, their values texts or
  truth values; submissions are numbered up to a natural number.

**GenerationRun in two worlds.** Its first invariant (`IInv`) holds whatever
happens. The other three properties are about executors that keep their leases and
learn of their commits, with one key only or no crash (`Undisturbed`), and rest on
a second one, `FencedInv`: `KeysInv` (one RUNNING run; a run has the key of the
request that inserted it; only a run of another key is evicted) and, while the
world is undisturbed, `Orderly`. An executor's lease is fresh and its run RUNNING
without a worksheet until it writes one, a run has one executor (`Alone`), a
worksheet's run is RUNNING or SUCCEEDED (`Live`). A request that decided to reclaim
before the worksheet was written must not go on: `ReclaimerOK` says that it would
find the lease fresh, or late in its own eyes. Where no process dies nothing is
stale at all (`Calm`). That `Undisturbed` only ever ceases to hold (`EarlierToo`)
makes the implication inductive. `WorksheetFenced` follows with the fence on
outcomes, `OneModelCall` with the fence on executions, and `FailedStaysOrIsOutcome` because
only a run with a worksheet is finalized (`FailedStep`), which needs `Orderly` just
for its first conjunct.

- **ReadsAndRecordsProofs**, `MigrationImport`: `ImportedOnce`, `RecordsAreTrue`, `AnsweredTruly` and
  `EvidenceKept`, of any number of importers, sources and documents. The invariant
  says what an importer relies on between its steps (`Mine`): that the row it wrote
  is still its own, so that others wait for it, and that a record it has read
  still carries the evidence it was read with. The primary key, the
  conditions of the updates and the trigger carry it; the gate is never used, so
  losing it costs work and no guarantee. Assumed: `NoImporter` is no importer.
- **ReadsAndRecordsProofs**, `AssetCatalog`: nobody who assesses a use, activates or
  reconciles holds a lock while it looks at the object store, so the invariant says
  what is left of facts that may be out of date (`CallerSound`). A registered
  revision keeps number and key, and a verdict that is no longer PASSED never
  becomes PASSED again (`RevisionsGoOn`); so, if the third read still finds the
  revision PASSED and the rows of the asset agree, it was PASSED at the second read
  too, where the use held (`HeldThen`): `UsesAreTrue`. It needs that a number
  belongs to one revision, which a registration keeps by its maximum plus one
  (`NumberIsNew`). `MissingWasLost`: what a row references was stored, and references
  are listed before objects, so a key that is not found has been lost.
  `ActivationsAreSound`: the facts compared under the lock are the facts inspected.
- **ReadsAndRecordsProofs**, `Pages`: for a walk over a list, the invariant says that the cursor in
  hand is one this walk was given, and that what is listed lies up to it
  (`CursorOfWalk`), that every row left alone since the beginning is still selected
  (`KeptSelected`), and that it is listed or still ahead (`KeptCovered`). From it:
  `WalkListsKept`, `NeverRefused`, `ListedOnce`, `CountedOnce`, `MoreIsHonest`. That a page of limited length
  exists and is the beginning of its list is shown by the well-foundedness of the
  natural numbers (a least counterexample), since induction theorems with operator
  parameters are out of reach. Assumed: identifiers are finitely many numbers, the
  markers are no values, and the encoding of a cursor is injective — what an HMAC
  gives.

**Operators: what an answer says about the database, whichever database**
(all in `ReadsAndRecordsProofs`).

- **Single reads** (`Pages`, `WorkArtifacts`): `CursorBound`, `OpensWhatItLists`,
  `OpensWhatIsCurrent`, `HomeAgrees`, `MissionAgrees` say that lists and the reads
  behind them agree; `ReadSurvivesReview`, `RecoveryIsStricter` and
  `ListNeverBroken` that a preparation written whole (which `PreparationRunProofs`
  shows of the writer) stays readable through reviews, edits and publications.
- **`AuditLedger`.** `LedgerAgreesWithCode`: the model in the code and the
  CHECKs of the last migration accept the same records. `UpgradesKeepRecords`,
  `DowngradesKeepRecords`: no migration meets a record its new CHECKs refuse, or
  it refuses to run.
- **`ParentIntelligence`**: `NothingTruncated` (a page that is shown has seen
  every row), `ChildAlone`, `Concealed`, `OnlyTheirChildren` (what an adult may
  learn), `PagesAgree`, `StatusIsTrue`, `NoFalseAlarm`. What the tables can hold is the
  predicate `Consistent`, what a read of them has found `Sound`, what the settings
  can be `Limits`.
- **`SchoolIntelligence`**: `ScopeAlone`, `NotEvaluatedIsTrue`,
  `CountsFitTogether`, `PaddedRefSilencesReport`; what is said of counts holds for
  any database that keeps its keys and CHECKs (`ConsistentSchool`).

`PROJECT.json` lists the theorems a reader should know of. Only model-checked:
the two liveness properties (`EventuallySettled`, `IntentsSettled`), since the
prover has no ENABLED, and the three violations. Only proved, with no run: MigrationImport, Pages,
WorkArtifacts, AuditLedger's migrations, and the two intelligence modules.
Every other property of a passing run is a theorem.

## 6. What is abstracted, and what is not modelled

- **Time** is two facts per row (due, lease over); clocks of processes and of
  the database do not differ. `ORDER BY available_at` becomes any claimable row.
- **Commits** are atomic. What one transaction writes is one step, with the
  checks made under its row lock where nothing else can change what they read;
  unique indexes behind a lock are redundant in the models (Content, attempts)
  and leave only their error (`integrity`).
- **JetStream's** duplicate window may end at any time: neither `retry_delay` nor
  `claim_lease` is tied to it.
- **Fences** name status, owner and attempt; owner or attempt alone would do, as
  an incarnation has one claim of a row at a time.
- **Reviews.** One decision to a cycle; retention of closed workflows at Temporal
  is left out; a workflow id is derived from the instance id, so the branches for
  another identity under the same id, and for another task queue, are unreachable
  and absent. A start that is quarantined as exhausted may leave a workflow
  running.
- **Generation.** The lookups of a claim's second transaction are one step; the
  status VALIDATED is never written by the code; replies are abstracted to the
  run they name. A request of another key that was answered by reconciling is
  told of an existing worksheet when it is repeated.
- **Preparation.** Texts are abstracted to whether they claim alignment with a
  curriculum. A request that reads its run before the executor finishes and the
  artifacts after it may be told that the artifacts are corrupt although its key
  succeeds; the model shows it and no statement of the code refuses it.
- **Assets.** One asset of one type; bytes are as they were written, or lost.
  Publication's use of the assessment is part of
  `Fail` in ContentLifecycle.
- **Evaluations.** The limits on the length of texts are left out.
- **Classroom.** One row of each kind; the state of Content, the school's answer
  about a class and the validity of a payload are free choices.
- **Attempts.** Timestamps, `available_from` and the content of responses are
  left out; a replay answers with the current state, read in two statements.
- **Audit.** The downgrade of the first ledger migration drops the table without
  looking at its records; `DowngradesKeepRecords` is about the eight after it.
- **Lists.** A cursor is bound to its list and its tenant, not to its principal
  nor to the filters it was made under. A row whose time changes during a walk
  may be skipped (library) or listed again at its new place (review queue). The
  items of a learner's home page and their count come from two transactions:
  `HomeAgrees` holds at one instant. Lists of a teacher without a cursor say only
  that there is more. The count of waiting reviews is given up after 50 pages of
  100. The resources of a learner's assignment are not modelled.
- **Intelligence.** The order of cards is left out. The sums of a school's summary
  are modelled, but nothing is proved of them.
- **Not modelled**: event envelopes (data); the teacher assistant, prompts and
  payload schemas other than the kit's (data); AI and object store adapters,
  connection and credential handling (I/O); routing and OpenAPI; startup
  configuration and readiness probes; the daemons' pass over tenants; registries,
  development fixtures, tools, deployment, and migrations other than the ledger's.

## 7. Plan

Done: `OutboxDispatch` with `AtLeastOnceDelivery`, `ContentLifecycle`,
`GenerationRun`, `LearningAttempts`, `MigrationImport`, `Pages` and
`WorkArtifacts`, `AuditLedger`, `ParentIntelligence`, `SchoolIntelligence`,
`ReviewWorkflow`, `PreparationRun`, `Evaluations`, `AssetCatalog`, `Classroom`
(modelled, checked and proved).

Left, in this order:

1. `DispatchDaemon`: the candidate functions of
   `migrations/versions/adra045001_dispatcher_candidate_authority.py` against the
   claims they announce: whatever can be claimed is a candidate. The pass over the
   tenants itself is bounded and in turn (`daemon.py:75`) and needs no property.
2. The activation gates and readiness of the runtime as decision functions.
3. The assistant: what of a teacher's works its context may hold.
