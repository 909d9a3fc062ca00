# Meeting Action Orchestrator in TLA+

This directory holds TLA+ models of the Meeting Action Orchestrator, the TLC
configurations that check them on small instances, and theorems checked by TLAPS.
The models are translated from the code under
`src/src/meeting_action_orchestrator/`; `PROJECT.json` maps every definition that
stands for code to the lines it stands for. Paths below are relative to that package
unless they start with `src/`.

## 1. The system

The orchestrator turns a recorded meeting into approved writes at external systems. A
recording is ingested, transcribed and turned into a review by two *processing stages*;
a person edits and approves the review; the approval projects *write intents*, which an
*outbox* delivers to a connector. A meeting can be erased, and a recording nobody
references any more is cleaned up.

It is one Python process around one SQLite file. Concurrency comes from three sources:

* five supervisor loops (`bootstrap.py:304-417`): processing, delivery, recording
  cleanup, orphan discovery and erasure;
* HTTP requests (`api/`), which run the operator's commands;
* other processes on the same database: a predecessor that is still shutting down, a
  restarted container, a replica.

Every write unit of work is a `BEGIN IMMEDIATE` transaction
(`infrastructure/repositories.py`, `SqliteUnitOfWork`), so transactions are serialised;
but no operation is one transaction. Claiming, calling a provider and recording the
result are separate transactions with network time between them, and that is where the
behaviours worth modelling live.

### Inventory

| Component | State it keeps | Operations | Hard behaviour | What makes it correct |
|---|---|---|---|---|
| Processing queue, stage handlers (`application/processing.py`, `workflow.py`) | `processing_jobs`, meeting status, transcript and review pointers | claim, repair of exhausted leases, reclaim, stage start / completion / failure, finish | lease expiry under a running handler, crash after the artifact committed, attempt numbers and owner names that come back | one claimant per job; job, meeting, artifact and ledger agree; every job settles |
| Processing control (`processing_control.py`) | `meeting_operations` bindings | retry, cancel | race with claims, replayed and competing requests | one command per version; a cancelled meeting is quiet |
| Delivery outbox (`delivery.py`) | `write_intents`, `write_receipts`, meeting filing status | recover, claim, deliver, record, reconcile | unknown outcomes, late answers, two lease kinds, several writers of one meeting | no second create, receipts agree with statuses, filing ends |
| Delivery control (`delivery_control.py`) | `delivery_operation_bindings` | retry, reconcile | plan made from stale rows, lease lost between lookups | a stale plan reopens nothing |
| Connector gateway (`infrastructure/mcp_gateway.py`) | none | create, lookup, classification | lost and ambiguous answers | classification never calls an uncertain create refused |
| Review and approval (`workflow.py`, `reviewing.py`) | review revisions, approval, recap, intents | edit, approve | edit racing approval | what is approved is what was read; approval happens once |
| Ingest, audio ownership (`workflow.py`, `infrastructure/audio.py`) | audio assets, ingest bindings, files | ingest, rollback of files | same content uploaded twice, file written before the row | no row without a file, no unreferenced file for ever |
| Recording cleanup, quarantine (`recording_cleanup.py`, `recording_quarantine.py`) | cleanup jobs, quarantined files | schedule, claim, heartbeat, finish, discover orphans | upload racing deletion, crash between rename and commit | a referenced recording is never deleted |
| Meeting erasure (`meeting_erasure.py`, `meeting_erasure_worker.py`) | erasure jobs, tombstones | request, retry, checkpoint, converge | shared recordings, waiters, crash around the checkpoint | erased data does not come back; erasure ends |
| Erasure tokens, key registry (`infrastructure/erasure_tokens.py`) | key verifiers, tombstone tokens | register, verify, rotate | a keyring changed between two starts | an erased identity is recognised under every keyring that verifies |
| Provider budget (`provider_budget.py`) | accounts, reservations, settlements | reserve, settle | crash between reservation and settlement | spending never passes the limit |
| Workflow ledger (`infrastructure/workflow_events.py`, `auditing.py`) | events | append, page | sequence read, then inserted | contiguous, append-only |
| Runtime supervisor (`bootstrap.py`) | task set, readiness | loops, restart | a loop that raises | loops keep going |

Interaction is through the database alone, except for calls to providers, the connector
and the file system. Processing schedules extraction in the transaction that stores the
transcript; the review it stores is what approval reads; approval creates the intents
delivery claims; delivery reduces the intents into the meeting status; erasure refuses a
meeting with active work in either queue and hands its recording to cleanup.

`PROJECT.json` lists the components with their modelling status, and the hazards of the
code line by line with the properties that watch over them.

## 2. Plan

In the order in which it was carried out; each module is a component, and components
that share rows appear in each other's modules as what they do to those rows.

1. **Processing** with **Lifecycle**: model, runs, and every safety property that holds
   proved.
2. **Delivery** (outbox, control, gateway answers) with its abstract specification
   **Outbox**: model, runs, and every safety property proved, the refinement among them.
3. **ProviderBudget**: reservations and settlements, with the claims of one job as its
   environment; model, runs, and every safety property proved, over sums of any finite
   set of requests.
4. **Recording**: uploads, ingest ownership, cleanup jobs, quarantine, orphan discovery;
   model, runs, and every safety property proved.
5. **Erasure**: requests, waiters on a shared recording, checkpoint, tombstones and
   keyrings; model, runs, and its safety properties proved.
6. **Review**: edits and approval under digest ETags, with the workflow ledger and its
   pages; model, run, and both of its safety properties proved.

Every safety and action property that holds is a theorem (section 6). What is left: an
abstract life of one meeting implemented by Processing, Review and Delivery together;
several meetings in `Review`.

## 3. Modules

### Lifecycle

The transition tables of meetings and write intents (`domain/transition_rules.py`) and
`DeriveFilingStatus` (`application/state_machine.py:110`). Pure; used by the others.

### Processing

One action per transaction. What the code remembers between transactions is in `worker`.

| Variable | Code |
|---|---|
| `meeting` | `meetings` row: status, disposition of the failure, optimistic version |
| `artifact` | `current_transcript_id`, `current_review_id`; kept is the attempt that stored it, 0 for none |
| `job` | `processing_jobs` row of each stage; `live` for "lease not expired", `due` for "retry time reached" |
| `tokens` | claim tokens drawn; a uuid4 becomes the next number |
| `audit` | the latest processing event of a stage in the ledger |
| `worker` | one execution of `ProcessingWorker.run_once`: claimed job, step, failure at hand |
| `ops` | `meeting_operations` |

`Claim` is `_claim` whole: the repair of up to `RepairLimit` exhausted leases, the
claim of one due job, and `_prepare_claimed_attempt`, which may find that the previous
attempt had already been decided. The handler of either stage is the chain `Validate`,
`Load`, `StartStage`, `ProviderCall`, `CompleteStage`, with `FailStageInner` for the
handler around the provider call and `FailStageOuter` for the one around the stage;
then `FinishSuccess` or `FinishFailure`. The two stages run the same control over
different statuses, hence the `Pending/Active/Failed/Completed` operators. `Retry` and
`Cancel` are the operator's. `Crash` is a death, a cancelled task or an exception of a
finishing transaction: all of them leave the database alone and lose the memory.
`StoreFaults` lets a unit of work inside a handler raise, before or after its commit,
which the handler turns into a retryable failure.

Workers all claim under **one owner name**: the name is `host:pid:role`
(`bootstrap.py:797`), and a restarted container has its predecessor's host and pid.

The repair's batch limit is either 0 or `RepairLimit`, because `run_once` hands the rest
of its batch down; which expired leases a batch takes is left open.

### Delivery

One approved meeting and its intents.

| Variable | Code |
|---|---|
| `intent` | `write_intents` rows; `owner`/`live` are the delivery lease in flight and the reconcile lease while unknown; `code` keeps whether the failure code is one of `_AMBIGUOUS_FAILURE_CODES` |
| `receipt` | intents with a `write_receipts` row |
| `meeting` | filing status of the meeting |
| `op` | `delivery_operation_bindings` by request key |
| `actor` | memory of a delivery loop or of a request being served: step, intent, answer, plan |
| `records`, `stray` | the connector: records per intent, and creates whose caller has given up |

A delivery cycle is `run_once(1)`, as the supervisor calls it: `Recover`, then
`ClaimDueUnknown` and a reconciliation, or else `ClaimDue` and a delivery. A delivery is
`LoadExecution`, `Permit` (the authorizer's second look at the row, inside the gateway),
the exchange (`ConnectorApplies`, `GatewayAnswers`), and `RecordSuccess` or
`RecordFailure`. A reconciliation is `LoadReconciliation`, `Lookup`,
`RecordReconciliation`; recording an absence happens inside the `try` around the lookup,
so an exception there (`AbsenceRaises`) ends like a lookup that failed. A request is `SelectAndClaim`, then for each intent of its plan
`Renew` and `ForceClaim`/`Prepare`/`QueueRetry`, then `Complete`; `Release` when
something raised.

The code compares whole snapshots (`current != snapshot`). Every save moves the row's
version, so equality is "nobody saved the row since I read it": the boolean `seen`.
Uuid owners (reconcile and operation leases) are the actor's own identity. The selection
of a request is walked in any order.

`Punctual` says that an exchange ends while its lease is live. The deployment aims at
it: leases are `2 * call_timeout + 30` seconds (`bootstrap.py:793`). Without it a lease
may expire at any moment, and a create may arrive after its caller gave up. `HonorsKey`
says whether the connector keeps one record per idempotency key, which the architecture
asks of it.

### Outbox

What an approver may rely on, without rows, leases or retries: each intent is *open*,
*delivered*, *failed* or *doubtful* (a permanent conflict, whose create may have
happened), and the connector made none or one record of it. A record is made only of an
open intent, an intent is delivered only with a record and failed only without one, and
a delivered intent stays so. `Delivery` implements it with `outcome` mapped to status and
failure code, `made` to `records`; every claim, lookup, lease and request is a stutter.

### ProviderBudget

The budget of one processing job, over all its claims.

| Variable | Code |
|---|---|
| `account` | `provider_budget_accounts` row: stage, limits, `legacy_locked` |
| `job` | claim token of the running job and whether its lease is live |
| `tokens` | claim tokens drawn |
| `ledger` | `provider_budget_reservations` by dispatch key, with the settlement's usage |
| `worker` | an execution: step, claim token, dispatch key of the request at hand, counted input |
| `sent`, `spent` | the provider: requests that may have reached it, and what it charged |

A call of an extraction is `StartCall`, `Reserve` and `CountInput` for the input count,
then, under a key of its own, `Reserve`, `Send`, `Answer`, `Settle` for the response
(`infrastructure/openai_budget.py:158-250`); a transcription is one request
(`infrastructure/openai_transcription.py:288`). `ReconcileReservation` follows a unit of
work that raised, which may have committed. The provider serves what was sent whether or
not anybody still waits (`Serve`). `ChargeOf` is the `CASE` of `usage_for_job`.

Not told apart: the dispatch context (attempt, owner name, token) is its claim token,
for the token alone never comes back; digests and fingerprints are the dispatch key,
which is a fresh uuid because SDK retries are disabled
(`infrastructure/openai_agents.py:140`), so the branches for an existing row of the same
key belong to the reconciliation only. The triggers of `infrastructure/database.py:1587-1791` ask the same
questions inside the same transaction and are not modelled a second time. `Claim`,
`Finish` and `LeaseExpires` keep of Processing only who holds the job.

`Excess` is by how much a request may cost more than its reservation. 0 is what the
transports rely on: the input was counted, the output is capped, the duration measured.

### Recording

The recordings of one upload directory. One action is one transaction or one change of
the directory.

| Variable | Code |
|---|---|
| `root`, `quarantine` | the names present in the directory and in `.quarantine` |
| `content`, `old` | by storage id: what the file contains, and whether it is past the grace period |
| `asset` | `audio_assets`: the storage id owned for each digest |
| `meeting` | meetings and tombstones by ingest key |
| `cleanup` | `recording_cleanup_jobs` by storage key |
| `upload`, `cleaner`, `finder` | memory of an ingest request, of a cleanup worker, of orphan discovery |

A stored file is an inode; its temporary and its final key are two names of it. An upload
is `StartUpload`, `StageUpload`, `PublishUpload`, `FinishUpload` (`infrastructure/audio.py`),
then `CommitIngest`, then `SettleUpload`, which schedules the removal of a file that did not
become an asset. A cleanup is `ClaimCleanup`, then the steps of `execute`
(`infrastructure/recording_quarantine.py`): `VerifyRecording` decides which of the two names
to link or remove, `Reconsider` starts over when the file changed; then `FinishSuccess`,
`FinishFailure`, or nothing without a live lease. Orphan discovery is `StartScan`, `Scan`,
and for each recording of its page `SkipOwned`, `Identify`, `ScheduleOrphan`. An
unreadable file ends the cycle with the cursor where it was, so it meets the file again:
that is `FailScan`. `Stat` is what `lstat` reports; a change of names within one tick of
the file clock may go unnoticed, so the steps of a removal may go ahead (`Verified`) as
well as reconsider.

`Prompt` says that an upload settles before its file is older than the grace period.
Without it, discovery may meet a published file whose ingest has not committed.

### Erasure

The erasure of meetings whose recordings have the same content.

| Variable | Code |
|---|---|
| `meeting`, `asset`, `files` | the meetings there are, their assets, and their files |
| `cleanup`, `spare` | the cleanup job an erasure scheduled for an asset; that of a duplicate upload |
| `job` | `meeting_erasure_jobs`: status, recording state, checkpoint, lease, remediations |
| `tombstone`, `bindings` | the key an erased identity is remembered under; the accepted requests |
| `keyring`, `verifier` | the keys the service runs with; the secret registered for each key id |
| `wal` | the meetings of which deleted rows may still be in the write-ahead log |
| `worker` | memory of an erasure loop |

`Purge` is `_purge_meeting` with the history it removes, the waiters it promotes and the
cleanup it schedules; `Converge` and `Retry` are the other two outcomes of a request that
change something (a replay and a request refused for its version change nothing). A
loop is `Claim`, then `Truncate` and `RecordCheckpoint`, or `FinalizeSuccess` /
`FinalizeFailure` / `ReconcileNothing`. `Restart` starts the service with another
keyring that verifies. A token is the pair of a key id and its secret. What Recording
shows of a cleanup, that success means both names are gone, is the step `RunCleanup` here.
`retry_count` and `last_failure` of a job decide nothing and are left out.

### Review

One meeting from ingest to approval, as its reviewers see it.

| Variable | Code |
|---|---|
| `meeting` | status, version, current revision |
| `reviews` | `review_revisions`: content, and (history) what its author had seen |
| `approval`, `intents` | the approval with its recap, and (history) what its actor had seen; the projected `write_intents` |
| `ledger` | `workflow_events` of the meeting by sequence |
| `client` | what a person's client has seen, asks for, and where its request is |
| `reader` | a client that pages through the ledger |

A request is `Look`, `Ask`, `ReadVersion` (`AsyncWorkflowFacade` reads the version in a
transaction of its own) and `ServeEdit` or `ServeApproval`; `Answered` may lose the answer,
after which the client asks again or looks again. A digest is the content itself. The
three edits, `ProjectWriteIntents` and the order of the ledger's entries are translated
whole; evidence and local times are validated without a state of their own and left
out. Attempts are in Processing, `Cancel` is here what it does to the meeting, and what
delivery appends later is the same append. The last page a reader gets changes nothing it
must remember, so `ReadPage` keeps only pages with a successor, and `ReaderKnowsMeeting`
asks in every state what a last page would say.

## 4. Runs

| Run | Instance | What it shows |
|---|---|---|
| `processing_safety` | 1 meeting, 2 workers of one name, 2 operator requests, attempts 2 and 1, crashes and store faults unlimited | claims exclude each other, success is attributed to the attempt that stored, artifacts / status / ledger agree, a version admits one command, cancelled is final, a permanent failure needs an operator |
| `processing_live` | as above, 1 request, no store faults, fairness | jobs settle, stages end |
| `processing_failure_visible` | 1 worker, store faults | **fails as it should**: see Findings |
| `delivery_late` | 1 intent, 2 loops of one name, 1 operator, 2 attempts, 1 fault, not punctual | receipts agree with statuses and with the connector, the filing status follows the intent, leases protect rows, completed is final, attempts are bounded (in `TypeOK`) |
| `delivery_punctual` | 1 intent, 2 loops of distinct names, 1 operator, 2 faults, punctual, connector ignoring keys, fairness | Delivery implements `Outbox`: no second record, a definite failure means nothing was created; flights end, filing settles |
| `budget_safety` | 4 accounts, 2 executions, 4 keys, 3 claims, excess 1, store faults, crashes | spending stays within the account as long as requests cost what they reserved, the number of requests always does; the ledger covers what was spent; settlements are their own request's usage; claims reserve in order |
| `budget_live` | 2 keys, excess 0, no store faults or crashes, fairness | the cost of an answer that arrived is recorded, however late |
| `recording_prompt` | 2 storage ids, 1 content, 2 requests, 2 uploads, 1 cleaner, 2 attempts, 1 retry, page of 1, 1 fault, prompt | a meeting that is not erased has a complete recording |
| `recording_lapse` | 1 storage id, 1 upload, 2 cleaners of one name, 2 attempts, 2 faults, not prompt, fairness | a key has one owner, an asset's file is kept, a success means both names are gone, stray files go, cleanups end |
| `erasure_shared` | 2 meetings, 2 assets, 2 loops of distinct names, a key rotation, 1 remediation, 3 requests, 1 fault, fairness | erased meetings stay erased, completed means gone, waiters are served, no save is refused, an erasure alone in its cleanup group ends |
| `erasure_group_ends` | as above with 1 loop and one keyring | **fails as it should**: see Findings |
| `review_ledger` | 2 clients, 6 commands, 2 drafts, one approval key already used elsewhere, pages of 4, 8 versions, 3 revisions, 1 lost answer | what is revised and approved is what was seen; a reader of the ledger knows the meeting |

**Bounds.** Meetings do not interact in Processing except inside one repair batch, whose
per-row effect does not depend on the others, so one meeting with both of its stages is
the interesting instance. Two workers are the stale one and the current one; a third adds
no role. Two attempts make a first, a last and, after an operator's retry, a re-used
attempt number; a stage with one attempt makes the last attempt the first. Two keys are
two competing requests. `tokens` and `version` have no guard: retries consume keys, so
they stop growing.

In Delivery one intent meets every actor. The runs therefore do not reach
`partially_filed`, nor the reduction of several intents into one status (two intents with
these bounds are past what a run can explore): that the filing status follows any number
of intents is only shown by the theorem `FilingCorrect` (section 6).
`MaxFaults` bounds crashes and raised requests.

In ProviderBudget four dispatch keys are two whole extraction calls, or the third
transcription request that is refused; the extraction account admits two responses whose
reservations do not fit side by side but whose usage may, the transcription accounts run
out of audio first, or of requests, and the locked one admits nothing. Three claims are
two that overlap and one after both. `Excess` is 1 in the safety run, so that a request
may cost more than it reserved, and each property says what it then still promises.

In Recording one content uploaded twice needs two storage ids and two requests
(`recording_prompt`); the races of two cleaners over one file need one
(`recording_lapse`). A page of one makes every recording a full page, so the cursor moves.
Two faults are a lost lease and a crash, or an error of the disk and one of the database.
Two attempts are one that is retried and a last one; a lease that lapses in the last one
is taken over without counting another.

In Erasure two meetings share an asset, and one ingested after the last owner's erasure
gets the second. Three requests are both erasures and a retry of the failed group. In
Review two drafts are one that may be approved as it is and one with a blocking issue;
switching a delivery off and on brings a content back, so that a digest comes back with
another version; eight versions leave room for an extraction, two edits and an approval.

Symmetry among actors, requests and contents is used in safety runs only; they are
interchangeable there because each choice among them is an existential quantifier. The
delivery loops never stop, and deadlock is checked. Everywhere else the system really
stops: when every job is settled, every key and storage id is used, and every request
is answered; hence `CHECK_DEADLOCK FALSE` there.

**Fairness.** Each loop of the supervisor is `while True` around a body whose exceptions
it swallows and logs, with a sleep (`bootstrap.py:304-345`), and awaits the handler it
starts: weak fairness of a worker's steps and claims, of discovery, and of the erasure
loop. Lease ends, retry times and grace periods are reached by the clock. A served
request goes on. Provider and connector calls have timeouts, so an exchange ends. Nothing
is assumed of operators starting requests, of crashes, of connectors applying a create,
or of which answer comes.

`FilingSettles` needs two assumptions. Lookups answer (`SF` of `LookupAnswers`): the code
retries a failing lookup for ever, by design. Exchanges are punctual: otherwise a
reconcile lease could expire under every lookup.

**What the conditions of the instances are for.** `KeepsPromise` is checked with punctual
exchanges and distinct owner names. It is not promised without them: a create that
arrives after a lookup saw nothing makes a second record possible, and then the
idempotency key is the connector's to honour (`src/ARCHITECTURE.md:275-290`). Distinct
names matter because a delivery lease has an owner name and no claim token: a loop that
stalls between its claim and its load, while another of the same name claims the next
attempt, passes `_is_executable`. In one process that cannot happen, for the loop is
sequential; it could with two live replicas that report the same host name and process id.

`CompletedMeansGone` needs distinct names for the same reason: a loop that truncated the
log, lost its lease, and shares its name with the loop that has it now would record its
old truncation for the new claim. `MeetingHasRecording` needs prompt uploads: discovery
schedules a file older than the grace period that nobody references, and a slow ingest of
another process is nobody it knows of. `KeyHasOneOwner` and `OwnedIsKept` need neither
(`recording_lapse`), because the trigger on `audio_assets` refuses a reserved key.

## 5. Findings

* `processing_failure_visible`. `src/README.md:286` says that "retryable and terminal
  failure states are returned in the same meeting resource". In the run's trace a worker
  claims the transcription and dies, its lease expires, and the job is claimed again,
  for its last attempt. The unit of work of `_validate_job` raises
  (`application/workflow.py:361`, outside the `try` at 378, so `_fail_stage` is never
  called). `_execute` (`application/processing.py:385`) makes that a retryable failure,
  and with no attempt left `_finish_failure` (483) makes the job `failed` and changes
  nothing of the meeting, which is still `ingested`, with no failure. The repair looks
  for running jobs and `retry` wants a failed meeting, so of the operator's commands
  only the cancellation is left.

  The same end with the meeting in `transcribing`, where `cancel` is refused too, is a
  longer trace and not the one the run prints: the first attempt dies after `_start_stage`
  instead of before it. It was found with the same configuration and the invariant that
  the meeting of a failed job is not in that job's active stage. A raising `_fail_stage`
  on the last attempt is one more way there. While units of work do not raise, the
  property holds, crashes included: `FailuresShow` (section 6) proves it.
* `erasure_group_ends`. `src/ARCHITECTURE.md:298` says that "processing jobs, cleanup jobs,
  write intents, and erasure jobs use leases so abandoned work can be classified and
  recovered". When two erasures wait for one cleanup, `_reconcile_cleanup`
  (`application/meeting_erasure_worker.py:245`) refuses to go on while the other one is
  leased, and returns without giving back its own lease. Once one lease is abandoned, the
  two take turns: each is claimed when its lease has run out, finds the other leased, and
  leaves its own behind. `LoneErasureEnds` in `erasure_shared` shows that an erasure which
  shares its cleanup with nobody always ends.

## 6. Theorems

In `ProcessingProofs`, for every set of meetings, workers, owner names and keys, every
sharing of names, and every attempt limit:

* `TypeCorrect`: `Spec => []TypeOK`. `TypeOK` is inductive by itself. Its content is the
  queue: attempts never exceed their limit, lease fields exist exactly on a running job.
  `JobFits` states it for one row; each action has a lemma.
* `ClaimsExclude`: `Spec => []ClaimExclusive`. `ClaimExclusive` speaks of leases that
  are live *now*, and is not inductive: two workers with the same token, one with an
  expired lease, satisfy it, and nothing prevents the next step from breaking it. The
  strengthening is `ClaimsDistinct`: a busy worker's token was drawn (is at most
  `tokens`), and two busy workers on one job hold different tokens. It is preserved
  because only `Claim` gives a worker a token, a fresh one, and no other action takes
  the memory of one worker to another.

In `ProcessingOutcomeProofs`, in the same generality, and with or without store faults but
for the last:

* `SuccessStored`: `Spec => []SuccessIsTheAttemptThatStored`; `ArtifactsMatch`:
  `Spec => []ArtifactsMatchStatus`; `LedgerFollows`: `Spec => []LedgerFollowsJob`. They
  come from `AllFit`, which says of one meeting what each stage's job, artifact and last
  event have in common (`StageFits`) and which artifacts a status tells of (`StoryFits`),
  with `SeenStored`: a worker about to report success has seen the artifact. None of
  the three is inductive without the others: that a finished attempt is attributed
  correctly needs the attempt under which the artifact was stored to be the running one.
* `CancelledStays`: `Spec => CancelledIsFinal`, because `AllFit` leaves no queued or
  running job to a cancelled meeting, and every handler looks at the job first.
* `OneCommand`: `Spec => []OneCommandPerVersion`, from `BoundBefore`: every bound version
  is below the current one, and a version never decreases.
* `PermanentStays`: `Spec => PermanentNeedsOperator`, from `FreshClaims`: the worker that
  may start a stage of a permanently failed meeting holds the first attempt. It needs
  `ClaimsDistinct` for the worker whose claim another has taken over.
* `FailuresShow`: `~StoreFaults => (Spec => []FailureIsVisible)`. This is the property of
  the finding `processing_failure_visible`; the theorem shows that an exception of the
  store is its only cause, for crashes, expired leases, repairs and commands of any number.
  The strengthening is `OnTrack`, what a worker whose lease is live knows of its meeting at
  each point of the handler: nobody else has stored the artifact, the stage it started is
  still active, and by the time it reports a failure the meeting has failed. Only
  a store fault takes a worker off this track. `RunsInStage` says the same for repairs and
  claims, where no handler is left to ask: a running job without an artifact has its
  meeting pending, active or failed in that stage. `processing_live` satisfies the
  hypothesis.

The theorems of both modules rest on the `ASSUME`s of `Processing`: attempt limits are
positive integers, every worker has a name, and the sentinels are not members of the
sets they complete. TLC evaluates these in every run.

In `DeliveryProofs` and `DeliveryOutcomeProofs`, for every nonempty set of intents, any
loops, operators, names and keys, every attempt limit, punctual or not, and whatever the
connector does with idempotency keys:

* `TypeCorrect`: `Spec => []TypeOK`. The claim increments `attempts` without asking for
  a limit, so `TypeOK` is not inductive. `Fits` adds what the claim relies on: a pending
  or waiting intent has an attempt left; and that an actor at a working step has an
  intent. `RowFits` and `MemoryFits` state it for one row and one memory.
* `ReceiptsCorrect`: `Spec => []ReceiptsAgree`, `FilingCorrect`:
  `Spec => []FilingFollowsIntents`, `CompletedStays`: `Spec => CompletedIsFinal`. All
  three come from `Agreed`, which adds `Vouched` to them: an actor whose answer is a
  success or a find is at work on an intent of which the connector has a record. Without
  it a receipt could be stored for nothing. The argument goes by what a step does to the
  store: `StoreStep` says that it changes at most one row, never one that succeeded, with
  a receipt exactly for a success, and leaves the meeting filing, makes it filing again,
  or reduces it. Each action has a lemma that it is such a step (`Keeps`);
  `ChangesKeep` shows once that such a step keeps the invariant; and a completed meeting,
  whose intents have all succeeded, admits no `Changes` at all.

* `LeaseRespected`: `Spec => LeaseHolds`. That only the holder changes a row is decided
  by a comparison with what the holder read some steps ago. `Leased` adds `Snapshots` to
  `Fits`: an actor whose reading still counts (`seen`) is at work on a row with the status
  and the owner it read; every save makes the readings of the others stale, and time takes
  the life of a lease but not its name. The step lemmas say of each action that it is one
  of the `Moves`.
* `PromiseKept`: `Punctual /\ OwnNames => (Spec => KeepsPromise)`, the refinement of
  `Outbox`. `Promised` adds to `Agreed` and `Leased` that a row which says there is no
  record has none, no write has two (`RowClean`), and that a loop which has not yet made
  its create, or is waiting for it, runs its row under a live lease and without a record
  (`Clean`). Each action then is one of the steps of `Advances`, and each of these maps to
  a step of `Outbox` or to a stutter (`Turns` says which reports may follow which). Both
  hypotheses are the ones section 4 explains, and `delivery_punctual` satisfies them.

They rest on the `ASSUME`s of `Delivery`, among them that the approval projected at
least one intent: otherwise `approve` completes the meeting at once.

In `ProviderBudgetProofs`, for every set of accounts, executions and keys, any number of
claims, and with or without store faults and crashes:

* `TypeCorrect`: `Spec => []TypeOK`; `SettlementsCorrect`: `Spec => []SettledAsSpent`;
  `ClaimsInOrder`: `Spec => ClaimsReserveInOrder`; `LedgerCovers`:
  `Spec => []LedgerCoversSpend`. All come from `Inv`: `MemoriesFit` says
  which row an execution at a given step has in the ledger (none before its
  reservation, one before it sends), `RowsFit` relates a row to what was sent, charged
  and settled for its key, and a live lease is that of the last token drawn. Two
  executions never go by one key, so one lemma covers every action that writes a row
  (`WriteFits`) and one every action that does not (`GoOn`).

* `SpendLimited`: `Spec => []SpendWithinLimit`. The code adds up the charges of a job's
  requests, so the invariant `ChargedWithinLimit` speaks of a sum over all keys, and what
  has to be known of sums is proved first. The prover has no induction over sets; the
  lemma `SetInduction` stands for it, as a statement about the sets that are *not* good: of
  these there would be a smallest one, because the subsets of a finite set are well-founded
  (`WellFoundedInduction`). With it, `MapThenSumSet` is shown to be a function that takes
  away one key after another, and a sum of amounts to be the cardinality of a set of bars
  (`Bars`), which does not depend on the order. A reservation then adds what `Available`
  has compared with the limit; a settlement adds nothing. As in the property, a request
  that costs more than was reserved for it voids the limits on amounts, not those on
  requests.

They rest on the `ASSUME`s of `ProviderBudget`: the shape of an account above all, and
`KeysAssumption`, that the dispatch keys of a job are finitely many. A job makes finitely
many requests, each with a key of its own, and its ledger is a table of rows.

In `ErasureProofs`, for any meetings, assets, loops and keyrings, any number of requests
and faults:

* `TypeCorrect`: `Spec => []TypeOK`; `ErasedForGood`: `Spec => []ErasedStaysErased`;
  `WaitersServed`: `Spec => []WaitersAreServed`; `SavesAccepted`:
  `Spec => SavesAreAccepted`. All come from `Inv`: `Remembered` says that the running
  keyring is the registered one and knows every erased identity, which a restart keeps
  because it verifies every referenced key; `Grouped` relates a job's recording state
  to the asset, its users, its cleanup row and its file. `WaitersAreServed` alone is not
  inductive: that a waiter's asset is still used says nothing of the moment its last
  user is erased, unless every live meeting's asset is known to be stored.
* `CompletedIsGone`: `OwnNames => (Spec => []CompletedMeansGone)`, from `Clean`: when a
  truncation can be recorded for a job, nothing of its meeting is in the log. `OwnNames`
  says that no two loops share an owner name; it is an assumption of the theorem, for the
  reason given in section 4.

In `ReviewProofs`, for any actions, issues, drafts, clients and commands, any number of
revisions and lost answers:

* `ApprovalsAreOfWhatWasSeen`: `Spec => []ApprovedAsSeen`, and `TypeCorrect`:
  `Spec => []TypeOK`. The invariant adds to them that a meeting whose extraction has not
  ended has no review (otherwise its first review could replace one nobody saw), and
  that a request on its way asks for something. Each edit has a lemma that it makes
  valid content of valid content.
* `LedgerIsTrue`: `Spec => []ReaderKnowsMeeting`. The property replays the ledger with
  `FoldLeft`. By the lemma `Counting` (of the numbers that are not good there would be a
  smallest one) the fold over a list with one more event is shown to be `Replay` of the fold
  (`AccountMore`), and the intents of an approval to be exactly the enabled halves of its
  content (`IntentsAreEnabledHalves`). Then `LedgerFits`, that the events say what the
  meeting is, is inductive: each event has a lemma on what it says, and an approval is
  told by its first transition, the approval, one delivery after the other
  (`DeliveriesSay`) and its second transition. `ReaderFits` says that the reader has the
  events up to its cursor; what is appended changes nothing of that, and a page ends
  without a cursor exactly at the end of the ledger (`NextCursorIs`).

They rest on the `ASSUME`s of `Review`, among them `ActionsAssumption`: a meeting has
finitely many actions, which its directives list.

In `RecordingProofs`, for any number of files, contents, requests, uploads, cleanup workers
of any names, processes, retries and faults, prompt or not:

* `TypeCorrect`: `Spec => []TypeOK`; `OneOwner`: `Spec => []KeyHasOneOwner`; `OwnedStays`:
  `Spec => OwnedIsKept`; `SuccessIsGone`: `Spec => SuccessMeansGone`. `KeyHasOneOwner` is
  not inductive: a page that discovery read long ago, a worker whose row is gone and an
  upload that is still to publish may each bring a key back. `Inv` says what they cannot
  do. `UploadsFit`: uploads have files of their own, and none that is stored but not
  ingested is an asset's. `SeenFit`: a key that is a name of a file, or known to a job, to
  discovery or to a worker, belongs to an existing file that no upload is still to give
  this name. `FinderFit`: a stale file that this process is uploading is among those it
  takes for active, so no page holds one. `GoneFit`: what a worker calls removed is
  removed, and a worker whose job is gone has nothing to remove in the directory.
  `OwnedStays` follows from the last and from `KeyHasOneOwner`: whoever unlinks a name
  has a job for it, and then it is no asset's.
* `RecordingKept`: `Prompt => (Spec => []MeetingHasRecording)`. `Recorded` adds to `Inv`
  that the file of a pending upload is too young for a cleanup job, a page of discovery or
  a worker to have met its names (`Young`), and that what was verified is complete and what
  was published has its final name (`Whole`). An ingest then finds the recording whole,
  and `OwnedStays` keeps it. `Prompt` is the hypothesis section 4 explains, and
  `recording_prompt` satisfies it.

They rest on the `ASSUME`s of `Recording`: the ranges of its bounds, a process for every actor, a name
for every worker, and sentinels outside the sets they complete.

Every theorem rests on the named `ASSUME`s of the module it is about, all of which TLC
evaluates in the runs.

Model-checked only: liveness, as fairness and `ENABLED` are outside the prover: `JobsSettle`
and `StagesEnd` of Processing, `InFlightEnds` and `FilingSettles` of Delivery,
`LateCostRecorded` of ProviderBudget, `StraysGo` and `CleanupEnds` of Recording,
`LoneErasureEnds` of Erasure. The folds, `SetToSeq` and
`FlattenSeq` are the community modules', proved about by their definitions: the theorems
speak of what TLC evaluates.

## 7. Not modelled

* Provider and agent adapters, the provider error policy, hashing: their result is a
  nondeterministic outcome. `application/mapping.py` is `MayBeDrafted` of Review, what it
  leaves of a draft; evidence, owners and dates are resolved without a state of their own.
* HTTP parsing, authentication, rendering: Review has the preconditions, the version the
  facade reads, the lost answers and the event pages; the other commands are the
  operator's actions of each module.
* Configuration; migrations; CLI; logging; readiness.
* `ProcessingWorker.renew_lease`: nothing in the repository calls it; it only postpones
  a lease's end, which may come at any time anyway.
* A failed cleanup of an abandoned upload keeps its content from being erased until the
  row is repaired by hand (`infrastructure/repositories.py:373`): `Purge` waits for it as the
  code does, and no property says otherwise.
* Clocks that run backwards: `transition_*` refuse a time before `updated_at`; the models
  have no clock.
