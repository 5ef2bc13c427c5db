# A formal model of rpy

rpy turns Brazilian court cases into validated summaries. A case (a *process*,
identified by its CNJ number) is acquired from the paid provider Judit, whose
answers arrive as webhook callbacks; a durable queue in PostgreSQL carries the work
from one step to the next; public clients follow it through a status. This
directory models that machinery in TLA+, checks it with TLC and proves parts of it
with TLAPS. Source paths are relative to `src/`; `PROJECT.json` maps every
definition that models code to its lines.

## 1. Inventory

### Processes that run

| process | code | what it does |
|---|---|---|
| API | `app/api.py`, `app/api_v1.py`, `app/tracking_api.py` | public requests, webhook callbacks; each handler is a few transactions |
| worker, several of them, each with `concurrency` slots | `app/worker.py`, tasks in `app/judit_tasks.py`, `app/process_requests.py`, `app/judit_tracking.py`, `app/judit_attachments.py`, `app/rag.py` | claims jobs and runs handlers, renews leases, reclaims stale jobs |
| scheduler | `app/scheduler.py`, `app/tracking_scheduler.py` | retention purges, reconciliation of stale trackings |
| Judit, DataJud, model providers | external | paid calls whose answers may be lost; callbacks in any order, repeated or missing |

They share nothing but the database. Every SQL statement is atomic, transactions run
at READ COMMITTED, and only `FOR UPDATE`, unique indexes and upserts order them. The
windows between statements and between transactions are where things go wrong.

### Components

**Durable queue and worker** (`app/queue.py`, `app/worker.py`). State: a row of `jobs`
with status, attempts, max_attempts, worker_id, last_heartbeat, run_at; in each worker the
slot tasks, one heartbeat task per running job and one reclaimer task. Operations: enqueue
(deduplicated by key), claim (`SKIP LOCKED`), heartbeat, complete, fail with backoff,
reclaim of stale rows, purge. Hard: a handler that outlives its lease, deaths anywhere,
database calls that raise in the error path, slots that share one worker_id. Correct when:
attempts never exceed the budget; an attempt number names one execution; a settled row
stays settled; a job never stays in processing; an execution whose row was claimed again
settles nothing.

**Judit ingestion** (`app/api.py`, `app/processes.py`, `app/judit_tasks.py`).
State: `judit_deliveries`, `judit_request_completions`, `process_versions`,
`processes.current_version_id`, DataJud provenance, finalizer and follow-up jobs.
Operations: lawsuit callback (record the delivery, stage a version, look for a
completion, enqueue a repair), completion callback, finalizer (prepare outside the
transaction, choose the preferred version, finalize, promote or set aside, enqueue the
follow-up), purges. Hard: callbacks and finalizers that interleave, repeated and
forgotten deliveries, several finalizers of one process. Correct when: a finalized
version is history; the current version never goes back; an equivalence is true;
promotion and follow-up happen together; no usable response is left behind.

**Acquisition and public requests** (`app/process_requests.py`,
`app/public_lifecycle.py`, `app/public_lifecycle_worker.py`, `app/api_v1.py`).
State: one row of `tenant_judit_requests` per tenant and process, with status, attempt
number and Judit id; `public_summary_requests` linked with it; `tenant_processes`
(access). Operations: create and link a request, start another attempt, the paid call,
storing the id, recording a rejection or an ambiguous failure, the moves of the public
status by acquisition, finalizer, generation and the death of any of their jobs. Hard:
lost answers of a paid call, callbacks before the id is known, several jobs moving one
status. Correct when: nothing is paid twice; access is earned by an acquisition of the
tenant's own; the status never goes back; it completes only with a validated summary.

**Continuous tracking** (`app/judit_tracking.py`, `app/tracking_scheduler.py`,
triggers in `sql/023_judit_tracking_wiring.sql`).
State: a row of `judit_trackings` that is used again after a deletion, rows of
`judit_tracking_refreshes`, at most one open. Operations: create, delete, the two
provider calls, refresh, completion of a refresh. Hard: calls of an earlier mind that
end late. Correct when: an active row has a live tracking; a deletion stays; the
provider's id is not forgotten; no refresh is paid beside another whose answer is known.

**Summary generation** (`app/rag.py` and the modules it calls). State:
`process_summaries` with validation, provenance and telemetry. Operations: reuse of a
publishable summary, generation, the replacement rules of `_persist_summary`. Hard: two
generations of a version, a version replaced while its summary is written, chunks deleted
under a summary that cites them. Correct when: an approved summary gives way only to an
acceptable one; provenance points to what exists; every promoted version is answered.

**Attachments** (`app/judit_attachments.py`, `app/attachments.py`,
`app/attachment_processing.py`, `app/attachment_sandbox.py`). State:
`process_attachments`, chunks. Operations: download, extraction in a sandboxed child
process, state upserts, replacing the chunks. Correct when: no chunk survives the
state it belongs to; generation starts when every attachment has been decided; no page
with a text is lost; a chunk loses only white space.

**The answer of the provider** (`app/summary_output.py`, `app/claim_evidence.py`,
`app/claim_verification.py`, `app/validation.py`). No state. Operations: parse the
structured answer, attach references, verify each claim against what it cites, render,
validate the rendered text; later, parse and judge again what was stored. Hard: the same
rules are written several times (at acceptance, at persistence, at publication) and must
agree. Correct when: what is accepted is grounded and stays publishable; losing a source
unpublishes; the process itself is the authority on its own facts.

**Intake** (`app/judit_client.py`, `app/judit.py`, `app/datajud_enrichment.py`). No
state. Operations: classify a reply to a paid call, take an event, number the movements,
merge metadata. Correct when: only what was surely not created may be asked for again;
merging twice changes nothing.

**Embeddings, retrieval and reranking** (`app/embedding_runtime.py`,
`app/embedding_store.py`, `app/retrieval.py`, `app/reranking.py`). State:
`process_step_embeddings`, by version and space. Operations: fill a space in batches,
search it, choose the movements. Hard: executions that embed the same version at once or
die between batches; a process that becomes secret. Correct when: a search passes over no
movement because its vector is missing; mandatory movements reach the provider; nothing of
a secret process goes outside.

**Access control** (`app/api_key_auth.py`, `app/api_key_middleware.py`,
`app/tenancy.py`, `app/auth.py`). State: `api_keys`, `api_key_rate_limits`,
`access_log`. Operations: authenticate (lock, check, count), decide the scope, log.
Hard: requests of one key at once, a clock that is read twice. Correct when: no slot is
lost; a revoked key lets nobody in; the limit holds.

**Scheduler and retention** (`app/scheduler.py`). State: an advisory lock; it purges and
expunges by age. Hard: deaths between its statements, two schedulers at once, a callback
whose transaction is open while its process is expunged. Correct when: the raw
callbacks of an expunged process go with it, and no callback is on record whose answer was
never stored.

**Deployment and migrations** (`scripts/deploy_production.py`, `app/migrations.py`).
State: `schema_migrations`, the schema, the running image. Hard: deployments that overlap
or die. Correct when: services run on the schema of their image.

**Borders** (`app/egress_proxy.py`, `app/http_limits.py`). Correct when: only checked
addresses are connected to; no handler is given more than the limit.

**Front end, observability, operational scripts**: presentation, metrics, and tools
run by hand.

## 2. Plan

Order of work, most important behaviour first. Done: 1 to 10, with their theorems.

1. `JobContract`, the abstract queue, and `LeaseQueue`, the queue and its workers,
   shown to implement it; `LeaseQueueProofs`.
2. `Ingestion`: callbacks, versions and finalizers, on top of the contract;
   `IngestionProofs`.
3. `Acquisition`: paid requests, public status, access; `AcquisitionProofs`.
4. `Tracking`: one tracking and its refreshes; `TrackingProofs`.
5. `Summaries`: attachments and summaries of one version, with overlapping executions;
   `SummariesProofs`.
6. `Claims`, `Documents`, `Parsing`, `Retrieval`, `Intake`, `Gateway`: the rules that are
   functions of their input, checked over all small inputs by `Rules`; `RulesProofs`, the
   same for inputs of any size.
7. `Access`: requests of one key; `ServiceProofs`.
8. `Embeddings`: the vectors of a version; `ServiceProofs`.
9. `Rollout`: overlapping deployments and the migrations; `OperationsProofs`.
10. `Maintenance`: the scheduler loop and retention, beside the callbacks; `OperationsProofs`.
11. `Pipeline`: `Ingestion` and `Acquisition` composed through the finalizer, so that the
    outcomes `Acquisition` chooses freely are those `Ingestion` produces; abstract
    specification: what a public client may see.
12. A version with its restricted (secret) summary and its telemetry.

Every safety invariant, action property and refinement that a passing run checks is proved
(section 6); the three liveness properties are not. What is worth proving next are the step
refinement of `Pipeline`, when it is there, and whatever 12 adds to `SummariesInv`.

## 3. Modules

| module | models | state | actions |
|---|---|---|---|
| `JobContract` | what enqueuing code may rely on | status, key, attempts, limit of a job | Submit, Begin, Finish, Interrupt, Forget |
| `LeaseQueue` | `queue.py`, `worker.py` | the columns of `jobs`; per process its life cycle and reclaimer; per slot the place in `_slot_loop`, the claimed row and its attempt, the heartbeat task | one per SQL statement, handler outcome, database error, process event |
| `LeaseQueueProofs` | | | theorems about `LeaseQueue` |
| `Ingestion` | `api.py` callbacks, `processes.py`, `judit_tasks.py`, purges | the tables named above for one process, callback transactions and handlers in flight | open, stage, commit, abort a callback; prepare, read, apply, complete, fail a finalizer; reclaim; purge |
| `IngestionProofs` | | | theorems about `Ingestion` |
| `Acquisition` | `process_requests.py`, `public_lifecycle*.py`, `create_summary_job` | rows, public requests, attempts in flight, callbacks, jobs of the pipeline | create, link, load, call, store, record, bury; callbacks; finalizer, download, summary |
| `AcquisitionProofs` | | | theorems about `Acquisition` |
| `Tracking` | `judit_tracking.py`, `tracking_scheduler.py`, `sql/022`, `sql/023` | the row, the provider's trackings, the tasks of each attempt, refreshes | create, delete; load, call, record of each task; lose; reconcile; complete |
| `TrackingProofs` | | | theorems about `Tracking` |
| `Summaries` | `judit_attachments.py`, `attachments.py`, `rag.py` from the job to the stored row | states and chunks of the attachments, the row of the summary with its provenance, executions of both jobs | load, parse, replace chunks, mark, hand over; reuse, load, call, persist, record; refuse, fail; repair, supersede |
| `SummariesProofs` | | | theorems about `Summaries` |
| `Lists` | the comprehensions and loops over lists that the modules below share | none | |
| `Claims` | `claim_evidence.py`, `claim_verification.py` | none: operators on one answer | |
| `Documents` | `summary_output.py`, `validation.py` | none: operators on one document | |
| `Parsing` | `attachment_processing.py`, `attachment_sandbox.py`, `attachment_context.py` | none | |
| `Retrieval` | `retrieval.py`, `reranking.py` | none | |
| `Intake` | `judit_client.py`, `judit.py`, `datajud_enrichment.py` | none | |
| `Gateway` | `egress_proxy.py`, `http_limits.py` | none | |
| `Rules` | nothing itself: states what the six modules above must achieve | `case`, the input looked at | one per rule, choosing an input |
| `RulesProofs` | | | theorems about `Rules` |
| `Access` | `api_key_auth.py`, `api_key_middleware.py` | the key, its row lock, its window; each request; the log | begin, lock, read, take a slot; scope, serve; death; revoke, time |
| `Embeddings` | `embedding_runtime.py`, `embedding_store.py` | vectors stored; each execution | begin, look at the secrecy, read what is missing, send a batch, store it, search, filter, leave; become secret |
| `Rollout` | `deploy_production.py`, `migrations.py` | the lock, ledger, schema, running image; each deployment | preflight, lock, read the ledger, apply a file, start, release, die |
| `Maintenance` | `scheduler.py`, the callback of `api.py` | a process with its versions, deliveries and open callback transactions, with their ages; the lock, the stage of each scheduler and what its statement selected | one per statement of the loop, two for the expurgation; record, stage, commit, roll back a callback; finalize; time, loss of the lock |
| `ServiceProofs` | | | theorems about `Access` and `Embeddings` |
| `OperationsProofs` | | | theorems about `Rollout` and `Maintenance` |
| `MC...` | instances for TLC | | |

How the modules split time. In `LeaseQueue` every SQL statement is a step, since the
queue's statements commit one by one. In the others a transaction is one step where the
rows it reads are locked, and is split where another session can come in between:
a callback takes its timestamp (`NOW()` is the start of the transaction), stages and
looks for the completion, and commits; a finalizer prepares outside its transaction,
reads the preferred version, and applies it under the lock of the process row; a task
that calls a provider loads, calls and records.

How the modules use each other. `Ingestion`, `Acquisition` and `Tracking` do not repeat
the worker. They take a job as `JobContract` describes it: started at most max_attempts
times, possibly again while an earlier handler is still running, settled once.
`LeaseQueue` is proved to implement that contract, and the finalizer jobs, as `Ingestion`
abstracts them, are proved to stay within it. One thing is not in
the contract and has to be told: whether a handler whose job was started again can
still settle it. It can in another slot of the same worker, because slots share the
worker's id; `OneWorker` of `Ingestion` selects the case, and `ingest_liveness` and
`ingest_copies` run with it.

The rules of one input (`Claims` to `Gateway`) have no state and no order. `Rules` gives
them one: a behaviour chooses a rule and an input and holds it in `case`, so TLC
enumerates the inputs and each part of an invariant of `Rules` compares what the rule
computes with what it is for, stated without it. `MCService` puts `Rules`, `Access`, `Embeddings`,
`Maintenance` and `Rollout` in one instance. These share no state in the code either;
`about` chooses the component of a behaviour, and the others stay as they began, so the
states of the components add up and do not multiply.

Data is abstracted to what the properties tell apart. A payload is a model value, a
version's derived content the pair of its data and whether DataJud enriched it (the
semantic fingerprint is injective on these), time is the order of `created_at`.

## 4. Runs

Bounds are in the `.cfg` files and instances in the `MC` modules.

| run | shows |
|---|---|
| `queue` | two processes with two slots each, a row that may be of either kind, one database error anywhere, a completion whose commit is ambiguous included: types, `RetryBudget`, `LeasesUnique`, `StaleWorkerFenced`, `SettledIsFinal`, that the queue implements the contract, and `EveryJobSettles` through crashes, drains and lost leases, when database calls succeed |
| `queue_fence` (violated) | one process with two slots: a stale execution passes the ownership test after the other slot has claimed its row again |
| `ingest_copies` | a response sent in two versions and again after the purges: `FinalizedImmutable` |
| `ingest_rivals` | two requests for one process, one answered from the cache, two handlers: `EquivalentIsSame`, `CurrentMonotone`, `CurrentHasFollowUp` |
| `ingest_liveness` | two handlers in slots of one worker, two attempts: `PendingFinalizerDelivers`, `JobsFollowContract` |
| `acq_shared` | two public requests share an acquisition with two attempts: `PaidOnce`, `AccessIsEarned`, `CompletedIsBacked`, `NeverBackwards`, `IdIsKept` |
| `track_safety` | five changes of mind, two refreshes: `ActiveIsLive`, `DeletedStays`, `HandleKept`, `OnlyUnsureOverlap` |
| `track_closes` (violated) | a refresh whose completion comes before its id stays open |
| `summary_safety` | two overlapping executions of each job, one repair, two prompts: `EvidenceIsLive`, `HandedOverWhenDecided`, `ApprovedGivesWay`, and `VersionIsAnswered` under fairness |
| `summary_repair` (violated) | the repair of an approved summary whose evidence was deleted is not stored |
| `service` | the rules on all their small inputs: `SummaryIsGrounded`, `PublicationFollowsEvidence`, `DocumentsAreSound`, `ProviderSeesWhatItMust`, `IntakeIsSound`, `BordersHold`, each a conjunction of named parts; two requests of a key: `NoSlotIsLost`, `RevokedIsRefused`; two executions that embed a version: `SearchIsComplete`; two schedulers, which may lose the session of their lock, beside the callbacks of two answers: `OnlyStragglersStay`; four deployments that overlap and die: `SchemaIsServed`, `OnlyDriftFails` |
| `vectors_secret` (violated) | a process that becomes secret after the embedding runtime has looked is still sent outside |

A violated run checks one statement of the repository's documents or comments, quoted in
`PROJECT.json` under `findings`, which the code does not keep in the interleaving TLC
prints.

More statements that the code does not keep have no run of their own; put in place of the
property of the run named, where there is one, TLC refutes them as well:

* `NeverStuckProcessing` (`queue`): "returned to
  `pending` or moved to `dead`" (`docs/migrations/postgres-worker.md:47`), but a database
  error ends the reclaimer or a slot task for good (`app/worker.py:273-315`).
* `DerivedMatchesSource` (`ingest_copies`): a finalized version is immutable
  (`docs/migrations/finalized-version-immutability.md:5`), yet a finalizer that prepared
  from an earlier payload writes what it derived beside a newer one
  (`app/judit_tasks.py:175-180`).
* `NoLawsuitLeftBehind` (`ingest_rivals`): callbacks may come in any order
  (`docs/migrations/judit-out-of-order-completion.md:3`), but a lawsuit and a completion
  whose transactions overlap do not see each other (`app/api.py:382`).
* `ProvenanceIsTrue` (`ingest_copies` with two handlers): a finalizer that finds its
  version finalized still replaces its DataJud provenance (`app/judit_tasks.py:195`).
* `CallbackReconciled` and `CompletionReconciled` (`acq_shared`): callbacks that arrive
  before the Judit id is stored (`docs/release/mvp-readiness.md:16`) grant no access, and
  storing the id (`app/process_requests.py:221`) moves no public request.
* `RetryStartsFresh` (`acq_shared`): the death of a rejected attempt's job fails the
  public request that has already asked for the next attempt
  (`app/public_lifecycle.py:394`).
* `FreshIsSummarized` (`ingest_copies`): a fresh response enqueues the summary
  (`docs/migrations/judit-webhook.md:14`), but the finalizer reads `source_cached_response`
  with the preferred version (`app/judit_tasks.py:142`) before it locks the row and decides
  by what it read (`app/judit_tasks.py:226`), and `stage_version` rewrites the flag of a
  version that is not finalized (`app/processes.py:121-132`). A cached response that is sent
  again as a fresh one in between is recorded as fresh and never summarized.
* `OneRefreshAtATime` (`track_safety`): "Ambiguous provider/network failures are not retried
  blindly because the provider may already have accepted a paid asynchronous request"
  (`docs/deployment/judit-tracking.md:24`), but a refresh with an ambiguous answer becomes
  `failed_ambiguous` (`app/judit_tracking.py:432-438`) and leaves the unique index
  (`sql/022_judit_tracking.sql:34-36`), so that the scheduler enqueues the next one.
* `RateLimitHolds` (`service` with three requests, `Horizon = 4` and `Expires = 9`): the
  limit of requests per minute (`docs/engineering/api-key-security.md:42`); a request that
  waited for the row over the end of a minute sets the window back
  (`app/api_key_auth.py:99-112`).
* `CallbacksGoWithProcess` (`service`): "expurgo remove versões, JSONB, movimentos, vetores e
  callbacks brutos da Judit" (`README.md:216` of the repository), but a callback that
  commits between the snapshot of `expurgar` and its deletions loses its version and keeps
  its raw payload
  (`app/scheduler.py:27-56`); its repetitions are discarded until the delivery is purged.
* `OneScheduler` (`service`): "The scheduler must remain singleton"
  (`docs/deployment/production.md:37`), but a scheduler does not notice that the session of
  its advisory lock has ended (`app/scheduler.py:161-164`).

Five properties that hold say where they stop, and TLC refutes them without that:

* `PendingFinalizerDelivers` asks that no earlier handler of the job is left at work when
  the job waits. An earlier one that found no response completes the job of its successor
  when both run in slots of one worker (`OneWorker = TRUE`), which is the default; with
  `OneWorker = FALSE` the premise is not needed.
* `VersionIsAnswered` excepts a version whose attachment job ended without a hand-over
  (`EndedWithoutHandOver`): `mark_job_dead` has no case for `process_judit_attachments`
  (`app/public_lifecycle.py:394-423`) and a job that finds its version replaced returns
  without a word, so that the public request stays open.
* `CurrentHasFollowUp` speaks of versions whose copies agree on being fresh; where they
  do not, the statement is `FreshIsSummarized` above.
* `OnlyUnsureOverlap` lets a second refresh be paid beside one whose answer was ambiguous
  (`OneRefreshAtATime`).
* `OnlyStragglersStay` lets a raw callback outlive its version when it was committed while
  an expurgation was at work (`CallbacksGoWithProcess`). The purge of deliveries removes
  it when it is old enough; that it always does is not checked.

And four parts of `Rules` say exactly what the code refuses:

* `AcceptedIsPublishable`: a claim with facts that cites, beside what supports it, a part
  of an attachment whose share of the text budget is empty is accepted and stored, but has
  a relation without a digest, so its summary is never published.
* `AcceptedAgreesWithProcess`: the amount of the header is compared only after a text of
  the process that the claim repeats word for word has been accepted
  (`app/claim_verification.py:420-430`), and only when the claim cites the process.
* `CanonicalUnless`: a text that begins with a control character and is exactly at the
  limit is too long once the joiner is put before it; and the promotion of a process takes
  header fields and party fields as the provider sent them, while a stored document with
  an object among them is refused. Such a summary is never published. The class name is
  rendered on a line of its own without the joiner's guard (`app/summary_output.py:369`);
  `RenderedIsWellFormed` takes it as plain.
* `RepeatedOnlyIfRejected` rests on what the code assumes of the provider: a reply with a
  4xx status other than 408 and 429 created nothing.

The search of `Embeddings` takes its limit before private movements are dropped
(`app/embedding_store.py:63`, `app/retrieval.py:221`), as the code does: they take places,
and they are embedded, too. `SearchIsComplete` is about the search alone.

`TypeOK` of `Ingestion`, `Acquisition` and `Summaries` is not among the properties of the
runs; it holds on the instances of `ingest_copies`, `acq_shared` and `summary_safety`.

Why the bounds are enough. The races of this code are between two executions of one thing:
two slots, two callbacks, two finalizers, two attempts. Each instance has two of what its
properties relate, one more process than that where a successor is needed, and attempts up
to 2 so that a retry and the exhaustion both occur. `queue` has one row: rows meet in a
slot, which runs one after the other, and in the idempotency key. The properties compare
at most two rows, and rows of different jobs, tenants or processes meet nowhere in the
code except in the keys and indexes that are modelled. `Summaries` has one attachment,
because the attachments of a version meet only in the hand-over, and no more than two
executions of a job, because a third could only repeat what the second does; its
`VersionIsAnswered` is checked on the same 730,000 states. The search of `service` has
four movements, one without a text and one private, two of them as near to the query as
each other, and a limit of two. The limits in `Rules` (lengths, counts, sizes) are small
numbers in place of the code's, chosen so that inputs lie below, at and above each of
them; the number of items is one more than the smallest limit at least. `service` has two
requests per key (the lock relates two). Its two answers let one be expunged with the
process while the callback of the other is open, on four days with a retention of one, so
that a callback comes before, during and after the day on which the process is old enough.
The four images of `Rollout` contain a successor, a migration that sorts between two
others, a fork that changed an applied file, and an invalid one. `Acquisition` is run with
one tenant: rows of different tenants share no state but the version, which `Ingestion`
has.

## 5. Fairness

`LeaseQueue`: slots, heartbeats and the reclaimer of a live process go on (an event loop
runs its tasks), a process that ended is started again (`restart: unless-stopped` of the
compose files), delays pass. Nothing is promised of crashes, submissions or errors.
`EveryJobSettles` asks for an outcome only as long as no database call has failed, because
the code promises nothing beyond that (`NeverStuckProcessing` in section 4).

`Ingestion`: handlers go on, a callback transaction goes on, and PostgreSQL grants a row
lock in the order of requests (strong fairness of `Apply`). A job whose handler is gone
is reclaimed. Nothing is promised of Judit.

`Summaries`: an open job is started and an execution takes its next step, at the latest
when its lease is taken away, which `LeaseQueue` shows. Nothing obliges Judit to send a
repair or a new version.

`Acquisition` and `Tracking` state no liveness: their jobs have one attempt and the loss
of one is final, which the code accepts in order not to pay twice. Nor does `Maintenance`:
a scheduler whose statement fails every time removes nothing.

`CHECK_DEADLOCK FALSE` is set everywhere: every model ends when its bounded inputs are
used up and the work is done (in `service` the rules, which look at one input, do).

## 6. Proofs

`LeaseQueueProofs` proves, for any number of jobs, keys, processes, slots and attempts,
and from `ConstantsAssumption` alone:

* `TypeCorrect`: the type invariant.
* `BudgetKept`: `RetryBudget`. It is not inductive: a submitted row starts with the
  attempts it has, so `BudgetInv` adds that a row not yet inserted has none.
* `LeasesAreUnique`: a claim hands out the number after the row's attempts, so nobody
  holds it. `HoldsRow` (an active slot holds a row that is in the table or was purged
  after it) is what makes the numbers of active slots comparable.
* `SettledStaysSettled`, an action property.
* `QueueImplementsContract`: every step of the queue is a step of the contract or a
  stutter. The lemma `StepEffect` sorts the steps by what they do to the table.
* `StaleWorkersFenced`: once another process has claimed a row again, the process that lost
  it fails the test of heartbeat, complete and fail. It says nothing of two slots of one
  process, and cannot: see `queue_fence`.

`IndInv` is the conjunction of these invariants, and `InvHolds` proves it once.

`TrackingProofs` proves, for any number of attempts and refreshes, and from
`TrackingAssumption` alone:

* `TypeCorrect`: the type invariant.
* `ActiveTrackingsAreLive`, `HandlesAreKept`: both follow from `RowInv`. None of its
  parts is inductive alone. The row may only name a creation that is over (`KnownEnded`),
  or a late answer to that creation could be confused with it; a creation not yet
  recorded is live (`MadeIsLive`); one deletion is at work at a time, the row waits for
  it (`OneDelete`), and it deletes what the row names (`LoadedIsKnown`) until that is
  gone (`GoneIsGone`). There is one lemma for the requests of the user, one for each
  task and one for its loss.
* `DeletedStaysDeleted`: an action property that needs the types only, and the guard
  `StillCreating`.
* `RefreshesAreSerial`, from `RefreshInv`: of two refreshes that are with a worker, or
  accepted and not completed, one has an ambiguous answer. The unique index admits one open refresh
  (`OneOpen`), a refresh stays pending while its job is at work (`FlightIsPending`) and
  processing while its request is not completed (`StoredIsOpen`).

`IngestionProofs` proves, for any requests, responses, versions, callbacks and handlers, and
from `IngestionAssumption` alone:

* `TypeCorrect`, from `IngestionInv` and `JobInv`.
* `EquivalentAlwaysSame`, `CurrentAlwaysFollowedUp`: both are parts of `VersionsSound`. A
  version that another is said to be equivalent to must never change again, so it has to
  be finalized; the current version is finalized and not set aside itself
  (`CurrentIsFinal`); and a callback leaves a finalized version alone because it has a row
  (`FinalIsStaged`), which a finalizer has seen when it applies (`HandlersSawRow`).
* `CurrentIsMonotone`, `FinalizedIsImmutable`: action properties that use the same parts.
* `FinalizersFollowContract`: every step of `Ingestion` is a step of `JobContract` on the
  finalizer jobs or a stutter, with `AttemptsFit` (a waiting job has an attempt left). It
  assumes `Forgotten \cap JobKeys = {}`, no finalizer job among those whose rows are
  purged: a purged key may be enqueued again, and the contract has no such step.

`AcquisitionProofs` proves, for any tenants and public requests and any number of attempts,
and from `AcquisitionAssumption` alone:

* `PaidAtMostOnce`: `AttemptsSound` ties each paid attempt to its row: it is the latest,
  and the row is being processed or failed ambiguously, which admits no further attempt.
  Two paid attempts of a tenant would both be the latest. A handler that is still at work
  and a job that waits must be the latest as well, or a late call could pay.
* `AccessAlwaysEarned`: a callback grants by the id of the row, which `RowsSound` and
  `HooksSound` tie to a paid attempt of the tenant's own.
* `CompletedAlwaysBacked`, with `ReportsAreTrue`: a summary job says that its summary passed
  only after the summary was published.
* `PublicNeverBackwards`, `IdAlwaysKept`: action properties.

`SummariesProofs` proves, for any attachments, repairs, executions and prompts, from
`SummariesAssumption` and without the fairness:

* `TypeCorrect`.
* `EvidenceAlwaysLive`: a text that waits to be stored cites only chunks that were sent to
  the provider (`GensSound`), and storing it looks them up again.
* `HandedOverOnlyDecided`: an execution that is about to hand over has seen every attachment
  decided (`TasksSound`), whichever execution decided it, and a decision stays.
* `ApprovedGivesWayOnly`, an action property.

`ServiceProofs` proves, for any number of requests, any limit and any length of the minute,
and from `AccessAssumption` alone:

* `SlotsAreCounted`: the count of the window is the number of slots given. It needs that
  whoever is between the check and the commit holds the row (`HoldersHaveRow`) and that
  the count it read is still there (`ReadIsCurrent`).
* `RevokedStaysOut`, an action property: a revocation waits for the row, so nobody holds
  it afterwards (`RevokedHoldsNothing`).

`RateLimitHolds` is not among them: it is false (section 4). And for any number of
movements, executions and spaces and any size of a batch, from `EmbeddingsAssumption`,
`SearchSeesWholeVersion`. `SoundRun` says what holds of one
execution, given the vectors; `OneRunMoves` shows once that a step of one execution which
only adds vectors leaves the others sound, and each action is an instance of it.

`OperationsProofs` proves, for any deployments and images, from `RolloutAssumption` (an
image lists each name of its migrations directory once):

* `SchemaAlwaysServed`: services that run find in the schema all files of their image.
  `PassedIsRecorded` says that a deployment has passed only what is in the ledger as its
  image has it, `LedgerIsOfImages` that the ledger has one text under a name, so nothing
  passed is contradicted later.
  A file is about to be applied only by the deployment that holds the lock, and is still
  missing then (`MigratorsHaveLock`), so the schema lists each name of the ledger and lists
  it once (`SchemaIsListed`).
* `OnlyDriftEverFails`: a valid deployment fails only at a file that another image has under
  the same name with another text, because `LedgerIsOfImages` names that image.

and, for any schedulers, answers and retention, from `MaintenanceAssumption`:

* `StragglersOnly`: `OnlyStragglersStay`. What an expurgation at work has not selected came
  after it had selected the process (`SelectedOrLate`), also when several are at work,
  because none forgets what another one selected unless it was deleted.

`RulesProofs` proves the six invariants of `Rules` for inputs of any size: `GroundedForAnyInput`,
`PublicationForAnyInput`, `DocumentsForAnyInput`, `ProviderForAnyInput`, `IntakeForAnyInput`
and `BordersForAnyInput`. The limits of the rules are those of the modules. What is assumed
of an input is in `AnyAnswer` to `AnyTags`: its shape, and for a
reply and a text with facts what the enumeration assumes as well (a provider that rejects a
call has not acted; the source has the facts `ForeignFacts` at most). `RulesHold` concludes
that they are invariants of `RulesSpec`, since every input chosen there is such an input
(`InputsAreSound`). Along which argument:

* Loops over a list are recursive functions of a position. `StepwiseExists` and
  `JumpingExists` show that such functions exist (the chunker jumps ahead, so its function
  is built from the end), and `ReachesAll` is induction up to a bound; all three rest on the
  least element of a set of numbers, `LeastExists`, since an induction theorem over a
  predicate is out of the prover's reach.
* The rules on sections: `Shaped` states that the headings of a rendering ascend in one list of all
  titles; it is kept by joining parts of which one ends before the other begins
  (`JoinShaped`, `JoinAscends`), and implies the order of both kinds of sections.
* Components: `Depth`, the opening tags minus the closing ones, is what the reader has on
  its stack, and each place of the stack was put there by the last tag that opened at that
  depth (`Levels`, `OpenerIsUnique`). So the tag a closing one is compared with is the one
  it matches, and the reader accepts what nests (`NestedIsRead`) and nothing else
  (`ReadIsNested`).
* Budgets and ranks: `RunningTotals` is bounded position by position, ranks are
  cardinalities of sets of positions.

TLC has checked the inductive invariants on the instances of the runs before they were
proved: `RowInv` and `RefreshInv` on `track_safety`, `AcquisitionInv` on `acq_shared`,
`IngestionInv` on `ingest_rivals`, `SummariesInv` on `summary_safety`, `RolloutInv` and
`RetentionInv` on `service`.

Only model-checked: `EveryJobSettles`, `PendingFinalizerDelivers` and `VersionIsAnswered`,
which are liveness under fairness and out of the prover's reach, and the statements of the
violated runs, which are false. No module uses RECURSIVE.

## 7. Not modelled

Hazards of the code that are known and that no property covers, beside those listed in
`PROJECT.json`, because no document says what ought to happen or because the effect is
outside the models:

* A worker that dies between Judit's answer and the storing of the id leaves a request
  that nobody finds (`app/process_requests.py:190`): accepted so as not to pay twice.
* A public request linked with an acquisition whose jobs have ended, or whose attachment
  job died, stays where it is (`app/process_requests.py:111`,
  `app/public_lifecycle.py:425`); a lost refresh stays open
  (`app/judit_tracking.py:425`).
* A repair may generate before the attachments are decided (`app/judit_tasks.py:277`); a
  late execution may leave an attachment pending (`app/attachment_processing.py:622`); a
  busy parser makes a document unreadable for good (`app/attachment_sandbox.py:134`).
* Budgets that contradict each other in the configuration (`app/rag.py:645`), a statement
  of the scheduler that always fails (`app/scheduler.py:170`), a reindex that resumes
  behind new versions (`scripts/reindex_embedding_space.py:31`).

The rest:

* The order of claims and the length of the backoff: every caller uses one priority, and
  no property depends on how long a delay is.
* How facts are found in a text (regular expressions, Unicode filtering), what a model
  answers, scores and vectors, what Tesseract and pdfium recognise: inputs of the rules.
* Glossary, related processes, the restricted summary of a secret process, telemetry.
* Polling of Judit for a response, the DataJud query itself, the tracking callbacks that
  grant access (trigger in `sql/023`) and the batch endpoint.
* Static tokens, webhook tokens and browser origins: comparisons without state. The second
  `FOR UPDATE`, on the row of the window (`app/api_key_auth.py:87`): the row of the key is
  locked already, so that it orders nothing more.
* The relaying of bytes by the proxy, response headers, the database pool, what a
  migration does to the tables.
* The read endpoints, the front end, metrics, logs and operational scripts (no state
  that others rely on).
* The deletion of a tenant while work is running.
* Serialization failures and deadlocks of PostgreSQL appear as the failure of a handler
  or the rollback of a callback.
