# Verification of the document-ingestion platform

TLA+ models of the document pipeline of this repository: an HTTP API accepts
documents, a queue carries ingestion jobs, workers turn a document into chunks
and vectors and publish them as one *index generation*. The models are
translated from the Python sources; TLC checks them on small instances and
TLAPS proves theorems about them for every instance.

- [Inventory](#inventory)
- [Plan](#plan)
- [Modules](#modules)
- [Runs](#runs)
- [Proofs](#proofs)
- [Divergences](#divergences)
- [What is not modelled](#what-is-not-modelled)

## Inventory

Paths are relative to `src/`; `app/` stands for
`packages/application/src/ia_application/`, `aws/` for
`packages/aws-clients/src/ia_aws_clients/`, `api/` for
`apps/backend-api/src/ia_backend_api/`.

| Component | State it keeps | Operations | What makes it correct |
|---|---|---|---|
| Document-version lease (`aws/dynamodb_ingestion_lease_repository.py`) | one DynamoDB item per tenant, document and source version: owner (job id), execution token, fencing token, expiry | `acquire`, `renew`, `release` | one live holder; a token never granted twice; nobody deletes another's item |
| Ingestion service (`app/ingestion.py`, `app/recoverable_ingestion.py`) | none of its own; it drives the records and stores below through about fifteen awaited calls | `ingest` | publication is atomic; failures leave the active generation alone; jobs settle; nothing is orphaned |
| Control records (`aws/dynamodb_document_repository.py`, `..._ingestion_job_repository.py`, `..._index_generation_repository.py`, `..._index_activation_repository.py`) | document (status, active generation, revision, last token), job, fingerprint marker, generation | `save` with a revision, `submit`, `claim`, fenced `save`, `activate` and its reconciliation | the four records agree about what is published; a success is never overwritten |
| Generation stores (`aws/s3_chunk_store.py`, `aws/s3_vector_manifests.py`, `aws/s3_vectors.py`) | chunk objects, vectors and a manifest of the keys of each | `put_batch`, `upsert`, `delete_generation`, `query` | the manifest covers what is stored; the active generation is complete |
| Worker (`app/reliable_worker.py`, `api/document_worker.py`) | a received message; the ingestion and the heartbeat as two concurrent tasks | `run_once`, `_heartbeat`, `_fail_job`, `_save_reused_result` | a message is acknowledged only when its job is settled; ownership lost means work stopped |
| Document management (`app/documents.py`) | none of its own | `register`, `create_upload`, `submit_ingestion`, `get_job` | one submission per idempotency key; a persisted job can be dispatched |
| Queue adapter (`aws/sqs_ingestion.py`) | SQS: groups per document, visibility, receive count | `enqueue`, `receive`, `acknowledge`, `extend_visibility` | one delivery of a document at a time, while visibility lasts |
| Source store (`aws/s3_document_sources.py`) | temporary and immutable source objects | `create_upload`, `promote_upload`, `inspect`, `read` | a promotion that stops half way can be repeated |
| Chunking (`app/chunking.py`) | a cursor while it runs | `chunk` | windows advance, cover the text, respect the bounds |
| Embeddings (`aws/bedrock_embeddings.py`) | a semaphore | `resolve_profile`, `embed` | every vector belongs to its text, whatever order the calls are answered in |
| Token verification (`packages/security/.../cognito.py`) | cached keys, expiry, last refresh, a lock | `get_key`, `verify` | bounded refreshes, no key used after its expiry |
| Chat sessions (`aws/dynamodb.py`, `api/sessions.py`) | a table of sessions and its index of users | `create`, `list`, `get`, `delete` | a session is deleted once; what exists is found; a listing is complete |
| Messages, usage, profiles (`aws/dynamodb.py`) | single items | `append`, `save`, `list` | nothing calls them yet |
| API, readiness, settings, Terraform | configuration and probes | | |

How they interact: `submit_ingestion` takes the lease as `submit:<job>`,
stores the job PENDING and enqueues it. The worker receives the message, reads
the job, and runs `ingest` and the heartbeat concurrently. `ingest` takes the
lease as `<job>`, claims the job and the marker of its fingerprint in one
transaction, builds the generation, activates it in a five-item transaction and
releases the lease in a `finally`. The heartbeat renews the lease and the
message's visibility, and cancels the ingestion when either fails. Everything
meets in the DynamoDB control table; there are no locks.

What is hard:

- *interleaving* - every `await` is a point where another worker may run; two
  deliveries of one job, two jobs of one document and two jobs with one
  fingerprint contend for the same items;
- *expiry* - a slow holder and its successor both believe they hold the lease;
- *tokens* - ownership is judged by comparing fencing tokens, and the counter
  lives in the item that a release deletes;
- *ambiguous calls* - a write may take effect although its caller sees an
  exception, and a cancelled call runs on in its thread (`asyncio.to_thread`);
- *partial failure* - cleanup is best effort and itself made of several calls;
- *crashes* - the job and the marker stay RUNNING until somebody claims them.

The hazards that follow from these, each at the line where it bites and with
the properties that catch it, are listed in `PROJECT.json`.

## Plan

In order of importance; what is not marked *planned* is done.

1. `Lease` and `LeaseProofs` - the lease with its clock, proved.
2. `Ingestion` - the whole of `ingest()` over the control records and stores,
   for one document version.
3. `Publication` - the abstract promise to a reader, implemented by `Ingestion`.
4. `Worker` - `run_once` over the queue: deliveries, acknowledgements, the
   heartbeat's outcomes and the saves of stale job copies.
5. `Submission` - registration, upload, promotion, submission and dispatch.
6. `GenerationStore` - manifests, objects, vectors and their deletion;
   `Ingestion`'s none/part/all is its abstraction.
7. `Chunking`, `Embedding` and `EmbeddingProofs` - the window loop and the
   embedding of its chunks, proved.
8. `KeyCache` and `KeyCacheProofs` - the JWK cache, proved.
9. `Sessions` - chat sessions over a table and its lagging index.
10. `IngestionProofs`, `SubmissionProofs`, `WorkerProofs`, `GenerationStoreProofs`,
    `SessionsProofs` and the second half of `EmbeddingProofs` - the inductive
    invariants of these modules, and from them all safety properties of the runs.
11. *Planned*: `ChunksAdvance`; the tokens of a document across its jobs and
    submissions, as one model.

Composition. `Embedding` extends `Chunking` and is shown to implement it;
`Ingestion` implements `Publication`. `Worker` and `Submission` each reduce the
rest of the pipeline to the calls that touch what they share with it (the lease,
the job records), because the product with `Ingestion` is out of TLC's reach.

## Modules

### Lease

`aws/dynamodb_ingestion_lease_repository.py`, with the calls around it in
`app/ingestion.py`, `app/documents.py` and the heartbeat of
`app/reliable_worker.py`. `item` is the DynamoDB item; `now` a discrete clock;
`sampled[a]` the clock value the attempt read *before* its call, which is what
the code compares `expiresAt` with; `claim[a]` what the attempt was told.

| Code | Action |
|---|---|
| clock read before `acquire` | `Begin` |
| `get_item` of `acquire` | `ReadLease` |
| `update_item`: applied / applied, answer lost / rejected | `Acquire` / `AcquireUnanswered` / `AcquireRejected` |
| heartbeat reads the clock and sends `renew` | `BeginRenew` |
| `renew`: applied / rejected or failed | `Renew` / `RenewFails` |
| `release` | `Release` |
| process death or a delete that fails | `Crash` |

A renewal in `beating` outlives its attempt: the coroutine is cancelled, the
thread that carries the request is not. Owners are a function of attempts, so
several deliveries of one job share an owner, as they do in the code.

### Ingestion

`DocumentIngestionService.ingest()` in the variant that `api/main.py` wires,
for one source version of one document. An *attempt* is one call; `pc[a]` names
the awaited call it makes next. The write of each call is an operator
(`TakeLease`, `WriteClaim`, `WriteActivation`, ...) whose conjuncts are the
DynamoDB condition expressions, so that a write whose condition fails is not
enabled and its rejection is a step of its own. `Effect(a, call)` collects
them: the same write happens when the call succeeds, when its reply is lost,
and when its coroutine has been cancelled and the thread finishes later.

| Code | Model |
|---|---|
| `documents.get`, `find_by_fingerprint` | `GetDocument`, `FindExisting` |
| `leases.acquire` | `AcquireLease`, `LeaseBusy`, `LeaseBlocked`, `RereadLease` |
| `jobs.claim` | `ClaimJob`, `ClaimRejected`, `FindWinner` |
| `generations.save(BUILDING)`, `documents.save(PROCESSING)` | `SaveBuilding`, `SaveProcessing`, `SaveProcessingRejected` |
| extract, chunk, embed | `RejectContent` (success changes no record) |
| `put_batch`, `upsert`, `generations.save(READY)` | `PutChunks`, `UpsertVectors`, `SaveReady` |
| `activate` and its reconciliation | `Activate`, `ActivateRejected`, `Reconcile`, `ReconcileUnread` |
| supersede the previous generation | `SupersedeGeneration`, `RetireData` |
| the `except` block | `CleanupData`, `FailGeneration`, `RereadDocument`, `RestoreDocument`, `FailJob`, `FailJobRejected` |
| the `finally` block | `ReleaseLease` |
| heartbeat loss | `Cancel`, then `Land` for the call in flight |

Abstractions. A generation id is a hash of fingerprint, job and token, and is
modelled as that triple; a record that stores the id next to the three fields
stores the triple once. The clock is reduced to `lease.live`, which `Expire`
clears; a condition that compares `expiresAt` with an earlier clock value may
succeed or fail once the lease has run out, and both are allowed. `completed`
stands for the timestamp by which the reconciliation recognises its own commit.
Extraction, chunking and embedding write nothing and are one step. A store
holds none, part or all of a generation.

Faults are named in `AllFaults`; a run enables some (`Faults`) and bounds how
many happen (`MaxFaults`). `Serial` restricts attempts to one at a time: the
queue is FIFO with one group per document (`aws/sqs_ingestion.py`), so that two
attempts overlap only when visibility is lost.

Before each write section the modules define the *faulty variants* of single
definitions (a dropped condition, a missing reset) that show each property
depends on the code it is about.

### Publication

What a reader of the document may rely on: the active generation and the
outcome of its job change in one step, a fingerprint is published by one job,
an outcome is never withdrawn, tokens of active generations grow.
`Ingestion` implements it with `active <- doc.active` and a job's generation as
its outcome once it has succeeded.

### Worker

`app/reliable_worker.py`, `aws/sqs_ingestion.py` and the job repository, for
jobs with one fingerprint. `pc[w]` names the call worker `w` makes next, `run[w]`
what it remembers of its delivery: the receipt and the *copy* of the job it read
first, which it saves later. `msgs` holds place, receive count and receipt of
every message.

| Code | Action |
|---|---|
| `receive`, `acknowledge`, visibility, redrive | `Receive`, `Acknowledge`, `BecomeVisible`, `DeadLetter` |
| reads of the job before and after `ingest` | `ReadJob`, `Reread` |
| `ingest`: fingerprint, lease, claim, build, activate, handler, `finally` | `Find`, `Acquire`, `Claim`, `Produce`, `Publish`, `RecordFailure`, `Release` |
| `_fail_job`, `_save_reused_result` | `FailJob`, `SaveReused` |
| heartbeat raises or finds the job settled; the ingestion is cancelled | `HeartbeatStops` |

`Accepts` is the condition of `jobs.save`: a copy with a fencing token is saved
under the marker, one without is put unconditionally. A successful heartbeat is
the absence of the faults `expire` and `visible`.

### Submission

`app/documents.py`, `aws/s3_document_sources.py`, the create and submit paths of
the repositories and `start_document_ingestion`. A request's `pc` runs through
`ReadDocument`, `ReadJob`, `Acquire`, then - with an upload - `HeadUpload`,
`CopyUpload`, `DeleteUpload`, then `InspectSource`, `SaveUploaded`, `SubmitJob`,
`Enqueue`, `ReleaseLease`. A client may put to its presigned URL at any time
(`Put`), a lifecycle rule removes temporary objects (`ExpireUpload`), and a
worker takes sent jobs (`WorkStarts`, `WorkEnds`). Object content is `match` or
`other`, by the checksum the document was registered with; an ETag is a number.
`other` is more than S3 allows when the signed checksum is enforced.

### GenerationStore

`aws/s3_chunk_store.py`, `aws/s3_json_store.py`, `aws/s3_vector_manifests.py`,
`aws/s3_vectors.py`, for one generation: one writer, one removal by
generation id and one by document. `put_batch` starts its puts together:
`StartPut`, `LandPut`; when one raises, `gather` returns and the others run on,
so that objects land during the cleanup (`late`). A deletion reads its manifest,
deletes in batches that may fail in part (`DeleteKeys`), and drops the manifest
last (`DropManifest`); the two sides run side by side.

### Chunking and Embedding

`app/chunking.py`: a document is a sequence of sections, a section a sequence of
letters, blanks and line breaks, which is what the code tells apart. `Round` is
one turn of the window loop, with `ProposedEnd`, `IsEnd`, `Cut` and `NextCursor`
for its lines; `SkipSection` and `LastRound` its other exits. The reference
definitions are in the properties: which letters a chunk must have. `Embedding`
adds `_embed_chunks` and `aws/bedrock_embeddings.py`: batches, concurrent calls
answered in any order, an oversized text, a failing call.

### KeyCache

`CachedJwkProvider` and the verdict of `CognitoTokenVerifier.verify`. Coroutines
interleave where they await: the lock (`queue`) and the fetch (`StartRefresh`,
`Serve`, `Refresh`/`RefreshFails`). The issuer publishes and withdraws keys at
any time; a fetch carries the keys as they were when it was served, and `now`
may move before it arrives.

### Sessions

`api/sessions.py` with its endpoints and `DynamoChatSessionRepository`. `table`
is what a consistent read sees; `index` follows it by `Propagate`. A request is
`Create` and `PutSession`, `Open` and `ReadSession` (and `DeleteSession`), or
`List` and as many `QueryPage` as the listing has pages. The SDK sends a write
again when its answer is lost (`Resend`), up to `MaxSends`. Session ids are
numbered in the order of `lastActivity`, which nothing changes; a new session
may get any free number, so every order of old and new sessions occurs.
`puts`, `removed` and `steady` are history for the properties.

### MC modules

`MCLease`, `MCIngestion`, `MCWorker`, `MCSubmission`, `MCGenerationStore`,
`MCEmbedding`, `MCKeyCache` and `MCSessions` give the constants of the instances:
which attempt delivers which job, which tokens and texts there are.

## Runs

Bounds are chosen so that the shortest known failure of each kind fits, with
room: three attempts are needed for "stalled, failed, published" histories, and
two faults for every combination of one that causes a retry and one that hits
it.

| Run | Instance | Shows |
|---|---|---|
| `lease_redelivery` | 3 deliveries of a job and a submission, TTL 1, clock to 2 | `IInv`; two live holders only after a token was reused; tokens distinct until a release |
| `ingestion_once` | 3 jobs, 2 fingerprints, 2 faults of 6 kinds | `TypeOK`, `ActiveIntact`, `PublishedByHolder` |
| `ingestion_redelivery` | 2 deliveries of a job, 1 of another, 2 faults of 6 kinds | `PublicationConsistent`, `PublishesAtomically` |
| `ingestion_recover` | 3 serial deliveries of a job, crashes, expiries, rejected contents, 4 faults, `FairSpec` | `RunningJobRecoverable`, `LeaseReturned`, `RunningSettles` |
| `ingestion_orphans` | 2 deliveries of a job, 1 of another, expiries, rejected contents, lost replies, unread reconciliations | `OrphansExplained` |
| `ingestion_reindex` | two serial jobs, no fault | violated: the second activation is rejected |
| `worker_standard` | 2 workers, 2 jobs with one fingerprint, a standard queue, 3 receives, 2 faults of 4 kinds, `FairSpec` | `NoJobForgotten`, `AliasesGrounded`, `PublishedOnce`; `NothingLost` |
| `submission_retries` | 2 requests with one key and one upload, 2 PUTs, 4 sends, 2 faults of 6 kinds, `FairSpec` | `SourceNeverMismatched`, `DispatchedJobReady`, `NeverBackToUploaded`; `PromotionCompletes`, `PendingRedispatched` |
| `generation_removal` | 2 chunks in 2 batches, one writer, a removal by generation and one by document, 2 faults of 5 kinds, `FairSpec` | `VectorsTracked`, `ChunksTracked`, `WrittenIsWhole`, `DeletionEmpties`; `RemovalCompletes` |
| `content` | all texts of up to 8 characters, pairs of sections of up to 2, every configuration with a maximum of up to 5, batches of 3, 2 concurrent calls, `EmbeddingSpec` | `WithinMaximum`, `NoTextLost`, `CursorAdvances`, `RecordsAligned`; `ContentSettles` |
| `key_rotation` | 2 requests, 2 keys, TTL 3, interval 2, fetches of up to 1, clock to 5, 2 rotations, `FairSpec` | `WithdrawnKeysExpire`, `RotationsPickedUp`, `RefreshesSpaced`; `RequestsAnswered` |
| `session_requests` | 3 requests, 2 at a time, 2 sessions, an owner and an administrator, pages of 1, 2 sends | `DeletedOncePerPut`, `NotFoundMeansDeleted`, `ListingComplete`; `RequestsAnswered` |

What survives the reuse of tokens (see Divergences) is what the passing runs of
`Ingestion` show: whatever tokens do, the four records of a publication agree and
publication is atomic (`ingestion_redelivery`); and a job delivered once is
published whole, by the holder (`ingestion_once`).

Configurations beside the runs, for `tlc -config <configuration>.cfg <module>`:
`MCKeyCache_types` checks the type invariant of `KeyCache`, and the
`..._invariant` configurations of `MCIngestion` (also `..._once_invariant`),
`MCSubmission`, `MCWorker`, `MCGenerationStore`, `MCSessions` and `MCEmbedding`
check the type invariant and the inductive invariant the proofs use, on
instances of the size of the runs. `MCEmbedding_invariant` also checks
`ChunksAdvance` and `RejectedOnlyOversized`. `MCIngestion_overtaken` is refuted,
see below.

What a lost reply can leave. Without it, nothing but the active generation is
stored when all attempts have ended (`NoOrphans`, a theorem). With it, an attempt
may have published and not know it: its activation raises, and before its
reconciliation reads the records the next publication replaces them
(`MCIngestion_overtaken`: three jobs, two expiries, one lost reply), or one of the
reads fails. It then goes through the handler, which spares the records and
deletes its own data, but never retires the generation it replaced. The run and
the theorem show that this is the only way: `OrphansExplained`. The deletion is
best effort by design (`docs/architecture/phase-3-document-ingestion.md:20`), so
this is no divergence.

Deadlock is not checked: every model has a finite amount of work, and when it is
done the system stops.

Fairness. In each module it is weak fairness of the steps a process takes by
itself; faults have none.

- `Ingestion`: an attempt is one coroutine, and nothing but a fault keeps it
  from its next call. The liveness run allows no lost or failing calls: a
  failing release leaves the lease to expire, which is by design.
- `Worker`: `run_worker` loops on after every error (`api/document_worker.py`),
  SQS makes messages visible again and redrives them, and leases expire.
- `Submission`: besides that, the client repeats a request that failed or whose
  job is still PENDING. This is an assumption about clients, not about the
  code: nothing else sends a PENDING job again.
- `GenerationStore`: calls return, and a removal is repeated until it succeeds.
  In the code the removal of a superseded generation is tried once, best
  effort, and `delete_document` has no caller but tests: the repetition is an
  operator's. The property is that repeating works.
- `Embedding`: the loop is one coroutine, calls are answered or fail.
- `KeyCache`: a request runs on, the lock is first come first served
  (`asyncio.Lock`), a fetch is answered or times out.
- `Sessions`: a call is carried out in the end; nothing forces it to fail.

Bounds. `MaxTime` (clock), `MaxFaults` (faults in a behaviour), `MaxFence` (the
fencing counter; as many as there are acquisitions, so it never cuts a behaviour
short), `MaxReceives` (the queue's own limit), `MaxPuts`, `MaxSent` (a client's
uploads and sends), `MaxFailures` (failing calls), `MaxRotations`, `MaxSends`
(the SDK's attempts) and `MaxOpen` (requests under way). Two faults are one that
causes a retry and one that hits it; the histories that break the faulty
variants need no more. The code's `maxCharacters` is at least 100; the run scales
all three parameters down, and the proofs hold for every value. In `key_rotation`
a fetch is shorter than the interval and the interval at most TTL, as in the
configured defaults.

## Proofs

`LeaseProofs` proves, for any sets of attempts and owners, any TTL and any
clock, that every behaviour of `Lease` satisfies

- `LeaseTypeCorrect`: the type invariant;
- `LeaseInvariant`: `IInv`, which is inductive;
- `LeaseExclusiveUnlessReused`, `LeaseFencesDistinct`: what the redelivery run
  checks;
- `LeaseExclusive`: if no two attempts present the same owner token, at most one
  of them works under an unexpired lease.

The argument. `ExclusiveUnlessReused` is not inductive: it says nothing about
the stored item, on which the next acquisition depends. `IInv` adds that the
item belongs to the attempt it was granted to and expires no earlier than that
attempt believes (`StoredItem`), that calls carry clock values of the past
(`Samples`), that a live claim is the stored item unless the item was deleted
under it (`LiveClaimStored`), and that without a delete the stored token is the
largest and its holder's alone (`StoredFenceIsLargest`). A delete under a live
claim requires equal owner and token, hence another attempt of the same owner
that has released: `Reused`. Distinct owners exclude that case, and two live
claims would both be the one stored item. Each conjunct is one lemma over the
actions. The only assumption is `LeaseAssumption` on the constants.

`EmbeddingProofs` proves, for any documents and any configuration that
`ChunkingConfig` accepts:

- `ChunkTypeCorrect`, `ChunksWithinMaximum`: no chunk exceeds `maxCharacters`
  ("`maxCharacters` is a hard invariant", `docs/adr/0007`);
- `ChunkCursorAdvances`: every round moves the cursor forward. The argument: a
  preferred end lies beyond `cursor + minimum`, and where the overlap would take
  the cursor back, `max` with the end keeps it ahead;
- `ChunksLoseNothing`: every letter before the cursor is in a chunk. The
  induction is over rounds: the next cursor is never beyond the end of the last
  window, and a window's letters are its chunk's, but for blanks at its ends;
- `EmbeddingImplementsChunking`: every step of the embedding is a step of the
  chunker or leaves its variables alone, so that `EmbeddedTextWhole` follows.

`KeyCacheProofs` proves, for any requests, keys, tokens, TTL, interval and
timeout of the assumption:

- `KeyCacheInvariant`: the inductive invariant. Only the head of the queue
  fetches; the answer it carries differs from what the issuer publishes only by
  changes since it was asked for; the same holds of the cache and the time its
  refresh began;
- `RefreshesAreSpaced`, `WithdrawnKeysAreRefused`, `RotationsArePickedUp`: the
  three action properties, each from that invariant. They rest on the cache
  being dated by the *start* of its refresh: the variants that date it by the
  arrival are refuted by TLC.

`IngestionProofs` proves, for any attempts, jobs, fingerprints, faults and
numbers of both:

- `IngestionTypeCorrect`, `IngestionInvariant`, `PublicationIsConsistent`: the four
  records agree, whatever fails, lands late or is repeated. The property alone is
  not inductive: a save of PROCESSING would overwrite an INDEXED document if its
  revision were current. `IInv` says what a revision is worth - while it is the
  document's, the document points where it pointed when the attempt read it, or
  nowhere (`RevisionCurrent`) - and that each success is on its marker
  (`SuccessMarked`), which is what rejects later claims, failures and activations;
- `IngestionImplementsPublication`: every step is a step of `Publication` under the
  mapping, or a stutter. An activation is an abstract publication because its
  conditions exclude an earlier one of the fingerprint;
- `PublishedByTheHolder`, `ActiveStaysIntact`: for jobs that are delivered once
  (`DeliveredOnce`), and the second one if no reconciling read fails. Both
  hypotheses are necessary: the configurations of Divergences refute the properties
  without them. `OnceInv` follows each generation from the attempt that builds it:
  only that attempt cleans it up, and not after it has published
  (`PublisherRetires`); only a publisher that replaced it retires it, and by then
  the pointer has a greater token (`ReadActive`);
- `OrphansAreExplained`: if calls raise only after they took effect
  (`CallsTakeEffect`; a call that raises without its effect, a cancellation and a
  crash leave their own data, which no code path deletes). `DataInv` says who is going to
  delete the data that is stored: the attempt that builds it, or the one that
  replaced it. `RevisionCurrent` is what makes the replaced generation the one the
  publisher had read as active. `NothingIsOrphaned` is the case in which no call raises;
- `RunningJobsRecover`: for one job delivered serially, with crashes, expiries and
  rejected contents. `SerialInv` says that the attempt at work holds the token, that
  a RUNNING job was claimed under a token no greater, and that the job is settled
  before the lease is given back. Another job of the document between two deliveries
  makes it false (Divergences), so the hypothesis `OneDelivery` is necessary too.

`SubmissionProofs` proves, for any requests, keys, upload sessions and faults,
`SubmissionTypeCorrect`, `SourceIsNeverMismatched`, `DispatchedJobsAreReady` and
`DocumentNeverBackToUploaded`. `IInv` adds that what a request read is as old as the
document or older (`DocumentRead`), that the ETag a request copies under is that of
registered content, which no later PUT has again (`UploadInspected`), and that each
call finds what the one before it has saved (`StepPrepared`).

`WorkerProofs` proves, for any workers, messages, jobs and faults,
`WorkerTypeCorrect`, `AliasesAreGrounded`, `FingerprintPublishedOnce`, and
`NoJobIsForgotten` if no message becomes visible under its worker
(`"visible" \notin Faults`: that is what the heartbeat's `extend_visibility` is for,
and `MCWorker_forgotten` refutes it without). `AliasesGrounded` speaks of stored jobs,
but stale copies are saved later: `IInv` follows the copies, by the token of a claim
and by the marker (`ClaimedStays`, `ReusedElsewhere`, `FailsFenced`, `Unready`).
`HeldInv` adds that the message is in flight under its worker's receipt alone and
that a job has ended or a message of it remains.

`GenerationStoreProofs` proves, for any chunks, batches, removals and faults,
`GenerationTypeCorrect`, `VectorsAreTracked`, `ChunksAreTracked`,
`WhatIsWrittenIsWhole` and `DeletionLeavesNothing`, for one writer per generation
(`SoleWriter`): a generation id contains the fencing token of its attempt
(`app/ingestion.py:152`), so two writers of one generation are two deliveries with a
reused token, which is the subject of `Ingestion`. `IInv` has a clause per phase of
the write and of the deletions: what the manifest, the objects and the vectors may be
while it lasts. The assumption that there is a batch is the rejection of empty
documents (`app/ingestion.py:216`).

`SessionsProofs` proves, for any requests, users, finitely many sessions and any page
size, `SessionsTypeCorrect`, `DeletionsAreCounted`, `NotFoundOnlyAfterDelete` and
`ListingsAreComplete`. Counting deletes needs `DeletionsCovered`: the answered deletes
and the session in the table together are at most the puts. A listing under way has
everything steady down to its cursor (`ListingsSound`), from which completeness follows
when a page comes without a cursor. That a non-empty set of numbers has a least one, for the page that is
cut off, is taken from well-foundedness, as induction is out of the prover's reach.

`EmbeddingProofs` also proves, of the embedding of chunks, `EmbeddingInvariant`,
`EmbeddingTypeCorrect`, `RecordsAreAligned` and `OnlyOversizedRejected`, for any
documents, batch size, concurrency and failures: the answers are kept by the position of
their text (`AnswersAreOfTexts`), so the order of the replies does not matter.

The invariants were checked by TLC before they were proved. The hypotheses of a theorem
are hypotheses about the environment (which faults happen, how often a job is
delivered), named where they are used; the assumptions on constants are the `ASSUME` of
each module.

Only model-checked: the liveness properties (`LeaseReturned`, `RunningSettles`,
`NothingLost`, `PromotionCompletes`, `PendingRedispatched`, `RemovalCompletes`,
`ContentSettles` and both `RequestsAnswered`), since liveness under fairness is out of
the prover's reach; and `ChunksAdvance`.

## Divergences

Where a document, a comment or a test says one thing and the code does another.
`ingestion_reindex` is a run of the project; the others are kept as
configurations, each of which TLC refutes:
`tlc -config <configuration>.cfg <module>`.

| Configuration | What is said | What the code does |
|---|---|---|
| `MCIngestion_reindex` | a second job after a permission change publishes (`tests/unit/test_ingestion.py:148`) | it is granted token 1 again and its activation needs a greater one |
| `MCLease_FencingMonotonic` | "monotonically increasing fencing tokens" (`docs/adr/0008:23`) | `release` deletes the counter with the item |
| `MCLease_ReplacementNotReleased` | "Same-job redelivery cannot renew or release a replacement execution lease." (`docs/adr/0010:123`) | `release` compares owner and token, not the execution token |
| `MCIngestion_intact_redelivery` | "cleanup cannot delete the active generation" (`docs/architecture/phase-3-document-ingestion.md:40`) | two deliveries with one token build one generation id; the stalled one cleans it up |
| `MCIngestion_intact_unread` | "An ambiguous activation response cannot trigger deletion of a generation whose atomic commit is visible." (`docs/adr/0008:60`) | a failed read of the reconciliation counts as not committed |
| `MCIngestion_holder` | "A stale worker cannot publish after ... its own lease has expired" (`docs/adr/0008:58`) | the activation does not compare the execution token |
| `MCIngestion_recover_error` | "Transient AWS failures are retried by SQS" (`docs/adr/0010:124`) | an error between the claim and the inner `try` leaves a job no later token exceeds |
| `MCIngestion_recover_other` | "Worker crashes and expired leases are recoverable through higher fencing tokens." (`docs/adr/0010:122`) | another job of the document takes the expired lease and its release deletes the counter: the crashed job's next delivery is granted token 1 again, and its claim needs a greater one. A submission takes and releases the same lease |
| `MCWorker_alias` | a job whose fingerprint succeeded under another id becomes a result alias (`docs/adr/0010:64`) | a copy with a fencing token is saved under a marker that is the other job's: a conflict at every delivery |
| `MCWorker_forgotten` | "Terminal or missing jobs are acknowledged without re-execution" (`docs/adr/0010:62`) | a delivery stalled before its lease claims again the job another delivery has just failed for good and is about to acknowledge: the last message goes, and a crash leaves the job RUNNING |
| `MCSubmission_accepted` | the API sends a task "and returns `202 Accepted`" (`docs/adr/0010:33`) | a repeated request finds the lease taken and answers 202 for the PENDING job before anything was sent |
| `MCGenerationStore_background` | a failed candidate is deleted | objects whose puts `gather` abandoned land after the deletion |

Most of the first nine have one root: tokens start again at 1.

## What is not modelled

- Item encoding and decoding (`aws/dynamodb_document_codec.py`): an item is the
  record it encodes. The statuses DELETING and DELETED, which nothing sets.
- Reads that change nothing: vector queries, chunk reads, the reading and
  extraction of a source, readiness probes.
- Chat messages, usage records and user profiles: no endpoint calls their
  repositories.
- A job record without profile or pipeline version (`app/reliable_worker.py:124`):
  a submitted job has both.
- Several tenants and several documents in one model: every key of every store
  starts with tenant and document, and nothing is shared across them but the
  queue, whose groups are per document.
- FIFO deduplication of five minutes, which could only drop a repeated send of a
  job; request validation and wiring; logging; the Terraform modules, whose
  queue and lifecycle settings the models assume.
- Characters beyond letters, blanks and line breaks: `"\r"` and other Unicode
  whitespace are not told apart from blanks.

Two simplifications of `Ingestion` hide behaviour: a call that is not cancelled
ends before its attempt goes on (a transaction cannot commit after its
reconciliation; listed as a hazard without a property), and a generation's data
is written and deleted as wholes or parts - `GenerationStore` has the calls.
`Submission` reduces the worker, and `Worker` the ingestion, to the calls on the
records they share. `PROJECT.json` lists every component with its status, and
the hazards, each at its line with the properties that catch it.
