# A formal model of the work-intelligence service

This directory holds TLA+ modules that model the Python service
`aftergraph_work_intelligence` ("Wie", under
`src/src/aftergraph_work_intelligence/`), TLC configurations that check them on
small instances, and TLAPS proofs of their main properties for every value of
the constants. Paths below are relative to that package.

Contents: 1 the system; 2 how it runs; 3 the modules and the code; 4 the runs;
5 bounds; 6 fairness; 7 the proofs; 8 what is only model-checked; 9 what is not
modelled; 10 where the code and its documents differ; 11 the plan.

## 1. The system

The service takes observations (messages, webhooks, recordings), recognises
work in them, keeps work items per tenant, lets people decide about them and
hands the approved ones on. Its parts:

| Part | Code | State | Operations | Correct when |
|---|---|---|---|---|
| Intake service | `service.py`, `store.py` 300-467 | observations, items, links, replays (SQLite) | `ingest`, with `create_observation`, `_resolve`, `create_work_item`, `merge_work_item` | an external id is stored once; every actionable observation the policy lets through has its item; counts and links agree; quota and priority cap hold |
| Transition engine | `transitions.py`, `api.py` 1612-1738, `store.py` 537-624 | `status` of an item, `intake_transitions` | review, promote, merge | only edges of the strict machine; one audit row per status change; promotion only of what was approved; merges idempotent |
| SQLite connection | `store.py`, `api.py` 448-502, `migrations.py` 26-36 | one connection, one lock | BEGIN, statements, COMMIT, ROLLBACK from several callers | a multi-statement write is all or nothing |
| Task queue | `tasks.py` | ids to run, tasks, counters (memory) | submit, worker loop, retries, shutdown | every task in one place, settled in the end, counters exact |
| Pocket connector | `pocket.py`, `pocket_provider.py`, `api.py` 505-690, 970-1526 | deliveries, sequences, tombstones, consents, jobs, materializations (SQLite) | webhook, reconciliation, reads, revocation | a withdrawn or replaced text is never served; jobs are neither lost nor doubled |
| Tenant policies | `policy.py`, `store.py` 178-257, `api.py` 2138-2213 | policies (memory, and a table) | put, update, delete | memory and table agree; no update lost |
| Publication | `publishers.py`, `api.py` 1740-1771, 1985-2060 | receipts (SQLite), the WORKS token (memory) | publish, execution status, enrolment | what a destination accepted is recorded; a stale token is renewed |
| Autonomy evaluator | `autonomy.py`, `api.py` 448-502, 2327-2475 | decisions (SQLite) | `evaluate_autonomy` | nothing is decided without a human against the evidence |
| Sensing | `proactivity.py`, `api.py` 2407-2443 | registry of signals (memory) | evaluate, correlate | one candidate per signal, with every path that saw it |
| Rate limiter | `api.py` 200-266, 883-895 | timestamps per key (memory) | `is_allowed`, usage | no more than the limit per window |
| API keys | `api.py` 1219-1241, 2685-2766, `secure_api.py` 94-127 | keys (SQLite) | create, rotate, revoke, look-up | a deactivated key is refused; a rotation shuts nobody out |
| Outbound webhooks, WebSocket | `api.py` 131-197, 2594-2682 | subscriptions, sockets, deliveries (memory) | register, delete, fire, deliver | an event reaches every subscriber, or failed there three times |
| Cache | `cache.py` | entries with expiry (memory) | get, set, evict | nothing expired is served; bounded |
| Migrations | `migrations.py` | `schema_migrations` | apply, rollback | each version applied once, in order |
| Extractor, adapters | `extractor.py`, `adapters.py` | none | text to candidate | deterministic text processing |
| Operator surface | `audit.py`, `metrics.py`, `observability.py`, `tracing.py`, `request_logger.py`, `body_log.py`, `evidence.py`, `secure_api.py`, `production_drift.py` | rings and counters | logging, evidence, signatures | straight-line code around the rest |

How they interact: every endpoint calls the intake service, the engine or the
store; the store's single connection is shared by all of them; the Pocket
webhook enqueues a durable job and submits its id to the task queue, whose
workers fetch the recording and call `ingest`; the policies are read by the
intake service and by the promotion gate; at start `lifespan` recovers
interrupted jobs and submits them again. Endpoints that have changed something
fire an event, which a thread of its own delivers to the webhooks; the
publishers call out to WORKS and other destinations; a request first passes the
rate limiter and the look-up of its key. The evaluator and sensing stand apart.

## 2. How it runs, and what is hard about it

Endpoints declared with `def` run on the server's thread pool, those declared
`async def` on the event loop's thread; the task queue has four threads of its
own. `SQLiteStore` holds an `RLock` for the length of **one store call**; no
lock spans a request. A request is therefore a sequence of store calls with
anything in between. Each of them may raise: a full disk or a locked file, and
without any of these a COMMIT whose transaction somebody else has ended (as
ConnectionTx shows). The connection is in autocommit mode: a statement outside
a BEGIN is durable at once. Policies, tasks and requests are lost when the
process dies; rows are not.

What follows, and what a test would hardly reach (`hazards` in PROJECT.json
gives each at its line):

* a status checked in one call and overwritten in another (`transitions.py:145`);
* a key looked up and written later (`api.py:1722`), an external id likewise
  (`service.py:56`), the open items likewise (`service.py:103`, `:108`);
* values computed from an item read earlier (`store.py:381`);
* two transactions for one request, between which it may end: by a crash, or
  because the second one raises and is rolled back (`service.py:74`, `api.py:529`);
* a filter of what reads serve that keeps a row when its check raises
  (`pocket.py:1206`, `:1235`);
* `rollback()` and `commit()` of the shared connection outside its lock
  (`api.py:502`, `migrations.py:36`);
* a worker that takes the queue's lock three times for one task (`tasks.py:72`);
* attempts counted by jobs and retries counted by tasks (`pocket.py:929`);
* reconciliations of one recording that overtake each other (`pocket.py:938`);
* calls to the outside between two writes, whose answer may be lost
  (`api.py:1770`, `:2734`), and a token cached across restarts of the other side
  (`publishers.py:341`);
* objects in memory that threads read and write without a lock: policies
  (`api.py:2154`), the limiter's lists (`:260`), the sensing registry
  (`proactivity.py:304`), the webhooks (`api.py:137`, `:2657`).

**The unit of a step** is accordingly the same in all modules but one: one
locked store call (or critical section), with the computation on what it
returned. ConnectionTx goes below that, to the single statement, because there
the question is the lock itself.

## 3. The modules and the code

### StrictMachine, Lifecycle: the transition engine

*StrictMachine* is the abstract specification: the diagram at the head of
`transitions.py`, an item moving along one edge at a time and each move
appended to a trail in the same step.

*Lifecycle* is the code. `status` and `audit` are the column and the table;
`pc`, `call`, `seen`, `stamp` are a thread's place, request, and locals (the
item as `get_work_item` returned it; the time put into the row). A review is
`ApplyCheck` (`_apply` up to the constructed `Transition`), then
`WriteTransition` (the store's transaction, which does not look at the status
again). A promotion has two store calls more, `PromoteGet` and the policy check
`PromoteGate`. A merge first looks for its key (`MergeKeyLookup`), then for a
last transition that was the same merge (`MergeReplayLookup`). `SetPolicy` is
the administrator switching `allow_works`.

A row has two times: `at`, the stamp taken before the lock is asked for and by
which the code orders rows, and `done`, the commit, which is not a column. The
properties need both, because the order of the two may differ.

### Intake: observations and work items

`observations`, `items`, `links`, `replays` are the tables, by order of
insertion. A thread's `req` holds the locals of `ingest`; the actions
`Lookup`, `ReplayItem`, `RecordReplay`, `CreateObservation`, `CountOpen`,
`ByKey`, `Resolve`, `Merge`, `CreateItem` are its store calls in the order of
the code. The policy is read once at the start for the gates and again in
`_resolve` for the threshold, as in the code. `Move` stands for what the
engine does to an item's openness: any change, since its own race may reopen a
closed item (`lifecycle_terminal`). `PutPolicy` is an administrator, `Crash` a
restart: rows stay, requests end, policies fall back to the default. `CallFails`
is a store call that raises at any step: `create_work_item` and
`merge_work_item` roll back and raise again (`store.py:377`, `:407`), `ingest`
catches nothing, and what the request has stored before stays. `cut` is history:
the observations that a crash or a raised call has left in this way.

Text is abstracted to a canonical key; `Similarity` gives the share of tokens
of two keys. Statuses are abstracted to open and closed (DONE, CANCELLED,
REJECTED, SNOOZED), since intake looks only at openness.

What of a request's view matters later is kept in its locals: `counted` and
`listed` are the items that were open when it counted and when it listed them,
`itemCount` the count of the item it is about to merge into. Two of the
properties are about the moment an item is created, and say that the creator
had looked: SecondItemOnlyByRace that no item it could see has its key,
QuotaExceededOnlyByRace that there was room, or that the key has an item. The
last clause is in the code: see section 10. MergesWhereItBelongs says the same of
a merge: its item was open when the request listed the open ones, and has another
key than the observation only if none of those had its own.

### TaskQueue

Complete: `Submit`, the worker loop's three critical sections (`PopTask` /
`PopNothing`, `Claim`, and one of `Missing`, `Returns`, `RaisesAndRetries`,
`RaisesForGood`), `Release`, `LoopTest` and `Shutdown`. `runs` is a history
variable: how often a function was called.

*WorkQueue* is what clients are promised: a task is taken, oldest first, and
worked on until it is completed, given up or put back at the end, at most
`max_retries` times. Under the mapping `WorkDone` the waiting tasks are `queue`,
those somebody works on are the ones a worker has popped and not released
(whether it has claimed them yet is its own affair), and what is known of a task
is its status once that is final. `WorksAsQueue` says that TaskQueue implements
it: in particular that a claim is never refused.

### ConnectionTx: the shared connection

`committed`, `working`, `inTx` are the database file, the open transaction
and `connection.in_transaction`; `lock` is the owner of `store._lock`. The
three store methods with a transaction have the same shape, and `Begin`,
`First`, `Second`, `Raises`, `Commit`, `Undo` are its statements. `Execute`
is the heart of it: what a statement does depends on `inTx` **at that
moment**, so a statement whose transaction was ended by somebody else is
durable on its own. `Evaluate` is `_persist_autonomy_decision`, which inserts
under the lock; `EvaluatorRollsBack` its `rollback()` after the lock is
released; `MigrationsCommit` the `commit()` of the migrations endpoint.

*AtomicStore* is what the other modules take a store method for: a write whose
two rows appear in one step or not at all. It also says how much the callers
without the lock spoil: a write they have disturbed (`hit`) is never answered
without an error and may leave any of its rows. The mapping `Store` hides the
rows of writes that have not ended, which nobody who asks for the lock can read;
`StoreIsAtomic` says that the statements implement it, crashes included.

### Reconcile: Pocket recordings

`jobs` is `pocket_reconciliation_jobs`, `current` and `retired` the two tables
of materializations, `ingested` the observations by recording and revision.
`Enqueue` and `Submit` are the tail of the webhook; `Start`, `Fetch` /
`FetchFails`, `Lookup`, `Store`, `Advance`, `Complete`, `Fail`, `Raise` the
worker function with the store calls it makes through `ingest`; `Request` the
manual endpoint, whose thread goes through the same calls without a job.
`Raise` is what the task queue does with an exception; that a task is held by
one worker and called again at most `MaxRetries` times is what TaskQueue shows.

Every call may raise. `FetchFails` has the provider's errors, retriable or not,
and any other exception of the fetch, which fails the job for good and is raised
again (`api.py:677`-`679`). `CallFails` is the same for `ingest` and
`advance_materialization`: after `Store`, the observation stays without being made
current; and because the two statements of `advance_materialization` are in no
transaction, the previous revision may be retired all the same (`Half`). A
thread of the manual endpoint just ends. `StartFails` and `EndFails` are the calls
that record a job's start and end. Two histories keep what this leaves behind:
`cut` the revisions of which a reconciliation ended between `Store` and the
end of `Advance`, by a crash or a raised call, and `faulted` the jobs whose start
or end could not be recorded, until the next start of the process recovers them.

`Crash` includes the start after it: running jobs become pending and at most
`RecoverLimit` pending ones are submitted.

### PocketEvents: deliveries, edits, deletions, consent and reads

The other half of the connector. `registered`, `applied`, `superseded`,
`tombstones`, `purposes` with `revoked`, and `stored` are the tables
`pocket_deliveries`, `pocket_sequences`, `pocket_supersessions`,
`pocket_tombstones`, `pocket_consents` and the observations. The webhook runs on
the event loop and never awaits between its store calls, so one thread, `Loop`,
goes through `Register`, then `Tombstone` and `DeletionSequence` for a deletion,
or `Sequence` and the materialisation. Workers and `POST /pocket/ingest` enter
at the materialisation: `CheckPurpose`, `CheckRevoked` (the two consent queries
of `validate_pocket_record`), `Attach`, `Ingest`; an edit ends with `Supersede`.
`Revoke` and `DeleteSource` are the administrators' endpoints. `CallFails` ends
a delivery or a request at any store call; what it has written stays, the
observation included when it is the item's transaction of `ingest` that raised.
A read takes the rows (`ReadRows`), asks whether the tenant has any guard state
(`CheckState`) and then looks at each row in three calls (`CheckTombstone`,
`CheckSuperseded`, `CheckConsent`). The filter is fail-open, and so is the
model: `CheckFails` keeps all rows when the first check raises
(`pocket.py:1206`), and keeps the row when one of the others does or when the
metadata that name its consent cannot be parsed (`:1220`, `:1235`). `Crash` ends
every request where it is.

Three variables are history: `announced`, the withdrawals somebody was answered;
`cut`, the registered messages whose handling a crash or a raised call has ended;
`contested`, the consents whose purpose was changed after they existed; a read
also remembers its `unchecked` rows, those of which a check has raised. The
properties say what reads owe to `announced`: WithdrawnIsNotServed that nothing
announced before a read is in its answer but unchecked rows, WithheldIsWithdrawn
that nothing else is missing from it. LostOnlyIfCut says of every registered
message that it takes effect unless it is cut: a text is stored, an edit is
stored and supersedes what it edits, a deletion has its tombstone.

### Publication: tenant policies, publishers and receipts

`policies` is the tenant's entry of the PolicyStore and `policyRow` its row.
An update is `ReadPolicy` (the policy in memory with the given fields laid over
it), `PutPolicyInMemory`, then `PersistPolicy` or `PersistFails`, which is
answered all the same; `DeleteRow` leaves the memory alone. A publication is
`Route`, `ReadToken`, perhaps `Enroll`, then `Post` or `PostFails`,
`KeepToken` and `Save`, or `SaveFails` when `save_publication` raises after the
destination has accepted; `AskStatus` begins the request for the status of an
execution, which shares the token. `shared` tells two applications apart, one
that hands its PolicyStore to the router and one, that of `publisher_from_env`,
that does not. WORKS is `epoch`, its current process: a token of another one is
refused. `accepted`, `unheard`, `intended`, `lost` and `doubtful` are history.

### RateLimit, ApiKeys, Sensing, Webhooks

*RateLimit*: `is_allowed` runs on the event loop and is one action, `Admit` for
the middleware and `Budget` for the evaluator, which has a list of its own as
well; a usage query runs on a thread and is two, `QueryFilters` and
`QueryAssigns`. `clobbered` is history: when a query last wrote back a list that
missed a hit. The code filters these lists by time and takes their length, so
their order plays no part: here a list is the set of its hits, and hits of a key
at one time are numbered (`Now`), so that each counts.

*ApiKeys*: `apiKeys` is the table. `Deactivate` and `Insert` (or `InsertFails`)
are the two store calls of a rotation; `Gate` and `Auth` are the look-ups of the
middleware and of the dependency, the first only in the application of
`secure_api.py` (`secured`). The environment has a master token; without one,
`auth` lets everybody in.

*Sensing*: `Submit` evaluates a record and reads the candidate of its signal,
`Register` writes what was made of the two. A restart empties the registry.

*Webhooks*: `dicts` are the dicts that `app.state.webhooks` has been, since two
first registrations may make one each (`LookForRegistry`, `MakeRegistry`,
`AddHook`). `Fire` starts an iteration, `NextHook` takes the next key,
`IterationRaises` is the RuntimeError of an iterator whose dict has changed its
size, `IterationEnds` starts the delivering thread, whose attempts are
`Delivered` and `Fails`. `promised` is history: the deliveries an answered
request owes.

### Autonomy, Evaluator

*Autonomy* has no state: a proposal as a record, and `Factors`, `RiskLevel`,
`BlockingControls`, `Decision`, `Score` as functions of it, rule by rule in the
order of `_decision`. Paths are abstracted to what the critical-file patterns
make of them, the error rate to what it is compared with. *Evaluator* is the
endpoint: it runs on the event loop, awaits nothing, and appends to the trail
unless the request id is there or the insert fails.

### Services, MCServices

These six share no variable. *Services* extends them all; its Init chooses the
`service` that gets requests in a behaviour, so the state spaces add up instead
of multiplying. *MCServices* gives their constants values.

### Composition

The modules meet at named interfaces rather than in one product: Lifecycle
implements StrictMachine by a refinement mapping; Intake takes the engine's
effect on an item as `Move`, which may be any change of openness; Reconcile
takes from TaskQueue that tasks are exclusive and retried, and from Intake the
two store calls of `ingest` that matter to it (WorkQueue is the form in which it
does); PocketEvents and Reconcile share the store calls of a materialisation,
one with consents and withdrawals and the other with revisions and jobs, so a
row is served if it is served in both; ConnectionTx, which implements
AtomicStore, justifies the single step `WriteTransition`, `CreateItem` and
`Merge` of the others, except when somebody acts on the connection without the
lock.

## 4. The runs

| Run | Checks | Shows |
|---|---|---|
| `lifecycle_pool` | TypeOK, StatusIsLastRow, StaleOnlyIfOvertaken, PromotedAfterApproval | two racing threads: the status is what the last committed row says; a row starts from a status the item did not have only if its request was overtaken; nothing is promoted that was never approved |
| `lifecycle_serial` | MergeRetryIsReplay, StrictMachineSpec | one request at a time: the engine implements the strict machine, and a repeated merge is a replay |
| `lifecycle_terminal` | TerminalIsFinal (violated) | two overlapping reviews take an item out of REJECTED or CANCELLED |
| `intake_concurrent` | CountMatchesLinks, LostOnlyIfCut, MergesWhereItBelongs, PriorityDropsOnlyIfStale, SecondItemOnlyByRace, QuotaExceededOnlyByRace | two threads, crashes, store calls that raise, moving items and policies: counts and links agree, an observation lacks its work only if its request was cut by a crash or a raised call, and how far races can go |
| `queue` | EachTaskInOnePlace, StatsAddUp, CallsAreCounted, WorksAsQueue, EveryTaskSettles | tasks are neither lost, doubled nor called too often; clients see the queue of WorkQueue; each task is settled |
| `connection` | LockFreeIsQuiet, AckIsWhole, TornOnlyByStray, StoreIsAtomic | an acknowledged write is whole whoever interferes; only callers without the lock tear others; undisturbed writes are atomic for whoever reads under the lock |
| `connection_torn` | StatusHasAuditRow (violated) | the evaluator's rollback leaves a status without its audit row |
| `reconcile` | AttemptsBounded, OneJobPerRecording, NoJobStranded, CurrentIsLatest, StaleOnlyIfCut, JobsEnd | jobs survive crashes and raised calls, are started by one worker and no more often than allowed, and end unless their start or end could not be recorded; what is served besides the current revision is what a cut reconciliation has left |
| `reconcile_stale` | OneRevisionServed (violated) | after one crash, or one raised call, between the observation and its materialization two revisions of a recording are served |
| `pocket_events` | TypeOK, WithdrawnIsNotServed, WithheldIsWithdrawn, LostOnlyIfCut, RevokedStoresNothing | deliveries in any order and number, revocations, deletions, a crash or a raised call, against a reader whose checks may raise: withdrawals hold for good, for all but unchecked rows and for nothing else, every registered delivery takes effect unless it was cut, a revoked consent admits nothing new |
| `services` | TypeOK, AcceptedIsRecorded, PolicyIsKept, OverLimitOnlyByQuery, NameKeepsAKey, SightingsKept, SubscribersAreTold, AutomaticIsUnblocked | the services around the core, one in each behaviour, with racing threads, failures of what they call, and crashes |
| `publish_stale_token` | PublishReenrolls (violated) | WORKS restarts after a publication: the next one is refused with the cached token and answered 502, without a second enrolment |

Several properties have a strong form that holds of one request at a time and
fails under concurrency or crashes; what is checked says what is left of it and
who is to blame: StaleOnlyIfOvertaken for StrictMachineSpec (which
`lifecycle_serial` checks), PriorityDropsOnlyIfStale for a priority that never
drops, SecondItemOnlyByRace for one open item per key, Intake's LostOnlyIfCut for
a work item for every observation and that of PocketEvents for the effect of
every delivery, TornOnlyByStray for StatusHasAuditRow, StaleOnlyIfCut for
OneRevisionServed, WithdrawnIsNotServed (with `unchecked`) for reads that
never serve what was withdrawn, OverLimitOnlyByQuery for a limit that
is kept, and the histories `lost`, `doubtful`, `raced`, `mixed`, `cut` in the
properties of the services. MergeRetryIsReplay fails with two threads, since both
may look for the key before either writes; no document promises it there.

`queue`, `connection`, `intake_concurrent` and `reconcile` do not check the type
invariants of their modules, which are proved (section 7); TLC's time goes to the
abstract specifications they implement, to MergesWhereItBelongs and to
AttemptsBounded.

Each property of a passing run has a mutant in PROJECT.json: a plausible
mistake in one definition, kept beside the definition it replaces and marked
`mutant`, that makes the property fail.

## 5. Bounds, and why they are enough

* Lifecycle: 2 items, because a merge names two; 2 threads, because every
  hazard of the engine is a pair of overlapping requests; 3 audit rows, since a
  stale row needs one row that overtakes it and one before. `MaxTransitions`
  cuts behaviours, it does not change any step. Symmetry in items and threads
  is used in `lifecycle_pool`, which has invariants only.
* Intake: 2 threads, 3 requests (create, then two that race to merge), 2 keys
  that are 80% alike, so that both exact and similar merges and, under a
  threshold of 90, no merge occur; 2 priorities; three policies: the default one,
  which lets everything in, one with a quota of one item, and one that creates no
  items (the gate on sources has the same effect), of which an administrator puts
  the latter two; `ListLimit` 2 instead of 200, so that the limit is reached;
  `MaxTime` bounds how often items move. Crashes and raised calls are not bounded.
* TaskQueue: 3 tasks, 2 workers, the code's 3 retries, one unregistered name.
* ConnectionTx: 2 threads, 3 writes, 2 evaluations; a request id that is
  evaluated twice is what makes the insert fail.
* Reconcile: 1 recording (recordings meet only in the order of the queue), 2
  workers, 1 manual caller, 2 revisions, 1 crash, 2 attempts and 1 retry in place
  of the code's 4 and 3, which keeps the relation the code has (retries =
  attempts - 1) and still has a job retried, given up, and recovered. Crashes,
  revisions cut off and jobs let go are together at most 2 (`MaxFaults`), so that
  every pair of them occurs; a call that raises and leaves nothing behind is not
  bounded.
* PocketEvents: one conversation with a text, its edit and its deletion, which
  are all the kinds of message there are, in every order and repeated; one
  consent with two purposes; one worker and one reader beside the loop; one
  fault (`MaxFaults`), a crash or a raised call of a delivery or a request,
  while the checks of reads may raise any number of times. Withdrawals are only
  ever added to, so two conversations meet nowhere but in the fast path of a
  read, which only looks for whether there is any.
* Services (`Services.cfg`). Publication: 2 threads, since its hazards are
  pairs; 1 item, as items meet only in the token; a direct destination, WORKS
  and one that is not configured; 3 requests (an update or a publication, its
  rival and what follows) and 2 processes of WORKS. RateLimit: a host and a
  method, a limit of 2 and of 1 for the evaluator's endpoint, a window of 2
  ticks out of 4, so that hits expire, and 1 query. ApiKeys: 2 administrators
  (two rotations that overlap), 1 caller, 2 names, 3 keys, so that a key and its
  successor stand beside one of another name; the names are symmetric. Sensing: 2 threads, 1 signal, 6
  records of which 3 are acceptable, each over another path. Webhooks: 2 hooks,
  2 threads that keep them, 1 that fires 2 events, 2 attempts instead of 3.
  Evaluator: 3 capabilities, proposals that differ from an approvable one in a
  field or in a field and the canary; more proposals would only repeat what
  AutonomyProofs shows for all. `PublicationAssumption` asks for an article and
  an update, and `SensingAssumption` for finitely many sensors: the requests of
  threads that have none yet are typed by them, and the code's sensors are a
  fixed list.

## 6. Fairness

Only two specifications have any. TaskQueue!FairSpec: weak fairness of each
worker's steps; the thread runs `while not self._shutdown` and its waits have
timeouts, and a registered function that never returns would be a fault of that
function, outside the queue. Reconcile!FairSpec: weak fairness of each worker
(the fetch has a timeout of 10 s, all else is local) and of `Submit`, which
is straight-line code after `Enqueue`. Nobody is obliged to submit, to shut
down, to change a recording, to call an endpoint or to crash; `Crash` is
bounded, so liveness is about what follows the last one. A job is let go, not
ended, when the call that records its start or its end raises: JobsEnd says that
the one active job of a recording ends or is such a one (`faulted`), and those a
restart recovers.

## 7. What is proved

All theorems are for any finite or infinite sets of items, threads, writes,
keys (except where an assumption is named), and any bound.

**LifecycleProofs** (from `LifecycleAssumption`).
`TypeCorrect`. `StatusFollowsTrail` and `StaleNeedsOverlap` by the inductive
invariant TrailInv, which adds RowsInThePast (committed rows lie before `now`)
and WritesAreBased (a thread about to write has read the status that the column
still shows, or a row was committed after its stamp): without the second a
write could start from anything. `PromotionNeedsApproval` by ApprovalInv, which
adds ApprovalsHaveRows and PromotersSawApproval: what makes it survive
concurrency is that it speaks of the past only. `SerialEngineIsStrict`:
for a single thread, Lifecycle refines StrictMachine; WritesAreEdges says that
with nobody to overtake it the write takes an edge. `SerialMergesAreReplays`,
also for a single thread, by SerialInv: stamps are in the order of the rows
(RowsInOrder), a cancelled item stays so and its last row is the cancellation
(CancelledStays), all rows with a key are of one merge (KeysNameMerges), and what
the request under way has read still holds (RequestIsCurrent).

**TaskQueueProofs** (from `TaskQueueAssumption`: finitely many tasks; any number
of workers and retries). `TypeCorrect`; `TasksAreShared` (EachTaskInOnePlace is
inductive as the conjunction of QueuedOnce, QueuedIsPending, HeldByOne,
NoneLost); `SettledTasksStay`, an action property that follows from it;
`CallsCounted`, with FreshUncalled; `StatsNeverDrift`, with lemmas on the
cardinality of the set of tasks in a status. `QueueWorksAsOne`: TaskQueue
refines WorkQueue, from the types and EachTaskInOnePlace: HeldByOne makes the
claim a stuttering step and the release of one worker the end of all work on its
task.

**ConnectionProofs** (from `ConnectionAssumption`; any number of threads, writes
and evaluations, any number of crashes). `TypeCorrect`,
`LockedReadsAreDurable`, `AcknowledgedWritesAreWhole`, `OnlyStraysTear` from one
invariant: OwnerWorks (who holds the lock works on the one write under way),
WorkingIsOwners (the open transaction holds exactly what that write has put
there), FreshWrites, and WhoTore, which carries the blame for a torn write from
the stray call to the end of the write. AckIsWhole is not inductive without
WorkingIsOwners: it is because an open transaction at COMMIT is the thread's
own, with both rows, that success means both rows. `StoreMethodsAreAtomic`:
ConnectionTx refines AtomicStore. Under the mapping a statement is invisible
(NothingAppears), a COMMIT makes both rows visible at once, and what an error or
a crash leaves visible are rows of disturbed writes (EndsWithout), since an
undisturbed write under way has nothing durable (UndisturbedLeaveNothing).

**IntakeProofs** (from `IntakeAssumption`; any threads, external ids, keys,
policies and similarity). One invariant, IInv, carries `TypeCorrect`,
`CountsAreLinks` and `OnlyCutsLoseWork`: besides the tables it says where a
request owns its observation (nobody else may link it, which is why a count that
is increased in the database stays right although merges overlap) and, for each
place a request may stand, what it has read. The action properties
`OnlyStaleMergesLower`, `OnlyRacesMisplace`, `OnlyRacesDouble` and
`OnlyRacesExceed` follow from what IInv says of what was read: the keys of the
items a request has listed never change, an item's priority changes only with
its count, a request reaches `create_item` only after it has seen room and no
item with its key, and every open item is listed when there are no more than
`_resolve` asks for (AllAreListed).

**PocketEventsProofs** (from `PocketAssumption`; any messages, sources,
consents, workers and readers). The tables of withdrawals only grow (TablesGrow,
ReasonsGrow) and a settled delivery stays settled (SettledStays); on that rest
ReadsOK (nothing that was withdrawn when a read began is among what it has kept,
but rows of which a check raised, and where it looks at a row, the guards it has
passed are not those that withdrew it), MarksOK (the last sequence number of a
conversation is that of a delivery that was registered), KeptOK (an accepted
text or edit is under way, cut or settled, where an edit is settled only once
what it edits is superseded) and DeletionsOK (an accepted deletion is under way,
cut or has its tombstone). They give `NothingWithdrawnServed`,
`NothingElseWithheld`, `OnlyCutsLoseDeliveries` and `NothingStoredUnderRevoked`.

**ReconcileProofs** (from `ReconcileAssumption`; finitely many recordings, any
revisions, workers, callers and limits). `TypeCorrect`; `OneActiveJob`, from
BusyOK and ActiveOK (a job that a worker is busy with is running, and of no
other worker; two active jobs of one recording are one); `CurrentIsNewest` and
`OnlyCutsServeStale`, from HoldsOK (what a thread has fetched exists and is not
older than what was current then), CurrentOK and ServedOK: an observation that
is served and not current is one that a thread is about to make current or one
whose reconciliation was cut there. `AttemptsAreBounded` is inductive together
with these: a start takes one of the attempts that a pending job has left, and
only a crash gives it another. `NobodyIsStranded`, which is about the jobs that
are not `faulted`, assumes RoomAndRetries: no more recordings than a start
submits jobs of, and `max_attempts` at most `max_retries + 1`; the code's
defaults and the run's instance satisfy the second. Its invariant is WaitInv: a
pending job waits in one place (WaitsOnce) and in some place (WaitsSomewhere),
and a task has been called no more often than its job was started (RetriesOK),
so that a job the queue gives up is a job `fail_reconciliation` has given up. A
restart finds every job pending or done, with one pending job of a recording at
most, so that it submits them all.

**ServicesProofs** (from the assumptions of its modules; any threads, requests,
names, records and webhooks), one part per service, none of which uses another's
invariant but the second the first's. *Rate limits*: `LimiterTypeCorrect` and
`OnlyQueriesExceed`, from RateInv: the recent hits of a list were admitted, and
those later than the last query that wrote back too little are all in it
(ListOK); those of the evaluator's own list are always all that were admitted;
and hits of one time are numbered without gaps (HitsNumbered), so that one more
hit is one more element. For any limits and any window. *Publication*:
`AcceptedOnesAreRecorded`, from Numbered (two requests under way have two
numbers, which is what makes "its receipt" well defined) and OnlyPublications
(an update or a deletion is never among the accepted). An accepted publication
without a receipt is one whose request was ended before the receipt was written:
by a crash, an answer that was lost, or a `save_publication` that raised.
*Tenant policies*: `UpdatesAddUp`, from OneUpdate (before the first overlap
there is one update, and it is about to write what it makes of the policy in
force), AloneOK and RowOK (an update that runs alone writes to the table what it
has put into memory). *API keys*: `KeysTypeCorrect`;
`DeactivatedKeysAreRefused`, from LateKeysAreDead (a key that was inactive once
stays so: no action activates one); `RotationsShutNobodyOut`, which is inductive
together with the types. *Sensing*: `SightingsCorrelate`, where for a signal
without overlap the one request that registers it still holds what the registry
holds (OneByOne). *Webhooks*: `PromisesAreKept`: an id is given once (AdderOK),
a webhook that is about to be deleted is owed nothing any more (DeleterOK), and
unless first registrations raced there is one registry, which the firing thread
iterates over (OneRegistry, FirerOK). *All of them*: `ServicesTypeCorrect`
(TypeOK of Services, from the type invariant of each part) and
`ServicesKeepTheirPromises`, that each property also holds of the composed
specification, by EachIsItself: a behaviour of Services is one of each part,
since the parts share no variable.

**AutonomyProofs** is about every proposal, not only those of the run.
`NoAutomaticAgainstTheEvidence`; `WorseIsNeverAutomatic` (more against a proposal
never turns a human's decision into an automatic one); `ScoreIsBounded`;
`EvaluatorNeverBypassesAHuman`, the invariant of Evaluator from the first; and
`RetryIgnoresCriticalFiles`, which exhibits a proposal ADR-008 would not
retry automatically (section 10).

## 8. What is only model-checked

Liveness (EveryTaskSettles, JobsEnd), which is out of the prover's reach, and the
four violations of section 10, which are counterexamples. Every other property
of a run is stated by a theorem.

## 9. What is not modelled, and why

Parts marked `not_modelled` in PROJECT.json. The cache is created and never
used: no code sets or gets an entry. Migrations run in order at start on one
thread; what their endpoint does to the shared connection is in ConnectionTx.
Logging, metrics, tracing, evidence bundles, body logs and the drift script are
I/O around straight-line code and keep no state others rely on. The extractor
and the adapters are text processing; Intake keeps what they decide (a key, a
priority). Within the modelled parts: of the calls that raise, those are left
out that end a request before it has written anything (the queries of the engine
and of a policy, a read that fails altogether) or change only the answer
(`get_work_item` after a committed merge), and `enqueue_reconciliation`: a live
delivery for which it raises, or that a crash ends before it, is refused when it
is sent again and has no job, as one that is cut, and no property says that a
signal leads to a job; the engine's `publish` has no caller among the endpoints,
and `actor`, `resume_at` and the other free-text fields decide nothing; Intake
has one tenant and one source, since every query is by tenant; owner, due date
and confidence are merged like the priority and are left out; Reconcile leaves
out observations from before materializations existed, and what it says is
served is served by a filter whose checks do not raise, the others being in
PocketEvents; PocketEvents leaves out signatures, the choice of the tenant, and
the webhook's answer to a duplicate, which changes nothing, and takes the
contract of a record as a flag; Publication has two fields of a policy and one
item per canonical key, from which WORKS' idempotency key is made; RateLimit
leaves out `get_endpoint_usage`, which nothing calls; ApiKeys the column
`last_used_at`; Webhooks signatures, counters and the broadcast to WebSocket
clients, which never happens (section 10); Autonomy the blast radius and the
texts. The system clock is a counter that grows between any two stamps: ties and
clock steps backwards are not modelled.

## 10. Where the code and its documents differ

Four runs of kind "violation" (PROJECT.json, `findings`): a terminal status that
is left (`transitions.py:148`), a status without its audit row (`api.py:502`),
two revisions of a recording served (`api.py:529`), and a publisher that never
re-enrolls (`publishers.py:341`). Each quotes the document, comment or test that
says otherwise.

Further disagreements, for which no run is spent:

* A crash between the observation and its work item, or an item's transaction
  that is rolled back (`service.py:56`, `:74`; `store.py:377`, `:407`): the retry is
  answered "replayed" without a work item and none is ever created;
  `tests/test_adversarial.py:189` says "Replay returns the same work_item as the
  original observation". LostOnlyIfCut of Intake says exactly how far that goes.
* A read serves what was withdrawn when the filter cannot tell:
  `filter_withdrawn_pocket_rows` returns all rows after any exception
  (`pocket.py:1198`-`1206`), keeps a row whose check raises, and does not look
  for the consent of a row whose metadata cannot be parsed (`:1217`-`1236`).
  Whether that is meant no document says; WithdrawnIsNotServed excepts exactly
  these rows (`unchecked`), and shows that nothing else is served.
* `policy.py:44` calls `max_work_items` the maximum number of OPEN items, yet the
  gate (`service.py:104`) lets an observation pass whose key any item has, a
  closed one included. A sequential test shows it; QuotaExceededOnlyByRace states
  what is left.
* ADR-008 lists `critical_file_touched` among the signals that "always" force a
  block or a review; `_decision` looks at it only for a merge, and retries a check
  of such a proposal by itself (theorem RetryIgnoresCriticalFiles). Such a retry
  may also stand beside the controls `full_test_suite_required` and
  `exported_signature_change_requires_review`.
* The router of `publisher_from_env` gets no policy store and makes an empty one
  (`publishers.py:407`): `allowed_destinations` is not enforced there, against
  `publishers.py:13-15` and `tests/test_boundary_conformance.py:11`.
* `docs/API.md:119` says that an APPROVED item is published and that the
  idempotency key is derived from the item's id; the endpoint does not look at
  the status, and the key is made of the tenant and the canonical key.
* Policies are never loaded back from the table when the process starts.
* ADR-008 keys the global rate limit by authenticated identity; the middleware
  keys it by the client's host, so that limits set for a key are not consulted
  for the requests of that key (`README.md:251` of the repository).
* A negative `canary_error_rate` passes the request's schema and makes
  `_validate_input` raise an exception that nobody catches (`status` "error" in
  Evaluator).
* The endpoints that fire events run on threads without an event loop, so that
  nothing is broadcast to WebSocket clients (`api.py:168`); "delivered" is counted
  before the delivery and "failed" never (`docs/API.md:158`).
* The history of decisions is ordered by `evaluated_at`, which is always empty
  (`api.py:495`, `:2467`).

Things a reader of the model should know, which no document excludes:
more than 100 pending jobs at a start leave the rest unsubmitted, and since a
signal for such a recording is coalesced into its pending job, they stay so
until a later start; a signal that arrives while a job is past its fetch is
coalesced into that job, so the last revision may stay unfetched; a delivery is
registered before it is processed, so one that a crash or a raised call has cut is
refused when the provider sends it again (LostOnlyIfCut of PocketEvents excepts
exactly these); a job whose start or end could not be recorded stays active, and
coalesces every signal for its recording, until the next start of the process
(`faulted` in NoJobStranded and JobsEnd); two
first records of one consent with different purposes may both pass the check, of
which the later one decides (the exception `contested`); two rotations of one key
leave two successors, and a rotation that races a revocation leaves one; of two
first webhook registrations one may be dropped.

## 11. Plan

Order: the engine and intake (the system's reason to exist), the queue and the
connection they run on, then the connector, then the rest.

1. Done: StrictMachine, Lifecycle, TaskQueue, Intake, ConnectionTx, Reconcile,
   PocketEvents, each with its proofs.
2. Done: Publication with the tenant policies, RateLimit, ApiKeys, Sensing,
   Webhooks, Autonomy and Evaluator, composed in Services, each with its proofs.
3. Done: AtomicStore and WorkQueue, with the proofs that ConnectionTx and
   TaskQueue implement them.
4. Left: abstract specifications of what reads of the Pocket connector and of
   what intake promise, and proofs that PocketEvents and Intake implement them;
   the signature and the tenant of an incoming Pocket webhook; the cache, should
   the service begin to use it.
