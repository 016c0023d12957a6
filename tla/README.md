# SignalKit Stream in TLA+

This directory holds a formal model of SignalKit Stream: TLA+ modules for the
parts of the program that keep state, TLC configurations that check them on
small instances, and proofs checked by TLAPS that hold for every size.

Paths of the code are given from the root of the repository; `pkg/` stands for
`src/signalkit_stream/`.

## 1. The system

Stream polls sources (Reddit, GitHub, Hacker News, RSS, JSON Feed, REST), turns
what it finds into events with stable ids and content fingerprints, stores them
in one SQLite database, and delivers every new or changed event to every sink
(a webhook, a file, standard output) through a transactional outbox.

    source -> collector -> run_collector -> SQLite store -> DeliveryEngine -> sink
                  ^             |            signals            |
               HTTP retry    contract        checkpoints     at least once,
               rate limits   validation      deliveries      with a key
                             one transaction source_health
                  StreamRuntime: one worker per source and sink, semaphore, health

### Components

| Component | Code | State | Operations | What makes it correct | Model |
|---|---|---|---|---|---|
| Outbox | `pkg/_storage_impl.py` | signals, delivery_sinks, deliveries, two triggers | write_many, register_delivery_sink, list_ready, mark_success, mark_failure, retry_dead | rows keep up with the stored versions; no row without its event; attempts are not refunded | `Outbox` |
| Delivery engine | `pkg/delivery.py` | the pass in progress, the request in flight | pass, send, four outcomes, stop | delivered means received; budget respected; every open row settles | `Delivery`, `AtLeastOnce` |
| Sinks | `pkg/sinks.py` | none of their own; the consumer's | send, idempotency key | a consumer ends with the newest version | in `Delivery` |
| Collection pipeline | `pkg/pipeline.py`, `pkg/contracts.py` | checkpoint; cursor, counts and page of a run | begin, collect, validate, commit, fail | no item behind the checkpoint is missing; failures keep the checkpoint; everything is collected | `Pipeline` |
| Runtime | `pkg/runtime.py` | workers, semaphore, failures, health rows | poll, succeed, fail, sleep, stop, run once | permits are not lost; failures survive restarts; rate limits are kept; every source is polled | `Runtime` |
| HTTP base | `pkg/collectors/_base_impl.py`, `base.py` | rate-limit snapshot, request semaphore | request with retries, deadline, Retry-After | permits are not lost; nothing is sent late, or before the delay asked for (up to `max_delay`) is over; every call ends | `Requests` |
| RSS | `pkg/collectors/rss.py` | cursor: offset, anchor, validators | collect | a feed that changed before the place of a walk restarts it; a validator hides nothing unread | `RSSCollector` |
| JSON Feed | `pkg/collectors/jsonfeed.py` | cursor: page, offset, seen ids, watermark, validators | collect | nothing behind the watermark is uncollected; walks end | `JSONFeedCollector` |
| GitHub | `pkg/collectors/github.py` | cursor: page, offset, page size, watermark | collect | the newest revision of every issue is collected, also those updated in one second | `GitHubCollector` |
| Hacker News | `pkg/collectors/hackernews.py` | cursor: seen ids, threads to refresh | collect, with concurrent requests | every story is collected; recent threads are read again | `HackerNewsCollector`, `Requests` |
| Reddit | `pkg/collectors/_reddit_impl.py`, `reddit.py` | cursor: after, seen ids, watermark; the token | collect, token renewal | as JSON Feed; one renewal per rejected request | `RedditCollector`, `Requests` |
| REST | `pkg/collectors/rest.py` | cursor: cycle ids, seen ids, page or opaque cursor, validators and pending ones | collect | a cycle is known only when complete; it completes | `RESTCollector` |
| Migrations | `pkg/migrations.py`, `storage.py` | user_version, schema | open, migrate, validate | all or nothing; nobody works on another schema | `Database`, `SchemaSwitch` |
| Backup, lock probe | `pkg/maintenance.py`, `pkg/sqlite_ops.py` | temporary file, published file | backup, probe | a backup is a checked snapshot | `Database` |
| Command line, dashboard | `pkg/cli.py`, `pkg/dashboard.py` | none | collect, run, retry-deliveries | as the parts they call | as actions of the modules |
| Configuration, registries, verification, diagnostics, observability, logging, text | `pkg/config.py`, `pkg/registry.py`, ... | none | parse, validate, read | pure, or read-only | not modelled |

### How they interact

The programs share the database and nothing else.  Inside `signalkit run`, all
workers are tasks of one asyncio thread: they interleave at awaits only (an HTTP
request, a sink's `send`, a sleep, the semaphore).  Between two awaits the code
runs alone, except for another process with a connection of its own: `signalkit
collect`, `signalkit retry-deliveries` and the dashboard.  Triggers couple the
write of an event to the outbox rows of all enabled sinks in one transaction.

### What is hard in this code

* **State read before an await and used after it.** `deliver_once` reads a batch
  of rows, then awaits one send per row; events change meanwhile.
* **Crash and restart** between a consumer's acceptance and the mark, between
  pages, between a failure and its health row; registration and backfill at
  every start.
* **Late and lost requests** of attempts that were given up.
* **Faults of the shared database**: a lock held past the busy timeout surfaces
  as an exception in whatever task met it.
* **Order**: batches smaller than the backlog; versions that come back.
* **A source that changes between two calls** of one walk through it: offsets,
  page numbers, anchors and conditional requests refer to what was there before.
* **A position that means something else in the next call**: a page number when
  the size of the pages is the limit of the call, the validator of one page sent
  with the request for another.
* **Concurrent requests** of one call that share permits, a deadline and a token,
  and outlive the call when one of them fails.
* **A process that dies** between two statements of a migration.
* **Stale memory**: attempts, cursors and rate-limit snapshots.

The list with its source lines is `hazards` in `PROJECT.json`.

## 2. Modules

    Outbox ---------+--> Delivery --> DeliveryProofs      AtLeastOnce (abstract)
      |             |        \--> MCDelivery                 ^ implemented by Delivery
      v             +--> Pipeline --> PipelineProofs
    OutboxProofs             \--> MCPipeline
    Runtime --> RuntimeProofs, MCRuntime

    Listing --> RSSCollector, JSONFeedCollector, GitHubCollector,
    |           HackerNewsCollector, RedditCollector, RESTCollector
    v              \--> Collectors --> CollectorsProofs, MCCollectors
    ListingProofs
    Requests --> RequestsProofs, MCRequests               SchemaSwitch (abstract)
    Database --> DatabaseProofs, MCDatabase                  ^ implemented by Database

**Outbox** has the store's tables as variables and one operator per SQLite
transaction; the modules that use the store conjoin these operators with the
state of their callers.  `signal[e]` is the stored fingerprint of an event,
`row[s][e]` its delivery row (status, attempts, and whether `next_attempt_at`
has been reached), `older[s]` the order of the rows by `updated_at`, which
`list_ready_deliveries` sorts by.  The triggers stamp a row with the event's
`collected_at`, a moment before its commit, so a fresh row may sort before
rows stamped in between (`Restamp`).

**Delivery** is `DeliveryEngine` with everything that happens around it.

| Action | Code |
|---|---|
| `Start(S)` | `StreamRuntime.__init__` registers the enabled sinks, with backfill where configured, and every sink gets a worker |
| `Halt` | SIGTERM or kill: passes and requests in flight are forgotten |
| `SourceWrite` | a committed page (any subset of events, any payloads) |
| `Poll(s)` | `list_ready_deliveries` and the first `send` of the pass |
| `Accept(s)` | the consumer takes the request, and has not answered yet |
| `Acknowledge`, `Supersede` | `send` returned; the fingerprint is compared with the one sent |
| `FailRetryably`, `FailPermanently` | `SinkError`, or any other exception |
| `LockedOut(s)` | `sqlite3.OperationalError` ends the sink's task |
| `ReplayDead(s)` | `signalkit retry-deliveries`, the dashboard's retry |
| `ArriveLate` | a request that was given up reaches the consumer |
| `TimePasses(s, e)` | a `next_attempt_at` is reached |

An outcome, the row it writes and the next `send` are one step, for there is no
await in between.  `received` and `held` observe the consumers: everything each
ever accepted, and what it applied last.

**AtLeastOnce** says what is promised, without tables or processes: versions
change, consumers receive versions any number of times, and a sink records an
event as delivered only when the consumer received the current version.

**Pipeline** is `run_collector`.  A source is a list of items, a cursor is how
many of them lie behind it; a collector is modelled by the contract it owes
(`Collect`), by one that keeps no cursor (`CollectWithoutCursor`) and by the ways
of breaking the contract that `validate_collector_result` looks for
(`CollectUnsound`).  `Commit` is one transaction: events, triggers, cursor.
Several runs of one source may overlap, each with or without `--fresh`.

**Runtime** is `StreamRuntime`: `Enter` and `Leave` are the two ends of `async
with self._semaphore`, with asyncio's first-come queue; `Succeed` and `Fail`
are the two ways through `_run_source`, with the delays of `_success_delay` and
`_failure_delay` and the health row; `Hear` is a response whose headers replace
the collector's snapshot; `LockedOut` is a health row that cannot be written;
`FinishOnce` ends `run --once`.  Durations are ticks that remain.

**Listing** and one module per collector are pure: `Collect(cursor, listing,
limit)` is what one call of `collect()` returns (new events, threads whose
comments were read, next cursor, `has_more`) when the source serves `listing`.
Each cursor has the fields of the code's, but for one: the feeds' ETag and
Last-Modified identify the same document and are one field, `etag`.  A validator
is modelled by what it identifies, so `NotModified` is a 304.  An item is an id,
a revision (all fields an event is made of), the second of its last update and
whether it is dead.

`RESTCollector` has both validators and the pending ones.  What the endpoint
sends is part of its configuration: `validator` is `"body"` (every response has
an ETag of its own), `"first"` (only the first page has one) or `"listing"` (every
response has the Last-Modified of the whole collection); `sized` says that a
`limit_param` is configured, so that a call is served pages of its own limit
(`Size`), while the position it keeps is a page number.  `GitHubCollector` keeps the
page size of a walk, clamped to `MaxPerPage`, and is given what the search
returned, which is less than what matches when it reports `incomplete_results`.

**Collectors** composes them with a source and the checkpoint.

| Action | Code |
|---|---|
| `Publish`, `Update`, `Kill`, `Comment` | the source: new items push old ones off a listing of fixed length; a search sorts by the last update |
| `Remove`, `Reorder` | items leave the listing; the publisher of a feed puts two entries in another order |
| `Collect(limit, missing)` | one call of `collect()` whose page and cursor were committed, with the limit `run_collector` has left; the answer of a search that is `Incomplete` lacks the matches `missing` |

`Loose` says when the source does what to items a walk has to find again: between
walks it removes and moves what it likes, and an RSS feed does so during a walk
as well, from the anchor on; the types in `MidWalk` do so anywhere and at any time.
`got`, `unread`, `redated` and `waived` observe what was collected; `waived` are the
items a collector owes nobody: those before an initial poll without backfill,
and those an incomplete search may have left out, until they change.  A failed
call, a failed commit and a restart all resume from the committed cursor, and are
no step.

**Requests** is `HTTPCollector.request` for the requests of one call, gathered
(Hacker News) or one after the other (Reddit, with or without the credentials to
renew a token; the other collectors are the case of no token).

| Action | Code |
|---|---|
| `Begin`, `Wake` | an attempt begins: `_ensure_deadline`, then the semaphore's queue |
| `Acquire` | `async with self._request_semaphore`, and the second look at the deadline |
| `Succeed`, `Reject`, `Refuse`, `Busy`, `Lose` | a status below 400, a 401, a permanent error, a retried status with or without Retry-After, a timeout or network error |
| `Renew` | `RedditCollector._token`, at the start of a call or with `force=True` |
| `NextCall` | the next `collect()`, with the cached token |

A sleep that does not fit the deadline fails the request (`Fits`).  When one
gathered request fails, `collect()` raises and closes its client; the others run
on and get no answer any more.

**Database** is the file, the processes that open it and the backups taken of it.
`Start`, `ReadVersion`, `BeginMigration`, `Migrate`, `Finish`, `GiveUp` and `Check`
are `SQLiteSignalStore.__init__` and `migrate_database`, one statement of
`_migrate_to_v1` at a time on the pages of its own transaction; `Stop` is the end
of a process anywhere; `Probe` is `probe_write_lock`; `CheckDestination`, `Copy`,
`Publish` and `Abandon` are `backup_database`.  **SchemaSwitch** is what a user may
rely on: schema and version change together and at once.

**MC\*** modules define the values of the constants the configurations use.

## 3. What is checked

| Run | Instance | Shows |
|---|---|---|
| `delivery_batch` | 1 sink, 2 events, 2 payloads, batches of 2, 2 attempts, one late request, lock faults | `Inv`, `BusyRowsAreOpen`, `BudgetRespected`, `OutboxComplete`, `DeliveredWasReceived`, `BudgetNeverRefunded`, `ImplementsAtLeastOnce` |
| `delivery_settle` | 2 events compete for batches of 1; fair | `DeliveredIsHeld`, `OpenRowsSettle` |
| `pipeline_overlap` | 2 items, one of them filtered, 2 contents, 2 runs at once, no sinks; fair | `Inv`, `NoGap`, `CheckpointKept`, `EverythingCollected` |
| `runtime_guard` | 2 sources, 1 permit, threshold 3, lock faults; fair | `Inv`, `FailuresSurvive`, `RateLimitRespected`, `EverySourceIsPolled` |
| `collectors_poll` | the six collectors: RSS, GitHub with complete and with incomplete searches, JSON Feed, Hacker News, Reddit, REST in 6 configurations; a listing of 3 items, pages of 2, limits 1 and 3; fair | `Inv`, `ValidatorHidesNothing`, `NothingBehindWatermark`, `ChangedFeedRestarts`, `SourceIsMirrored`, `RecentThreadsAreRead`, `EveryWalkEnds` |
| `requests_retry` | 3 requests, 2 permits, 3 attempts, deadlines of 1, 3 and none, 2 revocations; fair | `Inv`, `SleepFits`, `EffortBounded`, `NothingSentLate`, `RetryAfterHonoured`, `EveryCallEnds` |
| `database_upgrade` | 2 processes, 2 backups, 9 initial files (new, of old releases, current, newer, foreign, incomplete) | `Inv`, `OpenMeansCurrent`, `BackupIsSnapshot`, `ImplementsSchemaSwitch` |

Five runs end in a violation, on purpose: each is a sentence of the
documentation that the code does not keep.

| Run | Sentence | What happens |
|---|---|---|
| `delivery_budget` | `docs/OPERATIONS.md:160`: exhausted retry budgets become `dead` | the last attempt of an old version fails after the event changed: the new version, with no attempt behind it, becomes dead (`pkg/delivery.py:91` uses the attempts read before the await; the row is marked by key) |
| `delivery_revert` | `docs/ARCHITECTURE.md:109`: a later mutation produces a different key | contents A, B, A: the third version has the key of the first (`pkg/sinks.py:218`), a consumer that honours keys keeps B |
| `delivery_locked` | `docs/OPERATIONS.md:73`: a later operation can proceed normally | the worker that met the lock is gone until a restart (`pkg/delivery.py:169-177`) |
| `runtime_stale` | `docs/ARCHITECTURE.md:121`: extended when the source reports an exhausted rate limit | a Retry-After heard once extends the sleep after every later success without headers (`pkg/runtime.py:249`, `pkg/collectors/_base_impl.py:136`) |
| `collectors_reordered` | `docs/COLLECTION_RELIABILITY.md:56`: when the feed changed, collection restarts | an entry before the anchor is removed and another one inserted, or entries change places across it: the anchor keeps its index (`pkg/collectors/rss.py:82-90`), and the walk goes on behind an entry it never read |

Four more configurations of `MCCollectors` end in a violation.  They are no runs of
`PROJECT.json`, and are checked by hand, with `tlc -config MCCollectors_listed.cfg
MCCollectors` for the second of them:

| Configuration, property | Sentence | What happens |
|---|---|---|
| `MCCollectors_revised.cfg`, `ValidatorHidesNoRevision` | `docs/COLLECTION_RELIABILITY.md:56`, as above | an entry changes in its place behind the offset: the walk goes on, and the ETag stored at its end (`pkg/collectors/rss.py:148`) is of a document that contains the change, so that a 304 hides it until the feed changes again |
| `MCCollectors_listed.cfg`, `ValidatorHidesNothing` | `docs/GENERIC_REST.md:145`: validators are not committed during a drain, preventing a 304 from hiding un-emitted objects | the validator committed at the end is that of the last response (`pkg/collectors/rest.py:224-226`): with one Last-Modified for all pages, an item published during the drain is hidden |
| `MCCollectors_sized.cfg`, `NothingBehindWatermark` | `docs/GENERIC_REST.md:139`: pages are walked until the endpoint is exhausted | with `limit_param` a page is as large as the limit of its call (`pkg/collectors/rest.py:146-147`): page 2 after page 1 of another size skips items, and the cycle completes without them |
| `MCCollectors_undated.cfg`, `PollsAreIdempotent` | `pkg/models.py:38`: polling the same object does not create a false update | an RSS entry without a date gets the time of the poll as `created_at` (`pkg/collectors/rss.py:266`), which is part of the fingerprint: the next poll that reads the feed changes the event, and every sink gets it again |

### Bounds

There is no bound on the number of steps: the runs explore the complete state
space of their instance.  Finite are the sets (events, payloads, sinks, sources,
runs, processes), `MaxAttempts`, `MaxLate` (requests on the network after their
attempt was given up), `Horizon` and `MaxItems` (items a source publishes),
`MaxRev`, `MaxTime`, `MaxMissing`, `MaxRows`, `Revocations`, and the failures in a
row, which are counted up to `Threshold`, beyond which no code tells them apart.

* Delivery: two payloads are enough for every comparison the code makes, which
  is of the stored version with the one in flight, and for a version that comes
  back.  Two events are enough for order within a sink.  Sinks share nothing but
  `signal`; the runs have one, the theorems any number.
* Pipeline: two items with the first one filtered have a page of filtered items
  only, and an item behind it.  The run has no sinks, and one visible item under a
  limit of two: that what is stored is also queued (the outbox half of `NoGap`), and
  that a page cut by the limit leaves no gap, are in the theorem `NothingSkipped`
  and in no run.  The outbox rows that a write makes are checked in Delivery's.
* Runtime: two workers and one permit have a full semaphore with a queue.
* Collectors: a listing of 3 items in pages of 2, read 1 or 3 at a time, has a
  walk that is cut in the middle of a page, at its end and at the end of the
  list.  How many items a source publishes is part of its configuration
  (`conf.items`): the fourth of JSON Feed, Hacker News, Reddit and REST pushes one
  off.  Those whose items change have three, in two revisions: three issues in two
  seconds have two that share the second of the watermark, one updated after the
  search that set it, and a search of two pages.  A limit of 3 is above
  `MaxPerPage`, so GitHub's clamp bites.
  `Window >= Cap`: a Hacker News window shorter than the list never catches up.
  `SearchCap` (1000 in the service) is never below the number of issues that share
  a second: those beyond it cannot be reached by a search.

  What the passing runs leave out, because the code loses items there:

  * Removals, reorderings and (on GitHub) updates that shift what a walk has
    read, which `MidWalk = {}` keeps to the time between walks; for RSS, to what
    lies from the anchor on.  `collectors_reordered` has them for RSS, whose
    documentation promises a restart; page numbers and offsets of the others then
    skip an item, which is a hazard on record that no document speaks of.
  * `limit_param` with numbered pages, or with one page (`Steady`):
    `MCCollectors_sized.cfg` has the numbered ones.  With an opaque cursor it is in
    `collectors_poll`.
  * One Last-Modified for all pages of a REST endpoint (`Distinctive`):
    `MCCollectors_listed.cfg`.  For an endpoint of one page it is in
    `collectors_poll`.
  * An RSS entry that changes in its place is in `collectors_poll`, but nothing is
    claimed there of the revisions a 304 hides: `MCCollectors_revised.cfg`.

  An incomplete search leaves out at most `MaxMissing` matches.  The watermark
  passes them (the documentation promises a warning only), and the properties
  exempt just them: all that such an answer may have left behind, until it changes.
* Requests: three requests and two permits have a queue; three attempts have a
  first, a middle and a last one.  A server asks for more than `MaxDelay`, and
  gets `MaxDelay`.  The tasks that outlive a failed call end before the next one
  begins.
* Database: two processes have a migration with a waiting process and one that
  reads the version before and begins after another's commit.

### Fairness

* `Delivery`: a live worker polls again (its loop has no other exit than those
  modelled), a send ends (the webhook client has a timeout; the file sinks do
  not wait), the clock advances.  `SourcesFallQuiet` is needed: an event that
  changes during every send is superseded for ever.  Nothing is assumed of
  consumers: a failing one makes rows dead, which settles them.
* `Pipeline`: the worker begins run after run, a collector answers or raises
  (timeouts, bounded retries), a page in hand is committed or refused.
  From some moment, `CalmDown`, nothing disturbs the runs any more: nothing is
  collected from a source that always fails, or by a process that is always
  killed.  Before it, and it may come at any time, every disturbance may happen.
* `Runtime`: every ready task runs (asyncio), a run ends, the clock advances.
  A lock fault ends a worker for good, so `EverySourceIsPolled` speaks of those
  that live.
* `Collectors`: the runtime polls a source again and again (`Collect` happens if
  a call can succeed).  A source need not publish or stop publishing anything;
  only, from some moment on, its publisher leaves the order of a feed alone
  (`OrderSettles`): one that is reordered before every call is begun again for ever.
* `Requests`: tasks that can run do, the client's timeout ends every request
  (`Lose`), the clock advances.  The server owes nothing.
* `Database` has safety and refinement only: a migration may always fail again.

## 4. What is proved

TLAPS checks these for all values of the constants that satisfy the `ASSUME`s
(`OutboxAssumption`, `DeliveryAssumption`, `PipelineAssumption`,
`RuntimeAssumption`, `DatabaseAssumption`, `ModeAssumption`, `RequestsAssumption`,
`CollectorsAssumption`).
They say no more than what the code's own validation enforces, and that values
of different kinds differ.

* `OutboxProofs`: lemmas on each store transaction (types; which rows it
  touches and how), used by both users of the store.
* `DeliveryProofs`: `InvHolds`, `BusyRowsStayOpen`, `AtLeastOnceDelivery`,
  `RetryBudget`, `OutboxCompleteness`, `BudgetTheorem`, `Implements`, and
  `NewestIsHeld`, under hypotheses that its argument below explains.
* `PipelineProofs`: `PipelineInv`, `NothingSkipped`, `CheckpointSurvives`.
* `RuntimeProofs`: `RuntimeInv`, `FailuresAreKept`, `RateLimits`.
* `RequestsProofs`: `RequestsInv`, `SleepsFit`, `EffortIsBounded`,
  `NothingIsSentLate`, `RetryAfterIsHonoured`.
* `ListingProofs`: lemmas on what the collectors are built from: the parts of a
  listing (`First`, `Beyond`, `Slice`, `Following` an anchor), the items kept of
  it, the ids before a known one, the ids remembered, and the GitHub search.
* `CollectorsProofs`: `InvHolds`, `TypesAreKept`, `ValidatorsAreHonest`,
  `WalksEndAtCollected`, `FeedsRestart`.  The last three are about sources a
  collector can rely on (`Reliable`): they do not lose or reorder, while a walk is
  on, what it has read (`MidWalk`), and a REST endpoint numbers pages of one size
  (`Steady`).  `ValidatorsAreHonest` also needs that a REST validator tells one page
  from another (`Distinctive`).  Without these the code breaks the properties, as
  the run `collectors_reordered` and the configurations `MCCollectors_sized.cfg`
  and `MCCollectors_listed.cfg` show.
* `DatabaseProofs`: `DatabaseInv`, `OpenIsCurrent`, `BackupsAreSnapshots`,
  `ImplementsSwitch`.

**Delivery, the argument.**  "Delivered means received" is not inductive: it
needs that an accepted request was received by its consumer
(`FlightsMatchWorkers`), and that the row about to be marked is the row of the
event in flight.  The budget needs `StaleReadsAreHigh`: what a pass read is
never less than what the row holds, because between a read and the end of the
attempt the only writers of the row are the triggers, which reset it; that in
turn needs `BusyRowsAreOpen`, for a replay resets dead rows only, and a busy row
is never dead.  `Inv` is their conjunction.  `Implements` maps `signal`,
`received` and "status is delivered" to the variables of `AtLeastOnce`.

`NewestIsHeld` says more than "received": the consumer's last application is the
stored version.  It is false in general, and rightly so: a request that outlives
its attempt overwrites a newer version, and a consumer that drops known keys
keeps B after A, B, A (the run `delivery_revert`).  The theorem's hypotheses
exclude just these (`MaxLate = 0`, `Dedup = FALSE`), as the file and standard
output sinks do, and take the set of sinks to be finite.  `HeldInv` adds to the property
what a worker is about to acknowledge: an accepted payload is the one held.  That
a delivered row is not overwritten by an old request is `BusyRowsAreOpen`
again: a consumer only receives what belongs to an open row.

**Pipeline, the argument.**  `NoGap` alone is not inductive, since a run commits
from its own cursor and not from the checkpoint.  `RunCovered` adds that a run's
cursor has no gap behind it, and that a page it may commit holds every visible
item between that cursor and the page's.  Then a commit by any run, however
old its cursor, leaves no gap behind the cursor it writes.

**Runtime, the argument.**  The end of a run gives its permit back or hands it to
the first worker in the queue; `LeaveKeepsAccounts` shows that both keep
`PermitsAccounted` and `QueueIsWaiting`, which need each other (the worker at
the head must be waiting, and must not hold a permit).  `RateLimitRespected`
needs that the sleep covers what the source asked for (`SleepCoversEmbargo`),
which follows at the end of a run from `SnapshotCoversEmbargo`, and that a worker
in the queue has slept (`WaitingHaveSlept`), for a hand-over starts a run as
well.  `FailuresSurvive` needs `HealthIsCurrent`: a failure adds to the worker's
own count, and the restored count is that of the row.

**Requests, the argument.**  `PermitsAccounted` and `QueueIsWaiting` play the part
they play in `Runtime`.  That a retry waits as long as the server asked, up to
`max_delay`, needs `NapCoversAsked`: a request that sleeps does so for at least as
long as is left of that capped delay, and once it is queued, nothing is left of
it, however long it queues.  `SleepFits` is kept by the clock because a sleep ends, by one tick at least,
before the deadline it was measured against.  The bound on the cost of a request
is a sum over its legs, `SendsAddUp`: what the earlier legs can have cost
(`Spent`) plus the attempts of this one; that there are at most three legs is
`MayRenew`, and that a leg begins with a fresh count is part of every step to the
next one.

**Collectors, the argument.**  Neither property is inductive, and for one reason: in
the middle of a walk a collector remembers ids it met on this walk, and what is
older than they are may well be uncollected, namely what the walk has still to
reach.  `Inv` therefore relates a cursor to the part of the listing that the walk
has passed, and has one conjunct per collector for it.

* `PagesRead` (JSON Feed), `PostsRead` (Reddit), `EndpointRead` (REST): an id met
  on this walk is settled itself, and so is everything older within what was passed;
  behind the watermark, and behind an id of a complete cycle, everything older is.
  When a walk reaches the end, or a known id, the two together say that everything
  older is settled, and the ids become the next watermark.
  What "passed" means depends on how a walk is resumed: a number of places
  (`Above`), which new items only push further from the end, or an anchor
  (`DownTo`), which must still be listed or have fallen off the end (`Anchored`).
* `FeedRead` (RSS): new entries push the anchor down, and what a feed loses or
  reorders from the anchor on does not pull it up; where it is still at the offset,
  nothing came before it, and everything down to it was collected.  The
  validators kept are of a feed all of whose entries were.
* `IssuesRead` (GitHub): the search sorts by the last update, so an issue that is new
  or changes goes behind what was passed, which keeps its places; everything
  updated before the watermark was collected in its present revision, or is `waived`
  by an incomplete answer, which leaves out matches and keeps the order of the
  others: those are all that a position passes unread.  The
  watermark moves at the end of a search only, to the latest update it passed.
* `StoriesRead` (Hacker News): what is remembered is settled.

All but the last rest on `ListingSorted`.  A source's step keeps each of these
because it adds items at the front, changes them in place, or, between two walks,
removes them; a call keeps them because of what it read.  Validators are covered by the same conjuncts, through the newest item of the
document they identify (`HeadSettled`): one is kept only of a document that was read
to its end, or with a page of a walk whose ids are on record.  A pending one is
settled within what the walk has passed, and is everywhere once the cycle is
complete.  With one Last-Modified for many pages this fails, since its newest
item may have come after the first page was read.

**Database, the argument.**  The version is read before the write lock is taken, so
what a migration finds need not be what was read.  `OldOrCurrent` says that it is
a file of version 0 or a current one: only another migration can have come between,
for a newer release waits until nobody runs.  `WorkFollowsDisk` (a migration
only adds objects of the new schema to what is committed, and nobody else
commits meanwhile) and `StatementsDone` (what the statements so far have made sure
of) give, with the check of the shape, that a commit puts exactly the old objects
and all required ones in place, and that the file had no object that no migration
can complete; on a current file it changes nothing.  `ImplementsSwitch`
maps the end of a migration to `Upgrade`, or to a stutter in the latter case, and
everything that is not committed to a stutter.  `CopiesAreSnapshots` carries
the copy of a backup to its publication.

Only model-checked: the liveness properties (`OpenRowsSettle`,
`EverythingCollected`, `EverySourceIsPolled`, `SourceIsMirrored`,
`RecentThreadsAreRead`, `EveryWalkEnds`, `EveryCallEnds`), because the prover does
not reason about fairness.  Every safety property of a passing run, be it an
invariant, a property of steps or a refinement, is a theorem.

## 5. Abstractions, and what is not modelled

* An event is its id and fingerprint, and a payload is a fingerprint.  A cursor
  is a position.  Backoff is "due or not" in `Delivery`, and ticks in `Runtime`.
* The branch for an event that no longer exists (`pkg/delivery.py:73-83`) is not
  an action: no code deletes signals, and `RowsHaveSignals`, a conjunct of
  `Inv`, shows that a row never lacks its event.
* `disable_delivery_sink` is called by no program of the package; versions
  written while a sink is disabled are out of the model.
* One Stream writer per database, as `docs/OPERATIONS.md:62` requires: two
  engines on one database are not modelled.  The command line and the dashboard
  write from connections of their own, and are.
* The order in which a pass takes its records is left open; the code has a fixed
  one, so the model has every behaviour of the code and some more.
* `Pipeline` lets time pass between a page and its commit, which covers the
  requests a collector makes after it read the items.
* `run_collector` never sets `context.deadline`; other callers of a collector may,
  and `Requests` has calls with and without one.
* An absent checkpoint and one with an empty cursor are the same start.
* Parsing (XML, JSON, field paths, dates, headers) is reduced to what it yields:
  an item with an id and a revision, a date or none, a delay or none.  Malformed
  items, which the collectors skip with a warning, are left out; a REST endpoint
  begins to count its pages at 1.
* The comments of GitHub issues: they add events and no state.  On Hacker News and
  Reddit a call reads the newest comments of a thread, and `unread` is one of them.
* Reddit's hot, top and rising listings, which are not sorted by time.
* `Collectors` takes a call and its commit as one step; `Pipeline` has what may
  happen in between.
* `verify_database`, configuration, registries, diagnostics, observability and
  logging read and report; they change no state of the system.
* The table `signals` is copied, migrated and counted as a whole in `Database`
  (`rows`); its contents are those of `Outbox`.

## 6. Plan

Done: `Outbox`, `Delivery`, `AtLeastOnce`, `Pipeline`, `Runtime`, `Requests`,
`Database`, `SchemaSwitch`, the collectors, and the proofs about each of them.

1. `Stream`: Pipeline and Delivery over one store, end to end: what a source
   published is received by every consumer in the end.
2. Sources of `MidWalk`, unsteady pages and incomplete searches, with the losses
   that follow stated as a bound: how many items, and until when.
