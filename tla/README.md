# Aithena in TLA+

Specifications of [aithena](../src), a search engine for a library of PDF
books: a lister that finds the books, an indexer that puts their text and
embeddings into Solr, and an API that searches, uploads and administers them,
with RabbitMQ and Redis between the services. The modules here are translated
from the code; TLC checks them on small instances and TLAPS proves what matters
most for every instance.

    tlc -workers 2 -config PipelineOne.cfg MCIndexingPipeline
    tlapm IndexingPipeline_proofs.tla

## The system

Paths are relative to `src/src/`.

| Component | State | Operations | Interacts through |
|---|---|---|---|
| document-lister (`document-lister/…/__main__.py`) | none of its own; a scan in progress | scan the library, `handle_document` per file | reads the library, reads and writes tracking records in Redis, publishes paths to RabbitMQ |
| document-indexer, ingestion (`document-indexer/…/__main__.py`) | the delivery it works on | `callback` → `index_document`: checks, phase 1 (text to Solr), phase 2 (chunks and embeddings to Solr), `save_state`, `mark_failure` | consumes paths, writes tracking records, reads metadata overrides, posts to Solr and to the embeddings server |
| document-indexer, control (`…/control.py`, `consume`) | running / paused / processing, a pending pause, its copy in Redis, the consumer | pause, resume, status, signals; the consuming loop | HTTP threads and the main thread share the object; Redis outlives the process |
| document-indexer, text (`chunker.py`, `metadata.py`, `thumbnail.py`, `embeddings.py`) | none | functions of a file | called by `index_document` |
| solr-search, admin (`solr-search/main.py`) | none | requeue one, requeue failed, clear processed, reindex all | deletes tracking records, empties Solr |
| solr-search, upload | files in the upload directory, inside the library | write, publish, unlink on failure | the library, RabbitMQ |
| solr-search, metadata edits | overrides in Redis, fields in Solr | single and batch edits | Solr, Redis, and the indexer that reads the overrides |
| solr-search, circuit breakers (`circuit_breaker.py`) | closed / open / half open and two counters, for Redis, Solr and embeddings | `call`, `reset`, `get_status` | every request thread |
| solr-search, rate limiters | timestamps per client, in memory or in Redis | allow or refuse | request threads; other processes through Redis |
| solr-search, collections (`collections_service.py`) | collections and their items with positions, in SQLite | create, add, remove, reorder, delete | request threads |
| solr-search, backup (`backup_service.py`, `../../scripts/backup.sh`) | operations and their outcome, in memory; the orchestrator's lock | start backup, restore, test restore, status | a task per operation, the scripts, cron, the backup directory |
| solr-search, search (`search_service.py`, `rerank_service.py`) | latencies in thread locals | keyword, semantic and hybrid queries, fusion, reranking, paging, similar books | Solr, embeddings server |
| solr-search, authentication (`auth.py`, `reset_password.py`) | users in SQLite; signed tokens | register, login, change and reset of passwords, user administration | tokens outlive users |
| solr-search, reports (`metrics.py`, `main.py`) | the failure counter and the keys it saw | scrape, listings of tracked documents | Redis, the breaker |
| solr-search, configuration, logs | settings | | |
| embeddings-server | the loaded model | encode | HTTP |
| aithena-ui | what the browser shows | pages | the API |
| Redis, RabbitMQ, Solr, nginx | the stores and queues | third party | |

### What is hard here, and what makes each part correct

* **Tracking records.** One Redis value per file has three kinds of writers
  (lister, indexer, admin requests), all of which get and set, none of which
  locks. It must not claim what Solr does not hold; a file that stays must get
  into Solr; the services must not publish the same file for ever; status words
  shown to the operator should mean what the runbook says. A save that fails is
  retried, although Redis may have applied it.
* **Redelivery.** The acknowledgement is the last thing `callback` does, the
  publish has no confirm, the heartbeat can be missed during a long document:
  every document may be indexed again at any moment, over a half-done state.
* **Files change while they are indexed.** The two phases read the file
  separately; chunk documents are overwritten by number and never removed.
* **Pause and resume** race the document being processed, the connection and the
  restart; a pause must survive all of them until a resume, as far as Redis keeps it.
* **Circuit breaker.** The lock is not held during the call: results arrive in
  any state, those of an outage after it. It should open on consecutive failures
  only, close with a clean count and always recover.
* **Metadata edits** write Solr and then Redis without a lock, while the indexer
  reads the override before it posts: at rest the two stores must agree, and a
  batch that lists its documents page by page, unsorted, should treat all of them.
* **Rate limiters.** The clock is read before the lock is taken; in Redis counting
  and entering are two round trips. Neither may let more through than a window
  that can be stated.
* **Accounts and collections** are two databases without a common key, and tokens
  carry the id and the role of a user nobody looks up again: a collection must
  stay its maker's, a password the one last chosen.
* **Uploads** test a name and write it later; file, message, answer and indexing fail
  apart.
* **Backups** are tasks nobody waits for, around scripts whose exit codes are
  merged: no record may stay "in_progress", no failure may read "completed".
* **Search.** Rankings of books and of chunks are merged by id; totals must match
  what can be paged; neighbours are chunks, and the answer is books.
* **Reports** read keys first and records later, while records come and go.
* **Chunks.** The windows must cover the text and end, at every boundary.

## Modules

| Module | Stands for |
|---|---|
| `IndexingPipeline` | lister, indexer, admin requests and uploads over library, RabbitMQ, Redis and Solr |
| `IndexingPipelineProps` | types, invariants, action and liveness properties of it; statements of its documents |
| `MCIndexingPipeline` | values for TLC |
| `IndexingPipeline_proofs` | theorems |
| `IndexerControl`, `IndexerControl_proofs` | pause, resume, shutdown and the consuming loop |
| `CircuitBreaker`, `CircuitBreaker_proofs` | one circuit breaker and its request threads |
| `MetadataEdits`, `MetadataEdits_proofs` | single, batch and by-query edits against Solr, Redis and the indexer |
| `Accounts` | users, passwords, tokens |
| `Collections`, `Collections_proofs` | collections and items; extends `Accounts`, whose users own them; the proofs treat both |
| `SlidingWindow` | what a rate limiter promises: the abstract specification |
| `RateLimiter` | the in-memory limiter (uploads, logins), which implements `SlidingWindow` |
| `RedisRateLimiter` | the limiter of searches, which implements a wider `SlidingWindow` |
| `RateLimiter_proofs` | theorems about both limiters |
| `Uploads` | the upload endpoint in detail |
| `Backups` | backup and restore operations, their tasks, the orchestrator script, cron |
| `Search` | one worker thread that searches, in both architectures |
| `Chunker`, `Chunker_proofs` | the windows a text is cut into |
| `Reports` | the failure counter and the listings of tracked documents |
| `Services_proofs` | theorems about `Backups`, `Reports`, `Uploads` and `Search` |
| `MCAdministration` | values for TLC, and `MetadataEdits` and `Reports` side by side |
| `MCServices` | values for TLC, and the modules from `Accounts` to `Chunker` side by side |

### IndexingPipeline

A file's content is its *version*, a number that grows with every write and also
stands for the modification time. `disk[d]` is the version in the library (0: no
file), `parent[d]` and `chunk[d][i]` the version Solr's documents of `d` were
made from, `rec[d]` the fields of the tracking record that decisions depend on.
`queue` is the RabbitMQ queue. Each process has a program counter and the local
variables that live across its reads and writes:

* lister — `lpc`, `ldoc`, `lval` (the record read at the top of
  `handle_document`, written back at its end), `scan` (files left in this scan);
* indexer — `ipc`, `idoc`, `iver` (version phase 2 works on), `inext` (next
  chunk), `iupd` and `idraft` (the `save_state` under way: every save is a get,
  `LoadState`, and a set, `StoreState`), `linked` (the broker still counts the
  delivery as ours). `save_state` runs under `@retry`: `StoreRetried` is a set that
  Redis breaks off, applied or not, and `LoadAgain` the second get, whose update is
  `Merged` into the record as it is by then;
* admin — `apc`, `adoc`, `atodo` (keys of the scan left to treat); one request at
  a time. `udoc` is an upload written but not published.

`callback`'s second `mark_failure(stage="unknown")` follows every failure in
`StoreState`. The environment (edits, removals, crashes, aborted scans, lost
publishes, failed requests to Solr or the embeddings server, failed and retried
Redis writes, operator requests) draws on `Budget`, a constant number of events of
each kind; the proofs hold for every budget, TLC runs take small ones.
"fault" includes the case where Solr did the work and the answer was lost.
A record that Redis evicts (`allkeys-lru`) looks the same as one an operator
requeued and is `ForgetRecord`.

Chunk numbers and the count per version (`ChunkCount`) replace text; the
embedding and the post of a batch are one step, since nothing else reads what
lies between. The lister's repeated `path.stat()` is one step.

### IndexerControl

`mpc` walks through process start, `consume`'s two reads of `is_paused` before
the loop (`FirstTest`, `Sample`), the loop and the callback; `Pause`, `Resume`
and `Signal` may come between any two steps, as the HTTP threads and signal
handlers do. `saved` is the copy in Redis: `Persist` may fail, `Evict` is
`allkeys-lru` (an evicted key reads as "running"), and `Restored` is the start of a
process, paused when Redis says so and running when the read fails. These three draw
on `MaxFaults`. The ghost `astray` is true from such a fault until the next write that
succeeds or start that reads, `inherited` while a process that began paused has not
been asked anything. A lost connection goes back to
`connect` (`@retry`), a close by the broker ends the process with status 0
(`ClosedByBroker`), a crash restarts the container.
What happens to the documents themselves is the pipeline's subject.

### CircuitBreaker

One breaker, any number of threads. `Enter`/`Reject` are the test under the lock,
`End` the moment the function returns or raises, by what the service is just then,
and `Succeed`/`Fail` the record of it, possibly much later, in another state of the
circuit and with a service that has come back or gone down since; `Unexpected` is an
exception that passes through unrecorded. `elapsed` is the monotonic time since the opening, cut off at the
timeout it is compared with, and `failures` is cut off at the threshold, so no
bound on time or calls is needed. `streak` is a history variable.

### MetadataEdits

`solr[d]` is the fields of a document, `override[d]` the fields of the override in
Redis; a value is the name of the request that wrote it. A request goes through
`BeginEdit` or `BeginQuery` (which lists its documents with `ListPage`), then per
document `Check`, `Update` (Solr) and `Store` (Redis), each of which may fail. The
indexer reads the override in `BeginIndex`, lays it over what it extracted and
replaces the document in `Post`, sending only `PostedFields`. `Budget` bounds
failures, restarts, evictions and wipes, and indexings. The query is sent without a
sort, so `ListPage` takes any of `Pages`: each page is some of the documents that match
at its time, in an order of its own. The ghost `asked` is what a request was given or
what matched when it arrived, `astray` that a document left the result between two
pages or is on two. The ghosts `alone` and
`settled` say that nobody else wrote a document meanwhile: without a lock nothing
can be promised otherwise.

### Accounts and Collections

Every database call is one transaction; a `job` is what a request holds between
two of them (a login that verified a password and has yet to renew the hash, a
change that has yet to write, an `add_items` that has read the next position).
A token carries id, role and, as a ghost, the person (`who`). `Restart` seeds the
admin where no user is left and, when it is a new release, makes every hash old.
`items` and `collections` are the two tables; the owner is an id that the auth
database may no longer have, and `AUTOINCREMENT` is what keeps it from being
given out again. `mixed` holds the collections whose positions someone set in
part, or added to while they changed. Of the documents added together, `Fresh` are
those the collection does not hold yet; `Before` counts out their positions.

### RateLimiter, RedisRateLimiter and the promise they keep

`SlidingWindow` says: of Max + 1 admissions in a row the last comes more than
Span after the first, until the memory is lost (`Forget`); refusing is free. In
`RateLimiter` a request reads the clock (`ReadClock`) and gets the lock up to
`Delay` later (`Allow`, `Deny`). It implements `SlidingWindow` with
Span = Window − Delay, `admitted` being `taken`, the times the lock was had. In
`RedisRateLimiter` a search reads the clock (`Begin`), prunes and counts
(`Count`), and enters (`Record`); it implements `SlidingWindow` with
Max = SearchLimit + (searches under way) − 1 and Span = SearchWindow − Latency − 1
(the boundary entry is pruned too). Addresses do not influence each other, so one
is modelled. Searches let through because Redis failed leave no entry and are not
counted by either.

### Uploads, Backups, Search, Chunker, Reports

* `Uploads`: from `Choose` (the name; a taken one gets the seconds of the clock
  appended) to `Answer`. The handler does not give up the event loop in between,
  so there is one at a time; the indexer takes paths meanwhile and indexes what is
  there (`IndexUpload`) or fails (`IndexFails`). `Publish` has no confirm, so the
  message may be lost; `lost` remembers that, and a failure that Redis did not take. A name is the
  number of its stem and the seconds it was stamped with. A body is the
  number of its upload, `Partial` what a failed write leaves.
* `Backups`: `operations[i]` is the registry's record, `tasks[i]` the asyncio task
  and the script it waits for. A script takes the lock or gives up, runs its tiers
  in order (`RunTier`, any exit code) and merges their codes (`Worst`). A restart
  of the container loses registry, tasks and scripts.
* `Search`: corpus, rankings, architecture and page size are chosen at the start,
  the outcomes of the calls at every search. `answer` is the last answer, `pages`
  collects the pages of reranked answers. Solr's ranking of chunks (`bySimilarity`)
  leaves out those without an embedding; for similar books it is the ranking by the
  book asked about, and `min_score` cuts it off anywhere. What the code filters, sorts and merges is said
  by places: a list is `Arranged` from the places of another in an order of them
  (`Kept` leaves them as they stand), by counting the places before each. Scores
  are fractions; two that the code's floats take for equal stay in the order of the
  keyword ranking, which `BothLegsAgree` never contradicts.
* `Chunker`: a text is its length and the words that end a sentence; one window a
  step, by one of the code's three ways.
* `Reports`: a scrape reads the keys (`ScrapeBegins`), then the records
  (`ScrapeReads`), then brings the counter up to date (`ScrapeSyncs`), in several
  threads; a listing scans and then reads record after record.

### Parts side by side

These modules share no state. `MCServices` gives each its own variables and
`Services` explores one part at a time (`part`, chosen at the start), so that one
run covers what would be seven; `MCAdministration` does the same with edits,
scrapes and listings.

## Runs

Each passing run explores its whole state space.

| Run | What it shows |
|---|---|
| `PipelineOne` | one file with two versions (2 chunks, then 1) under every failure, under everything that makes it be indexed again, or under saves that are retried: `ProcessedIsSearchable`, `CountedChunksMatch`, `DuplicatesArePaidFor`, `TextNeverRegresses` |
| `PipelineTwo` | two files, one uploaded, version 1 refused by the page guard, batches of 2, a lost message: records stay truthful when files share queue, scan and bulk request |
| `PipelineLive` | `EventuallySearchable` and `EventuallyQuiet` with two writes, a crash or connection loss, a failed request or a retried save, and a requeue: every file gets into Solr unless an attempt failed, and nothing is published for ever. No message is lost here, no save fails and nothing is reindexed |
| `Control` | `IdleStateAgrees`, `PauseIsDurable`, `OnlyResumeEndsPause`, `InheritedPauseHolds`; `PauseReachesLoop`, `ResumeReachesLoop`, `ShutdownEnds`, with two faults of Redis |
| `Breaker` | `ClosedBelowThreshold`, `OpensOnConsecutive`; `RecoversWhenUp`, with the failures of an outage recorded after it |
| `Administration` | edits: `AgreeAtRest`: Solr and the overrides agree wherever the last writer was alone; `PagesMissNothing`: a batch by query skips a document only if one left the result or another is on two pages; reports: `FailuresCountedOnce`, `ListingIsComplete` |
| `Services` | accounts: `LastPasswordStands`, `LastAccountKept`; collections: `OnlyTheCreator`, `PositionsDistinct`; limiters: the refinements `LimiterKeepsPromise` and `OverrunIsBounded`; uploads: `FilesStand`, `AcceptedIsIndexed`; backups: `InProgressIsAlive`, `CompletedHadNoFailure`; search: `PagesPartition`, `BothLegsAgree`, `SimilarAreNearest`; chunks: `WindowsCover` |

Five runs check a sentence of the documentation that the code does not keep; TLC
gives the counterexample.

| Run | Statement | What happens |
|---|---|---|
| `PipelineCurrent` | the lister enqueues modified files | only when the record says processed; a change during the wait is swallowed |
| `PipelineReindex` | after a reindex every file is rediscovered | a document being indexed saves its record after the wipe and is never published again |
| `ControlFollows` | pause stops, resume restarts the consumer | a request between the two reads of `is_paused` is lost |
| `EditsSurvive` | manual edits survive reprocessing | the indexer never sends `series_s`, and a second edit replaces the override of the first |
| `SearchOneResult` | fusion removes duplicates at the book level | books and chunks have different ids, so nothing is fused: a book is listed once for its words and once per chunk |

`IdleStateAgrees` excepts one case that the code has: a connection found dead at
`basic_ack` skips `end_processing`, and the status reads "processing" with no
document at work until the next one ends. In the same way some properties except
what the code does lose, and say so in their statement: a password change that
overlaps a login renewing the old hash can be undone (`raced`); a file whose name
ends in the very second a later upload is stamped with is replaced (`FilesStand`);
a scrape that another one overtakes can make a failure count twice
(`FailuresCountedOnce`). A pause is lost by a start that cannot read Redis or finds the
key evicted, or that comes after a write that failed (`astray`); a document is skipped
by a batch by query when the pages move under it (`astray` as well); an accepted
upload is lost with its message, or with a failure that Redis did not take (`lost`).
Edits that overlap each other or an indexing (`settled`, `alone`) and adds that meet
reorders (`mixed`) lose what they lose; the properties say that nothing else does.
`ProcessedIsSearchable` and `CountedChunksMatch` speak of the time before a reindex,
and the second of the chunks that a record counts.

### Divergences without a run

Seen while modelling, and either visible in a single definition or of less weight:

* A file replaced by one with fewer chunks leaves the higher ones in Solr
  (`document-indexer/…/__main__.py:314`, nothing deletes a chunk): searches still find
  them, under the new book. `src/docs/admin-manual.md:907` speaks of unchanged files.
* Upload and lister publish without confirms (`solr-search/main.py:3182`,
  `document-lister/…/__main__.py:123`): a message can be lost that was answered with 202
  or recorded as queued. The scans of the lister make good for an upload's, not for the
  lister's own, whose record they find unprocessed and unchanged.
* `save_state` is retried whole (`document-indexer/…/__main__.py:162`). When Redis had
  applied the first set, the second declares a document processed again that the lister
  has meanwhile queued for its next version: a later scan may queue it once more. TLC found
  `DuplicatesArePaidFor` violated until retried saves were among its payments.
* A batch by query pages through a result that it asks for without a sort
  (`solr-search/main.py:3026`), and "return all matching document IDs" (3019) is not what
  it does when edits or indexings reorder the result between two pages.
* "per-request" latencies (`solr-search/main.py:488`) are not: facets, lists and details
  leave theirs in the thread, and the next search that asks Solr nothing records it as its
  own. Latencies are not modelled.
* The lister publishes before it stores (`document-lister/…/__main__.py:76`), so
  "Already enqueued, waiting for indexer" (`src/docs/guides/observability-runbook.md:183`)
  can be overwritten onto an outcome: nothing is queued any more.
* Every failure ends with `error_stage` "unknown" (`document-indexer/…/__main__.py:559`),
  although the runbook (450-452) has it name the phase.
* A close by the broker ends the indexer with status 0
  (`document-indexer/…/__main__.py:626`), which `restart: on-failure`
  (`docker-compose.yml:216`) accepts; the runbook (679) says it reconnects.
* A restore is given `RESTORE_SOURCE` (`backup_service.py:354`) where every restore
  script insists on `RESTORE_FROM` (`scripts/restore-critical.sh:35`): restores
  started through the API fail (`RestoreScript` in `Backups`).
* A tier script that dies with a code other than 1 and 2 leaves `worst_rc` at 0
  (`scripts/backup.sh:275-279`): the backup reads completed, which is why
  `CompletedHadNoFailure` speaks of the codes 1 and 2 only.
* `upload_id` is the hash of the whole path (`solr-search/main.py:3168`), the id in
  Solr that of the path relative to the library: they never match (`UploadId`,
  `SolrId`).
* When reranking has no vectors the fallback shows the first page whatever page is
  asked (`Rerank`), as a page of kNN always is (`Semantic`, `Hnsw`).
* A failed record that is cleared and fails again between two scrapes is counted
  once; the store of samples prunes latencies but never its counts of requests and
  errors, so the rate it shows is of all time.

### Bounds

Pipeline: the races are between one file's writers, so one file suffices for
most; the second file in `PipelineTwo` adds the sharing of queue and scan. Two
versions make "old" and "new"; 2 chunks then 1 make a document shrink and give
more than one batch. One event of each failing kind lets any two of them meet in
`PipelineOne`; `Apart` keeps removals, crashes, aborted scans, lost publishes and
failing saves out of behaviours with a requeue or a reindex, and the other way
round (both with failing requests), and retried saves out of all but those with edits,
crashes and failing requests (in `PipelineLive`, out of those with failing requests),
which is what makes it finish. `MaxVersion` is
the number of writes and uploads.
Control: `MaxBacklog` messages, a few crashes, drops and closes, and two faults of
Redis, so that one can follow the repair of another. Breaker: three threads,
thresholds 3 and 2.

Edits: two requests, two documents, one indexing, one mishap: a lost update needs
two writers, a moved page two documents with pages of one. Accounts and
collections: two threads, two names; `Scopes` spends the numbers on one question
at a time (two passwords with two accounts and a release; two roles; three people
and a collection; one person, a collection with three items). Limiters: limit 2,
window 3 and two requests, with a clock that runs well past a window (7 and 5), and
one loss of the memory. Uploads: three of three names (a free one, one too long
for a stamp, one that looks like a stamp) over two seconds. Backups: two
operations and cron, the three documented exit codes and a signal's. Search:
three books with 2, 1 and 1 chunks, the last with or without an embedding, and every
ranking: the candidates are at least 2 and twice the page, at most 4, so that reranked
results have a second page of books with pages of 1 and of 2, and one of 1 has books
beyond the candidates; similar books of 1 and 2 with an over-fetch that can leave
out a book. Chunker: every text of up to 8 words, sizes up to 4.
Reports: two documents, two scrapes at once, three changes of records.

### Fairness

* Pipeline (`FairSpec`): weak fairness of the lister's, the indexer's and the
  admin request's own steps and of the publish that ends an upload. The lister
  polls for ever, the indexer's loop consumes whatever is queued, a request that
  started runs to its end. Crashes, faults and operators are not fair. It assumes
  that a container that ended is started again; that this fails for a close by
  the broker is listed above. A lost publish leaves a record without a message for good (the next
  scans see it unprocessed and unchanged), so `PipelineLive` is without losses.
* Control: weak fairness of the main thread.
* Breaker: the clock ticks, threads keep calling (`Enter`), a result that is there is
  recorded (`Succeed`, `Fail`), and of the calls of a thread not every one ends in an
  unexpected exception, which would never be counted: strong fairness of `End`.

## Proofs

For every value of the constants that satisfies the assumptions stated where they
are declared (`ConstantsOK`, `BoundsOK`, `ThresholdsOK`, `EditsOK`, `AccountsOK`,
`CollectionsOK`, `LimiterOK`, `SearchLimiterOK`, `UploadsOK`, `BackupsOK`,
`SearchOK`, `ChunkerOK`, `ReportsOK`): types, finite sets and numbers in their
range. TLC evaluates all of them on the runs' values. Each safety and each action
property of a passing run is the statement of a theorem.

* `IndexingPipeline_proofs`
  * `TypeCorrect`. Frame lemmas say which process writes what; one lemma per
    process then treats its steps, here and below.
  * `RecordsTruthful` (`ProcessedIsSearchable`). It is not inductive: a record is
    written from a copy read earlier. `TruthInv` adds that the copies on their way
    (the lister's `lval`, the indexer's `idraft`) are truthful, that the indexer is
    past phase 1 only with the text in Solr, and that phase 2 has posted the chunks
    below `inext`. It is stable because, outside a reindex, Solr documents are only
    ever replaced (`SolrKeeps`), so what backed a copy when it was read still backs
    it when it is stored.
  * `TextMovesForward` (`TextNeverRegresses`) rests on `FreshInv`: every version in
    the library or in Solr was given out already, and Solr never holds a newer text
    than the library.
  * `DuplicatesPaid` (`DuplicatesArePaidFor`). Messages cannot be counted alone: a
    record that is open, a file the lister is about to publish, a request about to
    delete a record and an upload not published yet are each a message to come.
    `Due` is the sum of all of them for one file, and `DuePaid` that it exceeds one
    by no more than what was `Paid`: each step moves a message from one place
    to another, or pays. It needs that the lister and the indexer store records
    that close a file (`DraftsClose`), and that a bulk request deletes a record
    once (`BulkOnce`).
  * `ChunksMatch` (`CountedChunksMatch`). `PhaseTwo`: the chunks posted so far are no
    older than the text, since a document's text is only replaced by the indexer
    that goes on to its chunks. `Settled` is the property for every file with
    nothing outstanding; `Returned` says that a delivery the broker took back counts
    as outstanding, without which a second indexing could end unseen.
* `IndexerControl_proofs`: `TypeCorrect` (with `Slack`: a delivery that is held
  leaves room for its return), `PauseDurable`, `PauseEndsByResume` (a restart that
  agreed with Redis and could read it reads back the pause, by the former),
  `InheritedPause` (with `InheritInv`: nor does an ended process consume), `StateAgrees`
  (with `StateInv`: during a document the state is "processing").
* `CircuitBreaker_proofs`: `TypeCorrect`, `ClosedHasRoom`, `OpensAfterFailures`
  (with `CountInv`: the failure count of a closed circuit is no longer than the
  streak of recorded failures).
* `MetadataEdits_proofs`: `EditsTyped`, `StoresAgree` (`AgreeAtRest`),
  `NothingMissed` (`PagesMissNothing`). That the stores agree at rest is a
  statement about states with no request at work; what carries it through the
  others is `SettledAgree` (it holds as soon as no request is between its two
  writes), `AloneStands` (what such a request wrote to Solr is still there) and
  `ReadIsCurrent` (an undisturbed indexing holds the override that is in force).
  `PagesListed` follows a batch by query: while its pages have not gone astray, it has
  listed as many different documents of those that match as its next page starts at,
  and what was asked for still matches. After the last page these are as many as match,
  so they are all of them (`AllListed`), in whatever order each page came.
* `Collections_proofs`: `CollectionsTyped`, `PasswordStands`
  (`LastPasswordStands`), `CreatorOnly` (`OnlyTheCreator`), `PositionsAreDistinct`
  (`PositionsDistinct`), `LastAccountIsKept` (`LastAccountKept`). The core of `Inv`
  is that ids are never given out twice, so that the id in a row, a token, a request
  and the owner of a collection all mean one person (`RowsOK`, `TokensOK`, `JobsOK`,
  `ColsOK`). `HeldIsCurrent` says that a login about to renew a hash holds the
  password of the row or the row is marked `raced`; `AddsOK` that the position an
  `add_items` read is beyond all there are unless positions changed since.
* `RateLimiter_proofs`: the two refinements.
  * `LimiterImplementsPromise` (`LimiterKeepsPromise`). `LimiterInv` says that a
    request has waited no longer than `Delay`, so an admission comes at most `Delay`
    after its stamp, and that what was popped was admitted before the promised span
    (`PoppedIsOld`). An admission then maps to `Admit`: the admission `Limit` places
    back was popped, or the deque would be full; every other step maps to `Tick`,
    `Forget` or a stutter.
  * `OverrunBounded` (`OverrunIsBounded`). `RedisInv`: what was pruned is older than
    the span (`PrunedIsOld`), and the entries together with the searches that have
    counted and may still enter are at most `SearchLimit` + (searches) − 1
    (`RoomFits`), since a search that counts finds room for itself and every other
    adds at most one.
* `Services_proofs`
  * Backups: `EveryTaskEndsItsRecord` (`InProgressIsAlive`) and `CompletedIsClean`
    (`CompletedHadNoFailure`). The second is not inductive: `WorstTells` adds that
    while a task lives, an exit code of 0 kept by the script means that no tier
    failed so far. Most steps change one operation and its task, which `OneChanges`
    treats once.
  * Reports: `FailuresOnce` (`FailuresCountedOnce`). Several scrapes may be read and
    not yet applied, in an order still open. `Accounted` gives each of them a total
    that the counter stays below when it is applied, leaving room for what the
    scrapes after it count and for the failures that none has seen. A total is picked
    when the records are read and kept until they are applied (`FailuresInv`).
    `ListingComplete` (`ListingIsComplete`): a document that stood still was taken
    or is still to be read.
  * Uploads: `AcceptedIndexed` (`AcceptedIsIndexed`), `FilesAreKept` (`FilesStand`).
    `UploadsInv` adds that the upload under way is newer than all that were accepted
    and what it has written and sent, or lost, so far.
  * Search: `PagesArePartition` (`PagesPartition`), `FusionAgrees` (`BothLegsAgree`),
    `SimilarBooksAreNearest` (`SimilarAreNearest`). The lemma all of them use is
    `Arrangement`: places counted out along a strict order of a finite set are a
    sequence of all its items, each once, in that order. `FractionOrder` and `ScoresOrder` show that comparing
    scores by cross-multiplication is such an order, `BetterTwice` that a better
    rank twice is a higher score. `PagesArePartition` then follows from
    `SearchInv`: every reranked answer seen is a page of the one `Fused` ranking,
    whose pages are disjoint (`PagesDisjoint`). The books of a list of chunks stand where
    their nearest chunks do (`DeduplicatedBooks`), and what is cut off the list, by the
    limit, the over-fetch or `min_score`, is farther than what is left.
* `Chunker_proofs`: `EveryTextIsCovered` (`WindowsCover`), for every text, chunk
  size and overlap. That no window ends before the one before it needs `Between`:
  the last window ended at a sentence end unless there was none inside it, and it
  started earlier, so that the next one has room for as much (`RoomForTheLast`).

Only model-checked is what is about liveness: `EventuallySearchable`,
`EventuallyQuiet`, `PauseReachesLoop`, `ResumeReachesLoop`, `ShutdownEnds`,
`RecoversWhenUp`. They rest on fairness, and with it on ENABLED, which the prover
does not reason about. The five statements that the code does not keep have
counterexamples, found by TLC.

## Plan

What is left, by weight for the system: an abstract ledger (each file is pending,
searchable or failed) that `IndexingPipeline` implements, checked and then proved
from `TruthInv` and `FreshInv`; the record of a pause as an abstract specification of
`IndexerControl`; the comparison endpoint, with two collections; the hooks of the
UI.

## Not modelled, and why

* Text extraction, metadata heuristics, thumbnails, query building, filters,
  facets, highlighting and log formats are string and byte processing without
  state. Embeddings and similarities are floating-point: a ranking is any order.
* Passwords, hashes and tokens as cryptography; the password policy, cookies, API
  keys.
* Gauges, histograms and the store of samples, which are written and rendered under
  one lock; status and container pages, queue depth and logs, which only pass on
  what others say.
* The page asked of a listing, the names of collections and items: data.
* The tier scripts, the retention they apply, and the verification scripts.
* Solr's replication, ZooKeeper, RabbitMQ's and Redis's internals and nginx are
  third party and appear as the code uses them.
* Installer, release scripts and end-to-end tests are not part of the running
  system; the UI and the embeddings server (one request in, vectors out) are left
  for later.
