# Verification of ScoutApiV2

ScoutApiV2 is a FastAPI service that scrapes product pages of some twenty
stores, matches one product across stores, watches prices and serves images and
exchange rates. Its parsing is sequential; what is hard to get right is how its
processes and threads share PostgreSQL rows, Redis keys, browser slots and a
Firefox profile. This directory models that part in TLA+, checks it with TLC on
small instances and proves its safety for all instances with TLAPS.

Paths below are relative to `src/scout_api/modules/` unless they start with
`docs/` or `src/`.

## 1. Inventory

The program runs as several processes: the API, the match-run worker, the offer
monitor, the image worker. They meet in PostgreSQL (rows claimed under leases),
in Redis (cache, flight locks, cooldowns, profile lease, rate limits) and on the
bind-mounted browser profile.

| component | state | operations | meets |
|---|---|---|---|
| **Durable match runs** `matching/match_run_*.py`, `match_watchdog.py`, `match_progress.py` | run rows (status, worker, attempts, lease, report), store rows, notices; in memory the execution, heartbeat and watchdog | request, reconcile, claim, heartbeat, resolve targets, refresh, search a store, persist, finalise, watchdog exit | API requests against workers, workers against each other, threads of a worker |
| **Browser slot scheduler** `crawler/core/browser_scheduler.py` | active count, free slots, FIFO of waiters with events | acquire, pre-grant, cancel, time out, release | fetching threads of one process |
| **Profile ownership** `crawler/services/html_fetcher.py`, `crawler/core/profile_lock.py` | warm session, owner thread, Redis key with token and TTL | reuse check, lease, launch, retain, renew, idle expiry, release | the processes that share a profile; the scheduler; Redis |
| **Circuit breakers** `crawler/core/browser_health.py`, `store_capability_health.py` | state, failures, opening time, trial token | allow, claim a trial, complete it, record success or failure | fetcher threads, store searches |
| **Scrape coalescing** `crawler/core/scrape_guard.py`, `single_flight.py`, `distributed_single_flight.py`, `distributed_cooldown.py`, `cache.py` | in-process futures, Redis flight lock, cooldown keys, L1 and L2 cache | look up, join, lead, poll, steal, reserve, store | API, monitor and matcher asking for one URL |
| **Offer monitoring** `monitoring/`, `matching/offer_refresh_service.py` | columns of a listing: next check, failures, claim, promotion and its end; promotion events; the session of a transaction | sweep (claim, expire by the clock, crawl, commit), refresh on request, every outcome of a check, rollback | workers, administrators' sweeps, refreshes of users and of match runs |
| **Image queue** `images/` | original and optimised status, names of the files in Drive, hash, lease; an advisory lock per product; the files | register, add, claim, checkpoint, preserve, convert, finish, retry, delete | jobs of all workers, requests, Drive |
| **Exchange rates** `exchange/` | scheduler row, current rates, observations | refresh if due, on request; compare, store, mark stale, schedule | scheduler threads of API replicas and workers, administrators |
| Rate limit `src/scout_api/core/rate_limit.py` | tokens and time per key | hit | all API replicas |
| Fetching, spiders, matching engine, catalogue, users, infrastructure | none that outlives a call, or rows of one transaction | parsing, scoring, CRUD | the components above |

What is hard, and what makes each component correct:

* **Match runs.** Runs are reclaimed when a lease expires, so two executions of
  one run may overlap; store threads report late; the finalisers of requests and
  of the reconcile pass act on rows read without a lock; a search may hang while
  the heartbeat goes on. Correct means: one active run per product, answers of
  stores kept through every attempt and never asked twice, no write by a worker
  that lost its claim, a report that agrees with the rows, notices that match
  the end of the run, and every run ends.
* **Scheduler.** A waiter gives up at the moment it is granted a slot; slots
  come back on five paths. Correct means: slots are conserved and in one place,
  never idle beside a queue, handed out in order, and no wake-up is lost.
* **Profile.** The lease moves from a fetch to the warm session and back, on
  seven paths, across two owner-thread operations. Correct means: the Redis key
  is exactly the lease somebody holds, an idle browser is always leased, two
  processes never have the profile open, and a waiting process gets it.
* **Circuits.** Reports arrive after the circuit moved on; a probe may vanish.
  Correct means: one probe at a time, a cooldown before each, recovery in the
  end.
* **Scrapes.** Three layers overlap and each can lapse: a flight per process, a
  lock in Redis with a TTL that nobody renews, a cooldown; followers stop waiting
  and Redis may be down. Correct means: one live fetch of a page at a time, no
  fetch and no refusal while the cache has the answer, no cooldown left behind by
  a call that was refused, every call returns, with the kind of answer it asked
  for.
* **Offer monitoring.** A sweep scrapes its whole batch in one transaction, with
  the time it began as its clock; a refresh reads its listings before it locks
  them and does not read them again; a deadlock, a time limit or a crash throws
  the batch away. Correct means: two processes never crawl one listing at a time,
  no active listing drops out of the schedule, promotions end when they end and
  the events tell that once, and what is due is checked.
* **Image queue.** A lease is not a fence: a job that outran it goes on. Drive and
  the database share no transaction, and two images with the same bytes share
  their file. Correct means: the jobs of a product take turns, the files a row
  names are there and have its bytes until they are deleted, and every image is
  ready or an error in the end.
* **Exchange rates.** Every replica has a scheduler thread, and nothing but row
  locks keeps two refreshes apart: one compares with rates the other replaces,
  marks rows the other has made fresh, or loses the race for the first scheduler
  row or a deadlock. Correct means: a rate is stale only when it is old, recorded,
  and near to what its refresh knew; the schedule stays in reach; what is due is
  refreshed.
* **Not modelled.** The rate limit; section 6 says why.

`PROJECT.json` lists every hazard at its line; those without a property say why
none covers them.

## 2. Modules

| module | models | lines of code behind it |
|---|---|---|
| `MatchRunQueue` | rows, requests, workers, threads, faults of durable match runs | claim, repository, service, worker, watchdog, progress; the parts of `product_match_service.py` that drive stores |
| `MatchRunContract` | what a client may rely on: runs, target stores, answers, notices | abstract; no workers, leases or attempts |
| `MatchRunRefinement` | the mapping from the queue to the contract | |
| `BrowserScheduler` | `acquire` step by step, `release`, cancellation and deadlines | `browser_scheduler.py` |
| `SlotPool` | what a fetch may rely on: a fair pool of slots | abstract; no lock, event, ticket or time |
| `ProfileOwnership` | fetchers, warm sessions, the profile lease in Redis | `html_fetcher.py`, `profile_lock.py`, the calls into the scheduler |
| `ProfileLease` | what a process may rely on: leases taken once and given up once, and the key that names one | abstract; no fetcher, session, slot or hand-over |
| `CircuitBreaker` | the automaton both circuits share, and its callers | `browser_health.py`, `store_capability_health.py`, `_acquire_browser`, `StoreSearchService.search` |
| `ScrapeCoalescing` | `scrape` and `scrape_offer` of one URL in several processes | `scrape_guard.py`, `single_flight.py`, `distributed_single_flight.py`, `distributed_cooldown.py`, `cache.py`, `redis_client.py`, the two scrape services |
| `OfferMonitor` | sweeps and refreshes, their transactions, row locks and sessions | `monitoring/claim.py`, `service.py`, `worker.py`, `hooks.py`, `promotion.py`, `schedule.py`, `offer_refresh_service.py` |
| `ImageQueue` | the images of one product, their jobs, requests and files | `images/claim.py`, `worker.py`, `pipeline.py`, `service.py`, `repository.py`, `drive_client.py` |
| `ExchangeRates` | refreshes of the rates as transactions with row locks | `exchange/refresh_service.py`, `repository.py`, `validation.py`, `schedule.py`, `worker.py` |
| `MC...` | symmetry sets and values of constants for TLC | |
| `..._proofs` | theorems about the module of that name | |

Mutants live beside the definitions they change, each under a comment that names
the bug; no specification uses them.

### MatchRunQueue

`status, product, holder, attempts, lease, row, report` are the columns of
`ProductMatchRun` and `MatchStoreRun`; a lease is `none`, `live` or `expired`, so
time is abstract. `notif` are the notices. Each database transaction is one
action. Two begin with an unlocked read that is used later and are two actions:
`StartRead`/`StartWrite` (`MatchRunService.start`, with the partial unique index
and its `IntegrityError` branch) and `SweepRead`/`ReconcileWrite`
(`reconcile_exhausted_stale_runs`). The `IntegrityError` branch, with its
second read, is one step: if the winner ended before that read the request would
raise and write nothing, and if it were reclaimed after it, it would be ended from a
stale read, as the run in `seen` is. `ClaimSome` may pass over any due rows, which
is what `SKIP LOCKED` does to rows other transactions hold. `job[w]` is what
`process_claimed_run` keeps in memory; its `gen` is the fencing token
`claim_attempts`. `StartStore` and `FinishStore` are the ends of a store thread;
`Concurrency` bounds them. `Fenced(w)` is `lock_claim`. A worker is one process
incarnation, because `worker_id` is new in every process.

The model keeps three things of the code that a tidier model would lose: the
finalisers without a fence, `unmatched` that also contains stores with errors,
and the expunged session that makes the second run of a batch unreachable.

### BrowserScheduler

`active, available, waiters` are `_active`, `_available_slots` and `_waiters`;
`ticket` is the order of the queue, a deque. A job walks through `acquire`: the immediate
path, the queue, the checks under the lock (`Cancelled`, `TimeUp`), blocking on
the event (`Block`, `Unblock`), the grant, and the profile lock taken after the
slot. `ReturnSlot` is `_wake_next_unlocked`, which hands a slot to the first
waiter instead of the pool. `LockRaises` admits that the profile lock raises
something other than `RequestError`: `FileProfileLock.acquire` may raise the
`OSError` of `mkdir` or `open`, and then the slot is never given back.
`SlotInOnePlace`, a part of `SlotsAreAccounted`, names that state; everywhere
else a slot is free or has one owner on its way to use it.

`SlotPool` is what callers may rely on: a call is new, queued, has a slot or is
gone, and `ahead` says who waits before whom. `phaseBar` and `aheadBar` read both
off the scheduler: a call has a slot from the moment one is pre-granted to it,
though it may be blocked and not know, and a lost slot still counts as had.
`ImplementsPool` says that the scheduler, with its races, is such a pool; what the
pool forbids is what its users care about: overtaking the queue, waiting beside a
free slot, more slots than there are, and being turned away for no reason. Every
job may be cancelled that is in `Cancellable`; an event that nobody will read any
more (after the wait, or after the deadline was looked at last) is not a step.

### ProfileOwnership

A fetcher is a process with one owner thread, so `busy[o]` is the operation it
runs; the reuse check (`Check`) and the browser work (`Begin`, `End`) are two
operations, with a lease taken in between only if the check said so. `lock` is
the Redis key and holds the token of a lease, named by the fetch that took it;
`warm[o]` is the lease the session has taken over (`Retain`). `Attended` says
that a lease is used or renewed; a key that is attended expires only as a fault.
`GiveUp` is the release of a lease: when Redis does not answer, the key is left to
its TTL, and the fetch or session goes on as if it were deleted.

`ProfileLease` is what the processes may rely on: a fetch has no lease yet, holds
one or is past it, and the key names one of those that are held. `leaseBar` reads
this off the fetchers: a lease is held by a fetch from the key to the end of its
work and then, if it was retained, by the warm session. `ImplementsLease` says that
all the paths of a lease, with crashes, lost keys and failed renewals between, are
the taking and giving up of one lease: no path holds one twice or gives it up twice,
none takes the key from another, and a lease whose key was lost cannot get it back.
Left out: AliExpress one-shot sessions (their profile directory is fresh),
`close()` at shutdown, more than one slot, and the file and null backends.

### CircuitBreaker

Every call is atomic under the lock of the circuit; what interleaves is the
attempt between the question and the report. `clock` abstracts `_opened_at`:
none, cooldown running, cooldown elapsed. `late` are probes older than the trial
TTL. The circuit does not act on time by itself: `Refresh` is what every
question does first. `target` is the browser, the profile directory or the store.
`MaxFaults` bounds the probes that do not say how the target is: `Vanish`, and
`Inconclusive`, a store search whose error is no evidence against the store but
completes the trial of a probe as failed all the same.

### ScrapeCoalescing

A caller is one call of `scrape_offer` (`Offers`), of `scrape` (`Items`) or of
`scrape` with `include_images` (`Galleries`). It looks at the cache (`Ask`),
joins or leads the flight of its process (`Join`; `leader[p]` is the future in
`_inflight`), takes or waits for the lock in Redis (`TryFlight`, `Poll`,
`GiveUp`), looks again (`Check`, the second look of `_live`), reserves URL and
domain (`Reserve`, `ReserveDomain`, `Rollback`), asks how long it has to wait if one
of them is taken (`RetryAfter`; if Redis fails here, the cooldown of the process
decides), fetches, and gives everything
back (`GiveBack`, which also serves the callers that share the future). `memory`
and `shared` are the two levels of the cache, `flight` and `cooldown` the Redis
keys, named by the caller that set them. `trouble` records the worst that has
happened: nothing, a lock or a wait that ran out, or a failure; the properties
say which of the three they tolerate. Every access to Redis is an action with a
branch for Redis being down, so it may fail between any two of them, and come
back with its keys or without.

The cooldown of the domain may always be taken, because the other pages of the
store share it, and the cooldown a process keeps for itself may always refuse.
The expiry of a cooldown waits for callers that are past the second look: a fetch
is assumed to be shorter than the 300 seconds of a cooldown. A result lives as
long as a cooldown but begins later, so what a reservation led to outlives it and
what was there before does not (`Settled`, `OnlyOurs`). Left out: stores without
galleries, payloads that cannot be read, `store_offer_success`, which no service
calls.

### OfferMonitor

`row` are the committed columns of a listing, `lock` the transaction that has the
row locked. A process has a session: `read` is the listing as it was loaded,
`copy` the object it changes. `Merged` is what a flush does: columns that differ
from what was read are written, the others keep what is in the table by then. A
sweep claims the due listings it can lock (`Claim`, `SKIP LOCKED`, expired
promotions first), loads them with the lock, and looks at one after another
(`Look`, `Finish`, with the clock it began with, `moment`). A refresh loads its
listings (`Load`), waits for the lock of each (`Choose`, `Lock`) and goes on with
what it loaded. Both write at `Commit`; `Abort` is a crash, a database error or a
deadlock and rolls everything back. `Outcomes` are all the ways a check can end:
seen with an announced end, seen without one, not seen, failed, gone.

Time is a number that ticks whenever it likes, `Never` is NULL. The intervals of
the settings are constants, in ticks. No column that matters is assigned twice in
a refresh, which is why all its writes can be in `Commit`. Left out: the prices a
snapshot records and their comparison, the parsing of announced promotions, the
heartbeat row, diagnostics, the claim that only SQLite uses.

### ImageQueue

`row` are the columns of `ProductImage`, with files named by the image they were
made for, `drive` the files that exist. `Twins` are images that turn out to have
the same bytes; `preserve_original` finds the first by `find_by_sha256` and shares its
file. A job takes a due image under a lease (`Claim`), opens it in a session of its
own (`Open`), waits for the advisory lock of the product (`Turn`, `Checkpoint`), marks
the row under it (`Mark`), preserves the original (`Preserve`, `Download`, `Save`) and
makes the AVIF (`Optimize`, `Convert`, `Finish`); every commit gives the advisory lock
back, so it is taken up to three times. A row that a request has locked is waited
for, also with the advisory lock in hand, until the statement times out (`GiveUp`).
Requests are a retry, the addition of an image and a deletion, which deletes in Drive,
file by file, before it removes the row. As in
`OfferMonitor`, a session works on a copy that a wait does not refresh, and
writes the columns it changed. Two variables are history: `overrun` are the
images whose lease ended while a job may have had them, `purged` those whose
deletion in Drive has begun.

Which worker a job belongs to makes no difference, because no statement asks for
the owner of a claim; a batch is as many claims. Left out: order and main image
of the gallery (the renumbering after a deletion is a wait for the other rows and no
more), the limit of images per product, the deletion of all images with their
product, logos, the claim for SQLite, and what download and conversion compute.

### ExchangeRates

`rate` and `observed` are the committed rows and observations, `next` the scheduler
row, `lock` the row locks. A process that refreshes reads whether it is due (`Due`;
a request, `Ask`, does not), gets its quotes (`Fetch`; providers may answer any part
of them), compares with the committed rates (`Compare`, which keeps them as `known`),
stores what it accepts row by row in the order of the code (`Store`), and marks old
rows: `BeginMark` is the snapshot of the UPDATE, `Mark` the lock and the second look
at each row, which PostgreSQL takes after a wait. `draft` holds the quotes and, once
a row is locked, the version the transaction will commit. `Plan` computes the next
refresh and looks for the scheduler row, `Commit` writes it and commits, `Conflict` is
the insert that another refresh has made first, `Victim` the end of a deadlock.
`Wanted` says for which rows a statement may wait; the UPDATE visits rows in an order
of its own, so any of those it has left will do. Rates are integers in units of the
least difference that matters, all within one band. Left out: where two sources
answer the same rate the model stores one of them, and the quotes of one refresh have
one time.

## 3. Runs

All bounds are constants of the `.cfg` files. Passing runs:

| run | instance | shows |
|---|---|---|
| `match_run_rows` | 1 run, 2 stores in parallel, 2 workers, 2 attempts, 2 faults | rows and report stay right through reclaims; a zombie cannot write; no store is asked twice |
| `match_run_requests` | 2 requests for 1 product, 2 runs, 2 workers, 1 fault | one active run, notices, the lease protects, the queue implements `MatchRunContract` |
| `match_run_live` | 1 run, 2 workers, 1 fault | every run ends; a search that hangs costs its process |
| `scheduler` | 4 jobs (1 with a deadline, 1 that may be cancelled), 1 slot, a queue of 2 | every slot is accounted for, the scheduler implements `SlotPool`, every call returns, every waiter is served |
| `profile_ownership` | 3 fetches, 2 fetchers, 3 faults | lease, slot and session agree; the fetchers implement `ProfileLease`; an idle session passes its lease on |
| `circuit` | 3 callers, threshold 2, 1 probe without evidence | one probe, cooldowns, recovery |
| `scrape` | an offer, an item and a gallery, 2 processes, 1 fault | exclusive fetches, no needless fetch or refusal, no offer from the cache for the item, no stranded cooldown, every call returns |
| `monitor` | 2 listings, 1 sweeper with batches of 1, 1 refresh, clock to 2, 1 fault | crawls and claims exclude each other, nothing is lost to the schedule, events continue the history, what is due is checked |
| `images` | 2 images of the same bytes, one registered with the product, 2 jobs, 1 request, 1 fault | jobs take turns, files are kept, every image settles |
| `exchange` | 2 rates, 1 scheduler, 1 request, clock to 2, 1 fault | rates are honest, the schedule in reach, what is due is refreshed |

Why these bounds are enough for the hazards they are aimed at: a zombie needs
two workers, one early expiry and one reclaim, and a second fault may then hit
the successor (`MaxFaults = 2`, `MaxAttempts = 2` reaches the exhausted run);
parallel stores need two stores; races of `start` need two requests, of which
one may meet the other's stale row, hence two runs. A waiter that loses its
place to another needs a holder and two in the queue; the full queue needs a
fourth job. Two processes contend for a profile with two fetchers, and a
hand-over to a session, its reuse or its expiry, and the next owner need three
fetches; a session that keeps a lease whose key expired, beside the fetch that has the
key, and then a crash need two faults, and a third may be a failed renewal. Four
fetches with one fault were checked once. A late report needs one caller that was allowed, one that opened
the circuit and one that probes. Three callers in two processes make a leader, a
follower of its process and one of the other process, and the three kinds of call
are those that the cache treats differently; the safety properties were also
checked once with an offer and two galleries, where a level of the cache hides a
richer one. A listing that the batch leaves out needs two listings and batches of
one; a refresh that is stale when it writes needs a sweep that commits between its
read and its lock, and a second sweep after it, which two ticks allow. An image
that is shared needs two of the same bytes, one of which arrives later; a lease
that ends under a job needs the second job. Two refreshes deadlock over two rates
that both are old, of which each has an answer for one; a rate stored at 0 is old at
2. The bounds of `monitor` leave two hazards to a note in `PROJECT.json`: two refreshes
that lock each other out need two of them, and promotions that expire for ever before
regular listings are reached need a clock that does not stop. In `match_run_requests`
`LiveLeaseProtects` is about the claim, before a lease expires; that an execution which
outlived its lease writes nothing is `OnlyTheHolderWrites` of `match_run_rows`.
TLC does not say more than that; the theorems
of section 5 remove the bounds for the safety properties they cover.

`match_run_rows` sets `CHECK_DEADLOCK FALSE`: both worker incarnations may die,
and a system without workers stops; so does `images`, where nothing is left to do
once every image has settled. The scheduler and the profile say with `AllDone`
where they may stop; in the other runs deadlock is checked as it is. The monitor
and the exchange rates never stop, because an empty sweep is a step.

Runs that find a disagreement (listed under `findings`):

* `match_run_final`: `start()` and the reconcile pass end a run they read without
  a lock and without `expected_worker_id`; a run its worker completed in between
  becomes failed and its user gets both notices. ADR-0036 says that finalisation
  is fenced.
* `monitor_expiry`: a refresh loads a listing, a sweep sees its promotion prolonged
  and commits, and the refresh, which locks the row without reading it again, marks
  the promotion expired by the old end; the new end stays in the row beside it.
  `promotion.py` says "do not invent expiry", and `docs/monitoring.md` calls these
  columns the current state. One listing, promotions that end at 1 or 3 and a clock
  to 3 are enough.

`MatchRunContract` states the promise the code does keep: `Interrupt` lets an
ended run become failed, but its answers and notices stay.

More disagreements are in the models and have no run of their own; each is a
property of its module that the model violates, or a step that shows it:

* `MatchRunQueue!ErrorsAreNotNoMatch`: a store whose search failed is appended to
  `unmatched` before its error is looked at (`product_match_service.py:1104`), and
  completion counts `unmatched` as `no_matches`, although a comment says that
  failures never look like no match.
* `ProfileOwnership!ProfileIsExclusive`: a fetch told to reuse a warm session takes
  no lease (`html_fetcher.py:1156`); if the session is closed before its operation
  starts, it launches a browser beside the one of another process, which the
  scheduler's docstring excludes.
* `ScrapeCoalescing!AnswersFit`: the in-process flight is keyed by the URL alone
  (`scrape_guard.py:199`), so a `scrape` that arrives while a `scrape_offer` of the
  same URL is fetching returns the offer of its leader. The docstring of
  `run_coalesced` and the return type of `scrape` say that it is a full product;
  `POST /crawl` and `POST /offer` share the guard in one process. The trace has ten
  steps: one call leads, looks, locks, reserves and fetches, the other joins.
  `KindStep`, a part of `CacheIsUsed`, says that this is the only way to an offer for
  a caller of the item.
* `ImageQueue!ReadyIsKept`, `FailuresAreRetried`, `OriginalsStay`: a job that outran
  its lease converts again, or fails, an image that its successor has made ready; a
  job that waited writes "downloading" over a row that failed meanwhile and then
  gives up, which leaves a row no retry accepts; deleting an image deletes the
  original that another one with the same bytes shares.
* `ExchangeRates!StepsAreSmall`, `RatesGetNewer`: two refreshes that compare with the
  same rates, or with none, may store one after the other rates that are further
  apart than the limit, and one that fetched earlier may store later: the upsert has
  no condition (`exchange/repository.py:78`). The docstring of the validation speaks
  of the change against the last known rate, which the one read is not any more.
  `JumpStep` is what is left of it.
* When all providers of a pair fail its rates stay fresh until they are six hours
  old (`Mark` asks for the age alone), although the policy in `refresh_service.py:6`
  says "mark status=stale". A rate that has moved by more than the limit since it was
  last stored is refused at every later refresh. `run_refresh` "never raises", but a
  database error inside the loop of upserts is caught with its transaction lost, and
  `mark_stale` raises after it; `sweep_once` and the router catch it (`Fail`).
* The cancel event of a waiter is read before the wait only
  (`browser_scheduler.py:398`), so a job cancelled while blocked receives the next
  slot, although the docstring (lines 210-212) says that it never does: `Cancel`
  and `Unblock` are independent.
* With `match_run_batch_size` above its default of 1, processing the first run of a
  batch expunges the session (`match_run_worker.py:340`); touching the second
  instance (line 771) raises, and that run stays claimed under a live lease until it
  expires: `Batch` is a constant of `MatchRunQueue`, and the step is there.

Observations that are not findings, because nothing in the repository says
otherwise: a run may be claimed once more than `match_run_max_attempts` if its
lease expires between the reconcile read and the claim; a reused session whose
lease is gone is closed by the `elif` at `html_fetcher.py:1321` although its
comment speaks of a disabled scheduler; `record_success` and
`record_launch_failure` are documented for a closed circuit, but stragglers call
them in every state; a probe that reuses an open session closes the circuit
without having launched anything. In scrapes: a call for images that polls the
cache takes an item without a gallery, and one that joins the flight of an item
gets that item; followers in a process share the refusal of their leader even if
the cache would do for them; the cooldown a process mirrors for the time Redis is
away is not asked when Redis comes back empty; an entry of L1 may hide a richer
one in Redis (`cache.py:161`), so calls for images are left out of
`NoNeedlessRefusal`; an offer may overwrite a full product that was stored between
its look and its write (`scrape_guard.py:165`). In monitoring: the two refreshes of
a user and of a match run lock their listings in no common order, and PostgreSQL
ends the deadlock by failing one of them.

Several properties are conjunctions, named for what their parts say together:
`SlotsAreAccounted` (`SlotsConserved`, `SlotInOnePlace`, `LeaseHasSlot`,
`NoIdleSlot`), `OwnersAgree` (`LockNamesTheHolder`, `IdleBrowserIsLeased`,
`SlotHasItsUser`), `CacheIsUsed` (`NoNeedlessFetch`, `NoNeedlessRefusal`, `KindStep`),
`RequestsAreServed` (`OneActivePerProduct`, `NotifiedOnce`), `ChecksAreExclusive`
(`CrawlsAreExclusive`, `ClaimsStayPrivate`), `AnswersAddUp` (`NoStoreRepeated`,
`CompletedIsAnswered`), `CooldownsGuard` (`FetchesAreExclusive`,
`NoStrandedCooldown`), `RatesAreHonest` (`TableIsHonest`, `JumpStep`).
`AnswersAreKept` is a theorem and follows from `ImplementsContract`, so no run
repeats it; so is `Fifo`, which follows from `ImplementsPool`.

## 4. Fairness

* `MatchRunQueue!FairSpec`: every worker keeps sweeping and executing
  (`run_forever`), its watchdog thread runs, and an unattended lease expires.
  Claiming is strongly fair: a row is not locked by somebody else at every sweep.
  Nothing makes a hung search return, so `HungExecutionEnds` rests on the
  watchdog alone; it speaks of the execution, not of the run, because the run may
  long have another worker.
* `BrowserScheduler!FairSpec`: threads inside `acquire` run. Nobody is forced to
  release or to start. Time and release are antecedents of the properties:
  `AcquireReturns` assumes only that time passes, `EveryWaiterIsServed` only that
  holders release and that no slot is lost to an unexpected error of the profile
  lock (`SlotLost`), so no timeout can stand in for a lost wake-up.
* `ProfileOwnership!FairSpec`: threads run, idle timers fire, unattended keys
  expire. No lock or queue timeout is relied on.
* `CircuitBreaker!FairSpec`: callers keep coming, attempts end, time passes.
  `RecoversWithTheBrowser` assumes that the target is up for good and that probes
  end within their TTL: a launch is given up after 45 seconds and a trial lives
  for 120.
* `ScrapeCoalescing!FairSpec`: threads run, a fetch ends, the lock expires. The
  timeout of a wait is not assumed, so `EveryCallReturns` shows that followers
  are freed by the cache or by the lock. Nothing makes Redis come back.
* `OfferMonitor!Spec`: the worker sweeps for ever, and crawls and statements have
  time limits; nobody is obliged to call a refresh, and nothing makes time pass.
* `ImageQueue!Spec`: leases end, requests that have begun end, and job steps are
  strongly fair: PostgreSQL gives the advisory lock to those who wait for it, so a
  job is not passed over for ever, and workers sweep for ever.
* `ExchangeRates!Fairness`: schedulers sweep, providers answer or fail within their
  time limit, PostgreSQL ends deadlocks, and gives a row lock to those who wait for
  it: its queue is first come first served, hence strong fairness of `Lock` for each
  row; without it two refreshes could fail each other's for ever. Nobody has to ask.

## 5. Theorems

All theorems hold for every value of the constants under the named assumptions
of the modules: constants are distinct from the null values, bounds are natural
numbers, `Stores` is finite (`StoresFinite`, needed for the counts of the
report). No theorem bounds workers, jobs, callers, processes, fetches or faults.

* **Match runs.** `TypeCorrect`; then four inductive invariants.
  `RequestInv` adds to `OneActivePerProduct` and `NotifiedOnce` that rows not yet
  inserted are absent and nobody remembers one (`Fresh`); without it a stale read
  could name a row that is inserted later. `FenceInv` adds `ClaimOwned` to
  `DistinctGenerations`: an execution has a generation some claim gave, and if it
  is the latest nobody else holds the run. From these follow the action
  properties `OnlyTheHolderWrites`, `AnswersAreKept` and `LiveLeaseProtects`.
  `WorkInv` compares the memory of an execution that holds its claim with the rows
  of its run (`Working`): what it has left is asked for and not answered, whatever
  lacks an answer is left unless the execution has failed, and what it has gathered
  the rows say too. Hence `NoStoreRepeated` and `CompletedIsAnswered`, together
  `AnswersAddUp`. `ReportInv` (`Counted`) follows the counters through recounts and
  completion, hence `ReportAgreesWithRows`.
* **Refinement.** `QueueImplementsContract`: under the mapping of
  `MatchRunRefinement` every step of the queue is a step of `MatchRunContract` or
  leaves it as it is. Claims, reclaims, heartbeats, faults and starts of stores are
  invisible; the rest have one lemma for each kind of step (`StartRequests`,
  `FinalizeInterrupts`, `ResolveAsks`, `OutcomeAnswers`, `PersistCompletes`). It
  needs `RequestInv`, `WorkInv` and `Inserted`: a row below `nextRun` is never
  absent, so whoever acts on a stale read still names a run.
* **Scheduler.** `SchedInv` joins conservation, ownership and leases, because a
  slot that is returned goes to the first waiter and each part needs the others;
  `Tickets` (distinct, bounded by the number of jobs that have one, and every
  waiter has one) is what FIFO rests on, and
  finite cardinalities come from `FiniteSetTheorems`. `SchedulerImplementsPool`
  shows that every step is a step of `SlotPool` or changes nothing callers see. The
  pool counts the calls that have a slot and the code counts `_active`:
  `ActiveCounts` says that the two numbers agree, by a bijection between the calls
  that have a slot and the slots that are not free, which `SlotInOnePlace` and
  `SlotsConserved` provide. One lemma for each kind of step (`AcquireEnters`,
  `ReturnGivesBack`, `DequeueLeaves`, `MoveIsUnseen`); the order of the tickets
  becomes the order of arrival by `FirstIsFirst` and `OrderWithout`.
* **Profile.** `Shape` says which fetch may be where with which slot, session and
  operation, whatever fails. `KeyExact` says that without faults the key is the
  lease of exactly one holder. The second needs the first; together they give the
  safety properties of the module, `NotEvicted` among them. `ProfileImplementsLease`
  shows that every step is a step of `ProfileLease` or changes nothing in it, whatever
  fails. It needs `Superseded`: when a session takes over the lease of a fetch, the
  lease it had before has lost the key, so dropping it without giving it back is
  giving it up. Closing a session is one lemma (`CloseReturns`) for every step that
  does it. `LeaseExcludes` says what that is worth: until something fails the key
  names the lease that is held, if any (`LeaseExact`), so whoever keeps to
  `ProfileLease` has one at a time in all processes; `ProfileLeasesExclude` carries
  it over to the fetchers.
* **Scrapes.** `LeadInv`: in a process only the leader of the flight goes on.
  `SpendInv`: until something fails, whoever is on the way to the store owns the
  cooldown, and its owner was not refused; hence `FetchesAreExclusive` and
  `NoStrandedCooldown`. `MissInv`: while the next result is still to come
  (`Open`), the levels of the cache agree and what a caller missed in its second
  look is still missing; hence `NoNeedlessFetch`, which also says that Redis has
  nothing better behind L1. `AloneInv`: until a lock or a
  wait has run out, one caller of all processes is behind the lock; hence
  `NoNeedlessRefusal`. `KindInv`: of those who hand an answer to others only a call for
  an offer has an offer, hence `KindStep`. All safety properties of the module are proved.
* **Circuit.** `CircuitInv` adds to the properties that a probe in time still
  holds the token and that a half-open circuit has seen its cooldown out.
* **Monitoring.** `LockInv`: whoever looks at a listing has its lock, a batch is
  what its transaction has locked, and committed rows have no claim; it gives
  `ChecksAreExclusive`. `SessionInv`: the copy of a sweep was read under the lock,
  so it differs from the row only by what the sweep did, and its events continue
  the row's history; rows that are active are watched and scheduled, also after the
  columns of a stale refresh are merged in. It gives `WatchedIsScheduled`,
  `EventsContinueHistory` and `SweepsExpireEnded`; `ExpiredHasEnded`, which
  `monitor_expiry` violates, is the same without the restriction to sweeps.
* **Images.** `ShapeInv`: the advisory lock is with the job that works, and places,
  sessions and rows fit. `LeaseInv` adds that an image has one job unless its lease
  ended under it; together they give `JobsAreExclusive`. `FileInv`: whatever a row,
  or a session that may still write it, names in Drive has its bytes and is there
  until the deletion of an image of the same bytes has begun, hence `FilesAreKept`.
* **Exchange rates.** `RefreshInv` follows what a transaction carries past the moment
  it read it. `Fit` is what a version of a row must be for anybody to commit it, also
  after the clock has moved on; `Backed` what a comparison is still worth when its
  result is committed: the value is near one that is recorded by then, or was the
  first its refresh heard of. `Prepared` says that drafts are fit and backed from the
  comparison until the commit, whatever commits in between, and that rows a statement
  waits for do not disappear. It gives `RatesAreHonest`, its invariant and its action
  property, from one lemma for each kind of step; `CloseKeeps` serves the commit and
  the three ways to roll back.

Only model-checked: liveness and `ENABLED`, which are out of the prover's reach.
Every safety property of every passing run is proved.

## 6. What is not modelled

Parsing, scoring, embeddings, provider clients, page heuristics and CRUD in one
transaction: pure functions or I/O without state between calls. They are the
larger part of the source, and what could be said of them is what their unit tests
say. Read-only endpoints, metrics and logs. The portable (SQLite) claims, which the
code marks as for tests. Values of time where only their order matters: leases,
TTLs and cooldowns are live or elapsed.

*Rate limit.* One Lua script decides and writes, so there is nothing to interleave;
what is left is arithmetic on fractions of a token.

## 7. Plan

Done, in this order: match runs with their contract, scheduler, profile, circuit,
scrapes, monitoring, images, exchange rates, each with its proofs; the refinements
of `MatchRunContract`, of `SlotPool` and of `ProfileLease`. What would add most next:

1. A composition of `BrowserScheduler` and `ProfileOwnership` with more than one
   slot: today the profile model has the slot of one process.
2. Monitoring and scrapes together: what a cooldown that refuses a check does to
   the next check of its listing.

The questions about match runs are three runs because their instances differ; the
other components have one passing run each.
