# Spatiad in TLA+

Models, model checks and proofs for Spatiad, a dispatch server: drivers stream
positions over WebSockets, a dispatcher submits jobs over HTTP, and the server
offers each job to the nearest available driver, one driver at a time, until one
accepts. Paths below are those of the repository, `core` is
`rust/crates/spatiad-core/src/lib.rs`, `dispatch`, `api`, `h3`, `bin` and
`storage` likewise.

## The system

| part | state it keeps | operations | what makes it right |
|---|---|---|---|
| engine (`core`) | drivers, jobs, offers, cancelled jobs, per-job timeline, WAL sequence | the commands of `apply_command`, expiry and TTL sweeps, queries | one live offer per job, nobody asked twice, settled offers stay, the timeline agrees with the offers |
| service (`dispatch`) | the engine | `submit_job`, `handle_offer_response`, both expiries, `cancel_*` | a handler that fails an offer looks for the next driver, once per job |
| candidate search (`core`, `dispatch`) | none | radius expansion, nearest drivers | the loop ends and finds a nearest untried driver |
| spatial index (`h3`) | buckets by cell, cell by driver | `upsert_driver`, `remove_driver` | the two maps mirror the drivers |
| driver sessions (`api`) | one channel sender per driver id | connect, replay, tick, message, close | an offer reaches the driver, a sender in the map is alive |
| background tasks (`api`) | none | expiry each second, driver TTL each ten | every offer is resolved |
| match webhook (`api`), express plugin | nonce cache at the receiver | three attempts, verification | handled once, believed only if handled, delivered or recorded as failed |
| rate limiter, reconnect guard (`api`) | time stamps per key | `check`, `allow` | never more than the limit in a window |
| job event queries (`core`, `api`, `storage`) | cursor | before, cursor, kinds | pages neither skip nor repeat |
| storage and recovery (`storage`, `core`, `bin`) | WAL, two snapshots, events | append, snapshot, compact, recover | recovery yields the state before the crash |
| TypeScript SDK | cursor, attempts | paging, resume, retry | no event lost or doubled |
| other SDKs, deployment | none | thin HTTP clients, configuration | not modelled |

Interaction. The API holds the whole service in one `tokio` mutex
(`ApiState.dispatch`). HTTP handlers, one task per driver socket and two
background tasks lock it, run one service call, release it and only then talk to
sockets and to the webhook, by then on data that may be stale. A second mutex
guards the session map. The engine writes each command to the WAL before it
applies it, and a snapshot task takes the same mutex.

What is hard: handlers that interleave between two lock periods of one session
task; deadlines that pass between a check and its use; sweeps that race answers
and cancellations; drivers that vanish with an offer open; a crash between two
commands of one handler; a reconnect while the old session still runs; retries
of a webhook that was in fact received. `PROJECT.json` lists each at its line.

## Modules

| module | models |
|---|---|
| `CandidateSearch` | pure operators: radius limits, `expand_radius_km`, the candidates at a radius, and the search in closed form |
| `RadiusSearch` | the radius loop itself, an iteration per step, over a list filtered in hash order, sorted and truncated |
| `SpatialIndex` | `SpatialIndex` of `h3` as a record of two maps, with the three operations on it |
| `Engine` | engine, service, background tasks, the callers' inputs, and a server that dies and recovers |
| `JobLifecycle` | the abstract life of a job as `GET /dispatch/job` reports it: state and winner |
| `DriverSessions` | connections of drivers, the session map, the channels behind it, replay, flush, notices, answers, the expiry task's notices |
| `Commands` | the logged commands, when the service issues them, and what `apply_command` makes of a state and of the timeline |
| `Durability` | WAL, snapshots, trimming, compaction, event store, crash, recovery and replay, over `Commands` |
| `DurableEngine` | abstract: a state, and the state a crash takes it back to |
| `WebhookDelivery` | the three attempts of a match webhook, the network, the receiver's express plugin and its nonce cache |
| `EventPager` | the timeline in memory and in a database, its pages, and the reading loops of the TypeScript SDK |
| `RateLimiter` | `SlidingWindowRateLimiter` with its `Retry-After` and `WsReconnectGuard` |
| `RequestQuota` | abstract: what a sliding window promises, remembering every admission |
| `MC*` | the instances TLC checks |
| `EngineProofs`, `RadiusProofs`, `SessionProofs`, `DurabilityProofs`, `WebhookProofs`, `PagerProofs`, `RateLimiterProofs` | the theorems TLAPS checks, about the module they extend |
| `SharedLemmas` | lemmas several of them need: the spatial index, least elements, lists picked by rank |

`Engine` extends `CandidateSearch` and `SpatialIndex`, and instantiates
`JobLifecycle` with `state <- JobDispatchState`, `winner <- the accepted offers`.
`Durability` extends `Commands`, which extends `SpatialIndex`, and instantiates
`DurableEngine` with `state <- View`. `RateLimiter` instantiates `RequestQuota`.

### Engine: how it corresponds to the code

`drivers`, `spatial`, `jobs`, `offers`, `cancelled_jobs`, `job_events` and
`job_event_sequences` are the fields of `Engine`. Hash maps are functions on the
keys they hold. **One step is one engine command** (one `apply_command`). A
handler that runs several commands under the mutex keeps what it still has to do
in `submitting`, `expiring`, `advancing` or `evicting`. Every handler begins with
`Idle`, so no other starts before that is empty; this is the mutex, and the runs
show that dropping it breaks the invariants.

`Restart` is a crash with the recovery behind it, between any two commands: the
engine's state is back as it was, which is what `Durability` shows of a database
whose statements succeed, and what was left of the handler and the webhooks under
way are gone. The code does not continue either, so a job may stay registered
without an offer, or rest after an expiry; the invariants, the lifecycle and the
liveness properties hold with it. Without a database there is no such step, and
every behaviour with fewer steps is covered.

Time is abstract. `lapsed` holds offers whose `expires_at` has passed, `stale`
drivers whose `last_seen_at` is older than the TTL; either grows at any moment
(`Lapse`, `GoStale`). So an answer may come before the deadline
(`RespondAccept`, `RespondReject`), or after it and before a sweep
(`RespondLate`). An answer names an offer and not a driver, in the code too: any
driver's socket may send it. `awaiting` holds the matches whose webhook the
session task is still delivering; the outcome arrives at any later time,
possibly after the job was cancelled.

Nondeterminism in place of data: which of several equally near drivers is chosen,
which offer id is drawn and in which order a sweep or a cancellation visits offers
depend in the code on a `HashMap`'s iteration order or on randomness, and here on
`\E`. Category names are classes of names equal up to ASCII case, haversine is a
table (only its order is used), radii are integers in units of 100 m, so the
`f64::EPSILON` in the loop's guard plays no part. `Resubmit` says whether
dispatchers submit a job id again: the server does not prevent it.

### The search

`RadiusSearch` runs the loop over all fleets; `LoopMatchesClosedForm` says that
it ends where `MayPick` and `MayFindNobody` allow. `Engine` then uses the closed
form, so a search is one step there. The sorted list is written by rank (an element's
place is one more than the number of those before it), and so are the pages of events:
proofs can use that, while the library's sort is opaque to them.

### Driver sessions

`DriverSessions` is about what happens between two lock periods. A session task
is a sequence of short critical sections on two mutexes and of sends; what a task
still has to do is its `agenda`, and one step does the first item, so any other
task runs between, say, reading that an offer is pending (`AnnounceStep`) and
putting it into a channel (`PostStep`). The offers belong to one job and change
by whole service calls (`Engine` takes these apart); offers of different jobs do
not meet here. A session whose sender is no longer in the map gets `None` from
its channel once that is empty (`Disconnected`), because the map held the only
sender. `RegisterStep` replaces an earlier sender of the driver, and `Close`
removes the entry by driver id, whosever it is. Every send may fail (`TellStep`),
which ends the task and drops its agenda; `forgone` records the announcements
lost with it. Ticks that find nothing overdue are left out, and so are location
messages (in `Engine`), pings, and the webhook's attempts, which are one step of
waiting. A connection answers the offers it was told of; those in `Strays` answer any
offer id, since the code looks up the id alone (`Open`, `RespondStep`): offers of other
drivers, settled ones and ids that are not known. Every connection may be a stray in
the proofs, one is in `sessions_heard`, and none in `driver_sessions`, whose three
connections leave no room for more states.

### Durability

One step is one SQL statement or one change in memory, and the process may die
between any two, in recovery too. A command is numbered and appended to the log
(`AppendWal`, or `AppendWalFails`, which the code passes over), then applied
(`Perform`), then its events are inserted one by one (`StoreEvent`). A snapshot is
written, the older ones trimmed, the log compacted; after a statement that fails
nothing more is deleted. `Start` loads the latest snapshot and rebuilds the index,
`ReplayOne` applies one entry of the log and pushes its events once more, and the
primary key refuses the rows that are there. SQLite and PostgreSQL run the same
statements. Commands keep of their data what decides how they act on each other;
the order in which a command pushes cancellations is a hash map's, live and again in
replay. `Issued` says which commands the service may issue in a state: a job may be
registered again at any time; an offer is made to an available driver, by a search when
the job has none pending or accepted, by a submission whatever the job has (`Offers`);
only pending offers are answered or expire, any may be cancelled; a webhook fails for
a match, whatever became of it. Replay applies the log to whatever state it has, also
across a gap. No proof uses `Issued`: what is proved holds of any commands.

`kept`, `gap`, `diary`, `torn` and `missed` are no part of the program: they say
what the disk ought to stand for. `View` is what clients know of: a command
numbered and logged counts as executed, since nobody sees the engine in between.

Assumed: a statement takes effect whole or not at all, and is on the disk when it
returns (SQLite runs with `synchronous=NORMAL`, under which a power failure, not a
crash of the process, may undo the last transactions); the reading statements of
recovery succeed.

### Webhook delivery

The sender's steps are those of `send_match_webhook`: time, nonce and signature
once, then up to three requests with a time-out each and a pause between them, then
the record of the failure. `requests` and `answers` are sets of what was ever sent,
and any member may arrive at any time, again, or never: the network loses, delays,
reorders and duplicates. An answer that comes after its attempt's time-out finds
nobody. The receiver is `verifySpatiadWebhook`: headers, skew of the clocks, nonces
aged out, nonce seen before, signature, then the handler. `secret` is shared,
another one or none; `offset` is how far the receiver's clock is ahead. `Restart`
empties the receiver's nonces. The sender's own crash is `Restart` of `Engine`.

### Event pager

`Push` numbers and stamps an event; with a database its row may be missing, after an
error or a crash, until `Recover` replays the command and stores the row with a new
stamp. `Kept` is what a page may hold: the newest `MaxJobEvents` in memory, every
row in a database. A page is filtered, ordered and cut as the store does it, the
database without the filter for kinds (`docs/API_HTTP.md:177` has it filter). With a
database a query may fail, and is then answered with an empty page and no next cursor
(`GetNothing`, `core:882`), which the reader takes for the end; `unread`, no part of the
program, remembers it. The readers are `getJobEventsAllPages` and
`iterateJobEvents`, a request each step, with `fetchWithRetry` inside and
resumptions (`resumeOnTransientError`, `shouldResumeOnError`) outside, and a client
that follows `next_before_cursor` with `before`. Fetching a page is one step: the
reader looks at nothing that changes while it waits. The clock does not step back.

### Rate limiter

Ticks are half seconds, so that `Retry-After`, which drops fractions, can be told
from the truth. A request is one step, since both maps are behind a mutex. The
queues forget entries a window old; `history`, no part of the program, forgets
nothing, and `RequestQuota` admits by it. `retryAfter` is what the last response told:
only a refusal has the headers (`api:732`), and its `X-RateLimit-Remaining` is always 0,
so what the limiter computes there for an admission reaches nobody and is left out.
Restarts, which empty the queues, and a
clock that steps back are left out.

## Runs

| run | question | bounds |
|---|---|---|
| `radius_search` | does the loop end, stay in bounds and find what the closed form says? | up to 3 drivers on a line of 4 positions, all iteration orders, lists of 1, 2 and 32, all sets of tried drivers, 4 requests (start below the floor, limit on and off the 2 km grid, limit below the start) |
| `engine` | invariants, lifecycle and liveness for one job | 2 drivers that move between two cells and two distances and go on and off duty, 2 offers, 2 events kept in memory |
| `driver_sessions` | is the map free of dead senders, and do offers of searches reach drivers? | 2 drivers, one with two connections that may overlap or follow one another, 2 offers, submitted or searched for |
| `sessions_heard` | do deaf connections end, and are expiries heard? | 1 driver with two connections, one of them a stray, one driver without, 2 offers, one of them submitted |
| `durability` | does recovery yield what the disk stands for, with the timeline and the index? | 1 driver in one of 2 cells, 1 job, 2 offers, 6 commands, or 4 and one failing statement, snapshots after 3, 5 and 6 commands, any number of crashes |
| `webhook_delivery` | is a match handled once, believed only if handled, and brought to an end? | 1 delivery, 3 attempts, skew 1, nonces kept 2, clocks apart by -1 to 1, 4 seconds, 1 restart of the receiver |
| `event_pager` | does a reader get each event once, none skipped, and stop? | 8 readers with pages of 1 and 2 and the default of 2, 4 events of 2 kinds at 2 instants, 3 kept in memory, 2 tries of a request, 2 resumptions, queries that fail |
| `rate_limiter` | do both windows admit what the quota admits, and does `Retry-After` tell the truth? | an actor with 2 requests in 2 seconds, a driver with limits configured to 0, 5 seconds in halves, 4 admissions each |
| `single_winner`, `next_candidate`, `offers_pushed`, `replay_order` | documented claims the code does not meet; see `findings` | as the run they derive from; `single_winner` has three offers and re-submission, `replay_order` one cell and no failing statement |

Why these bounds are enough for what is asked. Two drivers give a first and a
next driver, and a search that runs out; two offers are all a job submitted once
can have with two drivers, so no behaviour is cut by running out of ids.
`LapsingStatus` lets deadlines pass of pending and accepted offers: the code reads
no other. A timeline of two events drops its oldest after three, which happens in every
search. `MaxSequence` bounds only repetitions of what changes nothing but the
timeline (cancelling a cancelled offer) and re-submission. One job is enough
because handlers look at one job's offers at a time; that sweeps over several jobs,
and drivers with offers of several, do no harm to the safety properties is proved
for any number of them.
Two connections of a driver are enough for one to replace or remove the other's
sender; the other driver's session brings announcements from another session
task. Two offers may be one after the other, both open after a re-submission, and
for one driver or two. `Cancellable` keeps cancellations to pending offers in
`driver_sessions`; `sessions_heard` has overdue and accepted ones too.

An offer needs a driver that reported its position and a job: with an answer these are
four commands, and a driver that leaves, a cancellation or a failed webhook fit behind.
Six are also what it takes to withdraw two offers by one command: driver, job, offer,
the job again, a second offer, and the cancellation of the job or an acceptance, which
`replay_order` shows. `SnapshotAt` is where the snapshot timer may fire: with the first offer open, with two
or behind an answer, and after all commands, where a third snapshot has the first one
trimmed; crashes may fall anywhere. A statement that fails takes the place of two commands (`Room`): one is
enough for a log with a gap, a missing row or an unfinished clean-up, and a second
adds nothing new to a log that has a gap. In four seconds both a timestamp and a
nonce age out, on the sender's and on the receiver's side. Three attempts are the
code's. Events at two instants give ties within and across pages; four with three
kept in memory make it forget one between two pages. Two windows and a half let an
entry leave at the very edge twice.

`CHECK_DEADLOCK` is off for `RadiusSearch`, where the loop ends, for
`DriverSessions`, where all connections may have been used up, for
`WebhookDelivery` and `EventPager`, where deliveries and readings end and time is
bounded, and for `RateLimiter`, whose time is bounded.

Fairness (`FairSpec`): weak fairness of `HandlerStep`, since a handler that holds
the mutex only computes; strong fairness of `ExpireGlobal`, since the expiry task
asks for the mutex every second and tokio's mutex is first come, first served,
while the mutex is not free all the time; weak fairness of `Lapse`, since clocks
run; strong fairness of `ExpireOne`, since crashes need not cease but do not
for ever hit a sweep before it marks an offer. Drivers need not answer, dispatchers need not call, and the TTL task, which
is optional in the configuration, need not run. In `DriverSessions`: weak
fairness of what tasks have on their agenda and of the expiry task, strong
fairness of the session loop's branch for the channel, because `select!` picks a
ready branch at random; none of connections, answers, hang-ups, ticks. In
`WebhookDelivery`: weak fairness of the time-out, the pause and the record, which
are timers of the sender's runtime and what follows them; none of the network or the
receiver. In `EventPager`: a request is answered or fails, and pauses are timers;
nothing says that one ever succeeds.

What the properties say:

* `IndexMirrorsDrivers`: the index is the inverse image of the driver positions.
* `CancelledJobsAreQuiet`: no open offer of a cancelled job.
* `OneLiveOffer`, `NeverReoffered`: dispatch is sequential and asks no driver twice.
* `SettledIsFinal`: answers and expiries are not overwritten, except by cancellation.
* `TimelineTellsStatus`: the last event kept about an offer names its status.
* `ImplementsLifecycle`: a job moves only as `JobLifecycle` allows.
* `EveryOfferResolved`, `SearchSettles`: offers are resolved and searches rest.
* `SenderOfOpenSession`: the session map holds no sender of a closed connection.
* `SearchOffersReachDriver`: an idle, reachable driver knows of the pending offer a
  search made, by announcement or replay; only a send that failed elsewhere loses it.
* `DeafSessionCloses`: a session whose sender is gone ends by itself.
* `ExpiryIsHeard`: a driver with one connection, told of an offer whose deadline
  passes, hears of it. With two connections it may not: the old one's tick can
  expire the offer and tell its own socket only. Nor if somebody else's connection answers
  the offer late, which expires it and tells nobody.
* `ImplementsPromise`: a crash takes the engine back to exactly what the last
  snapshot and the log behind it stand for; `OnlyUnkeptIsLost`: nothing else is lost.
* `TimelineSurvives`: rows stay single through replay, and only those whose insertion
  failed are missing, until a command itself is lost. It compares number by number what
  a row says, but not which offer a cancellation names: that one differs when one command
  withdrew several, as `replay_order` shows; `IndexSurvives`: the rebuilt
  index mirrors the drivers.
* `HandledOnce`: the integrator's handler runs once for a match, and once more at most
  for each restart of the receiver; `OkMeansHandled`: the sender believes only what
  happened; `EveryDeliveryEnds`.
* `NewestFirst`, `NoGaps`, `Complete`: no event twice, none skipped, all of them at the
  last page, whatever is pushed, dropped and recovered meanwhile. A client that pages
  with `before` loses events that share an instant with one it got, and no others. A
  reading that ends with a query that failed misses what is older than its last event;
  nothing in the answer shows it. `ReadingEnds`.
* `ImplementsQuota`, `WindowBound`: the limit holds in every window, also at its edges,
  and nobody is refused who is due; `RetryAfterIsClose`.

Each property has a mutant in `PROJECT.json`: the fault operators next to the
definitions they replace (`Idle`/`IdleOrSubmitting`, `Overdue`/`OverdueAnyStatus`
and so on) stand for plausible slips in that code.

### Statements of the documents without a run

The runs under `findings` stand for the disagreements that matter most. While
modelling we met these too; the models behave as the code does.

* `docs/API_HTTP.md:89` says a search goes up to `max_radius_km`; it goes
  up in whole steps, so the last radius searched may be short of it (`core:675`).
* A search for a next driver looks at the 32 nearest candidates only (`core:667`), so a
  job that all of them turned down is exhausted though farther drivers are free.
* `README.md:39` calls a match locked and `docs/API_HTTP.md:140` reports a cancelled job
  as cancelled; an accepted offer can be cancelled by id (`core:531`), and a job that
  was cancelled before it had offers is reported pending (`core:708`).
* `docs/API_HTTP.md:12` gives `Retry-After` as the seconds to wait; it is truncated, so
  a client back in time may be refused again, for less than a second.
* `storage:36` says replay uses no current time; `push_job_event` does (`core:897`).
* `ROADMAP.md:32` says every command is logged before it is applied; one whose append
  failed is applied all the same (`core:404`).
* `docs/API_HTTP.md:96` names a pause of 800 ms between attempts that never occurs:
  there are three attempts and two pauses.
* `docs/API_HTTP.md:177` calls `kinds` a filter, and a comment (`sqlite.rs:194`) has it
  done in memory after the fetch; with a database nobody filters (`sqlite.rs:188`,
  `core:862`), and `EventPager` reads unfiltered pages there.
* A failing query for events is answered 200 with an empty last page (`core:882`).
* `iterateJobEvents` with `maxEvents: 0` yields one event; `getJobEventsAllPages` none.
* The plugin uses up a nonce before the handler runs, so a handler that answers with
  an error is not asked again: the retries are refused as replays.

## Proofs

Every safety property a run checks, invariant, action property or refinement, is also
a theorem, for every value of the constants: any number of drivers, jobs, offers,
connections, requests, positions, events, snapshots and crashes. Each theorem rests on
an inductive invariant, `Init => IInv` and `IInv /\ [Next]_vars => IInv'`, which is
given here for each module because it is the reason why the property holds.

`EngineProofs`:

* `TypeCorrect`: `TypeOK` is inductive as it stands.
* `IndexStaysInStep`: from `TypeOK`, one lemma per index operation.
* `CancelledStayQuiet`, also with re-submission; `OneLiveOfferPerJob` and
  `NoDriverAskedTwice` for `~ Resubmit`, the assumption the run `single_winner`
  shows to be necessary; `SettledOffersStay`, an action property. They follow from
  `BookInv`. `CancelledJobsAreQuiet` and `OneLiveOffer` are not inductive alone: what
  a handler still has to do when it is interrupted matters. `BookInv` adds that at
  most one handler is running, that a job being submitted is not cancelled and, if ids
  are used once, has no offers, and that what a sweep collected is still pending. A
  crash keeps it, because it only forgets what was still to do.
* `TimelineIsTrue`: the last event about an offer names its status, whatever the cap
  drops. `TimelineInv`: an event that tells a status is of an offer of that job, and
  it names the offer's status or a later event about the same offer follows it. Dropping
  the oldest events keeps that; a command appends at most one event for an offer, or,
  when a job is cancelled, one for each in any order.
* `EngineImplementsLifecycle`, the refinement, for `~ Resubmit`: each action touches
  the view of one job (`SameJob` for all others) and moves it by a step of
  `JobLifecycle` or not at all. `ReportsAreFinal` reads two consequences off the
  abstract specification.

`RadiusProofs`: `RadiusStaysInBounds` and `LoopFindsClosedForm`. The invariant: while
nobody is found the radius is the first one plus whole steps, within the limit. So no
radius searched lies past `LastRadius`, and the one whose next step leaves the limit
is it. Whom a wider radius adds is farther away, so the list of a smaller radius is
the beginning of the last one's, and the first untried driver of the one is nearest
among the untried of the other.

`SessionProofs`: `SessionTypeCorrect`; `SenderIsOpen`, since an entry of the map is
always a session of that driver that is open or closing (`MapOK`); `SearchOffersArrive`,
whose invariant (`SearchOffersAhead`) says that as long as an offer of a search is pending
and the session in the map is open, something ahead will tell it or has told it: an
announcement in an agenda, a message in the session's channel or agenda, or its replay.
It rests on the shape of the agendas: a session registers only within a whole greeting,
so a replay follows, and messages to be posted come first.

`DurabilityProofs`: `RecoveryIsExact`, the refinement of `DurableEngine`, and
`NothingElseIsLost`, for any commands, snapshots, crashes and failing statements, and
whatever a command does to a state: `ApplyCommand` is not unfolded for these. The
invariant says that some history `h` of states, one for each number from the latest
snapshot on, follows the log: it starts from the snapshot, changes by `ApplyCommand`
where the log has an entry and stays where it has none, and ends in `kept`; while the
engine is loading it is at `h[seq]`. Choosing the next entry of the log needs the
least element of a set of numbers (`HasLeast`). `DurabilityTypeCorrect`,
`IndexIsRebuilt` and `TimelineIsKept` do look into the commands: each leaves a
well-typed state (`CommandOutcome`), and the rows in the event store are, while no
command is lost, exactly the events of the history's commands less those whose
insertion failed. A command that withdraws several offers pushes their cancellations in
any order, in replay in another one: but in each order its rows say the same number by
number, except for the offer a cancellation names (`GistsOfRows`), so the theorem is
about these `Gists` and assumes nothing of the commands. More does not hold: see
`replay_order`.

`WebhookProofs`: `TypeCorrect`, `MatchHandledOnce` and `DoneWasHandled`, for any offset
of the clocks and any number of restarts, on the assumption `NonceTtl >= 2 * MaxSkew`
(the plugin's defaults are 300 and 600 seconds). The invariant: a delivery handled once
more than the receiver was restarted is `Barred`: its nonce is known and was seen no
earlier than its timestamp less the skew, or its timestamp is too old already; and a
nonce ages out only when that is so.

`PagerProofs`: `PagerTypeCorrect`, `EventsComeNewestFirst`, `PagesHaveNoGaps` and
`ReadingIsComplete`, for any pages, kinds, budgets and failures. By time and then by
number is one order for both stores (`Later`), since in memory stamps do not decrease.
What the timeline does to a reader is `Grows`: what is pushed or recovered is newer than
all that was stored, and what is forgotten was older than all that is kept. The invariant
(`ReaderInv`): what was read descends and leaves nothing out, the cursor is its last
event, and what was there at first is not newer than its first. Only `ReadingIsComplete`
needs that the last query did not fail (`unread`); the others hold of such readings too. A page is the newest of
what is older than the cursor (`PageIsNewest`), so appending it keeps that.

`RateLimiterProofs`: `LimiterTypeCorrect`, `LimiterImplementsQuota` and `NeverOverLimit`
for all limits, windows and keys: a key's queue is the end of its history, and what the
history has before it is a window old or followed by so many that it no longer counts.
`RetryAfterTellsTheWait` remembers the last refusal (`HeaderInv`): it was made of a full
queue, which has not changed since, and of its oldest entry.

The proofs assume the named `ASSUME`s of the modules: finite sets of ids where a map
holds them, positive limits and steps, well-formed inputs, the window of the nonces,
markers (`NoDriver`, `NoCursor`, `NoBound`) that are no values of what they stand in
for. The documented claims that fail (`findings`) are counterexamples, not theorems.

Only model-checked: liveness (`EveryOfferResolved`, `SearchSettles`, `Terminates`,
`DeafSessionCloses`, `ExpiryIsHeard`, `EveryDeliveryEnds`, `ReadingEnds`), since TLAPS
does not prove fairness and ENABLED here.

## Not modelled, and what is left

Left to model: sessions with several jobs at once.

Left out for good: authorisation, validation of coordinates and categories, JSON
and OpenAPI (stateless); reading the configuration; the H3 and haversine arithmetic
(library, floating point); `candidates_in_same_cell` (nothing calls it);
`mark_offer_status` with a status other than cancelled or expired (nothing calls it
so); the computation of the signature; the SDK's other methods (one request each,
with the retry of `EventPager`); SDKs other than the TypeScript one (thin clients);
deployment files.
