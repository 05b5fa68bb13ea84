# Flight-geofence: a verification project

TLA+ modules, TLC models and TLAPS proofs for flight-geofence, a service that polls
aircraft positions over protected areas and alerts an operator when an aircraft
probably stops in one, or disappears from one. The modules are translated from the
Python sources under `app/`; line numbers are kept in `PROJECT.json` ("map").

## The system

One asyncio server process runs three loops and a web API over one SQLite database in WAL
mode. A command line (`app/cli.py`) can run a poll or a boundary sync in a process of its
own beside the server. Jobs of the same kind exclude each other (an asyncio lock in the
process, a file lock between processes); jobs of different kinds do not.

| Component | State it keeps | Operations | Meets the others through |
|---|---|---|---|
| Detection engine (`detection.py`) | none of its own | `process_observation`, `process_missing`, `_persist`, `_close_episode` | `aircraft_state`, `events`, called by both loops |
| Write funnel (`database.py`) | `aircraft_state` with `updated_seq` | `get_state`, `active_states`, `cas_upsert_state`, `cleanup_stale_states` | SQL transactions |
| Coverage cycle (`main.py`, `providers/`) | `poll_runs`, `provider_requests` | fetch all regions from all free providers, process, count missed | job locks, detection, e-mail |
| FR24 cycle (`fr24_scheduler.py`, `providers/fr24.py`) | `fr24_poll_runs`, `fr24_request_log`, count calibration | poll clusters, defer to the free grid, process, count missed, enrich, sync usage | detection, credits |
| Notification (`emailer.py`, `main.py`) | e-mail columns of `events` | deliver on the spot, retry queue, daily cap | operating phase, settings |
| FR24 credits, enrichment, tracks | `fr24_request_log`, `fr24_enrichment`, `fr24_tracks` | budget state, three tries per episode, manual track fetch | FR24 cycle, web API |
| FR24 clusters | `fr24_clusters`, their areas | create, edit, recompute bounds | area selection |
| Boundary sync (`boundary_sync.py`) | `areas`, `dataset_syncs`, downloads | download, check plausibility, replace areas, back off | query regions, selection |
| Areas and query regions (`coverage.py`) | `areas.selected`, `query_regions` | select, regenerate, roll back | geofence index, both loops |
| Settings (`settings_store.py`, `main.py`) | `app_settings` | set, clear, Live readiness gate | everything reads them |
| Web API and sessions | login failures (memory) | login, settings, manual runs | settings, jobs |
| Logs, dashboard, configuration, scripts | audit tables, browser | append, show, parse at start | none that detection reads |

What is hard in it, with the line where it bites, is the "hazards" list of `PROJECT.json`:
both loops write the same rows, a loop holds rows and snapshots across awaits, alerts are
committed before the flags that mark them, the daily cap is checked before a message and
counted after it, the operating phase is read once per cycle, and a process may die between
any two transactions.

## What makes each component correct

* **Write funnel.** A conditional write overwrites only what its caller read; a row's
  position never goes back in time; no fresh payload is dropped; every call ends.
* **Detection engine.** The columns of a row agree; an alert means what the
  documentation says; whenever the timer of a stop runs out its alert is recorded; an episode
  ends only after confirmed exits.
* **Two loops.** Neither loop breaks the row for the other; flags stand for recorded
  events; missed cycles are counted only over covered regions and on top of the row they
  were counted from; a loop that owns the row of an aircraft gone from low flight, and goes on
  completing cycles, reports it, whatever the other loop does.
* **Notification.** Only events recorded in Live are mailed; the cap holds up to what is
  already on its way; a message goes out once, unless a timeout or a crash hid the outcome, and
  twice at most if the retry listed it while it was being delivered; every owed one is settled.
* **FR24 spending.** The budget is passed by no more than what one cycle and the operator's
  requests under way, tests and tracks, were admitted to spend before it was exhausted; an episode
  is asked for at most three times, its outcome stays, and a recurring candidate is settled; a
  flight's track is not paid for again while it is kept.
* **Coverage and quota.** Absence is counted only where every polled provider has answered; the
  freshest report wins in any order of answers; the daily quota is passed by no more than what
  was already under way; a cycle always ends and gives its lock back.
* **Boundaries.** Query regions follow the selection; the operator's choices outlive syncs,
  refused requests and faults; no coverage cycle sees the map change under it; a failed sync
  is tried again, and not before the backoff.
* **Settings.** The environment wins over the interface and that over the default; Live only
  with a viable e-mail configuration.

## Modules

| Module | Models | Kind |
|---|---|---|
| `AtomicWrites` | what `cas_upsert_state` promises: a call is one write, or none | abstract specification |
| `AircraftState` | the table and `cas_upsert_state`, one transaction per step, any number of writers | state machine, implements `AtomicWrites` |
| `Episode` | what one observation, or one missed cycle, does to a row | operators |
| `EpisodeHistory` | one loop and the whole history of the open episode | state machine over `Episode` |
| `Detection` | the coverage and the FR24 loop over one database | state machine over `Episode` |
| `EmailDelivery` | `_persist`, the retry queue and the operator's phase changes | state machine |
| `FR24Credits` | prices, budget state, the enrichment table with its retry gate and UPSERT | operators over shared state |
| `FR24Cycle` | the paid cycle, enrichment in batches, and the operator's tests and track purchases on the same budget | state machine over `FR24Credits` |
| `TrackFetch` | the manual purchase of tracks by concurrent requests | state machine over `FR24Credits` |
| `SettingsStore` | environment, stored settings and defaults; the request that changes them; the Live gate | state machine |
| `CoverageCycle` | the free-provider cycle, its requests and the quota, with the settings changed under it | state machine over `SettingsStore` |
| `BoundarySync` | sync, selection and rollback, query regions, job locks, backoff | state machine |
| `AircraftStateProofs`, `EpisodeHistoryProofs`, `DetectionProofs`, `EmailDeliveryProofs`, `FR24CycleProofs`, `TrackFetchProofs`, `CoverageCycleProofs`, `BoundarySyncProofs` | theorems | proofs |
| `MC*` | constants for TLC | models |

`Episode` is shared: `EpisodeHistory` asks what alerts *mean* and keeps a history variable to
say it; `Detection` asks what *interleaving* does and keeps none. `Detection` takes
`cas_upsert_state` as one step; `AircraftState` is about what happens inside that step, and that
it may be taken as one is the refinement of `AtomicWrites`. `CoverageCycle` includes
`SettingsStore`: the cycle reads the settings it is started with, and again later.

### From code to model

**AircraftState.** `pc[w]` names the transaction writer `w` issues next: `first` (the insert
or conditional update of the first attempt), `resolve` (the re-read), `second`, `insert`,
`reread` and `fallback` (the unconditional upsert). `snap`, `pay` and `exp` are the locals
`committed`, `payload` and `seq`. The callers' contract is in `SubmitUpdate` (the position is
newer than the one read), `SubmitNew` (no revision) and `SubmitMissing` (the position read
goes back unchanged). All contents besides revision and position time are one abstract value;
`Closed` are those with no areas, the only ones `cleanup_stale_states` deletes. Cleanup may
happen at any moment here, while the code waits for the retention in days: a superset of its
behaviours. `orphan` is a history variable: the row a writer works on was deleted behind its
back, the only case in which a recreated row could carry a revision read earlier.

**AtomicWrites.** The abstract specification has the table and, per writer, the call it has
submitted. The refinement mapping (`Atomic` in `AircraftState`) keeps the table and reads the call
off the locals of a writer inside the funnel; the transaction that lands is the abstract
`Write`, giving up or dying is `Leave`, and every other transaction of the funnel stutters.
When a call may count as none is not the abstraction's business: `NoSilentDrop` says that.

**Episode.** A row is the columns `process_observation` decides on. Positions are points on a
line, some of them inside the selected areas, so that "within the radius" and "inside" stay
independent; speed and altitude are reduced to the comparisons made with them (`low`,
`altLow`); an episode is named by the second it was opened in, as in its identifier.

**EpisodeHistory.** A step is `process_observation` or `process_missing` to its end, or cut
short between the event and the row. `log` lists the observations of the open episode and the
cycles that missed it; `raised` is the alert of the last step with the log it was raised on.
`Starts` reads off the log where the timer of a stop started, with no look at the row: a slow
report inside starts it unless the one running still carries it, that is no fast report inside
and no counted gap came since it started, and the report lies within the radius of its anchor.

**Detection.** Per loop: `fetched` (the cycle's answer is in hand), `PROBABLE_STOP` /
`DISAPPEARED` (about to record an event), `store` (about to enter the funnel). `obs` is
the report for the aircraft or None, `complete` whether the cycle covered the loop's region.
A row belongs to the loop that supplied its last report (`prov`, with the region only that loop
covers); that is what `GoneReported` means by owning it.
`base` is the revision in the payload, absent for a new episode. `Crash` is a process that dies
or an exception that ends the cycle: commits stay, locals go.

**EmailDelivery.** Per loop: `retry` (walking the retry list), `detect` (recording events),
`check` (`send_event_email` up to the call), `post` (awaiting the provider), `record`
(`update_event_email`). The retry list is a set taken oldest first, as the SELECT orders it. The
operator's settings are whatever `Check` finds (`Channel`). Delays are a flag `due`, the calendar
day of a sent message a flag `today`. `handed`, `doubt` and `overlap` are history: how often the
provider accepted an event's message (counted up to the first delivery in doubt), the events of
which a timeout or a crash hid an outcome, and those the retry listed while the loop that recorded
them was delivering them.

**FR24Credits.** `used` is the sum of the credits logged under the current billing cycle;
`row[e]` the enrichment row of an episode. Time is counted in poll intervals, so that `wait`
is what is left until `next_retry_at`. `Saved` is the UPSERT, `Eligible` the gate that SQL and
Python both apply.

**FR24Cycle.** `pc` follows one cycle: `poll` (Light, cluster by cluster), `summary` (batches of
`fetch_summary_full`), `save` (the tries are recorded). The rest are the cycle's locals: `todo`,
`seen` (the candidates among the aircraft returned), `candidates`, `left` (not asked for yet),
`got`, `answer`; a batch that fails takes the answers of the earlier ones with it. `Begin` looks
at the kill switch, the clusters and the budget, once. `lastMonth` says that midnight of the first
has passed since, whereupon what is charged no longer counts. `manual` holds the operator's
requests awaiting an answer: tests (`Tester`), which take no lock, and track purchases (`Buyer`);
each looked at the budget by itself, and any number may be under way. Both are requests of the web
server: they neither wait for the cycle nor it for them. Those of a month that has ended are
dropped, since nobody sums up what they cost. `calls` and `lost` are history: requests that asked
for an episode, and those cut short before they were recorded. `Abort` is an exception, `Crash` a
dead process.

**TrackFetch.** Per request: `found` (first look done, no lock yet), `fetch` (lock held, budget
checked, awaiting the provider), `save` (charged, not stored). The flight comes from the
enrichment row, which `Enrich` may write again at any moment the gate of the cycle allows.
`paid` and `wasted` are history: what was paid for a flight, and what of it is not kept because
of a crash, a deleted event, or an event that got the track of another flight.

**SettingsStore.** `env` is what the running server finds in its environment, `stored` what the
rows of `app_settings` decrypt to. `Effective` is `get_setting`: a stored value counts only if it
can be read, so after a start with another `APP_SECRET_KEY` every key falls back to its
default. `settings_update` clears, stores and then looks at the readiness of Live, in the order of
the handler; it awaits nothing, so it is one step, but each write is a transaction and
`UpdateKilled` leaves any first part of them. The order of the keys in a request is the
client's, hence any subset.

**CoverageCycle.** `pc` follows `run_coverage_cycle`: `begun` (the run is recorded, the retry queue
is being sent), `fetch` (`todo` is what `fetch_all` has not asked yet), `detect`, `save` or
`failed`. `req[w]` is the request a requester is in: between `Ask` or `Again`, where the quota is
looked up, and `Answer` or `Fails`, where it is counted, lies the await. The requesters are the
cycle and the provider tests of the operator, which take no lock. The outcomes of `Fails` are
those `_get_json` tells apart: `denied` ends the request uncounted, `error` is counted and
repeated, `unusable` is counted and ends it, `lost` is uncounted, and repeated except for the
metered provider. `polled` is the list of providers looked up by `fetch_all` itself, after the
cycle looked up its phase. `received` and `counted` are history.

**BoundarySync.** `lock` stands for the job lock coverage-poll: every holder of boundary-sync
takes it too. `sync.pc` is the stage of `run_boundary_sync` and `_sync_boundaries_locked`:
`download`, `replace` (the transaction of `replace_areas`), `regions` (that of
`regenerate_query_regions`), `ok` or `failed` (the record of the run). `pick.pc` is the stage of
`areas_selection`: `regions`, and when those are too many `clear`, `restore`, `again`. The sources
are asked in order, and the first with units gives them the ids of its own scheme (`UnitOf`).
`age` is what `_sync_due` measures, from the end of a run or from its begin when no end was
recorded. `since` and `unmet` are history and measure the same from outside: hours since the last
attempt began, attempts without success. The sources of units are those whose answer can be used,
ICMBio and CNUC: RAISG answers with columns the updater does not know, and the run fails
(`DownloadFails`). `wish` is history: what the operator last asked for the area `Watched`, a
constant and any area, and `lost` whether a result without it came since. `torn` says that a fault
fell between a change of the areas or the selection and the regions.

### Concurrency

Within the server the loops interleave only at awaits; a command-line poll is another
process and interleaves with the server's FR24 cycle between any two SQL transactions. The
models use the finer interleaving throughout. A loop never overlaps itself (job locks).

## Runs

| Run | Question | Bounds | Result |
|---|---|---|---|
| `cas_funnel` | is the funnel a lossless optimistic write, and one atomic step? | 1 aircraft, 2 writers, 3 times, 3 contents, reads and cleanups below revision 3 | holds |
| `episode_history` | what do alerts and closures mean? | 4 positions, 6 kinds of report, times 1..4, 2 misses in a row, every threshold 2 | holds |
| `detection` | what does interleaving break? | 2 positions, times 0..2, exits confirmed by 2 reports, 2 misses, 1 crash | holds |
| `detection_live` | does the owner of a row report the aircraft gone? | as `detection`, times 0..1, 1 report inside is enough | holds |
| `email_delivery` | cap, phases, duplicates, settlement | 2 events, 2 attempts, list of 1, cap 1, 1 crash, Shadow and Live | holds |
| `fr24_cycle` | budget, tries, lasting outcomes, settlement | 2 episodes, 1 cluster, answers of 0 to 2, batches of 1, 2 tries, budget 1, 2 tests and 1 track at once, 1 crash | holds |
| `track_fetch` | is a track paid for once? | 2 requests, 2 events, 2 flights, 2 tries, budget 1, 1 crash | holds |
| `coverage_cycle` | quota, coverage, merge, an end to every cycle | 2 grid providers (1 metered, 1 keyed), 1 region, 1 aircraft, 2 times, quota 1, 2 tries, 1 test beside, 2 environments, 2 requests for the settings | holds |
| `boundary_sync` | areas, selection, regions and their schedule | 2 territories, 2 sources of 1 unit, 2 regions at most, backoff 1 and 2 hours, interval 3, 1 fault | holds |
| `live_ready` | SPEC: no Live without a viable e-mail configuration | 3 settings, 2 environments, 16 requests | **violated** |
| `absence_measured` | README: absent means absent from complete cycles | as `coverage_cycle`, 1 try, no test | **violated** |
| `selection_preserved` | SPEC: the selection outlives refreshes | as `boundary_sync`, 1 region, interval 2 | **violated** |

Why the bounds are enough. Revisions matter only through equality with one read earlier, and the
longest path through the funnel loses two races: revision 3 gives room for both and for a
recreated row. Thresholds of 2 are the smallest that distinguish "one" from "enough" and are the
defaults or minimums of most settings. Positions 1 to 3 are inside, 1 and 3 further apart than the
radius, 2 within it of both: enough to drift without ever moving far in one step. Two events and a
cap of one are the smallest instance in which one loop reaches the cap while the other has a
message on its way. Two episodes in batches of one are the smallest instance in which one batch
succeeds and the next fails; two tries have a first, a scheduled retry and an end; a budget of 1
is exhausted by the first answer, whichever it is, with whatever was admitted before it still to
be paid for, a cluster, its summaries, two tests and a track among it; in `track_fetch` it is
exhausted by the first track. In `detection_live` two times let ownership move once, to either
loop, before the aircraft is gone, or while the owner holds a snapshot of it; a crash may fall
into any cycle before or after. In `coverage_cycle` a quota of 1 lets the cycle and the test both
find it open; two tries have a repetition and a last failure; two providers over a region are the
smallest instance in which one answers and one fails, and give two reports of one aircraft, in
either order. More regions only add pairs of the same kind. In `boundary_sync` three of the four
areas exceed the limit, so that syncs and selections both meet it; the two sources name the same
units differently; a schedule of two delays has a first, a longer and a capped one; one fault is
enough to kill a rollback between any two of its transactions. Time is relative, so an age of 3
hours is enough for every comparison. `CHECK_DEADLOCK FALSE` where the bounds, or an idle database
without rows, let the model stop; the program itself polls for ever.

What the violated runs show, in the program's terms:

* `live_ready`: `settings_update` stores every value as it goes and looks at the readiness of Live
  only when nothing in the request was refused. A request that goes Live together with a value
  that is refused answers with an error, and the system is Live, with nobody to be mailed.
* `absence_measured`: the default provider is substituted for an empty list before
  flightradar24 is taken off it. With only that one listed the list of grid providers is
  empty, every region counts as answered by all of them, and after three such cycles
  aircraft are reported as having disappeared.
* `selection_preserved`: when the sources of conservation units fail, or give too few, the sync
  logs it and replaces the areas all the same. The units are deleted with their selection, and the
  next healthy sync brings them back with the default of new areas. The documentation promises both
  stable selections and that a partial update preserves the boundaries there are. `ChoicesKept`
  is what does hold: choices last as long as every result brings the area again.

More disagreements between the code and what is said of it can be read off the models, which
follow the code in each of them. They have no run of their own.

* Detection. The timer of a stop resets on fast movement and on a gap (SPEC.md:162), but the
  outside branch keeps `stationary_since` (detection.py:229), so a fast excursion still pending
  confirmation does not reset it, and neither do cycles that miss an airliner or an aircraft on
  its way out, since those are not counted (detection.py:424): `Episode`, `Starts` of
  `EpisodeHistory`. Losing FR24 is said not to blind the free grid (fr24_scheduler.py:72), but an
  aircraft whose row is FR24's when its cycles stop (kill switch, exhausted budget, cluster
  removed) is counted missing by nobody, until the free grid sees it again: `Detection`, where
  `GoneReported` is about owners that go on. Flags reset only after closure (SPEC.md:177), but two
  processes that both read "no open episode" open two, and the later write replaces the first with
  its counters and flags (database.py:1125): `Detection`. The last fresh position lies inside
  (SPEC.md:167), but the DISAPPEARED event comes from the snapshot (detection.py:480): the
  revision check protects the row, not the event. The deferral to the free grid is said to prevent
  take-overs of a freshly tracked aircraft, but is looked up in `Fetch` and acted on in `Process`.
* Spending. Successful enrichment is not repeated (FLIGHTRADAR_API.md:737), but a batch that fails
  throws away the summaries of the earlier ones, already charged, and they are asked for again
  (fr24.py:479): `FR24Cycle`. A second request never spends twice (README.md:416), but while the
  first purchase awaits the provider, a retried enrichment may give the episode another flight,
  whose lock the second request takes (main.py:1113): `TrackFetch`.
* Quota. Airplanes.live must stop before exceeding 500 attempts (SPEC.md:97): a test beside the cycle
  passes the limit, by one, and requests that were denied or not answered are not counted at
  all (providers.py:115): `CoverageCycle`.
* Notification. The retry queue lists an event which the loop that recorded it is delivering
  (database.py:1489; no lock is taken between the two processes or tasks), and its message goes out
  twice though nothing failed: `EmailDelivery`.
* Settings. After a start with another key the stored values count as absent and the defaults
  apply, while `setting_source` goes on calling them set in the interface: `SettingsStore`. A
  comment in `main.py` calls a downgrade to Shadow "an immediate mail pause"; the phase is
  read once, when a cycle begins: `EmailDelivery`, `CoverageCycle`.
* Boundaries. A selection request that is killed during its rollback leaves nothing selected, and
  a sync served by another source gives the units other ids. RAISG is the final fallback for
  conservation units (README.md:282, 309), but its columns have none of the names looked for, and
  the sync that falls back to it fails with the territories it has (boundary_sync.py:355):
  `BoundarySync`. The query regions are
  anchored at the bounds of the selection, so one more area renames them all, and an open
  episode keeps a last region that no cycle will cover (coverage.py:47). The bounds of an FR24
  cluster are not computed again when a sync changes its areas, though the comment on its version
  hash expects that (fr24_clusters.py:26): these two are outside the models.

### Fairness

* `AircraftState`: weak fairness of a writer inside the funnel. Nothing is awaited there.
* `Detection`: weak fairness of the steps of a cycle in progress. Nothing makes a cycle begin:
  FR24 may stop at its kill switch, with the budget exhausted or without a cluster. That the owner
  of the row completes cycles without the aircraft, again and again, is the premise of the property.
* `EmailDelivery`: weak fairness of the coverage cycle and of elapsing delays only. The FR24
  cycle may hang on a message for ever, the operator may do anything.
* `FR24Cycle`: weak fairness of the steps of a cycle in progress (every request has a timeout)
  and of the passing of time. Nothing makes a cycle begin: the property's premise is that the
  episode is a candidate again and again, in cycles with the budget normal.
* `CoverageCycle`: weak fairness of the steps of a cycle in progress: requests have timeouts, their
  retries are bounded, detection and the final record await nothing that can hang (delivery of
  messages has its own timeout). Nothing makes a cycle begin, nor a test go on.
* `BoundarySync`: weak fairness of whoever holds the lock (downloads have timeouts and three tries,
  cycles end: `CycleEnds`) and of the clock; strong fairness of `AutoStart`. The loop looks every few
  hours and finds the lock held only by chance, so it is not always out of luck; strong, because
  cycles take the lock again and again and disable it meanwhile.

## Proofs

All theorems hold for every value of the constants that satisfies the named assumptions,
which TLC evaluates in each run.

**AircraftState** (`AircraftStateProofs`). The invariant adds to the types two facts: `HeldRow`
(a row held under a revision that is still current is the row in the table, unless it
was deleted) and `SubmittedPayload` (a payload with a revision is no older than the row of that
revision). The first is needed because a fallback writes without looking at revisions and could
reissue one; it does not, since it advances the live revision. `NeverStaler` follows from the
second: where the revision matches, the payload is no older; where it does not, the retry
compares timestamps. `NoSilentDrop` holds step by step. Theorems: `TypeCorrect`,
`GuardCorrect`, `NeverStalerCorrect`, `NoSilentDropCorrect`. `FunnelIsAtomic` is the refinement: under
the same invariant every step maps to a step of `AtomicWrites` or stutters (`StepRefines`). A
transaction that lands does so on a revision one above the live one, and ends its call
(`LandIsWrite`); the others leave table and calls alone (`CallsStay`).

**EpisodeHistory** (`EpisodeHistoryProofs`). The invariant says what the row has to do with the log
(`RowSummarises`): `inside_obs` and `outside_obs` count the reports inside, and those outside
since; the row still shows the last report inside, with the cycles that missed the aircraft since
(`ShowsLast`); its stationary window is one of the log (`WindowIsReal`), and begins where the
timer read off the log last started, if that one still runs (`WindowIsTimer`). It is proved for a log
of any length: a step appends one entry, or starts a new log, so no induction over the log is
needed. `WindowIsReal` gives `StopJustified`, `WindowIsTimer` gives `NoStopMissed`, which also needs
that a flag in the row stands for a recorded event (`FlagBacked`). The starts of the timer are a
set that answers to its own definition; that every log has one (`TimerDefined`) is part of the
invariant and a theorem, so `NoStopMissed` is never true for want of a timer. Theorems:
`StopJustifiedCorrect`, `GoneJustifiedCorrect`, `NoStopMissedCorrect`, `TimerDefinedCorrect`,
`ClosureConfirmedCorrect`.

**Detection** (`DetectionProofs`). Lemmas first: what every operator of `Episode` (closing,
opening, leaving, advancing, counting, flagging) does to a coherent row. The invariant says of a
payload on its way to the database what the properties say of the row it becomes (`PayloadSound`),
and relates it to the row that is there now: it is no older than the row of the revision it
carries (`BaseSound`), and a payload with a counted miss was counted on a row no older than the
present one, on this very row if the revision is still the same (`MissSound`). The lemma
`OtherLoop` is the heart of it: a write of one loop raises the revision and never lowers the
position time, which keeps the other loop's payload sound. `CountsOnTop` then follows: a counted
miss carries the old position, so it cannot land as "fresher", only on its own revision. Theorems:
`DetectionTypeCorrect`, `LoopsKeepRowCoherent`, `FlagsBackedCorrect`, `CountsOnTopCorrect`,
`CountsCoveredRegionCorrect`.

**EmailDelivery** (`EmailDeliveryProofs`). Whatever a loop delivers or has on its list was
recorded in Live (`HeldIsLive`), so switching phases under a cycle lets nothing else out. An event
without an excuse, in neither `doubt` nor `overlap`, is held by one loop at one place (`Sole`,
`Once`); once handed over it is recorded as sent and held by nobody, or about to be recorded by
the loop that sent it (`Known`): it goes out once. For one that the retry had listed too early the
argument follows both loops (`Twice`): the coverage loop, having sent the message, sends it again
only after FR24 has recorded a failure over it, and FR24 delivers an event only once, when it
records it; so the message goes out twice at most, whichever outcome is recorded last. The cap
needs no invariant beyond the types: what was sent today and what is on its way grow together only
in `Check`, which finds the first below the cap, and the second is then at most the other loop's
message. Theorems: `DeliveryTypeCorrect`, `OnlyLiveIsMailedCorrect`, `NoDuplicateCorrect`,
`CapOvershootCorrect`.

**FR24Cycle** (`FR24CycleProofs`). A candidate has an open row from its
selection until its try is recorded (`Open`): only the cycle writes rows, and it runs alone. So
no try is refused by the UPSERT, and requests are accounted for (`Counted`): what was asked is an
attempt of the row, lost in a crash, or about to be recorded. That a settled row has no schedule
(`Unscheduled`) makes it immune to time. `Overshoot` has the invariant `Within`: what is spent, and
what the cycle and the operator's requests may still spend, stay under the ceiling together
(`ManualMaySpend` is the part of the latter, for any number of tests and tracks at once); each is
admitted with credits left, and each answer moves an amount from the second part to the first.
Theorems: `CycleTypeCorrect`, `TriesBoundedCorrect`, `SettledStaysCorrect`, `OvershootCorrect`.

**TrackFetch** (`TrackFetchProofs`). The invariant: two requests past the lock never hold the same
flight (`Mutex`); a flight whose lock is held has no stored track (`NotStored`, from the second
look under the lock); and an account, `paid = wasted + stored + waiting to be stored`
(`Accounted`), in which the last two are at most one together. `PaidOnce` is read off the account.
`Overshoot` needs an invariant of its own: the credits used and what the admitted requests of
this month may still spend stay under the ceiling together (`Within`); admission needs credits
left, payment moves an amount from the second part to the first. Theorems: `TrackTypeCorrect`,
`PaidOnceCorrect`, `OvershootCorrect`.

**CoverageCycle** (`CoverageCycleProofs`). A pair of provider and region is still to be asked,
answered or failed, one of them only (`Apart`); answers exist only in a cycle past `Fetch`, and
covered regions only in one about to save (`Places`). `FailuresNeverCount` follows, since a
covered region has no pair left to ask and none that failed. `FreshestKept` holds answer by
answer, in any order. For `QuotaOvershoot` a request begins only with the quota open, and then the
requests under way beside it are fewer than the requesters; an answer moves one from those under
way to those counted. The settings may change at every step: the lemmas need only that a setting
reads as a value its key accepts. Theorems: `CoverageTypeCorrect`, `QuotaOvershootCorrect`,
`FailuresNeverCountCorrect`, `FreshestKeptCorrect`. Two more theorems say what holds where a run
finds a violation. `MeasuredUnlessOnlyFR24`: where no value of the setting lists flightradar24
alone, `AbsenceMeasured` holds, so that list is the only way to it. `CleanIsReadyCorrect`: after a
request answered without an error Live is ready, or the environment insists on it; so the refused
value of `live_ready` is needed.

**BoundarySync** (`BoundarySyncProofs`). The regions may lag behind only while a sync is about to
generate them or a request is under way (`Follows`). A request remembers a selection of the areas
that are there, which is where the lock comes in: no sync can replace them meanwhile; and the
rollback, having cleared the selection, restores what it remembers (`Remembers`). The operator's
wish is fulfilled by the selection, or by the remembered one while a request changes it
(`Chosen`): the two together give `ChoicesKept`. For the schedule, the program's own counter equals
the attempts without success, and the age it measures is never more than the time since the last
attempt began (`Spaced`), so waiting for the one is waiting for the other. Theorems:
`BoundaryTypeCorrect`, `RegionsMatchCorrect`, `ChoicesKeptCorrect`, `OneMapPerCycleCorrect`,
`AttemptsApartCorrect`.

Model-checked only: the liveness properties (`FunnelEnds`, `GoneReported`, `Settles`,
`EnrichmentSettles`, `CycleEnds`, `SyncRetried`), which need fairness and ENABLED. Every invariant
and every action property of the passing runs is also a theorem. The properties of the three
violated runs are false of the code; of two of them a theorem says when they hold.

## Abstractions to keep in mind

* One aircraft in `EpisodeHistory` and `Detection`: rows of different aircraft share
  nothing but the loop that walks them, whose awaits appear as interleaving.
* Areas and settings do not change during a run of `EpisodeHistory` and `Detection`; that a cycle
  sees one map is `OneMapPerCycle` of `BoundarySync`, for the coverage cycle: the FR24 cycle takes
  another lock, and the map may change under it. Times are whole seconds.
* `Detection` leaves out the retention: rows and FR24 events deleted after days (with the FR24
  auto-delete on, an event may be deleted while the flag of a still open episode remains).
* `FR24Cycle` counts the wait for a retry from the moment a try is recorded, the code from the
  selection before the request; leaves out the free Count
  request and its throttle, the usage sync and telemetry, and the detection the cycle runs
  (module `Detection`). Under the policies that do not pause, `MaxUsed` bounds the spending.
* `TrackFetch` takes enrichment as a step the gate allows at any moment, and retention as one
  that may delete any event. Only its requests are charged there; what cycle, tests and tracks
  spend together from the one budget is the matter of `FR24Cycle`, where a track is bought without
  its look-ups and locks, so that more of them may be under way than the code lets through.
* `SettingsStore` has the settings its properties are about; the others are of the same kind, and
  what `_parse` makes of a text is the set of values a key accepts.
* `CoverageCycle` leaves open the order in which regions and providers are asked, a superset of
  the code's, and has answers already rid of old and malformed reports. An aircraft is a hex id
  with a time; the rest of a report goes where its time goes.
* `BoundarySync` reduces the grid of query regions to the set of areas it was generated from and
  its size to the number of those areas, and leaves out geometry versions and the cleaning of
  shapefiles: a source gives any subset of the areas it has. A request names any set of areas; that
  the rollback restores no more than 5000 ids, the limit of a request, is left out.
* `EmailDelivery` takes the SELECT of `email_attempts` together with the outcome, and numbers
  events in the order of `occurred_at`.

## Not modelled

Geometry (Shapely, buffers, the hexagonal grid, shapefiles), HTTP and SMTP below "answered / failed
/ unknown", the dashboard, links, translations, configuration parsing and scripts: computation or
presentation without a state of its own. The audit logs are appended beside detection and read
by nothing but their viewers. FR24 clusters are a row and its members: the handlers that save
and delete one await nothing, and what is left of them is numeric geometry; `FR24Cycle` takes
the enabled clusters as a set. Sessions, CSRF and the throttle of logins guard the interface and
touch nothing the other components read.

## Plan

1. Done: the modules above, their runs, and proofs of every safety property the passing runs
   check; the refinement of `AtomicWrites`.
2. Proofs left: when the selection does outlive a sync (`SelectionPreserved` as long as the sources
   bring the area again, from `Chosen`); the safe halves of the liveness properties, such as that
   an event owed a message is listed by the next cycle once its delay is over.
3. Models left: `CoverageCycle` as a refinement of the `Fetch` step of `Detection`; the
   membership of FR24 clusters against boundary syncs.
