# Radiobeacon in TLA+

A verification project for Radiobeacon: models of the parts of the system that share its
database and its broker, the configurations TLC checks them with, and proofs TLAPS checks.
Paths below are relative to the repository (`beacon/` is `beacon/src/beacon/`, and so on).

## 1. The system

Adapters poll sources and insert **items**; the dispatcher decides when an item goes live;
the actions summarize and chunk it; the beacon puts it on the air, as speech or as AX.25
frames. A web ui edits everything. The processes share one SQLite file
(`storage/radiobeacon.db`) and an MQTT broker, and take no lock between two commits.

| component | state it keeps | operations | hard part |
|---|---|---|---|
| data-adapters: storage | every table | one function, one or more commits | what is atomic and what is not |
| data-adapters: runner | a thread per source | supervise, reload, fetch | loops that end, re-read settings, catch-up |
| data-adapters: adapters | item ids that name their occurrence | fetch, ask a provider, store | a paid call between a lookup and an insert |
| data-adapters: policy, cron | `policies` | resolve, edit | edited while in use; slot boundaries |
| data-adapters: users | `users`, `sessions` | sign in, create, demote, reset, delete, bootstrap | a count or a password read before the write it guards |
| data-adapters: configuration transfer | settings, policies, sources, adapters | export, preview, import | a preview that ages; many commits, one of which fails |
| dispatcher | watermark, armed rows, recorded policies | discover, sync, dispatch, override, rearm, reset | lists that age during a pass, crash between commits, stale items |
| actions: ai, chunk | summaries, chunks, audit rows | one handler per message | redelivery, overlapping rounds, failure of any step |
| actions: content_ready | `item_readiness` | poll, publish, mark | rounds told apart by whole-second timestamps |
| beacon: mqtt thread | transmit schedule | schedule an item, supersede older ones | redelivery, an exception half way |
| beacon: housekeeping thread | the same | reconcile, purge | what was missed and what only looks missed |
| beacon: transmit thread | the same, manual messages | drain, record, retire | a snapshot against three writers, crashes |
| beacon: rendering and hand-off | clip directory, spool | render, pad, copy, rename, sweep | a subprocess that times out, a kill between two files |
| beacon: transmit monitor | keyed indicator | tail a log | rotation, a missing OFF line |
| ui: editing | settings, `beacon_manual_tx`, the items | settings forms, manual messages, retransmit, delete | forms sent back whole, requests that race each other |
| ui: live audio hub | listeners, one pump, one reaper, a lock | subscribe, fan out, let go | a pump that ends while somebody joins |
| ui: clip playback | none | list, play, offer the latest | files that are swept, half written or somebody else's |
| svxlink-txqueue | spool directories | ingest, wait for idle, play, file away | stop in the middle, names, other users of the channel |
| shell, broker | pid files, venv lock | start, stop | a lock left behind |

Flow: adapter `INSERT` -> dispatcher discovers, delivers, retires -> `item.dispatched` -> ai ->
`item.ai_settled` -> chunk -> content_ready's poll of the audit log -> `item.content_ready`
-> beacon's mqtt thread -> `beacon_tx_schedule` -> transmit thread -> a WAV in the spool.
Publishes are best effort; two of the hops have a reconciliation (content_ready polls, beacon
compares readiness with its audit log), the others do not.

What makes each part correct, in a sentence: the dispatcher arms what is new or edited, once,
and skips nothing; the pipeline announces an item when and only when a round of it is prepared;
the beacon airs what was announced, within its budget, not after it was cancelled, and lets
nothing linger; a source that is on has one loop, which fetches in time and pays once; an
administrator's request changes what he asked for and nothing else, whoever works beside him; and what
the dashboard shows and plays is what the transmitter does and did. `PROJECT.json` lists the hazards to these, line by line.

## 2. The modules

One action is one committed transaction (or one publish) together with the reads that lead to
it, because that is all the code makes atomic. The environment - publishes, edits, losses,
crashes, deletions - acts between any two actions, each kind of step as often as the
**scenario** of the behaviour says (`fuel`). A scenario is a constant, so a run's bounds are in
its MC module and the theorems hold for all of them.

**TxSchedule** - `beacon_tx_schedule` as a value: a function from primary keys to rows, one
operator per function of `storage.py` (`AddUnit` = `add_tx_schedule_unit`, upsert and trim;
`RecordSent` = `record_tx_schedule_sent`; `StaleRows`, `RowsOfOtherKinds`, ...). Dates become what
the code compares them for: `due`, `stale`, and an insertion order `rowid`.

**Beacon** - the three threads of `beacon/__main__.py`, plus the ui's `schedule_retransmit`.

| model | code |
|---|---|
| `Receive`, `ReceiveFails` | `_make_on_message`'s handler, `_already_enqueued`, and its `except` |
| `Handle`, `RetireOlder`, `AddRow`, `Finish`; `job` | `_handle_content_ready_event` in its commits; the local state of the call |
| `HouseReconcile`, `HouseNextMissed`, `HousePurge` | `_run_housekeeping_loop` |
| `TxStart`, `TxTick`, `TxManual...`, `TxSnapshot` | `_run_transmit_loop`, `_drain_manual_tx`, the query of `_drain_kind` |
| `TxOverBudget`, `TxNotDue`, `TxAttempt`, `TxRecord`; `batch`, `airing` | the loop of `_drain_kind`, one row at a time |
| `Publish`, `MarkPublished`, `PublisherCrash` | the end of the actions' `check_and_publish` |
| `Set...`, `Retransmit`, `DeleteItem`, `EnqueueManual` | the operator |
| `Crash`, `Lose`, `Second`, `BecomeDue`, `BecomeStale` | the process, the broker, the clock |

`aired`, `lost`, `ghost`, `beaten`, `tried` and `relived` are history: no guard reads them.

**Delivery** - what a typed message is promised, without table, snapshot or threads: it joins the queue of
its kind, queues are served in order, and no message is attempted twice unless the attempt was
forgotten. `Beacon!Outbox` instantiates it: `state` is the table `beacon_manual_tx` (`manual`), `hand` the message
the transmit thread is sending, `forgotten` the attempts whose row a crash brought back. The list the drain
has read is not in the abstract state at all; that it may age without breaking the queue is the refinement.

**Dispatcher** - `watcher.py` and `override.py`. `found`, `drifted` and `due` are the lists a pass
has read, which age while the tables change. Dates are ranks against the starts of the process
(`epoch`). `arms`, `causes`, `deliveries`, `redone`, `delivered`, `known` and `reused` are history.

**Pipeline** - `actions/__main__.py`, `ai.py`, `chunk.py`, `content_ready.py`. A text is the id of
the dispatch whose run wrote it; a timestamp is a whole second, as `datetime('now')` gives. A deleted item may be fetched
and stored again under its id (`Store`): its summary and chunks are gone, while its audit rows and its readiness row were
never deleted. `ready`, `fresh`, `aborted`, `settles`, `unrecorded`, `torn` and `again` are history.

**TxQueue** - the spool service `svxlink-txqueue`, one thread that is modelled step by step, and around it
SvxLink, its log, the producers and the clock. `place` is the directory a clip is in, `pc` where the
service is in `ingest_incoming`, `transmit` (`stage` to `off`) and `process_queue`; `openRx`, `txOn` and
`busy` are the fields of `ChannelState`, which learns of the channel only through `rxLine` and `txLine`.
Times are flags that time sets: a file that was `quiet`, an idle guard that is `past`, a deadline that is
`late`. `plays`, `partial`, `cut` and `blind` are history.

**Cadence** - schedules of a policy, cron evaluation and `_transmit_due`, as operators over a clock of seconds. A
cron expression is the set of seconds it fires in. **Airtime** - one row of the transmit schedule
against that clock while its policy is edited: where Beacon leaves open when a row is due, this
computes it.

**Feeds** - the adapters process. `inst` and `policies` are the tables; `supPc`, `wanted`, `threads` the locals
of `_supervise`; `loop[t]` those of `_run_adapter_loop` and of the fetch it is in.

| model | code |
|---|---|
| `SupScan`, `SupScanFails`, `SupSpawn` | `_supervise`: one read of the enabled sources, then reaping and spawning, source by source |
| `Reload`, `LookAgain`, `LoopDies` | the loop's two looks at the database (`_reload_adapter`, the due check) and the exceptions that end it |
| `Decide` | interval, cron and `once` fetches, the catch-up of a missed occurrence included |
| `FetchBegin`, `Ask`, `Store`, `FetchFails`, `StoreFails` | the aiprompt adapter: `item_exists`, the paid call, `store_reading`; `_fetch_once`'s handler |
| `OnceStart` | `python -m adapters --once`, a process beside the loops |
| `SaveAdapter`, `Toggle`, `DeleteAdapter`, `SetPolicy`, `DeletePolicy` | the pages of the ui |

**Accounts** - `auth.py`, the handlers that use it, `manage_users.py` and the administrator created at start. A request
(`Worker`) goes through `auth`, `look`, `count`, `verify`, `write`, `clear`, `open`, one action each, because the ui runs
requests on a pool of threads and each of these is its own read or commit.
**Settings** - a form from its rendering (`OpenForm`) over what its administrator types to the commits of its save, one key
each (`WriteField`), beside other forms, resets and the dashboard's switches. A form shows the values in force; a save strips every
field (`Raw`) before it compares or writes anything, and a refused form comes back with the stripped fields. `Strip` is a constant
function: it takes outer blanks off, what that leaves of a value is a value or nothing, and twice is as good as once.
**Transfer** - extends Settings with the other tables: export, upload and dry run, the page with its
two boxes, and the import section by section and record by record, with failures, a crash and other administrators in
between. A file is finite and names a record once, so a section is a set; that its order does not matter is proved.

**StreamHub** - the audio hub on its event loop. What lies between two awaits is one action; `line` is the fair
`asyncio.Lock`, `task` the pumps, `conn` the requests with their bounded queues, `tab` the players in the browsers, which poll, retry
and are silenced as `tx-audio.js` and `on-air.js` do.
**TxMonitor** - the thread that tails SvxLink's log, its two commits of a change, its watchdog and heartbeat, and the ages by
which the ui believes the row. Times are ages that stop at the largest one anybody compares them with.
**Clips** - the files of a unit from its rendering to the sweep. `wavs` is the clip directory, `incoming` the
spool, `job` where the transmit thread is in `_transmit_*_unit`. A file name is the sequence of the parts that '-' joins, so
that two names can be equal as they can in the program: the code checks nothing, so an item `x-1` has the clip names of chunk 1 of
an item `x`, and a source called `manual` those of messages. `Namesakes` of a unit are the units which may have its file names, `Strangers`
of an item those that its patterns take for its own; the properties say what still holds where names meet. One assumption on the
knobs is named, `RetentionIsLong`.

**Desk** composes Accounts with Transfer, **Station** composes StreamHub, TxMonitor and Clips, **Schedules** composes Feeds
with Airtime: components that share no state (or, in the last, only Cadence), so a behaviour chooses one `part` and the
others are at rest, in a state in which their fairness asks nothing. Each is checked in one run.

**MCBeacon, MCDispatcher, MCPipeline, MCTxQueue, MCFeeds, MCDesk, MCStation** give the constants.
**BeaconProofs**, **DispatcherProofs**, **PipelineProofs**, **TxQueueProofs**, **FeedsProofs** and **StationProofs** hold the
theorems about the modules of their runs, **AccountsProofs** those about Accounts, **TransferProofs** those about Settings, Transfer
and Desk.

Operators commented as mutants are plausible bugs of the definition that follows them; they are
not part of the specifications and show that the property they are listed with can fail.

## 3. The runs

| run | shows | bounds |
|---|---|---|
| `beacon_safety` | `WithinBudget`, `CancelledAirsAtMostOnce`, `EventArmsOnce`, `TrimSparesTheNewest`; `ManualDelivery`: Beacon implements Delivery | 3 items (two of one event), 2 chunks, caps 1-2, queue 1-2, 2 messages, 11 scenarios |
| `beacon_liveness` | `EveryPublishIsHandled`; rows, stale rows and manual messages leave (`EverythingLeaves`) | 2 items, 6 scenarios |
| `dispatcher` | armed for a reason, delivered once, nothing skipped, edits delivered, everything armed is retired | 3 items (fresh, undated, stale), 2 policies, 6 scenarios |
| `pipeline` | settled once, announced at all and only when both actions have finished with one dispatch of it (`ReadyIsPrepared`), chunks match the summary | 2 items (one empty), 6 scenarios, up to 3 dispatches, one deletion that is fetched again |
| `txqueue` | played once, whole, into an idle channel (`ClipsSurvive`: nothing is lost but to a namesake); everything filed | 3 clips (two namesakes, one no WAV), 7 scenarios |
| `feeds` | one loop per source that is on (`LoopsFollowTheTable`), one paid call per occurrence (plus lost answers, plus one of a `--once` that asks at the same time), airings keep their distance, each source is served | 2 sources (one a seed), 3 policies, 5 fetch stages, 3 threads, 5 ticks, 8 scenarios; Airtime: 7 seconds, 9 stages, 2 edits |
| `desk` | sessions are their owner's and end, forms write what was typed, exports come back whole, imports do what the page said and, left alone, are as good as atomic (`ImportKeepsItsWord`), one request does not remove the last administrator | 3 requests, 3 names, 4 ids, 3 sessions, 7 scenarios; 2 desks, 3 settings, 3 values (one has outer blanks), 3 files, 2 installs, 3 turns, 1 failure |
| `station` | one upstream and nobody waits in vain; the indicator follows the log; clips are what aired; all of it recovers | 2 tabs, 3 requests, 2 pumps, queues of 2, 4 scenarios; 2 logs of 3 lines, 5 scenarios; 5 units (two have names that meet), 2 airings, retention 2 or none, 6 seconds |
| `beacon_supersede`, `beacon_rearm`, `dispatcher_reuse`, `pipeline_abort` | each: a sentence of the repository that the code does not keep (section 6) | one scenario each |

Why these bounds: every property here needs at most two rounds of one item, or two items of
which one overtakes the other, and one disturbance between them; two chunks make an item of several
rows, two caps make an edited budget, a queue of one overflows at the second row. A scenario
combines the disturbances that can amplify each other; the product of all of them is beyond
TLC, and is what the proofs are for. `MaxRowid` bounds the rowids of the schedule at 8, which
no run reaches.

`beacon_supersede` runs under `MCQuietSpec`, a part of Spec's behaviours: an event is published when none is in flight, attempts
succeed, and the reconcile pass starts when everything else has been worked off. What it finds is then due to the skip alone and not to
a list that aged.

In `feeds` the clock passes two cron occurrences after the start, enough for a fetch, a missed one and the one that
catches up; three threads are a loop, one that is ending and its successor. In `desk` two requests race and a third
starts while they do; a session is opened, slides, and expires within seven ticks; two desks and three turns are a form,
somebody else's write and the save, or an upload, an edit and the import. In `station` two tabs and three requests let
a listener join while another's pump is closing; a queue of two overflows at the third chunk; two logs are one rotation; two
airings are an airing and its repetition, in the same second or a later one, and the clock then passes the retention.

`pipeline`, `pipeline_abort`, `desk` and `station` switch the deadlock check off: with nothing dispatched, no request under way or
nothing on the air these systems have nothing to do, and their clocks are bounded.

**Fairness.** Beacon: weak fairness of each thread's steps, of the reconcile tick, of the mark that
follows a publish, and of the passing of time for rows that wait for a slot. The threads are loops
with a timeout, so they run on as long as the process does; a cron policy whose expression
never matches is excluded by the last of these. Nothing is assumed of losses, edits or crashes.
Dispatcher: weak fairness of `Poll` (`main` catches what a poll raises, and the service is restarted).
Pipeline: weak fairness of each of the three threads (handlers and ticks catch everything).
TxQueue: weak fairness of the service, which is one loop (started again by systemd after a kill, by the
operator after a stop), of its deadlines, of producers that finish and of files that then stay
quiet, and of SvxLink being started again. Nothing is assumed of what SvxLink plays or of the channel
ever being free.
Feeds: weak fairness of the supervisor, of each loop, of the clock and of `--once`, which are loops with a timeout in
a process that is started again; none of the operator.
StreamHub: weak fairness of every ready task of the event loop, of the browsers' polls and retry timers; none of upstream's
data (`Chunk`), because the client reads without a timeout and upstream may be silent for ever.
TxMonitor: weak fairness of time and of a thread that is alive; a dead one need not come back, and the indicator must
go out nevertheless. Clips: weak fairness of the transmit thread (its subprocesses have timeouts), of the sweep and of time.

## 4. What is proved

`BeaconProofs` proves for all constants that satisfy the named assumptions of TxSchedule and Beacon
(chunks, dates, messages and queue sizes are numbers, scenarios are scenarios, `None` is neither an airing nor a
message):

- `TypeCorrect`: `Spec => []TypeOK`.
- `BudgetHolds`: `Spec => []WithinBudget`. The invariant `BudgetInv` adds what the code
  never writes down: a scheduled row has counted every airing but the lost ones and, while its unit is on
  the air, the current one; a row of the drain's snapshot has counted every airing but the lost ones,
  although re-arming and removal change the table behind the snapshot.
- `CancelHolds`: `Spec => []CancelledAirsAtMostOnce`. `CancelInv` adds that a scheduled row is not
  cancelled and that a cancelled unit still in the snapshot has not aired since: the second airing has
  no row to be read from.
- `EventsArmOnce`: `Spec => []EventArmsOnce`. `EventInv` adds that only the mqtt handler works under
  an event id, so no other handler can write an audit row with it.

- `DropsTheOldest`: `Spec => TrimSparesTheNewest`. `RowidInv` is what an order by rowid needs to mean anything: the table is finite and no two
  rows share a rowid. A kind within its cap has then no more rows than `TrimKind` keeps, so a row is dropped only
  if as many younger ones stay (`TrimDropsTheOldest`).
- `DeskImplementsDelivery`: `Spec => ManualDelivery`. The initial states map to initial states (`DeskStart`) and every step
  of the program is a step of the queue or leaves it alone (`DeskStep`). The invariant `DeskInv` says why a list that ages
  is still a queue: it holds only messages of one kind that are still in the table and whose attempts were all
  forgotten, and a message of that kind which it misses is younger than every one it has.

The safety theorems follow from type correctness and one preservation lemma per group of actions.

`DispatcherProofs` proves, for any items, policies, dates and scenarios, from the assumptions named in Dispatcher (the default is a
policy, dates are numbers or `Undated`, a scenario's backlog is finite, `None` is no item):

- `TypeCorrect`: `Spec => []TypeOK`, which includes that no two rows share a rowid. `Bounded` adds that there is a number no rowid exceeds,
  whatever the size of the table: without it `RowidHigh` need not be one of the rowids (`HighRowid`).
- `DeliversOncePerArm`: `Spec => []DeliveredOncePerArm`. `DeliverInv` adds that an item which is armed or in the list of due rows
  has an arming to spare, unless the pass is about to retire it; a crash that takes the retirement away pays with `redone`.
- `SkipsNothing`: `Spec => []NothingIsSkipped`. `FoundInv` says that what the pass found lies above the watermark and that the row in hand
  is its lowest; `LookInv` that a row nobody looked at lies above the watermark and is either still on the list or above all of it.
- `ArmsHaveCauses`: `Spec => []ArmsAreCaused`. `CauseInv` counts the armings that are still to come of what has happened: what the pass is about
  to arm, what the next discovery will find, a drift that was read, and one that is still to be seen. Each step
  turns one of these into another, into an arming, or adds one together with a cause.

`AccountsProofs` proves, for any number of requests, names, passwords, sessions and scenarios, from the assumptions named in
Accounts (the bootstrap's name is a name, the threshold is within the time to live, ids and tokens are bounded by numbers, a
scenario's accounts have distinct names, `Nobody` is no request):

- `TypeCorrect`: `Spec => []TypeOK`. It needs `SignIn`: the id and name a sign-in has read are still those of the account when it
  opens the session, or the account is gone, because an id is never given twice and nobody is renamed (`NamesStay`).
- `SessionsHoldAlways`: `Spec => []SessionsHold`. Its invariant has three parts. `Owned`: every session's id was given, and if its account is
  there, it has the name that logged in. `Sliding`: what was pruned had not been used for the threshold, and what is left
  expires between the threshold and the time to live after its last use. `ResetEndsSessions` is inductive as it stands, given `Owned`: an
  account that is new cannot have a session of an earlier one.
- `LastAdminIsGuarded`: `Spec => LastAdminNeedsTwo`. `Counted` adds that a request of the ui which is about to take an administrator away has counted two
  different ones; if both are still administrators when it writes, one of them is not the one it removes.

`PipelineProofs` proves, for any items, texts and scenarios, from the assumptions named in Pipeline (the items without contents are items,
scenarios are scenarios, `None` is neither an item nor a job):

- `TypeCorrect`: `Spec => []TypeOK`. `Young` adds what the ids are for: every id in use was given before, an event has one of its own, and what a
  chunk job has read is the text of an earlier dispatch. `InTime` says that no timestamp lies ahead of the clock.
- `SettlesOnce`: `Spec => []DispatchSettlesOnce`. `SettleInv` adds that a settled dispatch has its audit row or is one of those
  whose row was never written, and that a handler which got past the look at the audit log has settled nothing yet.
- `ReadyIsAlwaysPrepared`: `Spec => []ReadyIsPrepared`: what is announced has a dispatch with which both actions have finished, and chunks if it has
  contents and was not deleted and fetched again. `FinishInv` says that an event of ai, in flight or being chunked, is that of a dispatch ai has
  finished with, so chunk's completion is one of both. `PrepInv` says that a completion in the audit log means chunks, unless
  the item was stored again, also while a chunk job has taken the old ones away: what that job is about to store is not nothing.
- `ChunksFollowSummary`: `Spec => []ChunksMatchSummary`. `MatchInv` is the argument: whoever makes a text old owes an event, so chunks which are not those
  of the summary, or a job about to store such chunks, have an event still to come (`ToChunk`).

`TxQueueProofs` proves, for any finite set of clips with any sanitized names and any scenarios, from the assumptions named in TxQueue:

- `TypeCorrect`: `Spec => []TypeOK`. `HandOK` adds that the clip in hand is in `queue/` and that what the scan has noted is still in
  `incoming/`: nothing leaves it behind the service's back.
- `HandedOverOnce`: `Spec => []PlayedOnce`. `PlayInv` adds that a clip which is still to be handed over was so as often only as a stop left its outcome open.
- `NoClipIsLost`: `Spec => []ClipsSurvive`. `SpoolInv` carries the namesake: what was replaced in `queue/` had the sanitized name and
  the second of a clip that has left `incoming/` too. A clip that grows is in `incoming/` and was not seen quiet.
- `StartsOnAFreeChannel`: `Spec => []IdleMeansIdle`. `ChannelInv` says what the service knows: unless it was blind, what it has heard
  together with the line it has not read yet is the state of the channel.

`FeedsProofs` proves, for any tables, thread ids, policies, catalogues of prompts and scenarios, from the assumptions named in Feeds, Cadence and Airtime (threads are
numbers, the default is a policy, tables are tables, an expression fires at second 0, `None` and `Never` are nothing else):

- `TypeCorrect`: `Spec => []TypeOK`, with `Registered`: a loop that lives is the one the supervisor knows for its source.
- `LoopsAreTheTables`: `Spec => []LoopsFollowTheTable`. One loop per source is `Registered`; that a source which is off fetches at most once more
  needs `OffInv`: after that fetch, none of its loops is past the look at the table.
- `PaysOnce`: `Spec => []PaidOncePerOccurrence`. `PayInv` is a balance: without an item every answer paid for was lost or is under way;
  with one, whoever has still to ask had looked before it was stored, and only a loop and a `--once` can both have.
- `AiringsKeepTheirDistance`: `AirSpec => []KeepsItsDistance`. `AirInv` adds that the row remembers its last airing and when it was created, whatever the edits of the
  policy; the lemmas on `Cadence` (`Least`, `Largest`, `LatestFireIsLatest`) say that the latest fire is one and that none lies between it and now.
- `PartsTypeCorrect` and `SchedulesAreKept`: the same of Schedules, the composition that the run checks (`PartsSpec`), its fairness not needed.

`StationProofs` proves about the three modules of the run `station`, each by itself, from the assumptions named in them:

- `HubTypeCorrect` and `FaithIsKept` (`HubSpec => []HubKeepsFaith`), for any tabs, connections, pump slots and queue bound of at least one. `HubInv` says what the lock
  is for: a task that is not done is the hub's pump or the one that the lock's holder awaits (`OneRuns`), and while one is awaited the hub has no pump (`Awaited`), so there are
  never two. `NobodyWaitsInVain` is inductive with these and with `Listening` (a listener's response is open): the pump that ends puts its mark into the queue of
  whoever listens then, and a full queue drops its oldest item, which need not be the mark.
- `MonitorTypeCorrect` and `LogIsFollowed` (`MonitorSpec => []IndicatorFollowsLog`), for any ages and weather. `InodesOK` bounds the files and `HandleOK` says that the handle is no
  further than the end of a file there is. `LineOK` says that the thread believes the last line it has read of the current file, with the exceptions the property names, and `RowOK`
  that the row says what the thread believes, unless it is an earlier thread's. Together they hold at every position, and at the last one they are the property.
- `ClipsTypeCorrect` and `ClipsAreTrue` (`ClipsSpec => []ClipsTellTheTruth`), for any units, whatever their names, and any retention above a rendering. `WavsOK` ties a
  file to the unit it was begun for; `MadeOK` says that what is about to be handed over is there, whole, and no older than the rendering, so that the sweep spares it; `AiredOK` and
  `KeptOK` carry the two halves of the promise from the moment of the audit row: a file in its place is of that airing or a later one of the unit or of a namesake, and there is one as long as
  the airing is to be kept. `WavsStep` reduces every action to one of five things that can happen to the sounds.
- `StationTypeCorrect` and `DashboardIsTrue`: the same of Station, the composition that the run checks. The resting states satisfy the
  invariants too: a monitor that starts dead with a full counter, clips at the end of their clock.

`TransferProofs` proves about Settings and Transfer together (`TransferSpec`, every step of the forms, the switches, the import page, an import, a crash and the
policies and adapters that others edit), for any keys, environment, files, installs and number of desks, from the assumptions named in the two (the environment and the
defaults are values; stripping is what section 2 says; a file is finite, names a record once and has keys of its sections, and `Nothing` is no record; an install's
tables know their keys, of which there are finitely many, and hold what `set_policy` and `set_source` let in; a required key is no secret):

- `ConfigurationTypeCorrect`: `TransferSpec => [](SettingsTypeOK /\ TransferTypeOK)`.
- `UntouchedIsKept`: `TransferSpec => []UntouchedKeepsItsValue`. `FormsInv` says what is in a field nobody has touched: the mask or nothing if it is a secret, and
  the value that was in force otherwise, or that value stripped. So what a save still has to write (`Sent`) is that value stripped, or nothing; a write of anybody else
  marks the setting in every form that is open.
- `ImportsKeepTheirWord`: `TransferSpec => []ImportKeepsItsWord`. `ImportInv` ties a running import to its dry run: it takes only what the administrator
  confirmed (`JobInv`, `ReviewedInv`), and as long as it is alone the tables of the sections it has not come to are those the dry run read (`TablesInv`), what exists
  and what it knows of policies is what the dry run saw plus what the file adds (`KnownInv`), and each result so far is a promised one or a consequence of a
  refused policy (`Promised`). That is its first two parts (`WordKept`); the third is the next theorem.
- `ImportsAreAtomic`: `TransferSpec => []ImportIsAtomic`. `AtomicInv` says it for a step that has written an adapter and not yet its name
  as well. It needs what a fold over a set computes, although a set has no order: `WrittenRows` says that a section's records leave exactly
  what each would alone, and of an adapter that brings no name nothing in the sources (`WritesOnce`, `WrittenLast`). A counterexample
  would have a smallest set of records, by well-founded induction over finite sets and their strict subsets, and leaving one record out of
  that gives a smaller one.
- `ExportsComeBack`: `TransferSpec => []RoundTrip`. With the same lemmas: what is exported of a table is taken whole by a fresh install, section by section,
  because every exported record is accepted (`Stock`: no incoherent policy and no nameless source ever gets into a table) and an
  adapter's name is the one its source had.
- `DeskIsBoth`: `DeskSpec => Spec /\ TransferSpec`, so that the composition which the run checks has every property of its parts;
  `DeskTypeCorrect` and `DeskIsSafe` are these properties.

Every invariant and action property that a passing run checks is thus proved as well. Only model-checked are the liveness properties
(`EveryPublishIsHandled`, `EverythingLeaves`, `EditIsDelivered`, `ArmedIsRetired`, `DispatchIsAnnounced`, `EveryClipIsFiled`, `PartsServed`,
`StationRecovers`), because liveness and `ENABLED` are out of this prover's reach, and the four disagreements that section 6 numbers, which
are counterexamples.

## 5. What is not modelled

Not modelled at all: what a text looks like (`content.py`, `formatters.py`), the NTP query, listing queries, pages, templates,
translations and the setup wizard (its settings are saved by the function Settings models), schema migrations, the
mapping of an api response or of custom code to items, and the shell scripts. Of the last, one hazard is known: the
`mkdir` lock around the shared venv (`lib.sh:95`) survives a script that is killed, and later starts wait for it and give up.
In Beacon rendering is an attempt that succeeds or fails; Clips opens it up. Provider calls are
outcomes. Publishing is best effort: a delivery whose publish fails is not distinguished from one whose message is lost.
Whether a dropped request of the web framework leaves its queue behind is the framework's matter.

Known gaps inside the modelled parts: settings are well formed (a setting that is not a number ends the beacon's
threads, which have no handler, `beacon/__main__.py:1089`); the coercions of an import are a set of accepted values; password
hashing is equality; a command of `manage_users.py` is not killed half way; a log line says on or off; the ui's reads of the clip directory are one step.

In TxQueue a producer never pauses for `STABLE_SECONDS` in the middle of a file, and the directories are
on one file system, so that a rename is atomic and does not fail. `IdleMeansIdle` excepts a service
that could not read the log lines it needed: after a restart in the middle of a transmission it tails the
log from the end, believes the channel idle and transmits at once; the same goes for lines lost to a
rotation.

One thing the dispatcher's model showed that is no contradiction of a document: a policy edited
before a discovery looked at a stale row is recorded by that discovery as the known one, so the edit is
not delivered. `EditIsDelivered` therefore speaks of rows the watermark has passed.

## 6. Where the code and its documentation part

1. `beacon_supersede` - the message of an older report arrives when a newer one of its event is on the air; it is skipped, which leaves
   no `enqueued` row. The newer report's row is retired, and the next reconcile pass finds the older item missed and schedules
   it: it airs after the newer one.
2. `beacon_rearm` - a second CloudEvent of an item arms its row again while the earlier arming is on the air; the record of that
   airing deletes the row, and the second event is never aired.
3. `dispatcher_reuse` - SQLite reuses the rowid of a deleted newest row; the next item is below the
   watermark and is never discovered.
4. `pipeline_abort` - an aborted rearm counts as a completion and is announced with the old chunks.

Seen while modelling, without a run of their own; the models behave as the code does:

- **Readiness mark** (`content_ready.py:115`). It is written after the publish and compared by whole seconds: an item the beacon has
  already scheduled can look missed and be scheduled twice (`beacon/__main__.py:303` speaks of what was missed), and a round that
  completes between a publish and its mark, or in the same second, is never announced. `DispatchIsAnnounced` therefore speaks of a
  first round and of one followed by a quiet time.
- **Rearmed items** (`content_ready.py:88-89`, by what also brings about item 4). The docstring says that both actions "have finished reacting to the same
  dispatch" (`content_ready.py:1-2`). On a rearm ai's new audit row and chunk's old one suffice, so the item is announced before chunk has run for the
  new dispatch, and once more when it has, unless that is in the second of the mark. `ReadyIsPrepared` therefore promises
  that both have finished with one dispatch of the item, which need not be the last.
- **Slots** (`beacon/__main__.py:883`). The docstring promises "a cron occurrence strictly after `last_transmitted_at or created_at`" (`:873`), but `created_at`, which has no time zone,
  is compared as text with an occurrence that has one: a cron row that is armed in the very second of a slot airs at that slot. `KeepsItsDistance` excepts this
  slot; after an airing the next is strictly later, because `last_transmitted_at` has microseconds.
- **Names that meet** (`ui/beacon_audio.py:108`). No path segment is to "reach another item's clips" (`:195-198`), but the pattern of an item `2026-7` also matches the clips
  of an item `2026-7-1` of its source. `PlaysItsOwn` speaks of items without such `Strangers`.
- **Refetched items** (`dev_ops.py:126`). Deleting an item keeps its audit and readiness rows. When its adapter fetches it again under the same id, the
  old row of chunk and the new one of ai are enough, and it can be announced without any chunks; `ReadyIsPrepared` excepts it.
- **Stripped settings** (`ui/routers/config.py:118`). A form shows values unstripped (`config.py:89`), so saving it untouched writes another value where the one in force
  has outer blanks. The shipped prefix and suffix of the voice end in one (`beacon_defaults.py:48-52`). A refused form is to come back "exactly as
  the operator left it" (`config.py:112`) and comes back stripped. `UntouchedKeepsItsValue` allows the stripped value and no other.
- **Limits of two properties.** `EventArmsOnce` does not speak of what the reconcile pass arms, which has no event id. `TrimSparesTheNewest` speaks of
  kinds within their cap: an uncapped retransmit can leave more rows, and the next trim then drops them by `created_at` (`storage.py:1574`), which a re-arming
  does not renew, so that the row just armed may be among them.
- **Prompts** (`data-adapters/README.md:93` against `adapters/__main__.py:172`). An edited prompt is not generated at the next poll but at the next
  occurrence, because the loop has already fetched for this one.
- **Preview** (`config_transfer.py:451`, "dry_run=True runs every validation"). The dry run does not run `set_policy`'s validation, so an
  incoherent policy is previewed as created and then refused, and so is an adapter that names it. `PreviewIsKept` excepts them.
- **Administrators.** Two of them can remove each other (`users.py:116`, the count precedes the write), and the bootstrap fails
  the ui's start if a plain user has the name it creates. `LastAdminNeedsTwo` states what the count does guarantee. A reset commits the
  password before it deletes the sessions (`auth.py:155`, `158`), so a ui killed in between leaves the old ones valid; `ResetEndsSessions` excepts them.
- **Indicator.** After a restart of the beacon "ON AIR" may stay for 330 seconds; when the log was missing, what is written in the half minute until the
  next look is skipped; a monitor that is switched on again replays what it had not read. Its docstring says "Never raises out", but a locked
  database ends it.
- **Player.** A click that unmutes a blocked `play()` does not retry it, against the comment in `tx-audio.js:8`; a stop
  by a click on a recording is undone by the next poll.
- **Clips.** Two airings of a unit in one second share a file, against "each has its own WAV" (`beacon_audio.py`) and "a fresh
  timestamped file" (`_prune_old_wavs`); `ListedIsWhatAired` excepts them. The latest clip may be one that is half written or
  was never sent; its time is taken outside the `try`, so a sweep makes the page an error. The `.part` and `.txt` files a kill
  leaves are never swept, and a changed `BEACON_TTS_WAV_DIR` leaves the old directory as it is.

## 7. Plan

Done: all modules above with their runs; the proofs of section 4. Next, in this order:

1. A module for the start of the process on an existing database: migrations, seeding, the bootstrap, two processes that
   start at the same time.
2. Settings that are not numbers, as a value that ends the thread that reads it.
