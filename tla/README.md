# Formal model of Media Gate's core

Media Gate is a self-hosted server (Go, SQLite) that searches releases of movies and
series, sends them to qBittorrent, imports the finished files into a media library and
keeps the library's metadata. Its difficult part is not any single function but the way
half a dozen goroutines, the HTTP handlers, the SQLite tables, the torrent client and the
file system share the same rows without a common lock. This project models that part in
TLA+, the runtime around it (worker loops, event bus, shutdown), and the services beside it
whose calls meet each other (catalogue, accounts, subtitles, indexers, clients, upgrades);
checks them with TLC, and proves with TLAPS, for every size of an instance, every safety property
that the passing runs check: that the pipeline's writes are never computed from a row that has changed, that its
rows live as an abstract specification says, who answers for releases, torrents and files; and what the job
queue, the event bus, the loops, the catalogue and the services beside it promise. Section 6 says from which
assumptions, and what is left to TLC alone.

Paths below are relative to `src/backend/internal/` unless they start with `src/`.

## 1. Inventory

### 1.1 Components

| Component | State | Operations | Modules |
|---|---|---|---|
| `download` | rows of `downloads`; per tick: two listings, `justSent` | ticks (`sendPending`, `handleRetry`, `pollActive`), `Create`, `UpdateStatus`, `Reconcile` | `DownloadStore`, `DownloadWorker` |
| `importer` | rows of `downloads`, `media_files`, files in the library; per import: known paths, files to do | ticks: import, seeding | `Importer` |
| `media` (removal) | per request: the cancelled preimage, hashes, paths | `DeleteDownload`, `DeleteMediaItem`, `CleanupImportedFiles` | `MediaRemoval` |
| `media` (update) | `media_items.monitored`, season and episode monitors | `UpdateMediaItem`, `UpdateSeasonMonitor`, `UpdateEpisodeMonitor` | `Monitoring`; `MediaMatching`, `MovieMonitor` (the switch) |
| `monitor` | `download_blocklists`; per pass: the loaded item, releases found and picked | `processItem`, `processSeries`, `recordDownloadFailures`, `createAutoDownload` | `MovieMonitor`, `SeriesMonitor` |
| `monitor` (report) | `monitor_decisions`; per check: the details kept | `newDecisionCheck`, `add`, `saveDecision` | `MonitorReport` |
| `fileparse`, `indexer/filter.go` (choice) | a search's results, the profile, the item's keywords | filter, rank, prefer, pick | `ReleaseChoice` |
| `watched`, `activity` | `watched_items`, `media_activity`; a reader's cursor | create, delete, the mode's change, a page of activity | `Watched` |
| `metarefresh` | the listed rows and items of a series | refresh, `resolveOrphanDownloads` | `EpisodeBackfill`, `MediaMatching` |
| `sync` | `media_items`, `media_files`; per call: what it saw on disk | `SyncLibrary`, `ResyncMediaItem`, `RecalcMediaItemStatus`, request attribution | `CatalogueStore`, `LibrarySync`, `Monitoring`; in the pipeline as single steps |
| `matching` | `media_metadata`, `episodes`, monitors; per call: the version it saw | `MatchLibrary`, a user's match and unmatch, `RefreshSeriesMetadata`, `CreateRequest` | `MediaMatching`, `Monitoring` |
| `jobqueue` | active map, channel, `stopCh`, `doneCh`, sequence, `job_records` | `New`, `Enqueue`, `Start`, worker, `BeginShutdown`, `Stop` | `JobQueue` |
| `cmd/server` | the order of start-up and shutdown | start workers after `Reconcile`; ordered shutdown | `ServerRuntime`, `JobQueue`, `DownloadPipeline` |
| `store/sqlite` | the tables | CRUD with compare-and-swap on `updated_at`, uniqueness | in the modules that use the tables |
| `worker` | ticker, `RunNow` channel, stop channel, interval, the settings channel | `Start`, `run`, `process`, `RunNow`, `Stop` | `WorkerLoop` |
| `eventbus`, `sse` | the channel, a queue per subscriber, browsers | `Publish`, dispatch, drain, `Stop`; connect, broadcast, disconnect | `EventBus` |
| `settings` | stored values, subscribed channels | `Update`, `notify`, `Subscribe`, `Unsubscribe`, the readers of providers | `WorkerLoop`, `ApiClients` |
| `integration/*` | cached clients; a session each for qBittorrent and OpenSubtitles | `Client`, `Invalidate`, login, request | `ApiClients`; qBittorrent's torrents in `DownloadStore` |
| `indexer` | definitions, engines cached per indexer, rows and secrets, the FlareSolverr address | search, `FetchTorrent`, `Update`, `Delete`, `RefreshDefinitions` | `IndexerSearch` |
| `subtitle` | `subtitles` and the files beside the videos | `Download`, automatic download, `Delete`; removals of releases and items | `Subtitles` |
| `auth` | `users`, `refresh_tokens` | login, rotation, logout, password and profile, administration, setup, bootstrap | `Accounts` |
| `mediarefresh` | a timer per library | four event handlers, debounced scan with retries | `MediaServers` |
| `store/sqlite` migrator | schema version, adopted tables | adopt, refuse, migrate | `Upgrade` |
| `updater` | the binary, its backups, the file that runs, the latest release seen | check, apply | `Upgrade` |
| `notification`, `library`, the parsers of `fileparse`, utilities | rows of their own or none | one row or message at a time; text processing | not modelled (see 8) |

### 1.2 How they interact

- **Through rows.** Every worker lists rows, works on the snapshots for seconds or minutes,
  and writes a row with `UpdateDownload`, a compare-and-swap on the `updated_at` it read. The
  row's `status` says who may work on it: `pending` and `downloading` rows belong to the
  download worker, `downloaded`, `importing` and `seeding` rows to the importer, `cancelled`
  rows to a removal. The metadata refresh and the API write any row.
- **Through the parent item.** Deleting an item commits a tombstone
  (`deletion_pending`) with the cancellation of its rows; transactions that create or claim a
  row check it (`ValidateMediaItemOpen`).
- **Through qBittorrent.** Torrents are identified by their hash. Two rows for one release
  share one torrent. Calls may fail, and may have succeeded although the answer was lost. A
  worker that finds the client unconfigured or unreachable skips its tick.
- **Through the file system.** Library files are linked before they are recorded in
  `media_files`, and removed before their records are.
- **Through locks and channels**: the job queue, the event bus, and the loops with the
  settings. Everything else is lock-free on rows.
- **Through events**, published after a write is committed. They change no state of the
  pipeline; `EventBus` models their way to the subscribers and the browsers, `JobQueue` the
  order in which a job's events are published.

### 1.3 What is hard here

Interleavings of listing, external call and write; a crash between an external effect and
the write that records it (torrent added / row claimed, file linked / file recorded,
file removed / record removed, job finished / history written); lost answers; retries with
backoff; two rows on one torrent; counters read before a long search; and a shutdown that
must not lose the last job. Beside the pipeline: calls that ask a provider or walk a disk for
minutes and then change what they read before; caches built outside the lock that guards
them; files and rows that are written one after the other; snapshots compared to find out
who turned something on; a crash between the two renames of an upgrade. `PROJECT.json` lists
them under `hazards`, each at its line and with the properties that cover it; the one not
covered says so.

### 1.4 What makes each component correct

- **Downloads**: a row moves along its lifecycle only; no write is computed from a stale
  row; no torrent is left unowned; a release is not in progress twice; every pending row is
  sent or given up.
- **Import**: an importing row has one owner and ends; what is completed is in the library;
  what is in the library is recorded.
- **Removal**: once committed, no worker brings a row back; nothing is left behind.
- **Monitor**: failures are counted, so grabbing a broken release ends; what it takes is the best of
  what is admitted; its report hides nothing that matters behind what does not.
- **Job queue**: one job per library and type; none lost, none after shutdown; teardown
  waits for the work; events come in pairs; ids stay unique.
- **Worker loop**: a trigger is not lost in a run; the loop goes by the stored interval; `Stop`
  waits for the run, not for a tick.
- **Bus, broker**: order; an event is lost only where a queue is full; a slow subscriber is
  alone with it; `Stop` drains.
- **Shutdown**: comes to its end, and nothing is lost on the way but what requests that
  outlived their drain publish.
- **Catalogue**: a status says what the item holds once nobody is at work; a sync forgets
  nothing that was there when it looked, and no wanted item; a user's match stands; one item per requested series.
- **Accounts**: what was exchanged or revoked is worth nothing; setup does not open again.
- **Requests**: attributed to what they turned on, and to all of it.
- **Watched lists**: lists and activity agree for each user; reading page by page loses nothing.
- **Subtitles**: files and rows tell the same.
- **Clients, engines**: built from the settings as they are, or about to be dropped (but for an engine's
  FlareSolverr address, section 5); a request is refused only by the service.
- **Media servers**: each change is followed by a scan.
- **Upgrades**: schema and record agree; there is a binary to start.

## 2. Modules

```
DownloadLifecycle  <= refined by =  DownloadPipeline  (MCDownloadPipeline)
                                      EXTENDS DownloadWorker  Importer  MediaRemoval
                                              MovieMonitor    EpisodeBackfill
                                      which all EXTEND DownloadStore
                                      proofs: PipelineProofs, LifecycleProofs,
                                              TransferProofs (each EXTENDS the one before)
JobService         <= refined by =  JobQueue          (MCJobQueue)
                                      proofs: JobQueueProofs
ServerRuntime  (MCServerRuntime)      EXTENDS WorkerLoop, which EXTENDS EventBus
                                      proofs: RuntimeProofs
Catalogue      (MCCatalogue)          EXTENDS LibrarySync, MediaMatching,
                                              which EXTEND CatalogueStore
                                      proofs: CatalogueProofs
MCAccounts     EXTENDS Accounts, Monitoring, IndexerSearch, Watched
                                      proofs: UserProofs
MCServices     EXTENDS Subtitles, SeriesMonitor, MonitorReport, ReleaseChoice,
                       ApiClients, MediaServers, Upgrade
                                      proofs: ServiceProofs
```

The modules that `MCAccounts` and `MCServices` extend share no state with one another. A
behaviour is about one of them, which the variable `about` says; the others stay in an initial
state. The set of behaviours is the union of theirs, and one run checks them all.

**DownloadStore** — the shared state. `downloads` maps a row id to its row: status, item,
release (`url`), torrent hash, whether its episode is known, retry counters, `linked` (its
files reached the library) and `ver`, which stands for `updated_at`: every write gives a new
one. `mediaItems`, `mediaFiles`, `libraryFiles` and `torrents` are the other tables, the file
system and the client. `UpdateDownload` is the compare-and-swap; `Snapshots(S)` is what a
listing returns; `Due` is a listing that leaves out an arbitrary subset of the rows in their
backoff.

**DownloadWorker** — `download/service.go`. A tick begins only when the client is there (`clientUp`:
it is configured and answers the health check of `processOnce`); it is split at each external call:
list the pending rows; per row fetch (`DwFetch...`), add, claim or undo; list the downloading
rows; poll each. `dwView` holds the listed snapshots, so anything may happen to a row
between its listing and its write. `Create`, `UpdateStatus` and `Reconcile` are one
transaction each, hence one step each.

**Importer** — `importer/service.go`: the same check of the client, claim, read the recorded paths, link one video, record
it, …, finalise, remove the torrent of a completed row, and the same for seeding rows. A path is
`<<item, release, video, copy>>`; `copy` counts the numbered names of `uniquePath`.

**MediaRemoval** — `media/service.go`: each request is a process. `DeleteDownload` is cancel,
torrent, files, record; `DeleteMediaItem` is cancel all, list, torrents, files, record.

**MovieMonitor** — `monitor/service.go` for movies: the checks, the search (long; any release
may be its result), the second check and `createAutoDownload`; and `SetMonitored`.

**EpisodeBackfill** — `metarefresh/service.go`: list, then write row by row.

**DownloadPipeline** — all of these interleaved, with restarts at any point (memory lost,
`Reconcile` first), the torrent client's own steps, its outages (`Outage`) and the API's requests; the properties of
the whole; the refinement to **DownloadLifecycle**, in which only rows' statuses and items'
fates remain. **PipelineProofs**, **LifecycleProofs**, **TransferProofs** — what section 6
says of it.

**JobQueue** — `jobqueue/queue.go` and the part of `src/backend/cmd/server/main.go` that
shuts it down. A mutex section is one step; receiving a job, claiming it, loading the
library, the work, the publication and the follow-up job are steps of their own, because
requests and the shutdown may come in between. **JobService** is what submitters may rely
on: jobs run one at a time, in order of acceptance, and only closing discards waiting ones.

**JobQueueProofs** — the inductive invariant, the theorems of section 6, and the refinement.

**EventBus** — `eventbus/bus.go` and `sse/broker.go`. Events are numbered in the order in which
they find room in the channel. The dispatcher takes one (`Route`), delivers it to one
subscriber after the other (`Deliver`), and drains after `CloseDone`; each subscriber's
goroutine receives, runs the handler, returns. Every `Subscribe` call of the program makes a
subscriber of its own. The broker is one whose handler copies the event to the open
connections; `ServeHTTP` writes them out one by one. `handled`, `missed`, `clSeen` are history.

**WorkerLoop** — `worker/loop.go`, the registry's publisher, and the notifications of
`settings/service.go`. `lpPc` says where `run` stands: subscribed or not, in the start-up delay,
in its `select`, or in one of three parts of `process`. An update is two steps, store and
notify. `lpKeys` is the settings channel; of a key only matters whether it is the loop's own.
`lpLost` is history: the loop's key found the channel full.

**ServerRuntime** — both under `main`: requests, browsers, the signal, and the teardown in its
order. **RuntimeProofs** — its two safety properties. `rtServing` tells that requests may still run: `srv.Shutdown` ends them, or its timeout
lets them go on. The job queue's part of the shutdown is in `JobQueue`.

**CatalogueStore** — items of a series library with their match, the records of their files, the
disk, and `RecalcMediaItemStatus` as a step that reads and one that saves the whole row.
`caCall` holds what each call remembers. Some of it is history, for the properties: whether a
user decided of the match since the call read it, and which paths were off the disk.

**LibrarySync** — `sync/service.go`: the library sync lists the folders and reads them one by one (a
folder may be unreadable, or gone by then); only then it reads the records and compares; then one
transaction per candidate, which does nothing when nothing is left to add or remove, and deletes an item
it has emptied. New files go to the item that has records in a folder of their title that was
there (`Owners`), or to a new one. And the resync of one item, which gives up when the item changed.

**MediaMatching** — `matching/*.go` and what else changes an item: new items matched by the job
queue, a user's match and unmatch, requests that join or create an item, the refresh of
metadata, settings, imports, removals. Each provider call is a step of its own.

**Catalogue** — both at work on one library, and the properties of the whole. **CatalogueProofs** proves
them.

**Monitoring** — the three levels of monitoring (item, season, episode) of one series, the changes
of a user, what a request asks for, a growing catalogue, and the scopes that are recorded with
an action (`sync/request_attribution.go`). Every operation is one transaction: what
is checked is the reckoning over all sequences of them.

**Accounts** — `auth/service.go` with `api/v1/handlers_auth.go`, statement by statement: a request
checks a user, then reads, writes or deletes tokens; setup counts, then registers; bootstrap runs
at start-up; users are deleted.

**IndexerSearch** — `indexer/service.go`: one task per call and indexer, from its slot to its outcome;
engines as records of what they were built from, the row, the secrets, the definitions and the FlareSolverr
address (a number that grows with each change); updates in three writes; the definitions
swapped before the engines are dropped; and the setting of the address, which drops nothing. What an engine reads off a page is external.

**Watched** — `watched/service.go`, its table, and the part of the activity that it writes and users
read: rows marked under one setting of the list and removed under the other, items matched to
something else, deleted items and users, and a reader between whose pages all of this may happen.
**UserProofs** proves its property, and those of `Accounts`, `IndexerSearch` and `Monitoring`.

**Subtitles** — `subtitle/service.go`: one video and language. A file is written under a name that
is free, then its row; a deletion moves the file aside, deletes the row, then drops the file or
restores it. Removals of the release or item sweep the folder. Each write may fail, and the
process may die between any two.

**SeriesMonitor** — `monitor/service.go` for one season: load, count failures, read downloads, plan,
search, pick, recheck, grab. A release has a title, which the monitor sees, and a content, which
only an import does.

**MonitorReport** — `monitor/decision.go`: which details of a check are kept, and the row they are saved
in, beside an item that changes or goes.

**ReleaseChoice** — `fileparse/match.go`, `indexer/filter.go` and the monitor's filters and pickers, as
operators on the results of a search. What the parsers read off a title is given with the release.
A filter that keeps an order and a stable sort are both `Arranged`: each entry's place is the number of those
that come before it. The property compares the release taken with a definition that sorts and filters nothing.

**ApiClients** — one provider (chosen initially) with its settings, their announcements through a bounded
channel, the cached client, its session and mutex, and the service that may end sessions.
qBittorrent's client holds its mutex from sending to sending again; OpenSubtitles' only to log in.

**MediaServers** — `mediarefresh/service.go`: changes of files, the events they publish (in any order
between types), the timer per library, scan and retries.

**Upgrade** — `store/sqlite/migrator.go` and `updater/service.go`: what is on disk (the executable and the
files with `.bak` appended once or more, a database with an open transaction) and what the process knows, among
it the name of the file that it runs. Each `Apply` resolves that name anew (`os.Executable`,
`updater/service.go:134`), which on Linux follows a rename; no lock keeps two calls apart
(`api/v1/handlers_update.go:69`), so a second one may find `exe.bak`. Kills anywhere.

**ServiceProofs** — the properties of `Subtitles`, `SeriesMonitor`, `MonitorReport`, `ReleaseChoice`,
`ApiClients`, `MediaServers` and `Upgrade`, a section and an inductive invariant for each.

`PROJECT.json` gives the source lines of every definition.

### Abstractions

- A media item stands for one wanted title; `episode` tells a row whose episode is unknown.
- A release's folder in the library is as distinct as its URL.
- SQLite's transactions are atomic steps. Store calls fail where the code decides something by
  the failure (a stale compare-and-swap, a uniqueness rule, a missing row) and where
  `Faults` or the job queue's history says so; arbitrary I/O errors of the database are left
  out.
- Asking the client for a torrent and the compare-and-swap that uses the answer are one
  step of the poll: the row's version protects it against everything but the torrent's own
  changes, which the next poll sees.
- In the pipeline `RecalcMediaItemStatus` and `ResyncMediaItem` are one step each, with outcomes
  for the stale and the no-op case. The catalogue has them step by step.
- Client states that change no row are one torrent state, `downloading`.
- `LastError`, progress, activity entries, posters, subtitle files and wording are left out.
- The order in which a loop visits its listing is arbitrary.
- The user interface sets a status to `pending` only; the API description allows more
  (`src/api/openapi.yaml:4316`). `UserStatuses` says which ones a run allows.
- In the job queue, trimming by `completed_at` is trimming by id, since one worker
  completes the jobs one after the other. Match progress is an event only and left out.

- In the catalogue a series has two episodes and a path stands for one of them; titles say
  which folders belong to one series. Names, posters and metadata texts are left out.
- In `Accounts` whoever may log in knows the password; expiry is a step that may come any time.
- In `IndexerSearch` the rows a search lists are read in one step, and so are the row and the secrets
  an update merges with. A FlareSolverr setting that cannot be read counts as none. A slot is taken while a task is between getting and giving it back.
- In `MediaServers` the row of an item is always deleted once its files are: a `DeleteMediaItem` that
  fails in between publishes nothing, and no scan follows.
- In `ServerRuntime`, main stops the loops in any order (the program's order is one of them), and
  every registered loop has a start-up delay and no other loop has one, as in the program.
- Ticks may come at any time. A handler that panics has returned. What a request does besides
  triggering, updating settings and publishing is left out, and so is a panic of a `Process`.

### Faults

`Faults` is the set of calls that may fail in a run: `fetch` and `add` (the release file, the
upload), `lost` (the upload's answer), `poll`, `delete` and `remove` (the client), `error` (a
torrent in the error state), `import` (the content cannot be read), `path` (a video is passed over: its
path is unsafe, or its directory cannot be made), `link`, `record`, `unlink` (library files
that cannot be removed), and `outage` (the client goes away and comes back at any time; without
it the checks that open a tick succeed). A call inside a tick fails by its own fault, whatever the
check at the start of the tick said.

`CaFaults` (a folder that cannot be read, a provider that fails), `AcFaults` (tokens that cannot be
deleted: an error where all are revoked, ignored at an exchange and with the user's deletion), `SbFaults` (the provider, the write, moving aside, removing), `ApFaults` (the login) and
`UpFaults` (the second rename, the start of the new binary, a script) do the same elsewhere; media
servers, indexers and updates of indexers may always fail.

## 3. Runs

| Run | Configuration | Question |
|---|---|---|
| `row` | `PipelineRow.cfg` | One row of a series, its item, a removal, lost answers, failing removals, and a crash or a retry at any point. |
| `rows` | `PipelineRows.cfg` | Two rows of one release and torrent: the monitor, the user and a removal at once. |
| `blocklist` | `PipelineBlocklist.cfg` | Three rows: may the monitor exceed the threshold? |
| `live` | `PipelineLive.cfg` | Under fairness: do rows settle while the backfill and a removal spoil snapshots and the client comes and goes? |
| `queue` | `JobQueueRun.cfg` | The job queue with everything: three jobs, two libraries, shutdown, a restart. |
| `runtime` | `ServerRuntime.cfg` | Bus, broker, a loop, its settings, and the shutdown around them. |
| `catalogue` | `Catalogue.cfg` | Two calls at a time on a library: syncs, resyncs, matches, refreshes, requests, settings, imports, removals. |
| `accounts` | `Accounts.cfg` | Two users and two requests; or one series' monitoring; or searches while indexers change; or watched lists and their readers. |
| `services` | `Services.cfg` | Subtitles; or the series monitor; or a check's report; or the choice of a release; or a client; or media servers; or upgrades: each with its faults. |
| `reimport`, `delete_item`, `unmatched` | `Violation*.cfg` | Statements of the sources which the code does not keep (section 5). |

What the passing runs show (`ImportsAccounted` is `ImportingRowOwned` with `LibraryFilesRecorded`,
`TransfersClaimedOnce` is `OneActiveDownloadPerRelease` with `NoUnclaimedTorrent`, and `AccountsSafe`
is `RevokedTokensStayDead` with `SetupStaysClosed`):

- `DeletionStopsDownloads`: after the commit of an item's deletion no row of it can be moved by
  a worker, although workers hold snapshots from before.
- `SnapshotsFresh`: equal `updated_at` implies an equal row, for all actors, always; so the
  compare-and-swap is enough against lost updates.
- `ImportingRowOwned`: the importer's final write is never refused, for nobody else writes
  an importing row, and after a crash none is left behind. The backfill must skip such rows
  for this to hold.
- `LibraryFilesRecorded`: a failed removal keeps its records; without a crash no video is
  unknown to the database while its item exists. Three restrictions are part of the property:
  a crash between link and record, a failing write of the record (only logged:
  `importer/service.go:303`), and a release queued twice while its older row is removed,
  because the removal drops records by path.
- `ImplementsLifecycle`: every step of the whole system, crashes included, is a step of the
  lifecycle; among others, a cancelled row is never brought back except by a user, and a row
  disappears only after its cancellation or with its item.
- `NoUnclaimedTorrent`: with the client answering and no crash, the undo in the sender and the
  removals account for every torrent.
- `OneActiveDownloadPerRelease`: the transaction in `createAutoDownload` and `Create` is enough
  against both racing, and against snapshots from before the search.
- `WorkersKeepOthersTorrents`: two rows on one torrent arise when a release is queued again
  after a failure; no worker removes the torrent of the live row. (Requests may: nothing
  promises otherwise. And rows of two releases, or of two items, that lead to one torrent may take
  it from each other: section 5. The property is about rows that share it with none such.)
- `BlocklistStopsRegrabs`: counting failures as a high-water mark before the search suffices.
- `PendingIsSent`, `ImportSettles`, `CancelledRowsRemoved`: no row is forgotten. The first two have a
  hypothesis, `ClientReturns`: the code skips its ticks while the client is away, on purpose, so that a row
  waits as long as an outage lasts. The last one needs no client (a removal only logs its failure); it is
  restricted to rows whose episode is known: the backfill may move a cancelled row's version,
  and the removal then gives up (section 5).
- The job queue's safety properties are proved as well (section 6); the run adds
  `ImplementsService` (order of acceptance, one at a time, discarding all or nothing),
  `AcceptedJobsEnd` and `ShutdownEnds`.

- `EventsDelivered`: for every subscriber and browser, at every moment of a shutdown too, events
  come in order and each is in one place, handled, or was lost to the subscriber's own full queue.
  When the database is closed, whatever was accepted before `bus.Stop` has been handled or had
  found its queue full; later events can only come from requests that outlived the 25 seconds of
  the drain, and nobody handles those.
- `IntervalCurrentOrTold`: subscribing before reading, and reading again on a key instead of
  taking a value from it, leave no gap; only a full channel does (section 5).
- `SlowSubscriberAlone`: though the other subscriber's handler may hang for ever.
- `TriggerDuringRunCounts`: without assuming ticks, so the second run comes from the trigger.
- `ShutdownCompletes`: also without ticks: a loop in its start-up delay stops at once.
- `StatusSettles`: after any two overlapping calls and whatever came between them, statuses agree
  with files, monitors and episodes. It leaves out an item that changed between the reading
  and the saving of a status: there the code may leave a stale one until the next
  recalculation (see `unmatched`).
- `SyncDropsNothingWanted`: a record goes only if its file was missing at the call's look into its folder
  (a folder may be unreadable), and an item only while it is neither requested nor monitored, which the
  transaction checks again, and with its last records. It does not say that the file is
  missing when its record goes: a file that is imported and recorded after the look, before the records are read,
  loses its record (section 5).
- `MatchesStand`: `sameMatchItemVersion` is enough for matches of new items, and the refresh compares
  the provider before it stores episodes.
- `SeriesRequestedOnce`: the check repeated in the transaction, not the one before it.
- `RevokedTokensStayDead`: neither an exchange nor a change of the password leaves a token usable, unless
  the database refused to delete an exchanged one (section 5). A
  login or rotation that was under way when the tokens went is excepted: it inserts its token
  later. Two concurrent exchanges of one token both succeed, which ADR-058
  (`src/docs/DECISIONS.md:803`) does not exclude.
- `SetupStaysClosed`: `setupMu`, and that nobody may delete himself, suffice also with a bootstrap.
- `RequestsAttributed`: scopes and effects agree for every sequence of changes, requests and new
  episodes, though seasons without a row, overrides and future seasons count differently.
- `SearchesServe`: every path that changes an indexer's row, its secrets or the definitions drops the engine;
  what remains are builds under way at that time, which stay cached until the next invalidation, and
  updates that failed halfway. The FlareSolverr address drops nothing: of it holds only that it is no older
  than the last drop of the engine (section 5). A panic in one indexer gives back its mutex and is counted.
- `HistoryTrue`: whoever has an item in the list reads that it was marked and not that it was unmarked
  since, though entries are for all or for one, by the setting at the time; the cursor loses nothing
  and repeats nothing while entries are added.
- `SubtitlesMatchRecords`: compensation after a failed row and restoring after a failed deletion keep
  files and rows together; the exceptions in the property are the cases the code gives up.
- `QueuedIfMissing`, `NothingUntried`: the recheck before a grab sees imports and switches made during
  the search; a pack that lacked episodes hides neither them nor other releases.
- `ReportTrue`: the detail that is replaced is the least important one, however they come; an outcome
  has its detail; a report that carries the item's present version was made from it.
- `BestPicked`: filters, scores and the stable sorts together take the release that is to be preferred, and
  take one if there is one, for all short lists of results, profiles and keywords.
- `ClientsServe`: the mutex around building and invalidating leaves no stale client, unless the
  channel (16 keys) dropped the announcement; a repeated request uses the session it opened.
- `ChangesReachServer`: an event that is handled while the timer fires, or while a scan is retried,
  starts another timer.
- `UpgradesComplete`: a migration and its version are one transaction, adoption can be repeated, and a
  failed rename is undone, also when two `Apply` calls that resolved the same name overlap. Two
  cases lose `exe` (section 5), and the property names them: a kill between the renames leaves only `exe.bak`, which
  nothing restores; and a second `Apply` that resolves the running binary to `exe.bak`.

### Bounds, and why they are enough

- Rows: one row shows every race on a single row, as workers handle rows independently and
  share nothing but the tables; two are needed for a shared torrent or a duplicate release,
  three to exceed a threshold of two failures.
- One item, one release, one torrent, one video: more of them only remove the sharing that
  makes trouble. One removal request. In `blocklist`, imports fail for lack of a video
  (`VideosOf`), so that releases fail at both ends.
- `MaxRetries`, `MaxImportRetries` 0 or 1: with one retry both the retry and the giving up
  occur. `MaxBlocklistFailures` 1 or 2 (3 in the program: only the comparison matters).
- `MaxRestarts`, `MaxStatusUpdates`, `MaxSettings`, and `MaxEvents` for their sum: one event
  from outside per behaviour in `row` and `rows`. A crash between two steps of one actor and
  the recovery are one event. `MaxCopies` bounds the numbered names; nothing passes it in
  these runs.
- Job queue: `BufSize` 2 with `MaxJobs` 3 fills the channel while a job runs; `HistoryLimit` 1
  trims at once (200 in the program); two libraries separate duplicates from others; one
  restart continues from trimmed, missing and unreadable records. `MaxJobs` ends the ids of an
  instance, a refusal like any other.

- Runtime: one loop, a slow subscriber beside the broker, one browser. Queues of one element (1024,
  64 and 16 in the program) are full at once; two events are enough to overtake, to fill a
  queue and to drain. `Budgets` shares out the inputs of a behaviour: two events, two updates, or one
  of each; loops, triggers, browsers and the shutdown are unbounded in all of them.

- Catalogue: two calls, since each compares what it saw with what one other did; two paths in two
  folders of one title, so that an item may have both, one or none; two providers; three
  events from outside per behaviour; `MaxItems` 2 for one item and the one made too many.
- Accounts: two users, two requests, two tokens, one change of the password: the races are between two
  requests of one user, or one and an administrator. Monitoring: two seasons, two episodes in
  the first, one season without a row. Searches: two indexers, one slot (3 in the program),
  a search, a fetch and an update; `FewTasks` allows two indexers asked, or
  one asked twice, and a change (or one asked and two changes); one change of the FlareSolverr address (`IxMaxAddresses` 1). Watched: two users and two items that may be the same film,
  four entries, pages of one; `QuietReading`: one row and no deletion while somebody reads. `OneEvent`: a restart, or one user's change of the
  password, which the restart may interrupt.
- Report: three degrees of importance, two details kept of at most four (16, 50 and any number in the
  program; the proof is for all of them). Choice: five releases that differ in all criteria,
  of which a search brings three at most in any order; 16 profiles, forced or preferred keywords.
- Services: two calls each. Subtitles: two names; `OneMishap`: the user is deleted in behaviours
  without a restart or a removal. Series: two episodes, three releases (a pack short
  of one, one that names both, one single), one failure tolerated. Clients: two keys, a channel of
  one; `FewInputs`: three of two saved settings and two ended sessions. Media servers: two items,
  one library, three changes, one retry (three
  in the program). Upgrades: three releases, two kills, two `Apply` calls; `.bak` is appended twice at
  most (`UpMaxBackups` 2), which lets a second call move the backup of the first and install its own.

`CHECK_DEADLOCK FALSE` appears where a behaviour ends for good: the process closed without a restart
left (`JobQueueRun.cfg`, `ServerRuntime.cfg`), or every call made and every bound reached
(`Catalogue.cfg`, `Accounts.cfg`, `Services.cfg`, `ViolationUnmatched.cfg`).

The type invariants (`TypeOK`, `...TypeOK`) say what values the variables take. The job
queue's, the pipeline's and the runtime's are proved, the others within the inductive invariants of
section 6; any of them can be added to the `INVARIANTS` of its run.

### Mutants

Each property of a passing run names a plausible bug (`mutants` in `PROJECT.json`) which
makes TLC find it violated: a missing version, a dropped status test, a forgotten undo, a
count off by one, an early return without the end of the job, a `Stop` that does not wait,
a `New` that starts again at zero. The mutated operators stand beside the ones they mutate
and are named as such; no specification uses them.

## 4. Fairness

- `WF(Worker)`, `WF(Import)`: `worker.Loop` runs a tick, waits for the next, for ever; within a
  tick every call returns (clients have timeouts). Nothing is assumed of the order of rows.
- Strong fairness of listing a given row: a row in its backoff may be left out of a tick, but
  the clock passes its `NextRetryAt`, so it cannot be left out for ever. The listing needs the client to be
  there: fairness says nothing of a row while it is away, and makes no outage end.
- That outages end is therefore a hypothesis of the two properties that need it, and no fairness: `ClientReturns`,
  `[]<>clientUp`. What strong fairness then claims is that not every tick of a worker falls into an outage.
  The client itself owes nothing; it may go away again at any time, inside a tick too.
- `WF` of each removal once accepted: handlers run to the end. Users, the monitor's searches,
  the backfill and the client owe nothing: they may act or not, any number of times within
  the bounds.
- Job queue: `WF(Start)` (main calls it), `WF(WorkerStep)` (the goroutine runs, the work
  returns), `WF(ShutdownStep)` (main goes on once the calls before it returned). Submitting,
  shutting down and crashing are not fair.

- Runtime: `WF` of the dispatcher, of the broker's goroutine (its handler does not block), of what a loop
  has begun and of taking a trigger (a loop that selects takes what is ready), `WF` of main's
  shutdown (what it waits for has arrived; the HTTP drain has a timeout). `SF` of a loop seeing
  its stop channel closed: ticks and triggers may be ready as well, and Go's `select` chooses
  uniformly at random. Nothing of ticks, requests, browsers and the other subscribers' handlers.

## 5. Where code and text differ

1. `reimport` — `CompletedImportHasLibraryFile`. `importOne` takes a `media_files` record for a
   file (`importer/service.go:259`). When a removal deleted the files and died before its second
   transaction, the records remain; a new download of the release then counts as imported
   without a file, and its torrent is removed with its data.
2. `delete_item` — `DeletedItemLeavesNothing`. An import in flight links a file after the
   deletion listed the files to remove; the file survives its item.
3. `unmatched` — `UnmatchedIsNew`. `RecalcMediaItemStatus` looks for a match, computes and saves
   the row, in no transaction. An unmatch in between sets `new`; the recalculation overwrites it, and
   `ListNewMediaItemsByLibrary` never returns the item again, which `sync/service.go:772` warns of.

Smaller ones, seen while modelling and excepted by name in the properties:

- A crash between link and record makes the repeated import link the video again under a numbered
  name, although `download/service.go:683` calls the re-import idempotent.
- The backfill skips importing, completed and failed rows, not cancelled and import_failed ones
  (`metarefresh/service.go:143`); its write on a cancelled row makes the removal give up with the
  torrent already gone.
- A client that restarts inside a tick answers that a valid torrent is unknown, and the row fails:
  `download/service.go:74-78` explains that the check at the start of the tick avoids this, and it does for restarts that
  began earlier.
- `SyncLibrary` reads the disk (`sync/service.go:109`) before it lists the records (`:140`). A file that an import
  links and records in between is a record without a file to it: the record is dropped though the
  file is there, and an unmonitored item found on disk that has no other file goes with it. The comment at
  `sync/service.go:147-152` speaks only of folders that failed to scan. The next sync finds the file again.
- Rows are keyed by item and URL (`download/service.go:411`), torrents by their hash: two URLs, or two items, may lead
  to one torrent, and the end of one row (`importer/service.go:515`) removes it from under the other. Nothing in the
  code prevents or promises otherwise.
- `settings.notify` drops keys when a channel (16 keys) is full, and a loop does not receive during a run
  or its start-up delay: it may keep the old interval, although ADR-049
  (`src/docs/DECISIONS.md:695`) says that workers "dynamically reset their ticker when their interval
  key changes — no restart required". A client's provider may stay stale the same way.
- `indexer.Update` drops the engine before it saves the row, and `getOrCreateEngine` builds outside the
  mutex: a search in flight caches an engine of the old settings, also across a refresh, although
  `src/docs/DECISIONS.md:851` says that all cached engines are invalidated on refresh. Two concurrent
  updates of an indexer lose one's columns or secrets: the row is saved whole.
- No path drops an engine when the FlareSolverr setting changes (`indexer/service.go:530-532`), so searches
  use the old address until the indexer or the definitions are updated; and a setting that cannot be read is
  taken for an empty one: the engine built without it stays as well.
- The error of deleting an exchanged refresh token is ignored (`auth/service.go:169`): the old token then
  stays usable beside its successor.
- A second `Apply`, begun while the first is between its renames or about to re-execute, resolves the running binary to
  `exe.bak` (`updater/service.go:134`). It moves that to `exe.bak.bak`, installs its release as `exe.bak` and
  re-executes it. If the first had not installed its own yet, no `exe` is left, without any kill. And when
  what runs is older than the schema that the other release has brought, golang-migrate has no migration of the
  version on record, and that release does not start.
- A crash between registering the first user and promoting it leaves no administrator; a stale
  `UpdateProfile` saves the whole user, an older password included.
- Of two deletions of one subtitle, the one that moved the file aside may come second to the row: it then puts
  the file back, and no row tells of it. And what a deletion cannot put back because its name was taken
  meanwhile is given up (`subtitle/service.go:696`), although its row stays. The property excepts both; the
  second one was found when its proof failed. A stray file keeps its name taken.
- The OpenSubtitles client reads its token without the mutex; an item forgotten by a sync makes a
  pending scan of its library find no item; timers pending when the process stops are lost.

## 6. Proofs

A theorem holds for every value of the constants that satisfies the assumptions of the modules, which TLC
evaluates in the runs. These say what kind of things the constants are (bounds are natural numbers; a map is
total; `None` is not an id; a table that somebody counts is finite) and what the program fixes (a page has
room for one entry; later releases have no fewer migrations). Behaviours that the modules leave out for
need of a bound (`MaxRestarts`, `MaxChanges`, ...) are therefore in the theorems up to any bound. Each
inductive invariant was checked by TLC on the run's instance before it was proved.

The components that `MCAccounts` and `MCServices` put side by side have specifications of their own
(`AcSpec`, `ApSpec`, ...: `XxInit /\ [][XxNext]_xxVars`); in the runs they are the behaviours in which `about`
names the component.

### The pipeline

`PipelineProofs`, `LifecycleProofs` and `TransferProofs` prove of `DownloadPipeline`, for every number of rows, items,
releases, torrents, requests, restarts and retries, whichever calls may fail:

| Theorem | Statement |
|---|---|
| `PipelineInvariant` | `Spec => []PipelineInv` |
| `PipelineTypes` | `Spec => []TypeOK` |
| `SnapshotsAlwaysFresh` | `Spec => []SnapshotsFresh`: what passes a compare-and-swap was computed from the row it replaces |
| `DeletionAlwaysStops` (`LifecycleProofs`) | `Spec => []DeletionStopsDownloads` |
| `LifecycleImplemented` (`LifecycleProofs`) | `Spec => ImplementsLifecycle` |
| `BlocklistAlwaysStops` (`TransferProofs`) | `NoHand => (Spec => []BlocklistStopsRegrabs)` |
| `OneActiveAlways` (`TransferProofs`) | `NoHand => (Spec => []OneActiveDownloadPerRelease)` |
| `TransfersAlwaysClaimed` (`TransferProofs`) | `NoHand /\ NoLoss => (Spec => []TransfersClaimedOnce)`: the previous one with `NoUnclaimedTorrent` |
| `WorkersAlwaysKeep` (`TransferProofs`) | `NoHand => (Spec => WorkersKeepOthersTorrents)` |
| `ImportingAlwaysOwned` (`TransferProofs`) | `NoImportByHand => (Spec => []ImportingRowOwned)` |
| `ImportsAlwaysAccounted` (`TransferProofs`) | `NoImportByHand => (Spec => []ImportsAccounted)`: the previous one with `LibraryFilesRecorded` |

Assumed are the named assumptions of the modules: the bounds are natural numbers; `HashOf` and
`VideosOf` are total; the absent id is not an id; a status set by hand is not `cancelled`; and the
table is finite, because the monitor counts failed rows.

*`SnapshotsFresh`* is not inductive. A row that does not exist says nothing of the snapshots of its id,
so a row created under an id of which somebody holds an old snapshot could break it: `FreshOf` adds
that an id not used yet has no snapshot. And a snapshot stays fresh only because every write moves the
version up: `RowStep` says what any step may do with a row, and `FreshKept` that this is enough. The
proof then is in two parts for each actor: its steps are `RowStep`s (`DwStep`, `ImStep`, ...), and
what it remembers survives the `RowStep`s of all others (`DwKept`, `ImKept`, ...). The first part
needs the second invariant of each actor: the worker's next write starts from a snapshot (`UpdateKeeps`:
if it is current, it is the row), and a snapshot that an actor has just written is the row
(`NewViewFresh`). `PipelineInv` also says in which status a listed row was, which the lifecycle needs.

*`DeletionStopsDownloads`* and the refinement are proved together. That a write of a worker is an
`Advance` of the lifecycle needs the row's item to be open: the row has the status of the snapshot,
which is not `cancelled`, and rows of items being deleted are (`WriteSeen`). That they stay cancelled is
shown of the steps of the lifecycle instead of those of the pipeline (`StopKept`): eight abstract steps
instead of some fifty. `ItemsClosed` completes the invariant: the request that removes an item has
closed it, so removing it is `FinishDeletion`. With this the importer's failed write for an item that
is gone (`ImParentGone`) needs no case of its own: were it current, the item would be open.

*What is in progress.* `NoHand` says that no request sets a status (`MaxStatusUpdates = 0`),
`NoImportByHand` that none sets the status `importing`. Both are needed: a failed row set to `pending` is
active beside one that was queued meanwhile, and fails once more; a row set to `importing` has no
importer. These are the hazards of section 5, at `download/service.go:494` and `openapi.yaml:4316`.
Both counting theorems rest on the lifecycle instead of the fifty actions: a step without a user's
hand is a `WorkStep`, so a row that exists only goes on, fails or is removed (`RowWorks`), and one that is
neither active nor failed stays so; a new row is `pending`, and only `Queued` creates it
(`OnlyQueuedCreated`), under the check that no row of the release is active. *`BlocklistStopsRegrabs`* is
about what failed, but a row that is active may fail later, and during a search: `BlocklistInv` counts
the rows `Tried`, active or failed, and says that the monitor's count is not behind them while it
searches. The check that begins the search makes this true: it finds no active row, so every row
that was tried has failed and is counted. During the search none is added, since only the monitor
queues the release; so the count that `createAutoDownload` compares is good, though it is old.
*`ImportingRowOwned`* needs that the importer's snapshot is the row's (`ImHeld` of `PipelineInv`), that
nobody else writes `importing` (`OthersImportNone`), and that the importer's last write is never
refused; `OwnInv` adds that once it has decided what becomes of the row its snapshot is not `importing`
any more.

*What becomes of torrents.* `NoLoss` says that no upload loses its answer, no removal of a torrent fails
and the process does not die. These are hypotheses and no formality: the code gives a torrent up in each of these
cases (it only logs them), and TLC finds it when the run allows them. Rows may fail, be queued again and be
removed meanwhile; other calls to the client may fail. *`NoUnclaimedTorrent`* is weaker than what carries
it: a removal deletes the rows after the torrents, so a row that still has the hash may be one that is as good as
gone. `ClaimInv` therefore asks for a row that is not `Spent`, or a send between adding and claiming, or a
removal that has the hash on its list. It needs `HashInv`: a row's hash is that of its release, and a
removal past its listing knows the hash of every row it will delete. `HashMove` says what a step may do with a
row's hash; the client's steps, the sender's undo and the two kinds of removals are then one lemma each.

*Whose torrent is removed.* The sender undoes a send, and the importer removes the torrent of a row that is
completed; neither asks who else has the torrent. *`WorkersKeepOthersTorrents`* holds because both are at
that moment the row of the release that is in progress (`completed` is such a status), and
`OneActiveDownloadPerRelease` allows no other. This is what `KeepInv` says, before any request removes
something: whatever a tick listed to send is `pending` still, and what the importer removes the torrent of is
`completed` still. `StatusesStay` is the lemma behind it: a pending or completed row is written by nobody but
its send, or a request; the workers' other writes start from a snapshot in another status. Here the
process may die, and calls may fail or lose their answers.

*What becomes of files.* *`LibraryFilesRecorded`* speaks of a process that has not died and whose records are
written. `Unrecorded` is what it says; not inductive, since the importer decides the name of a file when it links
and whether to record it when it has looked at the table before (`imKnown`), and a removal deletes
files, then records. `AccountInv` adds `LinkInv` (the importer has one file in hand, of the row it
imports), `NamesFree` (a video that was not known has its first name free on the disk and in the table) and
`Taken` (what a removal took stays off the disk until it drops the records, or its row has changed: an
import of the row that still runs has known these files). The exceptions of the property,
an item that is gone and a release with two rows, are `Excused`; both are for good, which makes them easy to carry.

### Job queue

`JobQueueProofs` proves, for every set of libraries, every capacity of the channel, every
history limit, every number of jobs and restarts:

| Theorem | Statement |
|---|---|
| `InductiveInvariant` | `Spec => []QueueInv` |
| `TypeCorrectness` | `Spec => []TypeOK` |
| `AdmissionAlwaysSafe` | `Spec => []AdmissionSafe`: `OneActiveJobPerLibrary` and `WaitingJobsReachable` |
| `ShutdownAlwaysSafe` | `Spec => []ShutdownSafe`: `ShutdownLeavesOneJob` and `TeardownAfterWork` |
| `RecordsAlwaysTrue` | `Spec => []RecordsTrue`: `EventsFollowJobs` and `RecordIdsUnused` |
| `Refinement` | `Spec => ImplementsService` |

The only assumption is `QueueAssumption`: the bounds are natural numbers, capacity and
history limit positive.

None of the properties is inductive. *`WaitingJobsReachable`* needs that the channel holds each
job once: `Fifo` says that ids in it increase strictly and come after the one just received,
so taking the head (or claiming) removes exactly one waiting job. *`ShutdownLeavesOneJob`* needs
`RunningJob`: only the worker's job is running, so what `BeginShutdown` leaves in the map is
that job; and that nothing is received afterwards, since the channel was drained under the
same lock. *`TeardownAfterWork`* needs `Signals`: `doneCh` is closed only by an exiting worker or
by a shutdown of a queue never started, and a closed admission keeps `Start` from starting it
later. *`EventsFollowJobs`* needs `HeldJob` (the job whose end is announced has left the map and
had begun) and `KnownIds` (what began has an old id, so a new job cannot appear as ended).
*`RecordIdsUnused`* needs `KnownIds`: recorded ids are not beyond the counter and not active,
which a restart re-establishes because `New` continues after the greatest recorded id. That
this maximum exists is `GreatestId`, from the well-foundedness of the natural numbers.
Enqueueing occurs in two places, a request and the worker's follow-up job; `EnqueuePreserves`
covers both. `FinishJobPreserves` does the same for the failed load and the finished work.

*`Refinement`* maps each step: `Submit` and an admitted `FollowUp` to `Accept` of the next id,
`BeginShutdown` to `Close`, a `Claim` of an open queue to `Run` (no job runs, by `RunningJob`; no
earlier one waits, by `Fifo` and `WaitingJobsReachable`), `LoadFails` and `Finish` to `Complete`,
`Restart` to `Reopen`; everything else leaves the phases alone.

### Bus, broker and loops

`RuntimeProofs` proves, for every number of publishers, subscribers, browsers, loops and events, and
every capacity of a queue:

| Theorem | Statement |
|---|---|
| `RuntimeTypes` | `Spec => []TypeOK` |
| `EventsAlwaysDelivered` | `Spec => []EventsDelivered` |
| `IntervalAlwaysTold` | `Spec => []IntervalCurrentOrTold` |

`RuntimeInv` adds to the types three parts. `BusInv`: an event is in one place. For each subscriber the
events that it handled, the one in its hands, those in its queue, the one being routed and those in the
channel increase strictly, part by part (`Precede`), and those that went past it are `missed`. From this
follow order and uniqueness, and that nothing is lost on the way: the property alone does not say where an
event is that is not handled yet. A browser's queue is a copy of what the broker handled.
`StopInv` follows the shutdown: loops, then dispatcher, then subscribers; so that at the stop
everything has been routed, and what was accepted later comes from requests that outlived
the drain. `LoopInv` needs in addition only that updates to come and those stored but not announced stay
within the bound; `IntervalCurrentOrTold` itself is inductive, because it names every place where a
notification can be.

### The catalogue

`CatalogueProofs` proves, for any paths, folders, items, providers and number of calls:

| Theorem | Statement |
|---|---|
| `StatusAlwaysSettles` | `CaSpec => []StatusSettles` |
| `NothingWantedDropped` | `CaSpec => SyncDropsNothingWanted` |
| `MatchesAlwaysStand` | `CaSpec => MatchesStand` |
| `SeriesAlwaysRequestedOnce` | `CaSpec => SeriesRequestedOnce` |

`CaInv` has two halves. `CallIs` says what a call has in hand, whatever others did since: each path whose record
it may drop was absent when it looked into its folder, and the answer of a provider belongs to the match it was
asked for, or the match has changed and the write will see it. `Settled` is what `StatusSettles` becomes while
calls are at work: an item's status is right, or some call is on its way to recalculate it, or it is
one of those excepted (`caOverlapped`); and `Recalculated` says that what a recalculation is about to save is
right. The exception is exactly what `unmatched` shows (section 5): an item changed between the
reading and the saving. A step of one call touches another's memory only by making it know more
(`Weaker`): `CallKept` shows once that `CallIs` survives this, and `Frame`, `CallOnly`, `MovesOn` and `FilesMove`
put it together for the four kinds of actions, so that each of the actions needs only what it does itself.

### Clients, media servers, the series monitor, subtitles, the choice of a release

`ServiceProofs` proves, each for any number of calls, changes and restarts:

| Theorem | Statement |
|---|---|
| `ClientsAlwaysServe` | `ApSpec => []ClientsServe` |
| `ChangesAlwaysReach` | `MsSpec => []ChangesReachServer` |
| `NothingLeftUntried` | `SmSpec => []NothingUntried` |
| `QueuedAlwaysMissing` | `SmSpec => QueuedIfMissing` |
| `SubtitlesAlwaysMatch` | `SbSpec => []SubtitlesMatchRecords` |
| `BestAlwaysPicked` | `RcSpec => []BestPicked` |
| `UpgradesAlwaysComplete` | `UpSpec => []UpgradesComplete` |
| `ReportAlwaysTrue` | `RpSpec => []ReportTrue` |

*Clients* (`ApInv`). The property speaks of the cached client. It is built from settings that were read
one after the other, so `ReadsCurrentOrTold` says the same of what a call has read so far: as
stored, or a key is still to be announced, handled, or lost. `SessionSound` follows the session of the call:
qBittorrent's client holds its mutex from the first answer to the repetition, so the session it opened is the
client's; OpenSubtitles' does not, and there the call may have shared its client with another
(`shared`), which is the exception in the property.

*Media servers* (`MsInv`). A change that is not shown is carried by something: a deletion
under way, an event, a timer that has not begun, a scan. The property says only that something will come;
`MsCarried` says that it is of the last change, and `MsKnown` that a pending timer has not
done its work, since an event that finds one makes no other. `MsEventCounts` closes the one gap, an event whose
item is gone when it is handled: another one comes, or the change is one that was given up.

*Series monitor* (`SmInv`). `NothingUntried` is about a pass at its end; `SmQuiet` says at each step
which tables its memory still equals while nobody disturbs it, and that the episodes it is done with
(`SmBehind`) have been tried. `QueuedIfMissing` is about a pass that is disturbed: `SmAiming` says what
the recheck has established, and that it falls with `current` when a user, an import or a match intervenes.
`RowSound` is why a pack is not taken for the episodes it lacks.

*Subtitles* (`SbInv`). Rows and files are related in both directions (`RowsHaveFiles`, `SbOwned`), with what
each request has in hand (`WriterSound`, `DeleterIs`). The attempt showed that the
property was too strong by one case: a deletion that fails after a download took the name it has to put its
file back under (section 5).

*The choice of a release* (`RcInv`), for any releases, profiles, keywords and lists of any length, from
`ReleaseChoiceAssumption` (a profile's mode is one of two, its lists are sequences of names; there is a length
for the results). A search is one step, so the invariant adds only where a search comes from (`RcGiven`); the
work is in the operators. `Lists(list, S, order)` says that a list has every member of `S` once, in this order.
`EachHasItsPlace` shows, by counting, that an order which is total on a finite set gives each of its members a
place of its own and every place a member; so `ArrangedIs`, and with it `KeepLists` (a filter), `RankLists` (the
stable sort by resolution, language, source) and `PreferLists` (the keyword's releases first). `PlacesAgree` and
`LanguagesAgree` tie the scores of the code to the places in the profile's lists that the property speaks of: they
hold only for what the filters admitted, which is why an untagged release must be ranked as it was admitted.
`KeywordsDecide` and `ProfileDecides` join the parts, `TakenIs` takes the first that suits.

### Upgrades

`UpgradesAlwaysComplete` is `UpSpec => []UpgradesComplete`, for every number of
releases, migrations, `Apply` calls and kills, from `UpgradeAssumption` (releases are positive numbers,
the first among them, and a later one has no fewer migrations). `UpSpec` is the behaviour of module
`Upgrade` alone; in the run `services` it is the part with `about = "upgrade"`.

The invariant `UpgradeInv` has three parts. `Sound` says of the committed database that the record tells
the schema, or that there is no record and the schema is empty or the adopted one; a kill keeps it
because the open transaction is a value beside the committed one. `BootInv` says at each point of
the start what has been found out: without `Tracked` in `up` and `run`, a migration could run on
adopted tables before they are put on record. `BinaryInv` says that, unless `exe` was lost, at most one call is
between its renames of `exe` (`Swapping`), and `exe` is absent just then with `exe.bak` in its place: of two calls that
resolved `exe`, the second finds no binary to move, so the one that fails restores what it moved; and a call that
resolved another name loses `exe` only where the property says so.

### The monitor's reports

`ReportAlwaysTrue` is `RpSpec => []ReportTrue`, for every number of outcomes,
every limit and every number of details, from `MonitorReportAssumption` (natural numbers; at least one
outcome and room for one detail). A saved row is as good as the details were when it was saved, so the
invariant `RpInv` speaks of these. `DetailsKept`: they are different ones, all of them until
the limit is reached; so after a replacement the replaced one is hidden and no other becomes so.
`HiddenLess`: nothing hidden is more important than anything kept; the three lemmas (`RoomKept`,
`WorstLeft`, `NewLeft`) show it for the three ways of adding a detail. `InputKnown`: versions only grow,
so a row with the present version cannot have been made before the last change.

### Accounts, searches, requests

`UserProofs` proves:

| Theorem | Statement |
|---|---|
| `AccountsAlwaysSafe` | `AcSpec => []AccountsSafe` |
| `SearchesAlwaysServe` | `IxSpec => []SearchesServe` |
| `RequestsAlwaysAttributed` | `MoSpec => RequestsAttributed` |
| `HistoryAlwaysTrue` | `WtSpec => []HistoryTrue` |

*Accounts* (`AcInv`). A token says nothing of the call that will issue one: `IssuerIs` says that it has
seen no change of the password since it checked the user, or is one of those that were underway (`crossed`), and
that an exchange has deleted the token it was given, or failed to. That setup stays closed is not inductive:
`Untouched` or `FounderIs(f)` say that either nobody exists and one request at most is about to
create somebody, or there is a first user who cannot be deleted and no call is about to make anybody else an
administrator; not even one that saves a whole user read earlier.

*Searches* (`IxInv`). `CacheIs` is the property's first part; an engine gets into the cache from a call that read
row, secrets and definitions before, so `TaskIs` says the same of a task being built, and `UpdateIs`
that every update that has dropped the engine, and is not done, has marked the builds under way (`raced`) or
will. `IxAddressInv` does the same for the FlareSolverr address, with `ixDropped`, the address at the last drop of the
engine, in place of what is stored now. `HoldersAsk` ties a mutex to a call that is between asking and its answer. `OutcomeIs` counts.

*Requests* (`MoInv`). The invariant is only the shape of the settings: `RequestsAttributed` is a property of
single steps, and the work is in the operators. The lemmas say what a level of
monitoring decides for an episode (its own setting, its season's, the item's) before and after each change,
and that the recorded scopes name the difference, for any seasons and episodes.

### Watched lists

`HistoryAlwaysTrue` is `WtSpec => []HistoryTrue`, for all users, items and
identities, pages of any size and activity of any length, from `WatchedAssumption` (users and items are
different things, none of them is `WtNone`, a page has room for one entry). The invariant `WtInv` adds to
`RowsTold`, the part of the property about rows, that a user has one row of an identity (`OneRow`): a
removal under a list per user takes one row, and another one of the same user would be belied by the
entry it writes. `ReaderInv` says that what is not before the cursor has been read and nothing else has,
which `PageIsNewest` and `PageNotEmpty` keep.

### Only model-checked

- Liveness: `PendingIsSent`, `ImportSettles`, `CancelledRowsRemoved`, `AcceptedJobsEnd`, `ShutdownEnds`,
  `SlowSubscriberAlone`, `TriggerDuringRunCounts`, `ShutdownCompletes`. Proofs from fairness need `ENABLED`, which
  the installed provers do not reach.
- `CompletedImportHasLibraryFile`, `DeletedItemLeavesNothing`, `UnmatchedIsNew`: the runs show that they do not hold.

## 7. What could follow

A status set by hand while another row of the release is active; torrents that come back after a
client restart; the rate limits and tickets of `auth`; an engine's session that a tracker ends. To
prove: that `NoUnclaimedTorrent` survives a restart, with what a crash
leaves behind named.

## 8. Not modelled

- `library`, profiles: single rows. The listing and the filters of `watched`.
- `notification`: a bus subscriber that sends a message and keeps nothing. `activity`: the entries of
  other actions, written inside the transactions of others and never read back to decide anything.
- The parsers of `fileparse`, the scraping of `cardigann`, subtitle scores: text processing; their results
  are free choices of the models. The choice for several episodes at once (packs) is in `SeriesMonitor`.
- TMDB, TVDB, Discord, FlareSolverr: HTTP wrappers without state.
- `settings`: encryption, masking, validation, connection tests. `auth`: rate limits, tickets, access tokens.
- Conversions of `api/v1`, configuration, logging, telemetry, `devharness` (test equipment), and the
  browser application, which sends the requests that the models take as actions.

## 9. Running

```
tlc -workers 2 -config PipelineRow.cfg MCDownloadPipeline
tlc -workers 2 -config JobQueueRun.cfg MCJobQueue
tlc -workers 2 -config ServerRuntime.cfg MCServerRuntime
tlc -workers 2 -config Catalogue.cfg MCCatalogue
tlc -workers 2 -config Accounts.cfg MCAccounts
tlc -workers 2 -config Services.cfg MCServices
tlapm PipelineProofs.tla
tlapm LifecycleProofs.tla
tlapm TransferProofs.tla
tlapm JobQueueProofs.tla
tlapm RuntimeProofs.tla
tlapm CatalogueProofs.tla
tlapm UserProofs.tla
tlapm ServiceProofs.tla
```
