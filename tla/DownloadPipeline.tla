-------------------------- MODULE DownloadPipeline --------------------------
(***************************************************************************)
(* The download pipeline as one system: the download worker, the importer, *)
(* the monitor, the episode backfill, the removal requests, the requests   *)
(* that create and retry downloads, qBittorrent, and restarts of the       *)
(* process.  The components share only the variables of DownloadStore.     *)
(***************************************************************************)
EXTENDS DownloadWorker, Importer, MediaRemoval, MovieMonitor, EpisodeBackfill

CONSTANTS
  MaxRestarts,      \* bound: restarts of the process in this instance
  MaxStatusUpdates, \* bound: requests that set a download's status
  MaxSettings,      \* bound: requests that switch monitoring on or off
  MaxEvents,        \* bound: all of these together
  ManualUrls        \* the releases a user may queue by hand

ASSUME PipelineAssumption ==
  /\ MaxRestarts \in Nat
  /\ MaxStatusUpdates \in Nat
  /\ MaxSettings \in Nat
  /\ MaxEvents \in Nat
  /\ ManualUrls \subseteq Urls

VARIABLES restarts, statusUpdates, settings    \* how often each has happened

boundVars == <<restarts, statusUpdates, settings, clientUp>>
vars == <<storeVars, dwVars, imVars, rqVars, moVars, bfVars, boundVars>>

TypeOK ==
  /\ StoreTypeOK
  /\ DwTypeOK
  /\ ImTypeOK
  /\ RqTypeOK
  /\ MoTypeOK
  /\ BfTypeOK
  /\ restarts \in Nat
  /\ statusUpdates \in Nat
  /\ settings \in Nat
  /\ clientUp \in BOOLEAN

Init ==
  /\ StoreInit
  /\ DwInit
  /\ ImInit
  /\ RqInit
  /\ MoInit
  /\ BfInit
  /\ restarts = 0
  /\ statusUpdates = 0
  /\ settings = 0
  /\ clientUp = TRUE

-----------------------------------------------------------------------------
MoreEvents == restarts + statusUpdates + settings < MaxEvents

Worker   == DwNext /\ UNCHANGED <<imVars, rqVars, moVars, bfVars, boundVars>>
Import   == ImNext /\ UNCHANGED <<dwVars, rqVars, moVars, bfVars, boundVars>>
Removal  == RqNext /\ UNCHANGED <<dwVars, imVars, moVars, bfVars, boundVars>>
Monitor  == MoNext /\ UNCHANGED <<dwVars, imVars, rqVars, bfVars, boundVars>>
Backfill == BfNext /\ UNCHANGED <<dwVars, imVars, rqVars, moVars, boundVars>>
Client   == QbitStep /\ UNCHANGED <<dwVars, imVars, rqVars, moVars, bfVars, boundVars>>

\* qBittorrent goes away, or its settings are emptied; and it comes back.  Only the
\* check that opens a tick asks for it: a call in a tick may fail whatever the check said.
Outage ==
  /\ "outage" \in Faults
  /\ clientUp' = ~clientUp
  /\ UNCHANGED <<storeVars, dwVars, imVars, rqVars, moVars, bfVars, restarts, statusUpdates, settings>>

\* A release queued by a user; a series row may still lack its episode.
ManualCreate ==
  /\ \E d \in Downloads, i \in Items, u \in ManualUrls, ep \in BOOLEAN :
       /\ ep \/ i \in Series
       /\ Create(d, i, u, ep)
  /\ UNCHANGED <<dwVars, imVars, rqVars, moVars, bfVars, boundVars>>

StatusRequest ==
  /\ statusUpdates < MaxStatusUpdates /\ MoreEvents
  /\ statusUpdates' = statusUpdates + 1
  /\ \E d \in Downloads, s \in UserStatuses : UpdateStatus(d, s)
  /\ UNCHANGED <<dwVars, imVars, rqVars, moVars, bfVars, restarts, settings, clientUp>>

MonitorRequest ==
  /\ settings < MaxSettings /\ MoreEvents
  /\ settings' = settings + 1
  /\ \E i \in Items, monitored \in BOOLEAN : SetMonitored(i, monitored)
  /\ UNCHANGED <<dwVars, imVars, rqVars, bfVars, restarts, statusUpdates, clientUp>>

\* The process dies at any point and starts again: every in-memory value is lost,
\* open requests are never answered, and Reconcile runs before the workers.
Restart ==
  /\ restarts < MaxRestarts /\ MoreEvents
  /\ restarts' = restarts + 1
  /\ \E reachable \in BOOLEAN : Reconcile(reachable)
  /\ dwPc' = "idle" /\ dwView' = Snapshots({}) /\ dwCur' = None
  /\ dwAdded' = FALSE /\ dwSent' = {}
  /\ imPc' = "idle" /\ imView' = Snapshots({}) /\ imCur' = None
  /\ imKnown' = {} /\ imTodo' = {} /\ imDst' = {} /\ imCount' = 0
  /\ rqPc' = [r \in Requests |-> IF rqPc[r] = "idle" THEN "idle" ELSE "done"]
  /\ rqView' = [r \in Requests |-> NoRow]
  /\ rqTarget' = [r \in Requests |-> None]
  /\ rqDelete' = [r \in Requests |-> FALSE]
  /\ rqHashes' = [r \in Requests |-> {}]
  /\ rqPaths' = [r \in Requests |-> {}]
  /\ MoIdle
  /\ bfPc' = "idle" /\ bfItem' = None /\ bfView' = Snapshots({})
  /\ UNCHANGED <<mediaItems, mediaFiles, libraryFiles, torrents, blocklist, statusUpdates, settings, clientUp>>

Next ==
  \/ Worker \/ Import \/ Removal \/ Monitor \/ Backfill \/ Client \/ Outage
  \/ ManualCreate \/ StatusRequest \/ MonitorRequest \/ Restart

Spec == Init /\ [][Next]_vars

-----------------------------------------------------------------------------
(* Safety.                                                                 *)

\* An item that is being deleted, or is gone, has no row left that a worker may
\* still move: whatever the workers held when the deletion was prepared, every
\* row the item has is cancelled, and no new one was queued.
DeletionStopsDownloads ==
  \A d \in Downloads :
    Exists(d) /\ ~Open(downloads[d].item) =>
      downloads[d].status = "cancelled" /\ mediaItems[downloads[d].item].present

\* Every snapshot an actor still holds is either stale, which its version shows,
\* or equal to the row: a write that passes the compare-and-swap of
\* UpdateDownload was computed from the row it replaces.
SnapshotsFresh ==
  \A d \in Downloads :
    \A view \in {dwView[d], imView[d], bfView[d]} \cup
                {rqView[r] : r \in {q \in Requests : rqTarget[q] = d}} :
      view # NoRow /\ Exists(d) =>
        /\ view.ver <= downloads[d].ver
        /\ view.ver = downloads[d].ver => view = downloads[d]

\* An importing row belongs to the importer of this process, which holds its
\* current version: nobody else has written it, so the write that ends the import
\* will not be refused, and no row waits in `importing' for an importer that has
\* forgotten it.
ImportingRowOwned ==
  \A d \in Downloads : downloads[d].status = "importing" =>
    imCur = d /\ imView[d] = downloads[d]

\* As long as no call to the client fails and the process does not die, no torrent
\* is left behind in the client: each is known to a row, or to the send that
\* added it, or to a removal request that is about to remove it.
NoUnclaimedTorrent ==
  \A h \in Hashes : torrents[h] # "absent" =>
    \/ \E d \in Downloads : Exists(d) /\ downloads[d].hash = h
    \/ dwPc \in {"claim", "undo"} /\ DwTorrent = h
    \/ \E r \in Requests : rqPc[r] \in {"iList", "dTorrent", "iTorrents"} /\ h \in rqHashes[r]

\* No video stays in the library unknown to the database while its item is there:
\* it is recorded, or the importer is about to record it.  Two things break this:
\* a link whose record was never written, by a crash or a failing write ("record"
\* in Faults), and a new import of a release whose older row is being removed
\* meanwhile, since the removal drops records by their paths.
LibraryFilesRecorded ==
  restarts = 0 /\ "record" \notin Faults =>
    \A p \in libraryFiles \ mediaFiles :
      \/ p \in imDst
      \/ ~mediaItems[p[1]].present
      \/ \E d, e \in Downloads : d # e /\ {downloads[d].url, downloads[e].url} = {p[2]}

\* An import under way has an importer, and leaves no file that nobody knows (importOne).
ImportsAccounted == ImportingRowOwned /\ LibraryFilesRecorded

\* While nobody sets a status by hand, a release of an item is never in progress
\* twice, whoever queues it: the user, the monitor or both at once.
OneActiveDownloadPerRelease ==
  \A d, e \in Downloads :
    /\ d # e
    /\ downloads[d].status \in ActiveDownloadStatuses
    /\ downloads[e].status \in ActiveDownloadStatuses
    => <<downloads[d].item, downloads[d].url>> # <<downloads[e].item, downloads[e].url>>

\* Whoever queues releases and however transfers fail, a release has one row in progress, and
\* every torrent somebody who answers for it (Create, createAutoDownload, sendPending).
TransfersClaimedOnce == OneActiveDownloadPerRelease /\ NoUnclaimedTorrent

\* A row of another release, or of another item, has the torrent of d: one's end is the
\* other's, and a worker that removes the torrent does not ask.
SharesTorrent(d) ==
  \E e \in Downloads : /\ Exists(e) /\ HashOf[downloads[e].url] = downloads[d].hash
                       /\ <<downloads[e].item, downloads[e].url>> # <<downloads[d].item, downloads[d].url>>

\* A worker that removes a torrent, because its row is completed or because its
\* send was refused, takes it from no other row of the release that still needs it, as long
\* as no row was removed by a request: no order of polls, imports, retries and queueing the
\* release again lets a finished row remove what a row in progress works on.
WorkersKeepOthersTorrents ==
  [][(Worker \/ Import) /\ (\A r \in Requests : rqPc[r] = "idle") =>
       \A d \in Downloads :
         /\ d # imCur
         /\ downloads[d].status \in {"downloading", "downloaded", "importing", "seeding"}
         /\ downloads[d].hash # None
         /\ ~SharesTorrent(d)
         => torrents[downloads[d].hash] = "absent" \/ torrents'[downloads[d].hash] # "absent"]_vars

\* The blocklist ends the monitor's retries: while nobody queues the release by
\* hand, no release of a movie leaves more failed rows than the threshold, though
\* failures are counted before the search and rows fail, and go, during it.
BlocklistStopsRegrabs ==
  \A i \in Movies, u \in Urls \ ManualUrls :
    Cardinality(Failures(i, u)) <= MaxBlocklistFailures

\* "Do NOT mark completed ... deleting the torrent would destroy the data": an
\* import that succeeds leaves the release in the library.  (Runs refute it.)
CompletedImportHasLibraryFile ==
  [][\A d \in Downloads :
       /\ downloads[d].status = "importing"
       /\ downloads'[d].status \in {"seeding", "completed"}
       => ReleaseFiles(libraryFiles, downloads[d].item, downloads[d].url) # {}]_vars

\* "Removes a media item and all associated resources": once an item is gone and no
\* import of its is under way, none of its files are in the library.  (Refuted.)
DeletedItemLeavesNothing ==
  \A i \in Items :
    ~mediaItems[i].present /\ imCur = None => ItemFiles(libraryFiles, i) = {}

-----------------------------------------------------------------------------
(* Refinement: with what the workers remember, the files and the torrents  *)
(* hidden, every step is a step of the lifecycle or leaves it unchanged.   *)

Lifecycle == INSTANCE DownloadLifecycle WITH
  status <- [d \in Downloads |-> downloads[d].status],
  owner  <- [d \in Downloads |-> downloads[d].item],
  linked <- [d \in Downloads |-> downloads[d].linked],
  items  <- [i \in Items |-> IF ~mediaItems[i].present THEN "gone"
                             ELSE IF mediaItems[i].deletionPending THEN "deleting"
                             ELSE "open"]

\* Rows and items live as DownloadLifecycle says, crashes, faults and stale
\* snapshots included.
ImplementsLifecycle == Lifecycle!LifeSpec

-----------------------------------------------------------------------------
(* Liveness.                                                               *)

\* The workers are tickers: a tick that was started goes on, another one follows,
\* and a request goes on once it was accepted.  A row kept out by its backoff is
\* due in some later tick, since the clock runs on.
Fairness ==
  /\ WF_vars(Worker)
  /\ WF_vars(Import)
  /\ \A r \in Requests : WF_vars(RqProceed(r) /\ Removal)
  /\ \A d \in Downloads :
       /\ SF_vars(DwListPending /\ dwView'[d] # NoRow /\ Worker)
       /\ SF_vars(ImListDownloaded /\ imView'[d] # NoRow /\ Import)

FairSpec == Spec /\ Fairness

\* The code guarantees nothing of a client that stays away, and wants nothing: rows
\* then wait, untouched.  What ends the waiting is the client's return.
ClientReturns == []<>clientUp

\* Every queued row is sent or given up, however often the client goes away, as long as
\* it always returns: no outage makes the workers forget a row, and a row does not stay
\* pending, whatever the backfill, the requests and the failing calls do to the worker's
\* snapshots (processOnce, sendPending).
PendingIsSent ==
  ClientReturns =>
  \A d \in Downloads : downloads[d].status = "pending" ~> downloads[d].status # "pending"

\* Every finished transfer is imported or reported as failed, if the client always
\* returns: the retries end, and an import that was started is never forgotten, not even
\* one whose retry waits for the end of an outage (processOnce, importOne, retryImport).
ImportSettles ==
  ClientReturns =>
  \A d \in Downloads :
    downloads[d].status \in {"downloaded", "importing"} ~>
      downloads[d].status \notin {"downloaded", "importing"}

\* A cancellation that nobody overrides is carried out, whatever the workers still do
\* with their snapshots: the row goes.  (Unless the backfill fills in
\* an episode: resolveOrphanDownloads does not skip cancelled rows, and its write makes
\* DeleteDownload give up.  Hence only rows that never lacked their episode.)
CancelledRowsRemoved ==
  \A d \in Downloads :
    [](Exists(d) => downloads[d].episode) =>
      (downloads[d].status = "cancelled" ~> downloads[d].status # "cancelled")
=============================================================================
