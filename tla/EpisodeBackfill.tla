-------------------------- MODULE EpisodeBackfill --------------------------
(***************************************************************************)
(* metarefresh.Service.resolveOrphanDownloads: after a metadata refresh of *)
(* a series, rows that were created before their episode was known get its *)
(* id.  The rows are listed once and written one by one, while the         *)
(* download worker, the importer and the requests go on writing them.      *)
(***************************************************************************)
EXTENDS DownloadStore

CONSTANT Series    \* the media items that are series

ASSUME BackfillAssumption == Series \subseteq Items

VARIABLES
  bfPc,      \* "idle", "list" or "loop"
  bfItem,    \* the series being refreshed
  bfView     \* the listed rows the loop has not reached yet

bfVars == <<bfPc, bfItem, bfView>>

BfTypeOK ==
  /\ bfPc \in {"idle", "list", "loop"}
  /\ bfPc # "idle" => bfItem \in Series
  /\ bfItem \in Series \cup {None}
  /\ bfView \in [Downloads -> Row]

BfInit ==
  /\ bfPc = "idle"
  /\ bfItem = None
  /\ bfView = Snapshots({})

BfHeld == {d \in Downloads : bfView[d] # NoRow}
BfDrop(d) == bfView' = [bfView EXCEPT ![d] = NoRow]

\* RefreshSeriesMetadata commits: its transaction finds the series as it was listed,
\* monitored and open.  (It moves the series' updated_at, which nobody else in the
\* pipeline compares.)
BfRefresh(i) ==
  /\ bfPc = "idle"
  /\ i \in Series
  /\ Open(i)
  /\ mediaItems[i].monitored
  /\ bfPc' = "list"
  /\ bfItem' = i
  /\ UNCHANGED <<storeVars, bfView>>

\* Mutant: importing rows are written, too.
BfSkippedFinished == {"completed", "failed"}

\* The importer owns an importing row; completed and failed ones are finished.
BfSkipped == {"importing", "completed", "failed"}

BfList ==
  /\ bfPc = "list"
  /\ bfPc' = "loop"
  /\ bfView' = Snapshots({d \in RowsOf(bfItem) : /\ ~downloads[d].episode
                                                 /\ downloads[d].status \notin BfSkipped})
  /\ UNCHANGED <<storeVars, bfItem>>

BfResolve(d) ==
  /\ bfPc = "loop"
  /\ d \in BfHeld
  /\ UpdateDownload(d, [bfView[d] EXCEPT !.episode = TRUE])
  /\ BfDrop(d)
  /\ UNCHANGED <<mediaItems, mediaFiles, libraryFiles, torrents, bfPc, bfItem>>

\* The episode is still not in the database.
BfUnresolved(d) ==
  /\ bfPc = "loop"
  /\ d \in BfHeld
  /\ BfDrop(d)
  /\ UNCHANGED <<storeVars, bfPc, bfItem>>

\* The loop is done; when the refresh changed something, the status is recalculated.
BfDone ==
  /\ bfPc = "loop"
  /\ BfHeld = {}
  /\ RecalcMediaItemStatus(bfItem, mediaFiles) \/ UNCHANGED mediaItems
  /\ bfPc' = "idle"
  /\ bfItem' = None
  /\ UNCHANGED <<downloads, mediaFiles, libraryFiles, torrents, bfView>>

BfNext ==
  \/ BfList \/ BfDone
  \/ \E i \in Items : BfRefresh(i)
  \/ \E d \in Downloads : BfResolve(d) \/ BfUnresolved(d)
=============================================================================
