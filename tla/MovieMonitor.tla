---------------------------- MODULE MovieMonitor ----------------------------
(***************************************************************************)
(* monitor.Service for movies: it records the failures of earlier grabs in *)
(* the blocklist, searches the indexers for a monitored movie without      *)
(* files or active downloads, and queues the best release.  The search     *)
(* takes long: everything read before it is checked again after it, the    *)
(* last time inside the transaction that creates the download.             *)
(***************************************************************************)
EXTENDS DownloadStore

CONSTANTS
  Movies,               \* the media items that are movies
  MaxBlocklistFailures  \* failures after which a release is given up

ASSUME MonitorAssumption ==
  /\ Movies \subseteq Items
  /\ MaxBlocklistFailures \in Nat \ {0}

VARIABLES
  moPc,       \* "idle", "search" or "grab"
  moItem,     \* the movie being processed
  moVer,      \* its updated_at when it was loaded
  moUrl,      \* the release picked by the search
  blocklist   \* fail_count of each movie's releases

moVars == <<moPc, moItem, moVer, moUrl, blocklist>>

MoTypeOK ==
  /\ moPc \in {"idle", "search", "grab"}
  /\ moItem \in Movies \cup {None}
  /\ moPc # "idle" => moItem \in Movies
  /\ moVer \in Nat
  /\ moUrl \in Urls \cup {None}
  /\ moPc = "grab" => moUrl \in Urls
  /\ blocklist \in [Movies -> [Urls -> Nat]]

MoInit ==
  /\ moPc = "idle"
  /\ moItem = None
  /\ moVer = 0
  /\ moUrl = None
  /\ blocklist = [i \in Movies |-> [u \in Urls |-> 0]]

MoIdle ==
  /\ moPc' = "idle"
  /\ moItem' = None
  /\ moVer' = 0
  /\ moUrl' = None

Failures(i, u) ==
  {d \in RowsOf(i) : downloads[d].url = u /\ downloads[d].status \in TerminalFailureStatuses}

\* recordDownloadFailures: the count of failed rows, kept as a high-water mark.
Recorded(i) ==
  [blocklist EXCEPT ![i] = [u \in Urls |->
     IF Cardinality(Failures(i, u)) > @[u] THEN Cardinality(Failures(i, u)) ELSE @[u]]]

HasActiveDownload(i) == \E d \in RowsOf(i) : downloads[d].status \in ActiveDownloadStatuses

\* processItem up to the search; a movie with files or an active download is left
\* alone, with its status brought up to date.
MoCheck(i) ==
  /\ moPc = "idle"
  /\ Open(i)
  /\ mediaItems[i].monitored
  /\ blocklist' = Recorded(i)
  /\ IF ItemFiles(mediaFiles, i) = {} /\ ~HasActiveDownload(i)
     THEN /\ moPc' = "search" /\ moItem' = i /\ moVer' = mediaItems[i].ver
          /\ UNCHANGED <<moUrl, mediaItems>>
     ELSE /\ RecalcMediaItemStatus(i, mediaFiles)
          /\ UNCHANGED <<moPc, moItem, moVer, moUrl>>
  /\ UNCHANGED <<downloads, mediaFiles, libraryFiles, torrents>>

\* The search finds a best release, and no download appeared meanwhile.
MoPick(u) ==
  /\ moPc = "search"
  /\ ~HasActiveDownload(moItem)
  /\ moPc' = "grab"
  /\ moUrl' = u
  /\ UNCHANGED <<storeVars, moItem, moVer, blocklist>>

\* Nothing found, or a download appeared during the search.
MoFindNothing ==
  /\ moPc = "search"
  /\ RecalcMediaItemStatus(moItem, mediaFiles)
  /\ MoIdle
  /\ UNCHANGED <<downloads, mediaFiles, libraryFiles, torrents, blocklist>>

\* Mutants: no check for an active download of the release; a threshold that is
\* one too high.
MayGrabTwice ==
  /\ Open(moItem)
  /\ mediaItems[moItem].monitored
  /\ mediaItems[moItem].ver = moVer
  /\ blocklist[moItem][moUrl] < MaxBlocklistFailures
MayGrabOnceMore ==
  /\ Open(moItem)
  /\ mediaItems[moItem].monitored
  /\ mediaItems[moItem].ver = moVer
  /\ ~HasActiveDownloadByURL(moItem, moUrl)
  /\ blocklist[moItem][moUrl] <= MaxBlocklistFailures

\* The conditions createAutoDownload checks inside its transaction.
MayGrab ==
  /\ Open(moItem)
  /\ mediaItems[moItem].monitored
  /\ mediaItems[moItem].ver = moVer
  /\ ~HasActiveDownloadByURL(moItem, moUrl)
  /\ blocklist[moItem][moUrl] < MaxBlocklistFailures

MoGrab(d) ==
  /\ moPc = "grab"
  /\ MayGrab
  /\ CreateDownload(d, moItem, moUrl, TRUE)
  /\ RecalcMediaItemStatus(moItem, mediaFiles)
  /\ MoIdle
  /\ UNCHANGED <<mediaFiles, libraryFiles, torrents, blocklist>>

MoGiveUp ==
  /\ moPc = "grab"
  /\ ~MayGrab
  /\ RecalcMediaItemStatus(moItem, mediaFiles)
  /\ MoIdle
  /\ UNCHANGED <<downloads, mediaFiles, libraryFiles, torrents, blocklist>>

\* media.Service.UpdateMediaItem switching monitoring on or off: one transaction
\* on a fresh parent.
SetMonitored(i, monitored) ==
  /\ Open(i)
  /\ mediaItems' = [mediaItems EXCEPT ![i].monitored = monitored, ![i].ver = @ + 1]
  /\ UNCHANGED <<downloads, mediaFiles, libraryFiles, torrents, moVars>>

MoNext ==
  \/ MoFindNothing \/ MoGiveUp
  \/ \E i \in Movies : MoCheck(i)
  \/ \E u \in Urls : MoPick(u)
  \/ \E d \in Downloads : MoGrab(d)
=============================================================================
