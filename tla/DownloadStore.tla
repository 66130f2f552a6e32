--------------------------- MODULE DownloadStore ---------------------------
(***************************************************************************)
(* The state every part of the download pipeline shares: the downloads,    *)
(* media_items and media_files tables of the SQLite store, the torrents    *)
(* held by the external qBittorrent client, and the video files in the     *)
(* library folders.  A store call and a transaction are one atomic step;   *)
(* everything a caller keeps in memory between two calls is a snapshot     *)
(* that the other actors may have made stale.                              *)
(*                                                                         *)
(* `ver' stands for the updated_at column: each successful write of a row  *)
(* gives it a value it never had before.                                   *)
(***************************************************************************)
EXTENDS Naturals, FiniteSets

CONSTANTS
  Downloads,    \* ids of download rows; AUTOINCREMENT never reuses one
  Items,        \* ids of media items
  Urls,         \* download URLs, one per release (title and release folder)
  Hashes,       \* torrent info hashes
  HashOf,       \* the info hash of the .torrent file behind each URL
  Videos,       \* names of video files inside torrents
  VideosOf,     \* the video files that each torrent contains
  MaxCopies,    \* bound: numbered copies of one file that uniquePath may make
  None,         \* the absent item, URL, hash or id
  Faults        \* the I/O calls that may fail in this instance

ASSUME StoreAssumption ==
  /\ IsFiniteSet(Downloads)
  /\ HashOf \in [Urls -> Hashes]
  /\ VideosOf \in [Hashes -> SUBSET Videos]
  /\ MaxCopies \in Nat \ {0}
  /\ None \notin Downloads \cup Items \cup Urls \cup Hashes \cup Videos

VARIABLES
  downloads,     \* the downloads table
  mediaItems,    \* the media_items table
  mediaFiles,    \* paths recorded in the media_files table
  libraryFiles,  \* paths that exist in the library folders
  torrents,      \* what qBittorrent holds for each info hash
  clientUp       \* is qBittorrent configured, and does it answer a health check?

storeVars == <<downloads, mediaItems, mediaFiles, libraryFiles, torrents>>

ActiveDownloadStatuses ==
  {"pending", "downloading", "downloaded", "importing", "seeding", "completed"}
TerminalFailureStatuses == {"failed", "import_failed"}
Statuses == ActiveDownloadStatuses \cup TerminalFailureStatuses \cup {"cancelled"}

\* "none" is an id not handed out yet, "deleted" a row that was removed.
Row == [item : Items \cup {None}, url : Urls \cup {None},
        status : Statuses \cup {"none", "deleted"},
        hash : Hashes \cup {None}, linked : BOOLEAN, episode : BOOLEAN,
        retryCount : Nat, backoff : BOOLEAN, ver : Nat]

NoRow == [item |-> None, url |-> None, status |-> "none", hash |-> None,
          linked |-> FALSE, episode |-> FALSE, retryCount |-> 0,
          backoff |-> FALSE, ver |-> 0]

MediaItem == [present : BOOLEAN, monitored : BOOLEAN, available : BOOLEAN,
              deletionPending : BOOLEAN, ver : Nat]

\* A library path is fixed by the item's folder, the release folder and the
\* file name; uniquePath numbers the copies when the name is taken.
Path == Items \X Urls \X Videos \X (1..MaxCopies)

TorrentStates == {"absent", "downloading", "complete", "error"}

StoreTypeOK ==
  /\ downloads \in [Downloads -> Row]
  /\ mediaItems \in [Items -> MediaItem]
  /\ mediaFiles \subseteq Path
  /\ libraryFiles \subseteq Path
  /\ torrents \in [Hashes -> TorrentStates]

StoreInit ==
  /\ downloads = [d \in Downloads |-> NoRow]
  /\ mediaItems = [i \in Items |-> [present |-> TRUE, monitored |-> TRUE,
                                    available |-> FALSE,
                                    deletionPending |-> FALSE, ver |-> 0]]
  /\ mediaFiles = {}
  /\ libraryFiles = {}
  /\ torrents = [h \in Hashes |-> "absent"]

-----------------------------------------------------------------------------
(* The store's operations.                                                 *)

Exists(d) == downloads[d].status \in Statuses

Open(i) == mediaItems[i].present /\ ~mediaItems[i].deletionPending

RowsOf(i) == {d \in Downloads : Exists(d) /\ downloads[d].item = i}

\* The compare-and-swap of UpdateDownload: does the snapshot still carry the
\* row's version?
Current(d, snap) == Exists(d) /\ downloads[d].ver = snap.ver

Written(next) == [next EXCEPT !.ver = @ + 1]

\* Mutant: updated_at keeps its value.
PutRowUnversioned(d, next) == downloads' = [downloads EXCEPT ![d] = next]

\* UpdateDownload: `next', derived from a snapshot, replaces the row.
PutRow(d, next) == downloads' = [downloads EXCEPT ![d] = Written(next)]

\* UpdateDownload as its callers use it: a stale snapshot writes nothing.
UpdateDownload(d, next) ==
  IF Current(d, next) THEN PutRow(d, next) ELSE UNCHANGED downloads

ListDownloads(status) ==
  {d \in Downloads : downloads[d].status = status}

\* The rows of a listing as a caller keeps them in memory.
Snapshots(S) == [d \in Downloads |-> IF d \in S THEN downloads[d] ELSE NoRow]

\* Mutant: a seeding download does not count as active.
HasUnfinishedDownloadByURL(i, u) ==
  \E d \in Downloads : /\ downloads[d].item = i
                       /\ downloads[d].url = u
                       /\ downloads[d].status \in ActiveDownloadStatuses \ {"seeding"}

HasActiveDownloadByURL(i, u) ==
  \E d \in Downloads : /\ downloads[d].item = i
                       /\ downloads[d].url = u
                       /\ downloads[d].status \in ActiveDownloadStatuses

\* CreateDownload with the next unused id: ids are handed out, never chosen.
NewRow(i, u, ep) ==
  [NoRow EXCEPT !.item = i, !.url = u, !.status = "pending", !.episode = ep]

CreateDownload(d, i, u, ep) ==
  /\ downloads[d].status = "none"
  /\ downloads' = [downloads EXCEPT ![d] = NewRow(i, u, ep)]

Deleted(row) == [row EXCEPT !.status = "deleted"]

\* Mutant: NextRetryAt keeps a row out even after it has passed.
DueWithoutRetries(status) ==
  {{d \in ListDownloads(status) : ~downloads[d].backoff}}

\* The rows that a worker's loop may handle now: NextRetryAt keeps a row out
\* until it has passed, which is up to the clock.
Due(status) ==
  {S \in SUBSET ListDownloads(status) :
     {d \in ListDownloads(status) : ~downloads[d].backoff} \subseteq S}

ItemFiles(files, i) == {p \in files : p[1] = i}
ReleaseFiles(files, i, u) == {p \in files : p[1] = i /\ p[2] = u}

\* RecalcMediaItemStatus for a movie, given the item's recorded files: the row is
\* written, and its updated_at moves, only when the status changes.
RecalcMediaItemStatus(i, files) ==
  LET available == ItemFiles(files, i) # {}
  IN  mediaItems' = IF Open(i) /\ mediaItems[i].available # available
                    THEN [mediaItems EXCEPT ![i].available = available,
                                            ![i].ver = @ + 1]
                    ELSE mediaItems

-----------------------------------------------------------------------------
(* The qBittorrent client.                                                 *)

\* DeleteTorrent is best effort everywhere: its error is only logged.
DeleteTorrents(hs) ==
  \/ torrents' = [h \in Hashes |-> IF h \in hs THEN "absent" ELSE torrents[h]]
  \/ "delete" \in Faults /\ UNCHANGED torrents

\* What happens in the client without Media Gate: a transfer ends, fails, or
\* somebody removes the torrent in the client's own interface.
QbitStep ==
  /\ \E h \in Hashes :
       \/ /\ torrents[h] = "downloading"
          /\ \E s \in {"complete"} \cup ({"error"} \cap Faults) :
               torrents' = [torrents EXCEPT ![h] = s]
       \/ /\ "remove" \in Faults
          /\ torrents[h] # "absent"
          /\ torrents' = [torrents EXCEPT ![h] = "absent"]
  /\ UNCHANGED <<downloads, mediaItems, mediaFiles, libraryFiles>>
=============================================================================
