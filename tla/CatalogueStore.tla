--------------------------- MODULE CatalogueStore ---------------------------
(***************************************************************************)
(* What a series library holds: media items with their match, the records  *)
(* of their video files, and the files on disk.  The database changes in   *)
(* transactions; the calls of sync.Service and matching.Service read it,   *)
(* walk the disk or ask a provider, and write later.                       *)
(***************************************************************************)
EXTENDS Naturals, FiniteSets

CONSTANTS
  Paths,          \* video files, each in the top folder FolderOf of the library,
                  \* folders being numbered in the order of their names,
  FolderOf,       \* and with the number of one episode, EpisodeOf
  EpisodeOf,
  TitleOf,        \* the title folder names are grouped under
  Providers,      \* series of the metadata providers
  NoProvider,     \* the provider of an item without a match
  Aired,          \* the episodes a provider lists at first, and later
  CaCalls,        \* concurrent calls
  MaxItems,       \* items an instance creates
  MaxEvents,      \* calls started and changes made outside in a behaviour
  CaFaults        \* "scan", "provider": the step may fail

ASSUME CatalogueAssumption ==
  /\ MaxItems \in Nat \ {0} /\ MaxEvents \in Nat
  /\ NoProvider \notin Providers
  /\ \A p \in Paths : FolderOf[p] \in Nat
  /\ CaFaults \subseteq {"scan", "provider"}

VARIABLES
  caItems,        \* the tables media_items, media_metadata, episodes and monitors
  caFiles,        \* the table media_files: [path, item]
  caDisk,         \* the video files on disk
  caListed,       \* the episodes each provider lists
  caCall,         \* what each call is doing
  caEvents,       \* events so far
  caOverlapped    \* items that changed while a status of theirs was computed

caVars == <<caItems, caFiles, caDisk, caListed, caCall, caEvents, caOverlapped>>

Items == 1..MaxItems
Folders == {FolderOf[p] : p \in Paths}
Titles == {TitleOf[f] : f \in Folders}
Episodes == {EpisodeOf[p] : p \in Paths}
Statuses == {"new", "requested", "available", "partial", "missing"}

\* eps: the episodes stored, each with the provider it came from; want: the seasons
\* monitored, one episode each here.
MediaItem == [state : {"none", "open", "pending", "gone"}, status : Statuses,
              source : {"disk", "request"}, mon : BOOLEAN, want : SUBSET Episodes,
              prov : Providers \cup {NoProvider}, eps : SUBSET (Providers \X Episodes)]

Candidate == [item : 0..MaxItems, add : SUBSET Paths, remove : SUBSET Paths,
              empties : BOOLEAN]

\* A row's version is only ever compared with the one a call has read: fresh says that the
\* item has not been saved since, same that its files are the ones read.  missed and
\* absent record, for the properties, a user's decision since the call began, and the paths
\* without a file at the moment the call looked into their folder.
CaIdle == [op |-> "none", pc |-> "idle", item |-> 0, fresh |-> TRUE, same |-> TRUE,
           missed |-> FALSE, absent |-> {}, rows |-> {}, todo |-> {}, failed |-> {},
           dirs |-> {}, seen |-> {}, work |-> {}, prov |-> NoProvider, eps |-> {},
           mon |-> FALSE, status |-> "new"]

CaTypeOK ==
  /\ caItems \in [Items -> MediaItem]
  /\ caFiles \subseteq [path : Paths, item : Items]
  /\ caDisk \subseteq Paths
  /\ caListed \in [Providers -> SUBSET Episodes]
  /\ \A c \in CaCalls : /\ DOMAIN caCall[c] = DOMAIN CaIdle
                        /\ caCall[c].item \in 0..MaxItems
                        /\ caCall[c].work \subseteq Candidate
                        /\ caCall[c].status \in Statuses
  /\ caEvents \in 0..MaxEvents /\ caOverlapped \subseteq Items

NoItem == [state |-> "none", status |-> "new", source |-> "disk", mon |-> FALSE,
           want |-> {}, prov |-> NoProvider, eps |-> {}]

-----------------------------------------------------------------------------
FilesOf(i) == {f.path : f \in {g \in caFiles : g.item = i}}
Recorded == {f.path : f \in caFiles}
Open(i) == caItems[i].state = "open"
IsRequestOrPending(it) == it.source = "request" \/ it.status = "requested"
InLibrary == {i \in Items : caItems[i].state \in {"open", "pending"}}
Unused == {i \in Items : caItems[i].state = "none"}
Lowest(s) == CHOOSE i \in s : \A j \in s : i <= j

CaAt(c, pc) == caCall[c].pc = pc
CaGoes(c, pc) == [caCall EXCEPT ![c].pc = pc]
CaReturns(c) == [caCall EXCEPT ![c] = CaIdle]
Event == caEvents < MaxEvents /\ caEvents' = caEvents + 1
Running(op) == \E c \in CaCalls : caCall[c].op = op

\* What the saving of item i, of its files, or a user's decision, means to calls.
Saved(calls, i) ==
  [q \in CaCalls |-> IF calls[q].item = i THEN [calls[q] EXCEPT !.fresh = FALSE] ELSE calls[q]]
Refiled(calls, i) ==
  [q \in CaCalls |-> IF calls[q].item = i THEN [calls[q] EXCEPT !.same = FALSE] ELSE calls[q]]
Decided(calls, i) ==
  [q \in CaCalls |-> IF calls[q].item = i THEN [calls[q] EXCEPT !.missed = TRUE] ELSE calls[q]]
Changes(i) ==
  caOverlapped' = IF \E q \in CaCalls : caCall[q].item = i /\ CaAt(q, "status")
                  THEN caOverlapped \cup {i} ELSE caOverlapped

-----------------------------------------------------------------------------
(* RecalcMediaItemStatus                                                   *)

StatusOf(i) ==
  LET it == caItems[i]
      aired == {e[2] : e \in it.eps}
      wanted == IF it.mon THEN aired \cap it.want ELSE aired
      missing == wanted \ {EpisodeOf[p] : p \in FilesOf(i)}
  IN IF FilesOf(i) = {}
     THEN IF it.source = "request" THEN "requested"
          ELSE IF wanted = {} /\ it.mon THEN "available" ELSE "missing"
     ELSE IF missing = {} THEN "available" ELSE "partial"

\* Where a call goes once a status is recalculated: a library sync has more items.
AfterRecalc(c) ==
  IF caCall[c].work = {} THEN CaReturns(c) ELSE [CaGoes(c, "apply") EXCEPT ![c].item = 0]

CaRecalc(c) ==
  LET i == caCall[c].item IN
  /\ CaAt(c, "recalc")
  /\ caCall' = IF Open(i) /\ caItems[i].prov # NoProvider /\ StatusOf(i) # caItems[i].status
               THEN [CaGoes(c, "status") EXCEPT ![c].status = StatusOf(i), ![c].mon = caItems[i].mon]
               ELSE AfterRecalc(c)
  /\ UNCHANGED <<caItems, caFiles, caDisk, caListed, caEvents, caOverlapped>>

\* UpdateMediaItem saves every column, of an item whose deletion has not begun.
CaStatus(c) ==
  LET q == caCall[c] IN
  /\ CaAt(c, "status")
  /\ IF Open(q.item)
     THEN /\ caItems' = [caItems EXCEPT ![q.item].status = q.status, ![q.item].mon = q.mon]
          /\ caCall' = Saved(AfterRecalc(c), q.item)
     ELSE caCall' = AfterRecalc(c) /\ UNCHANGED caItems
  /\ UNCHANGED <<caFiles, caDisk, caListed, caEvents, caOverlapped>>

-----------------------------------------------------------------------------
\* The library is empty, or a day's work has left one item in it: found on disk or requested,
\* matched or not, with its status settled.
CaInit ==
  /\ caListed = [x \in Providers |-> Aired[1]]
  /\ caCall = [c \in CaCalls |-> CaIdle]
  /\ caEvents = 0 /\ caOverlapped = {}
  /\ \E state \in {"none", "open"}, status \in Statuses, source \in {"disk", "request"},
        mon \in BOOLEAN, x \in Providers \cup {NoProvider}, paths \in {{}, Paths} :
       LET it == [NoItem EXCEPT !.state = "open", !.status = status, !.source = source,
                    !.mon = mon, !.want = IF mon THEN {EpisodeOf[p] : p \in Paths} ELSE {},
                    !.prov = x, !.eps = IF x = NoProvider THEN {} ELSE {x} \X Aired[1]]
       IN /\ caItems = [i \in Items |-> IF i = 1 /\ state = "open" THEN it ELSE NoItem]
          /\ caFiles = IF state = "open" THEN [path : paths, item : {1}] ELSE {}
          /\ caDisk = paths
          /\ IF x = NoProvider THEN status = IF source = "disk" THEN "new" ELSE "requested"
             ELSE state = "open" /\ status = StatusOf(1)

-----------------------------------------------------------------------------
(* The world outside                                                       *)

CaAppear(p) ==
  /\ Event /\ p \notin caDisk
  /\ caDisk' = caDisk \cup {p}
  /\ UNCHANGED <<caItems, caFiles, caListed, caCall, caOverlapped>>

CaVanish(p) ==
  /\ Event /\ p \in caDisk
  /\ caDisk' = caDisk \ {p}
  /\ UNCHANGED <<caItems, caFiles, caListed, caCall, caOverlapped>>

CaAir(x) ==
  /\ Event /\ caListed[x] # Aired[2]
  /\ caListed' = [caListed EXCEPT ![x] = Aired[2]]
  /\ UNCHANGED <<caItems, caFiles, caDisk, caCall, caOverlapped>>
=============================================================================
