------------------------------ MODULE Catalogue -----------------------------
(***************************************************************************)
(* A series library at work: the calls of sync.Service and of              *)
(* matching.Service, each at its own pace, and what changes on the disk    *)
(* and with the providers meanwhile.                                       *)
(***************************************************************************)
EXTENDS LibrarySync, MediaMatching

CallNext(c) ==
  \/ CaSync(c) \/ (\E f \in Folders : CaScan(c, f)) \/ CaCompare(c) \/ CaApply(c)
  \/ CaCapture(c) \/ CaRescan(c) \/ CaReapply(c) \/ CaRecalc(c) \/ CaStatus(c)
  \/ CaFetch(c) \/ CaReplaceMatch(c) \/ CaRefreshMatch(c) \/ CaJoin(c) \/ CaCreate(c)
  \/ CaRecord(c) \/ CaForget(c)
  \/ \E z \in Providers, mon \in BOOLEAN : CaAdd(c, z, mon)
  \/ \E i \in Items :
       \/ CaResync(c, i) \/ CaRefresh(c, i)
       \/ \E z \in Providers : CaManualMatch(c, i, z)
       \/ \E z \in Providers, full \in BOOLEAN : CaMatch(c, i, full, z)
       \/ \E mon \in BOOLEAN, want \in SUBSET Episodes : CaSettings(c, i, mon, want)
       \/ \E p \in Paths : CaLink(c, i, p) \/ CaRemoveFile(c, i, p)

CaNext ==
  \/ \E c \in CaCalls : CallNext(c)
  \/ \E p \in Paths : CaAppear(p) \/ CaVanish(p)
  \/ \E z \in Providers : CaAir(z)
  \/ \E i \in Items : CaUnmatch(i) \/ CaClaim(i) \/ CaDelete(i)

CaSpec == CaInit /\ [][CaNext]_caVars

-----------------------------------------------------------------------------
\* A record of an item that stays goes only if its file was not on the disk when the call that
\* drops it looked into the folder: what cannot be read, was found, or comes and goes at other
\* times keeps its record (sync/service.go:103).  The moment is that look and no other:
\* SyncLibrary reads the records only afterwards, so that a file which was put there and
\* recorded in between loses its record although it is there.
OnlyLostFilesForgotten ==
  \A f \in caFiles \ caFiles' :
       \/ caItems[f.item].state = "pending"
       \/ \E c \in CaCalls : f.path \in caCall[c].absent

\* An item that a library sync deletes is one nobody asks for: it is neither monitored nor
\* requested when it goes, whatever it was when the sync looked; and it goes with its last
\* record, each of its files having been missing at the sync's look.  A file recorded after
\* the records were read keeps the item, and one that another call has emptied meanwhile is
\* not swept (sync/service.go:338, :357).
WantedItemsStay ==
  \A i \in Items : Open(i) /\ caItems'[i].state = "gone" =>
       /\ ~caItems[i].mon /\ caItems[i].source = "disk"
       /\ FilesOf(i) # {}
       /\ \E c \in CaCalls : FilesOf(i) \subseteq caCall[c].absent

\* The match of new items never overrides what a user has decided of the match meanwhile
\* (matching/match.go:208, sameMatchItemVersion).
UserMatchStands ==
  \A c \in CaCalls :
       (CaAt(c, "store") /\ caCall'[c].pc = "recalc" /\ caCall[c].op = "match")
         => ~caCall[c].missed

\* The episodes of an item are its own series': no answer asked of one provider is stored
\* under the match with another (matching/refresh.go:75).
EpisodesOfMatch ==
  \A i \in Items : \A e \in caItems[i].eps : e[1] = caItems[i].prov

\* Two requests for a series make one item, though each looked for it before it asked the
\* provider (matching/requests.go:105).
SeriesRequestedOnce ==
  [][\A i \in Items :
       (caItems[i].state = "none" /\ caItems'[i].source = "request")
         => \A j \in InLibrary : caItems[j].prov # caItems'[i].prov]_caVars

\* With no call at work, the status of a matched item says what it holds and what of it is
\* wanted, though a call that finds the files changed gives up; except for an item that
\* changed between the reading and the saving of a status (sync/service.go:760).
StatusSettles ==
  (\A c \in CaCalls : CaAt(c, "idle")) =>
    \A i \in Items \ caOverlapped :
      Open(i) /\ caItems[i].prov # NoProvider => caItems[i].status = StatusOf(i)

\* "overwriting it would silently exclude the item from MatchLibrary forever"
\* (sync/service.go:773): an item found on disk and not matched is new.
UnmatchedIsNew ==
  \A i \in Items :
    Open(i) /\ caItems[i].prov = NoProvider /\ caItems[i].source = "disk"
      => caItems[i].status = "new"

\* A sync drops nothing that was there when it looked, and no item that somebody asks for.
SyncDropsNothingWanted == [][OnlyLostFilesForgotten /\ WantedItemsStay]_caVars

\* A match stays what it was made to be: a user's decision is kept, and the episodes are those
\* of the series that was matched.
MatchesStand == [][UserMatchStands /\ EpisodesOfMatch']_caVars
=============================================================================
