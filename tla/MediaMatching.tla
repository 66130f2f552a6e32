---------------------------- MODULE MediaMatching ---------------------------
(***************************************************************************)
(* matching.Service, and the other calls that change an item: the match of *)
(* new items, which the job queue runs, a user's own match or unmatch,     *)
(* requests, the refresh of metadata, settings, imports and removals.      *)
(* A provider is asked outside the transaction that stores its answer.     *)
(***************************************************************************)
EXTENDS CatalogueStore

\* captureMatchVersion: the item and its match are remembered as they are.
Starts(c, op, pc, i, x) ==
  caCall' = [caCall EXCEPT ![c] = [CaIdle EXCEPT !.op = op, !.pc = pc, !.item = i, !.prov = x]]

\* matchSingleItem; a full rematch takes items that are matched as well.
CaMatch(c, i, full, x) ==
  /\ CaAt(c, "idle") /\ Event
  /\ ~Running("sync") /\ ~Running("match")
  /\ Open(i)
  /\ full \/ (caItems[i].status = "new" /\ caItems[i].prov = NoProvider)
  /\ Starts(c, "match", "fetch", i, x)
  /\ UNCHANGED <<caItems, caFiles, caDisk, caListed, caOverlapped>>

CaManualMatch(c, i, x) ==
  /\ CaAt(c, "idle") /\ Event /\ Open(i)
  /\ Starts(c, "manual", "fetch", i, x)
  /\ UNCHANGED <<caItems, caFiles, caDisk, caListed, caOverlapped>>

\* RefreshSeriesMetadata, for the monitored series of one pass after another.
CaRefresh(c, i) ==
  /\ CaAt(c, "idle") /\ Event /\ ~Running("refresh")
  /\ Open(i) /\ caItems[i].mon /\ caItems[i].prov # NoProvider
  /\ Starts(c, "refresh", "fetch", i, caItems[i].prov)
  /\ UNCHANGED <<caItems, caFiles, caDisk, caListed, caOverlapped>>

Matched(x) == {i \in InLibrary : caItems[i].prov = x}

\* AddMediaToLibraryFull looks for the series first; the item found is settled at once.
CaAdd(c, x, mon) ==
  /\ CaAt(c, "idle") /\ Event
  /\ caCall' = [caCall EXCEPT ![c] =
       [CaIdle EXCEPT !.op = "add", !.prov = x, !.mon = mon,
          !.item = IF Matched(x) = {} THEN 0 ELSE Lowest(Matched(x)),
          !.pc = IF Matched(x) = {} THEN "fetch" ELSE "existing"]]
  /\ UNCHANGED <<caItems, caFiles, caDisk, caListed, caOverlapped>>

\* fetchMatchData needs every season; a refresh does with the seasons it gets.
CaFetch(c) ==
  LET q == caCall[c] IN
  /\ CaAt(c, "fetch")
  /\ \/ \E eps \in IF q.op = "refresh" /\ "provider" \in CaFaults
                   THEN SUBSET caListed[q.prov] ELSE {caListed[q.prov]} :
          caCall' = [CaGoes(c, "store") EXCEPT ![c].eps = {<<q.prov, e>> : e \in eps}]
     \/ "provider" \in CaFaults /\ caCall' = CaReturns(c)
  /\ UNCHANGED <<caItems, caFiles, caDisk, caListed, caEvents, caOverlapped>>

\* Saves item i and goes on to recalculate its status.
Stores(c, i, item) ==
  /\ caItems' = [caItems EXCEPT ![i] = item]
  /\ Changes(i)
  /\ LET calls == Saved([CaGoes(c, "recalc") EXCEPT ![c].item = i], i)
     IN caCall' = IF caCall[c].op = "manual" THEN Decided(calls, i) ELSE calls
GivesUpOn(c) == caCall' = CaReturns(c) /\ UNCHANGED <<caItems, caOverlapped>>

\* replaceMatch: a match found for an older version of the item is thrown away, and one
\* that says nothing new is not stored when no user asked for it.
ReplaceMatch(c, stale) ==
  LET q == caCall[c]
      it == caItems[q.item]
  IN
  /\ CaAt(c, "store") /\ q.op \in {"match", "manual"}
  /\ IF ~Open(q.item) \/ stale \/ (q.op = "match" /\ it.prov = q.prov /\ it.eps = q.eps)
     THEN GivesUpOn(c)
     ELSE Stores(c, q.item, [it EXCEPT !.prov = q.prov, !.eps = q.eps,
                    !.status = IF it.source = "request" THEN @ ELSE "available"])
  /\ UNCHANGED <<caFiles, caDisk, caListed, caEvents>>

\* Mutant: the version is not compared.
CaReplaceAny(c) == ReplaceMatch(c, FALSE)
CaReplaceMatch(c) == ReplaceMatch(c, ~caCall[c].fresh)

\* New seasons are monitored if the item monitors them.
RefreshMatch(c, stale) ==
  LET q == caCall[c]
      it == caItems[q.item]
      new == q.eps \ it.eps
  IN
  /\ CaAt(c, "store") /\ q.op = "refresh"
  /\ IF ~Open(q.item) \/ it.prov = NoProvider \/ stale \/ new = {}
     THEN GivesUpOn(c)
     ELSE Stores(c, q.item, [it EXCEPT !.eps = @ \cup new,
                    !.want = IF it.mon THEN @ \cup {e[2] : e \in new} ELSE @])
  /\ UNCHANGED <<caFiles, caDisk, caListed, caEvents>>

\* Mutant: the version is not compared.
CaRefreshAny(c) == RefreshMatch(c, FALSE)
CaRefreshMatch(c) == RefreshMatch(c, ~caCall[c].fresh)

\* applyRequestToExistingTx, and the recalculation if the request monitors the item.
Joins(c, i) ==
  IF ~Open(i) THEN GivesUpOn(c)
  ELSE IF caCall[c].mon
  THEN \E want \in SUBSET Episodes :
         Stores(c, i, [caItems[i] EXCEPT !.mon = TRUE, !.want = @ \cup want])
  ELSE GivesUpOn(c)

CaJoin(c) ==
  /\ CaAt(c, "existing")
  /\ Joins(c, caCall[c].item)
  /\ UNCHANGED <<caFiles, caDisk, caListed, caEvents>>

Creates(c) ==
  LET q == caCall[c] IN
  /\ Unused # {}
  /\ \E want \in SUBSET {e[2] : e \in q.eps} :
       Stores(c, Lowest(Unused), [NoItem EXCEPT !.state = "open", !.status = "requested",
         !.source = "request", !.mon = q.mon, !.want = want, !.prov = q.prov, !.eps = q.eps])

\* Mutant: it is not looked for again.
CaCreateAnyway(c) ==
  /\ CaAt(c, "store") /\ caCall[c].op = "add"
  /\ Creates(c)
  /\ UNCHANGED <<caFiles, caDisk, caListed, caEvents>>

\* The series is looked for again in the transaction, under requestMu.
CaCreate(c) ==
  LET found == Matched(caCall[c].prov) IN
  /\ CaAt(c, "store") /\ caCall[c].op = "add"
  /\ IF found = {} THEN Creates(c) ELSE Joins(c, Lowest(found))
  /\ UNCHANGED <<caFiles, caDisk, caListed, caEvents>>

\* Unmatch is one transaction, and ends there.
CaUnmatch(i) ==
  /\ Event /\ Open(i) /\ caItems[i].prov # NoProvider
  /\ caItems' = [caItems EXCEPT ![i].prov = NoProvider, ![i].eps = {},
       ![i].status = IF caItems[i].source = "request" THEN "requested" ELSE "new"]
  /\ Changes(i)
  /\ caCall' = Decided(Saved(caCall, i), i)
  /\ UNCHANGED <<caFiles, caDisk, caListed>>

\* UpdateMediaItem and UpdateSeasonMonitor of media.Service, and the recalculation.
CaSettings(c, i, mon, want) ==
  /\ CaAt(c, "idle") /\ Event /\ Open(i)
  /\ caItems' = [caItems EXCEPT ![i].mon = mon, ![i].want = want]
  /\ Changes(i)
  /\ caCall' = Saved([caCall EXCEPT ![c] = [CaIdle EXCEPT !.op = "settings", !.pc = "recalc",
                                            !.item = i]], i)
  /\ UNCHANGED <<caFiles, caDisk, caListed>>

-----------------------------------------------------------------------------
(* Files that come and go                                                  *)

\* An import puts a file into the library ...
CaLink(c, i, p) ==
  /\ CaAt(c, "idle") /\ Event /\ ~Running("import")
  /\ Open(i) /\ p \notin caDisk
  /\ caDisk' = caDisk \cup {p}
  /\ caCall' = [caCall EXCEPT ![c] = [CaIdle EXCEPT !.op = "import", !.pc = "record",
                  !.item = i, !.rows = {p}]]
  /\ caItems' = caItems
  /\ UNCHANGED <<caFiles, caListed, caOverlapped>>

\* ... and records it; with no file recorded the import has failed.
CaRecord(c) ==
  LET i == caCall[c].item
      linked == caCall[c].rows
  IN
  /\ CaAt(c, "record")
  /\ IF i \in InLibrary /\ linked \cap Recorded = {}
     THEN /\ caFiles' = caFiles \cup {[path |-> p, item |-> i] : p \in linked}
          /\ Changes(i)
          /\ caCall' = Refiled(CaGoes(c, "capture"), i)
     ELSE caCall' = CaReturns(c) /\ UNCHANGED <<caFiles, caOverlapped>>
  /\ UNCHANGED <<caItems, caDisk, caListed, caEvents>>

\* DeleteDownload removes the file, and later its record.
CaRemoveFile(c, i, p) ==
  /\ CaAt(c, "idle") /\ Event
  /\ Open(i) /\ p \in FilesOf(i)
  /\ caDisk' = caDisk \ {p}
  /\ caCall' = [caCall EXCEPT ![c] = [CaIdle EXCEPT !.op = "remove", !.pc = "forget",
                  !.item = i, !.absent = {p}]]
  /\ UNCHANGED <<caItems, caFiles, caListed, caOverlapped>>

\* Mutant: the status is left as it was.
CaForgetQuietly(c) ==
  LET q == caCall[c] IN
  /\ CaAt(c, "forget")
  /\ caFiles' = {f \in caFiles : f.item # q.item \/ f.path \notin q.absent}
  /\ Changes(q.item)
  /\ caCall' = Refiled(CaReturns(c), q.item)
  /\ UNCHANGED <<caItems, caDisk, caListed, caEvents>>

CaForget(c) ==
  LET q == caCall[c] IN
  /\ CaAt(c, "forget")
  /\ IF caItems[q.item].state = "gone"
     THEN caCall' = CaReturns(c) /\ UNCHANGED <<caFiles, caOverlapped>>
     ELSE /\ caFiles' = {f \in caFiles : f.item # q.item \/ f.path \notin q.absent}
          /\ Changes(q.item)
          /\ caCall' = Refiled(CaGoes(c, "recalc"), q.item)
  /\ UNCHANGED <<caItems, caDisk, caListed, caEvents>>

\* DeleteMediaItem claims the item, and deletes it with all that belongs to it.
CaClaim(i) ==
  /\ Event /\ Open(i)
  /\ caItems' = [caItems EXCEPT ![i].state = "pending", ![i].mon = FALSE]
  /\ caCall' = Saved(caCall, i)
  /\ UNCHANGED <<caFiles, caDisk, caListed, caOverlapped>>

CaDelete(i) ==
  /\ caItems[i].state = "pending"
  /\ caItems' = [caItems EXCEPT ![i] = [NoItem EXCEPT !.state = "gone"]]
  /\ caFiles' = {f \in caFiles : f.item # i}
  /\ caCall' = Refiled(caCall, i)
  /\ UNCHANGED <<caDisk, caListed, caEvents, caOverlapped>>
=============================================================================
