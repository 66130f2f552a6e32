---------------------------- MODULE IndexerSearch ----------------------------
(***************************************************************************)
(* indexer.Service: a search asks several indexers at once, a few at a     *)
(* time; each is asked through an engine that is built from the indexer's  *)
(* row, its secrets and the address of FlareSolverr in the settings table, *)
(* and the definitions, and cached.  Updates and removals of an indexer,   *)
(* and a refresh of the definitions, drop engines; a new address does not. *)
(* What an engine does with a tracker is external.                         *)
(***************************************************************************)
EXTENDS Naturals, Sequences, FiniteSets

CONSTANTS
  IxIndexers,
  IxCalls,        \* searches, each made once
  IxFetches,      \* FetchTorrent calls, each made once
  IxUpdates,      \* requests to update or delete an indexer, each made once
  IxSlots,        \* indexers a search asks at a time: 3 in the code
  IxMaxRefreshes,
  IxMaxAddresses  \* changes of the FlareSolverr setting

ASSUME IndexerSearchAssumption ==
  /\ IsFiniteSet(IxIndexers) /\ IsFiniteSet(IxCalls \cup IxFetches)
  /\ IxCalls \cap IxFetches = {}
  /\ IxSlots \in Nat \ {0} /\ IxMaxRefreshes \in Nat /\ IxMaxAddresses \in Nat

VARIABLES
  ixRow,      \* the indexers: version of the settings column, whether enabled, there
  ixSecret,   \* version of the secrets of each indexer, 0 when deleted
  ixDefs,     \* version of the definitions
  ixSolver,   \* version of the FlareSolverr address in the settings
  ixDropped,  \* the version it had when the engine of each indexer was last dropped
  ixRefresh,  \* "idle", or "swapped" between the new definitions and the engines dropped
  ixEngines,  \* every engine built so far
  ixCache,    \* Service.engines: 0 or an index of ixEngines
  ixTask,     \* what a call does about each indexer
  ixCall,     \* the calls
  ixUpdate    \* the updates: where each is, and what it has read

ixVars == <<ixRow, ixSecret, ixDefs, ixSolver, ixDropped, ixRefresh, ixEngines, ixCache, ixTask,
            ixCall, ixUpdate>>

IxEveryCall == IxCalls \cup IxFetches
\* json, defs, secret, solver: what has been read for an engine, solver being 0 without an
\* address; engine: the one in use; raced: the row, the secrets or the definitions changed, or
\* engines were dropped, while this task was on its way to an engine, or were about to.
IxNoTask == [pc |-> "none", json |-> 0, defs |-> 0, secret |-> 0, solver |-> 0, engine |-> 0,
             raced |-> FALSE, found |-> FALSE]
IxNoUpdate == [pc |-> "idle", of |-> 0, kind |-> "settings",
               json |-> 0, secret |-> 0, enabled |-> TRUE]

IxTypeOK ==
  /\ ixRow \in [IxIndexers -> [there : BOOLEAN, enabled : BOOLEAN, json : Nat]]
  /\ ixCache \in [IxIndexers -> 0..Len(ixEngines)]
  /\ \A c \in IxEveryCall : ixCall[c].found \cap ixCall[c].failed = {}

IxInit ==
  /\ ixRow = [i \in IxIndexers |-> [there |-> TRUE, enabled |-> TRUE, json |-> 1]]
  /\ ixSecret = [i \in IxIndexers |-> 1]
  /\ ixDefs = 1 /\ ixRefresh = "idle"
  /\ ixSolver = 1 /\ ixDropped = [i \in IxIndexers |-> 1]
  /\ ixEngines = <<>> /\ ixCache = [i \in IxIndexers |-> 0]
  /\ ixTask = [c \in IxEveryCall |-> [i \in IxIndexers |-> IxNoTask]]
  /\ ixCall = [c \in IxEveryCall |-> [pc |-> "idle", found |-> {}, failed |-> {}]]
  /\ ixUpdate = [u \in IxUpdates |-> IxNoUpdate]

-----------------------------------------------------------------------------
(* Changes under way. *)

\* The definitions, or what the row and the secrets hold, are being replaced.
IxChanging(i) ==
  \/ ixRefresh = "swapped"
  \/ \E u \in IxUpdates : ixUpdate[u].of = i /\ ixUpdate[u].pc \notin {"idle", "done", "failed"}

IxBuilding == {"slot", "get", "defs", "secrets", "solver", "keep"}
\* The tasks that have not got their engine yet, when what an engine is built from changes.
IxRace(changed) ==
  ixTask' = [c \in IxEveryCall |-> [i \in IxIndexers |->
               [ixTask[c][i] EXCEPT !.raced = @ \/ (i \in changed /\ ixTask[c][i].pc \in IxBuilding)]]]

IxGoes(c, i, task) == ixTask' = [ixTask EXCEPT ![c][i] = task]
IxStore == <<ixRow, ixSecret, ixDefs, ixSolver, ixDropped, ixRefresh, ixUpdate>>

-----------------------------------------------------------------------------
(* A search. *)

IxBegin(i, pc) == [IxNoTask EXCEPT !.pc = pc, !.json = ixRow[i].json, !.raced = IxChanging(i)]

\* The indexers asked for, or all that are enabled; their rows as listed.
IxSearch(c) ==
  /\ ixCall[c].pc = "idle"
  /\ LET there == {i \in IxIndexers : ixRow[i].there}
     IN  \E targets \in {{i \in there : ixRow[i].enabled}} \cup {{i} : i \in there} :
           ixTask' = [ixTask EXCEPT ![c] = [i \in IxIndexers |->
                        IF i \in targets THEN IxBegin(i, "slot") ELSE IxNoTask]]
  /\ ixCall' = [ixCall EXCEPT ![c].pc = "asking"]
  /\ UNCHANGED <<IxStore, ixEngines, ixCache>>

\* FetchTorrent: one indexer, no slot.
IxFetch(c) ==
  /\ ixCall[c].pc = "idle"
  /\ \E i \in {x \in IxIndexers : ixRow[x].there} : IxGoes(c, i, IxBegin(i, "get"))
  /\ ixCall' = [ixCall EXCEPT ![c].pc = "asking"]
  /\ UNCHANGED <<IxStore, ixEngines, ixCache>>

IxTaken(c) == Cardinality({i \in IxIndexers :
                             ixTask[c][i].pc \in (IxBuilding \ {"slot"}) \cup {"lock", "ask"}})

IxSlot(c, i) ==
  /\ ixTask[c][i].pc = "slot" /\ IxTaken(c) < IxSlots
  /\ IxGoes(c, i, [ixTask[c][i] EXCEPT !.pc = "get"])
  /\ UNCHANGED <<IxStore, ixEngines, ixCache, ixCall>>

\* getOrCreateEngine: what the cache holds, or the definition, the secrets and the address as
\* they are now beside the row as it was listed.  The mutex is not held in between.
IxGetEngine(c, i) ==
  /\ ixTask[c][i].pc = "get"
  /\ IxGoes(c, i, IF ixCache[i] # 0 THEN [ixTask[c][i] EXCEPT !.pc = "lock", !.engine = ixCache[i]]
                                    ELSE [ixTask[c][i] EXCEPT !.pc = "defs"])
  /\ UNCHANGED <<IxStore, ixEngines, ixCache, ixCall>>

IxReadDefinition(c, i) ==
  /\ ixTask[c][i].pc = "defs"
  /\ IxGoes(c, i, [ixTask[c][i] EXCEPT !.pc = "secrets", !.defs = ixDefs])
  /\ UNCHANGED <<IxStore, ixEngines, ixCache, ixCall>>

IxReadSecrets(c, i) ==
  /\ ixTask[c][i].pc = "secrets"
  /\ IxGoes(c, i, [ixTask[c][i] EXCEPT !.pc = "solver", !.secret = ixSecret[i]])
  /\ UNCHANGED <<IxStore, ixEngines, ixCache, ixCall>>

\* An engine does without FlareSolverr if the address cannot be read, or is empty.
IxReadSolver(c, i) ==
  /\ ixTask[c][i].pc = "solver"
  /\ \E solver \in {0, ixSolver} :
       IxGoes(c, i, [ixTask[c][i] EXCEPT !.pc = "keep", !.solver = solver])
  /\ UNCHANGED <<IxStore, ixEngines, ixCache, ixCall>>

\* A definition that is gone, secrets that cannot be read, or settings it cannot use.
IxBuildFails(c, i) ==
  /\ ixTask[c][i].pc \in {"defs", "secrets", "keep"}
  /\ IxGoes(c, i, [ixTask[c][i] EXCEPT !.pc = "send"])
  /\ UNCHANGED <<IxStore, ixEngines, ixCache, ixCall>>

\* Two calls may both build one; the later is cached.
IxKeepEngine(c, i) ==
  LET t == ixTask[c][i] IN
  /\ t.pc = "keep"
  /\ ixEngines' = Append(ixEngines, [of |-> i, json |-> t.json, defs |-> t.defs,
                                     secret |-> t.secret, solver |-> t.solver,
                                     raced |-> t.raced, loggedIn |-> FALSE, holder |-> {}])
  /\ ixCache' = [ixCache EXCEPT ![i] = Len(ixEngines) + 1]
  /\ IxGoes(c, i, [t EXCEPT !.pc = "lock", !.engine = Len(ixEngines) + 1])
  /\ UNCHANGED <<IxStore, ixCall>>

\* The engine's mutex: one login, search or download at a time.
IxLock(c, i) ==
  LET e == ixTask[c][i].engine IN
  /\ ixTask[c][i].pc = "lock" /\ ixEngines[e].holder = {}
  /\ ixEngines' = [ixEngines EXCEPT ![e].holder = {c}]
  /\ IxGoes(c, i, [ixTask[c][i] EXCEPT !.pc = "ask"])
  /\ UNCHANGED <<IxStore, ixCache, ixCall>>

\* Login, made unless an earlier one through this engine went well; what the tracker answers is
\* external.
IxLogin(e, ok) == [e EXCEPT !.loggedIn = @ \/ ok]

\* Mutant: a panic skips the unlock.
IxAskedUnguarded(c, i) ==
  LET e == ixTask[c][i].engine IN
  /\ ixTask[c][i].pc = "ask"
  /\ \E login, found, panic \in BOOLEAN :
       /\ found => login \/ ixEngines[e].loggedIn
       /\ IxGoes(c, i, [ixTask[c][i] EXCEPT !.pc = "send", !.found = found /\ ~panic])
       /\ ixEngines' = [ixEngines EXCEPT ![e] =
              [IxLogin(@, login) EXCEPT !.holder = IF panic THEN @ ELSE {}]]
  /\ UNCHANGED <<IxStore, ixCache, ixCall>>

\* The login if need be, and the request: results, an error or, for a search, a panic that is
\* recovered.  The deferred calls give the mutex and the slot back each time.
IxAsked(c, i) ==
  LET e == ixTask[c][i].engine IN
  /\ ixTask[c][i].pc = "ask"
  /\ \E login, found \in BOOLEAN :
       /\ found => login \/ ixEngines[e].loggedIn
       /\ IxGoes(c, i, [ixTask[c][i] EXCEPT !.pc = "send", !.found = found])
       /\ ixEngines' = [ixEngines EXCEPT ![e] = [IxLogin(@, login) EXCEPT !.holder = {}]]
  /\ UNCHANGED <<IxStore, ixCache, ixCall>>

\* The outcome goes into a channel with room for all of them, and is counted.
IxSend(c, i) ==
  /\ ixTask[c][i].pc = "send"
  /\ IxGoes(c, i, [ixTask[c][i] EXCEPT !.pc = "over"])
  /\ ixCall' = IF ixTask[c][i].found THEN [ixCall EXCEPT ![c].found = @ \cup {i}]
                                     ELSE [ixCall EXCEPT ![c].failed = @ \cup {i}]
  /\ UNCHANGED <<IxStore, ixEngines, ixCache>>

\* The channel is closed when every goroutine is done, and the search returns.
IxReturn(c) ==
  /\ ixCall[c].pc = "asking"
  /\ \A i \in IxIndexers : ixTask[c][i].pc \in {"none", "over"}
  /\ ixCall' = [ixCall EXCEPT ![c].pc = "returned"]
  /\ UNCHANGED <<IxStore, ixEngines, ixCache, ixTask>>

-----------------------------------------------------------------------------
(* What engines are built from changes. *)

\* Update reads the row and, for new settings, the secrets they are merged with; Delete
\* goes straight to its first write.
IxBeginUpdate(u) ==
  /\ ixUpdate[u].pc = "idle"
  /\ \E i \in {x \in IxIndexers : ixRow[x].there}, kind \in {"settings", "secret", "enabled", "delete"} :
       ixUpdate' = [ixUpdate EXCEPT ![u] =
         [pc |-> CASE kind = "enabled" -> "save" [] kind = "delete" -> "invalidate" [] OTHER -> "secrets",
          of |-> i, kind |-> kind, json |-> ixRow[i].json, secret |-> ixSecret[i],
          enabled |-> IF kind = "enabled" THEN ~ixRow[i].enabled ELSE ixRow[i].enabled]]
  /\ UNCHANGED <<ixRow, ixSecret, ixDefs, ixSolver, ixDropped, ixRefresh, ixEngines, ixCache, ixTask,
                 ixCall>>

\* Every password field is written again, the one that changed and those that were merged;
\* a removal deletes them.
IxSaveSecrets(u) ==
  LET p == ixUpdate[u] IN
  /\ p.pc = "secrets"
  /\ ixSecret' = [ixSecret EXCEPT ![p.of] =
       CASE p.kind = "secret" -> 2 [] p.kind = "delete" -> 0 [] OTHER -> p.secret]
  /\ IxRace({p.of})
  /\ ixUpdate' = [ixUpdate EXCEPT ![u].pc = IF p.kind = "delete" THEN "save" ELSE "invalidate"]
  /\ UNCHANGED <<ixRow, ixDefs, ixSolver, ixDropped, ixRefresh, ixEngines, ixCache, ixCall>>

\* A write fails: with some of the secrets written, or at the row.  The request is told; the
\* engine is dropped only if the failure came after that.  A removal ignores the first.
IxUpdateFails(u) ==
  LET p == ixUpdate[u] IN
  /\ p.pc = "save" \/ (p.pc = "secrets" /\ p.kind # "delete")
  /\ IF p.pc = "secrets" /\ p.kind = "secret"
     THEN /\ ixSecret' \in {ixSecret, [ixSecret EXCEPT ![p.of] = 2]}
          /\ IxRace({p.of})
     ELSE UNCHANGED <<ixSecret, ixTask>>
  /\ ixUpdate' = [ixUpdate EXCEPT ![u].pc = "failed"]
  /\ UNCHANGED <<ixRow, ixDefs, ixSolver, ixDropped, ixRefresh, ixEngines, ixCache, ixCall>>

\* Mutant: a new secret does not drop the engine.
IxInvalidateForSettings(u) ==
  LET p == ixUpdate[u] IN
  /\ p.pc = "invalidate"
  /\ ixCache' = IF p.kind = "secret" THEN ixCache ELSE [ixCache EXCEPT ![p.of] = 0]
  /\ ixUpdate' = [ixUpdate EXCEPT ![u].pc = IF p.kind = "delete" THEN "secrets" ELSE "save"]
  /\ ixDropped' = [ixDropped EXCEPT ![p.of] = ixSolver]
  /\ IxRace({p.of})
  /\ UNCHANGED <<ixRow, ixSecret, ixDefs, ixSolver, ixRefresh, ixEngines, ixCall>>

\* invalidateEngine: before the row is saved, and before a removal deletes anything.
IxInvalidate(u) ==
  LET p == ixUpdate[u] IN
  /\ p.pc = "invalidate"
  /\ ixCache' = [ixCache EXCEPT ![p.of] = 0]
  /\ ixUpdate' = [ixUpdate EXCEPT ![u].pc = IF p.kind = "delete" THEN "secrets" ELSE "save"]
  /\ ixDropped' = [ixDropped EXCEPT ![p.of] = ixSolver]
  /\ IxRace({p.of})
  /\ UNCHANGED <<ixRow, ixSecret, ixDefs, ixSolver, ixRefresh, ixEngines, ixCall>>

\* UpdateIndexer writes the whole row as it was read, with what the request changes.
IxSaveRow(u) ==
  LET p == ixUpdate[u]
      i == p.of
  IN
  /\ p.pc = "save"
  /\ ixRow' = [ixRow EXCEPT ![i] =
       IF p.kind = "delete" THEN [@ EXCEPT !.there = FALSE]
       ELSE IF ~@.there THEN @
       ELSE [@ EXCEPT !.json = IF p.kind = "settings" THEN 2 ELSE p.json, !.enabled = p.enabled]]
  /\ IxRace({i})
  /\ ixUpdate' = [ixUpdate EXCEPT ![u].pc = "done"]
  /\ UNCHANGED <<ixSecret, ixDefs, ixSolver, ixDropped, ixRefresh, ixEngines, ixCache, ixCall>>

\* RefreshDefinitions swaps the definitions, and then drops every engine.
IxSwapDefinitions ==
  /\ ixRefresh = "idle" /\ ixDefs <= IxMaxRefreshes
  /\ ixDefs' = ixDefs + 1 /\ ixRefresh' = "swapped"
  /\ IxRace(IxIndexers)
  /\ UNCHANGED <<ixRow, ixSecret, ixSolver, ixDropped, ixUpdate, ixEngines, ixCache, ixCall>>

IxDropEngines ==
  /\ ixRefresh = "swapped" /\ ixRefresh' = "idle"
  /\ ixCache' = [i \in IxIndexers |-> 0]
  /\ ixDropped' = [i \in IxIndexers |-> ixSolver]
  /\ IxRace(IxIndexers)
  /\ UNCHANGED <<ixRow, ixSecret, ixDefs, ixSolver, ixUpdate, ixEngines, ixCall>>

\* A new FlareSolverr address is stored with the other settings; the engines stay.
IxChangeAddress ==
  /\ ixSolver <= IxMaxAddresses
  /\ ixSolver' = ixSolver + 1
  /\ UNCHANGED <<ixRow, ixSecret, ixDefs, ixDropped, ixRefresh, ixUpdate, ixEngines, ixCache,
                 ixTask, ixCall>>

-----------------------------------------------------------------------------

IxNext ==
  \/ \E c \in IxCalls : IxSearch(c)
  \/ \E c \in IxFetches : IxFetch(c)
  \/ \E c \in IxEveryCall : IxReturn(c) \/ \E i \in IxIndexers :
       \/ IxSlot(c, i) \/ IxGetEngine(c, i) \/ IxReadDefinition(c, i) \/ IxReadSecrets(c, i)
       \/ IxReadSolver(c, i)
       \/ IxBuildFails(c, i) \/ IxKeepEngine(c, i) \/ IxLock(c, i) \/ IxAsked(c, i) \/ IxSend(c, i)
  \/ \E u \in IxUpdates : IxBeginUpdate(u) \/ IxSaveSecrets(u) \/ IxInvalidate(u) \/ IxSaveRow(u)
                           \/ IxUpdateFails(u)
  \/ IxSwapDefinitions \/ IxDropEngines \/ IxChangeAddress

-----------------------------------------------------------------------------

\* The engine cached for an indexer is built from its settings, its secrets and the definitions
\* as they are, or is about to be dropped, or was on its way while they changed, unless an update
\* that failed said so.  This is about invalidation before the row is saved, and engines built
\* outside the mutex.  It says nothing of the fourth input, the FlareSolverr address: nothing
\* drops an engine when that changes (indexer/service.go:530).
EngineCurrentOrRaced ==
  \A i \in IxIndexers :
    (ixCache[i] # 0 /\ ixRow[i].there) =>
      LET e == ixEngines[ixCache[i]] IN
      \/ e.json = ixRow[i].json /\ e.secret = ixSecret[i] /\ e.defs = ixDefs
      \/ ixRefresh = "swapped"
      \/ \E u \in IxUpdates : ixUpdate[u].of = i /\ ixUpdate[u].pc \in {"invalidate", "failed"}
      \/ e.raced

\* The FlareSolverr address that a cached engine uses is the one stored when the indexer's
\* engine was last dropped, or a later one: an old address outlives any number of searches, but
\* no update of the indexer and no refresh of the definitions.  Exceptions are an engine that
\* was on its way then, and one that was built without an address (indexer/service.go:530).
AddressSinceDrop ==
  \A i \in IxIndexers :
    ixCache[i] # 0 =>
      LET e == ixEngines[ixCache[i]] IN e.solver = 0 \/ e.solver >= ixDropped[i] \/ e.raced

\* An engine's mutex is held by a call that is asking through it, no matter how the call before
\* ended, and a search that returned has counted each of its indexers once.
SearchesAccountedFor ==
  /\ \A e \in DOMAIN ixEngines : \A c \in ixEngines[e].holder :
       \E i \in IxIndexers : ixTask[c][i].pc = "ask" /\ ixTask[c][i].engine = e
  /\ \A c \in IxEveryCall : ixCall[c].pc = "returned" =>
       \A i \in IxIndexers : ixTask[c][i].pc # "none" =>
         IF ixTask[c][i].found THEN i \in ixCall[c].found \ ixCall[c].failed
                               ELSE i \in ixCall[c].failed \ ixCall[c].found

\* Searches use the indexer's settings and the definitions as they are, with a FlareSolverr
\* address no older than the last drop, and end with an outcome for each indexer.
SearchesServe == EngineCurrentOrRaced /\ AddressSinceDrop /\ SearchesAccountedFor
=============================================================================
