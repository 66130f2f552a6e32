------------------------------- MODULE Watched -------------------------------
(***************************************************************************)
(* Lists of what was watched, one for all or one per user, and the         *)
(* activity of an item, where marking and unmarking are told to all or     *)
(* only to the user who did it.  A row remembers what was watched and, if  *)
(* the library has it, the item; the item may be matched to something      *)
(* else, and the setting may change, between any two calls.  Every call    *)
(* is one transaction under a mutex.  A reader takes the activity of an    *)
(* item page by page.                                                      *)
(***************************************************************************)
EXTENDS Naturals, Sequences, FiniteSets

CONSTANTS
  WtUsers, WtItems,
  WtIdentities,   \* source, media type and external id
  WtPageSize,     \* limit
  WtMaxEntries,   \* entries of the activity
  WtNone          \* no item, no match, no user

ASSUME WatchedAssumption ==
  /\ WtNone \notin WtUsers \cup WtItems \cup WtIdentities
  /\ WtUsers \cap WtItems = {}
  /\ WtPageSize \in Nat \ {0} /\ WtMaxEntries \in Nat

VARIABLES
  wtMode,         \* the setting watched_list_mode
  wtAlive,        \* the users and items there are
  wtMatch,        \* of each item, the identity of its metadata, if it has any
  wtRows,         \* the table watched_items: [user, identity, item]
  wtLog,          \* the table media_activity; the place of an entry is its id
  wtReader        \* [pc, viewer, item, before, first, got, again]

wtVars == <<wtMode, wtAlive, wtMatch, wtRows, wtLog, wtReader>>

\* first: what there was to see at the first page; again: what came more than once.
WtIdle == [pc |-> "idle", viewer |-> WtNone, item |-> WtNone, before |-> WtMaxEntries + 1,
           first |-> {}, got |-> {}, again |-> {}]

WtInit ==
  /\ wtMode = "global"
  /\ wtAlive = WtUsers \cup WtItems
  /\ wtMatch = [m \in WtItems |-> WtNone]
  /\ wtRows = {} /\ wtLog = <<>> /\ wtReader = WtIdle

-----------------------------------------------------------------------------
(* The lists                                                               *)

Visibility == IF wtMode = "per_user" THEN "actor_only" ELSE "shared"

\* identity is what the item was at the time.
AppendActivity(item, actor, action, visibility) ==
  /\ Len(wtLog) < WtMaxEntries
  /\ wtLog' = Append(wtLog, [item |-> item, identity |-> wtMatch[item], actor |-> actor,
                             action |-> action, visibility |-> visibility])

Matched(identity) == {m \in WtItems \cap wtAlive : wtMatch[m] = identity}

\* The item given, if it is what was watched; without one, the only item that is.
ResolveMediaItem(identity, given) ==
  IF given # WtNone THEN Matched(identity) \cap {given}
  ELSE IF Cardinality(Matched(identity)) = 1 THEN Matched(identity) ELSE {}

WtCreate(u, identity, given) ==
  LET linked == ResolveMediaItem(identity, given) IN
  /\ u \in wtAlive
  /\ ~\E r \in wtRows : r.identity = identity /\ (wtMode = "per_user" => r.user = u)
  /\ given # WtNone => linked # {}
  /\ \/ /\ linked = {}
        /\ wtRows' = wtRows \cup {[user |-> u, identity |-> identity, item |-> WtNone]}
        /\ UNCHANGED wtLog
     \/ \E m \in linked :
          /\ wtRows' = wtRows \cup {[user |-> u, identity |-> identity, item |-> m]}
          /\ AppendActivity(m, u, "marked", Visibility)
  /\ UNCHANGED <<wtMode, wtAlive, wtMatch, wtReader>>

\* The items of the rows that still are what was watched.
ExactLinks(rows) ==
  {m \in WtItems \cap wtAlive : \E r \in rows : r.item = m /\ wtMatch[m] = r.identity}

\* Mutant: only the row that was given.
UnmarkedAlone(r) == {r}

\* With one list for all, the rows every user has left from a list per user go too.
Unmarked(r) == IF wtMode = "global" THEN {x \in wtRows : x.identity = r.identity} ELSE {r}

WtDelete(u, r) ==
  LET links == ExactLinks(Unmarked(r)) IN
  /\ u \in wtAlive
  /\ wtMode = "per_user" => r.user = u
  /\ wtRows' = wtRows \ Unmarked(r)
  /\ IF Cardinality(links) # 1 THEN UNCHANGED wtLog
     ELSE \E m \in links : AppendActivity(m, u, "unmarked", Visibility)
  /\ UNCHANGED <<wtMode, wtAlive, wtMatch, wtReader>>

WtSetMode ==
  /\ wtMode' \in {"global", "per_user"} \ {wtMode}
  /\ UNCHANGED <<wtAlive, wtMatch, wtRows, wtLog, wtReader>>

\* Matched, matched to something else, or unmatched, which the activity tells everybody.
WtRematch(m, identity) ==
  /\ m \in wtAlive /\ identity # wtMatch[m]
  /\ wtMatch' = [wtMatch EXCEPT ![m] = identity]
  /\ AppendActivity(m, WtNone, "match", "shared")
  /\ UNCHANGED <<wtMode, wtAlive, wtRows, wtReader>>

\* ON DELETE SET NULL of the rows; the entries go with the item.
WtItemDeleted(m) ==
  /\ m \in wtAlive
  /\ wtAlive' = wtAlive \ {m}
  /\ wtRows' = {IF r.item = m THEN [r EXCEPT !.item = WtNone] ELSE r : r \in wtRows}
  /\ UNCHANGED <<wtMode, wtMatch, wtLog, wtReader>>

\* ON DELETE CASCADE of the rows, and SET NULL of the actor.
WtUserDeleted(u) ==
  /\ u \in wtAlive
  /\ wtAlive' = wtAlive \ {u}
  /\ wtRows' = {r \in wtRows : r.user # u}
  /\ wtLog' = [n \in DOMAIN wtLog |->
                 IF wtLog[n].actor = u THEN [wtLog[n] EXCEPT !.actor = WtNone] ELSE wtLog[n]]
  /\ UNCHANGED <<wtMode, wtMatch, wtReader>>

-----------------------------------------------------------------------------
(* Reading the activity                                                    *)

\* The entries about an item that a user may see.
Visible(item, viewer) ==
  {n \in DOMAIN wtLog :
     /\ wtLog[n].item = item /\ item \in wtAlive
     /\ wtLog[n].visibility = "shared" \/ wtLog[n].actor = viewer}

Newest(n, S) == {k \in S : Cardinality({j \in S : j > k}) < n}
Oldest(S) == CHOOSE k \in S : \A j \in S : k <= j

WtOpen(viewer, item) ==
  /\ wtReader.pc = "idle" /\ {viewer, item} \subseteq wtAlive
  /\ wtReader' = [WtIdle EXCEPT !.pc = "reads", !.viewer = viewer, !.item = item,
                                !.first = Visible(item, viewer)]
  /\ UNCHANGED <<wtMode, wtAlive, wtMatch, wtRows, wtLog>>

\* Mutant: the cursor is the entry that was read only to know whether there are more.
WtPageSkips ==
  LET rest == {n \in Visible(wtReader.item, wtReader.viewer) : n < wtReader.before}
      page == Newest(WtPageSize, rest)
  IN
  /\ wtReader.pc = "reads" /\ wtReader.item \in wtAlive
  /\ wtReader' =
       [wtReader EXCEPT
          !.got = @ \cup page, !.again = @ \cup (wtReader.got \cap page),
          !.pc = IF page = rest THEN "done" ELSE @,
          !.before = IF page = rest THEN @ ELSE Oldest(Newest(WtPageSize + 1, rest))]
  /\ UNCHANGED <<wtMode, wtAlive, wtMatch, wtRows, wtLog>>

\* One entry more than the page is read, to know whether there are more; the cursor is the
\* last of the page.
WtPage ==
  LET rest == {n \in Visible(wtReader.item, wtReader.viewer) : n < wtReader.before}
      page == Newest(WtPageSize, rest)
  IN
  /\ wtReader.pc = "reads" /\ wtReader.item \in wtAlive
  /\ wtReader' =
       [wtReader EXCEPT
          !.got = @ \cup page, !.again = @ \cup (wtReader.got \cap page),
          !.pc = IF page = rest THEN "done" ELSE @,
          !.before = IF page = rest THEN @ ELSE Oldest(page)]
  /\ UNCHANGED <<wtMode, wtAlive, wtMatch, wtRows, wtLog>>

WtNext ==
  \/ \E u \in WtUsers, e \in WtIdentities, m \in WtItems \cup {WtNone} : WtCreate(u, e, m)
  \/ \E u \in WtUsers, r \in wtRows : WtDelete(u, r)
  \/ WtSetMode
  \/ \E m \in WtItems, e \in WtIdentities \cup {WtNone} : WtRematch(m, e)
  \/ \E m \in WtItems : WtItemDeleted(m)
  \/ \E u \in WtUsers : WtUserDeleted(u)
  \/ \E u \in WtUsers, m \in WtItems : WtOpen(u, m)
  \/ WtPage

WtSpec == WtInit /\ [][WtNext]_wtVars

-----------------------------------------------------------------------------
(* Properties                                                              *)

\* What the activity tells a user about the watching of an item as something.
Told(u, m, identity) ==
  {n \in Visible(m, u) : /\ wtLog[n].identity = identity
                         /\ wtLog[n].action \in {"marked", "unmarked"}}

LastToldMarked(u, m, identity) ==
  \E n \in Told(u, m, identity) :
    wtLog[n].action = "marked" /\ \A k \in Told(u, m, identity) : k <= n

\* Who has an item in the list reads in its activity that it was marked, and not that it was
\* unmarked since, whatever the setting was in between.  A reader gets what there was at the
\* first page, each entry once, although others are added meanwhile.  This is about rows and
\* entries written under one setting and removed under the other (watched/service.go:170).
HistoryTrue ==
  /\ \A r \in wtRows : r.item # WtNone => LastToldMarked(r.user, r.item, r.identity)
  /\ wtReader.again = {}
  /\ wtReader.pc = "done" =>
       wtReader.first \cap Visible(wtReader.item, wtReader.viewer) \subseteq wtReader.got
=============================================================================
