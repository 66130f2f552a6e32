------------------------- MODULE DownloadLifecycle -------------------------
(***************************************************************************)
(* What the download pipeline promises, without its workers, snapshots,    *)
(* files and torrents: the life of each download row and of the media item *)
(* that owns it.  DownloadPipeline implements this specification.          *)
(*                                                                         *)
(*   - A row moves along Steps, one step at a time, and only while its     *)
(*     item is open.                                                       *)
(*   - Completed work has been linked into the library, unless a user set  *)
(*     the status by hand.                                                 *)
(*   - Deleting an item cancels all of its rows in one step, and removes   *)
(*     all of them in one step together with the item.                     *)
(*   - A single row is removed only from `cancelled', and a cancelled row  *)
(*     comes back to life only by a user's hand.                           *)
(***************************************************************************)
CONSTANTS Downloads, Items, None, UserStatuses

VARIABLES
  status,   \* of each row; "none" before it is created, "deleted" at the end
  owner,    \* the item of each row
  linked,   \* the row's files were linked into the library
  items     \* "open", "deleting" or "gone"

lifeVars == <<status, owner, linked, items>>

\* The steps the workers may take with a row.
Steps ==
  {<<"pending", "downloading">>, <<"pending", "failed">>,
   <<"downloading", "downloaded">>, <<"downloading", "completed">>,
   <<"downloading", "failed">>,
   <<"downloaded", "importing">>,
   <<"importing", "downloaded">>, <<"importing", "import_failed">>,
   <<"importing", "seeding">>, <<"importing", "completed">>,
   <<"seeding", "completed">>}

LifeInit ==
  /\ status = [d \in Downloads |-> "none"]
  /\ owner = [d \in Downloads |-> None]
  /\ linked = [d \in Downloads |-> FALSE]
  /\ items = [i \in Items |-> "open"]

Queue(d, i) ==
  /\ status[d] = "none"
  /\ items[i] = "open"
  /\ status' = [status EXCEPT ![d] = "pending"]
  /\ owner' = [owner EXCEPT ![d] = i]
  /\ UNCHANGED <<linked, items>>

Live(d) == status[d] \notin {"none", "deleted"}

\* An import that succeeds links the row; nothing else completes an unlinked one.
Advance(d, next) ==
  /\ <<status[d], next>> \in Steps
  /\ items[owner[d]] = "open"
  /\ status' = [status EXCEPT ![d] = next]
  /\ IF status[d] = "importing" /\ next \in {"seeding", "completed"}
     THEN linked' = [linked EXCEPT ![d] = TRUE]
     ELSE /\ next = "completed" => linked[d]
          /\ UNCHANGED linked
  /\ UNCHANGED <<owner, items>>

\* A user sets a status by hand.
Override(d, next) ==
  /\ Live(d)
  /\ items[owner[d]] = "open"
  /\ next \in UserStatuses
  /\ status' = [status EXCEPT ![d] = next]
  /\ UNCHANGED <<owner, linked, items>>

Cancel(d) ==
  /\ Live(d)
  /\ status' = [status EXCEPT ![d] = "cancelled"]
  /\ UNCHANGED <<owner, linked, items>>

Remove(d) ==
  /\ status[d] = "cancelled"
  /\ status' = [status EXCEPT ![d] = "deleted"]
  /\ UNCHANGED <<owner, linked, items>>

OwnedBy(i) == {d \in Downloads : Live(d) /\ owner[d] = i}

StartDeletion(i) ==
  /\ items[i] = "open"
  /\ items' = [items EXCEPT ![i] = "deleting"]
  /\ status' = [d \in Downloads |-> IF d \in OwnedBy(i) THEN "cancelled" ELSE status[d]]
  /\ UNCHANGED <<owner, linked>>

FinishDeletion(i) ==
  /\ items[i] = "deleting"
  /\ items' = [items EXCEPT ![i] = "gone"]
  /\ status' = [d \in Downloads |-> IF d \in OwnedBy(i) THEN "deleted" ELSE status[d]]
  /\ UNCHANGED <<owner, linked>>

\* A restart: every interrupted import is queued again, and rows whose torrent is
\* found missing end, as completed if their files were linked before.
Recover ==
  /\ \E lost \in SUBSET {d \in Downloads : status[d] \in {"downloading", "seeding"}} :
       status' = [d \in Downloads |->
                    IF status[d] = "importing" THEN "downloaded"
                    ELSE IF d \notin lost THEN status[d]
                    ELSE IF linked[d] THEN "completed" ELSE "failed"]
  /\ UNCHANGED <<owner, linked, items>>

LifeNext ==
  \/ Recover
  \/ \E d \in Downloads :
       \/ Cancel(d) \/ Remove(d)
       \/ \E i \in Items : Queue(d, i)
       \/ \E next \in {step[2] : step \in Steps} : Advance(d, next)
       \/ \E next \in UserStatuses : Override(d, next)
  \/ \E i \in Items : StartDeletion(i) \/ FinishDeletion(i)

LifeSpec == LifeInit /\ [][LifeNext]_lifeVars
=============================================================================
