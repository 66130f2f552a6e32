------------------------------ MODULE UserProofs -----------------------------
(***************************************************************************)
(* What users do and see: what they watched, their accounts, the searches  *)
(* of an indexer, requests. Each has an invariant of its own.              *)
(***************************************************************************)
EXTENDS Accounts, Monitoring, IndexerSearch, Watched, FiniteSetTheorems, SequenceTheorems,
        WellFoundedInduction, TLAPS

-----------------------------------------------------------------------------
(* What users have watched                                                 *)

Entry == [item : WtItems, identity : WtIdentities \cup {WtNone}, actor : WtUsers \cup {WtNone},
          action : {"marked", "unmarked", "match"}, visibility : {"shared", "actor_only"}]

WtTypeOK ==
  /\ wtMode \in {"global", "per_user"}
  /\ wtAlive \subseteq WtUsers \cup WtItems
  /\ wtMatch \in [WtItems -> WtIdentities \cup {WtNone}]
  /\ wtRows \subseteq [user : WtUsers, identity : WtIdentities, item : WtItems \cup {WtNone}]
  /\ wtLog \in Seq(Entry) /\ Len(wtLog) <= WtMaxEntries
  /\ wtReader \in [pc : {"idle", "reads", "done"}, viewer : WtUsers \cup {WtNone},
                   item : WtItems \cup {WtNone}, before : Nat, first : SUBSET Nat,
                   got : SUBSET Nat, again : SUBSET Nat]

\* A user has one row of what was watched: its removal leaves no other that the activity
\* would belie.
OneRow == \A r, q \in wtRows : r.user = q.user /\ r.identity = q.identity => r = q

\* What HistoryTrue says of rows.
RowsTold == \A r \in wtRows : r.item # WtNone => LastToldMarked(r.user, r.item, r.identity)

\* What is not before the cursor has been read, and nothing else.
ReaderInv ==
  /\ wtReader.pc = "idle" => wtReader = WtIdle
  /\ wtReader.pc # "idle" => wtReader.viewer \in WtUsers
  /\ wtReader.first \subseteq DOMAIN wtLog /\ wtReader.again = {}
  /\ wtReader.pc = "reads" =>
       /\ \A n \in wtReader.got : wtReader.before <= n
       /\ \A n \in wtReader.first \cap Visible(wtReader.item, wtReader.viewer) :
            wtReader.before <= n => n \in wtReader.got
  /\ wtReader.pc = "done" =>
       wtReader.first \cap Visible(wtReader.item, wtReader.viewer) \subseteq wtReader.got

WtInv == WtTypeOK /\ OneRow /\ RowsTold /\ ReaderInv

-----------------------------------------------------------------------------
(* Entries that are added                                                  *)

\* Adding an entry changes what is told by that entry, if it is told at all.
LEMMA AppendTold ==
  ASSUME WtTypeOK, NEW x \in Entry, wtLog' = Append(wtLog, x), wtAlive' = wtAlive,
         NEW u, NEW m, NEW identity
  PROVE  /\ Visible(m, u)' \cap DOMAIN wtLog = Visible(m, u)
         /\ DOMAIN wtLog \subseteq DOMAIN wtLog'
         /\ LastToldMarked(u, m, identity) =>
              \/ LastToldMarked(u, m, identity)'
              \/ /\ x.item = m /\ x.identity = identity /\ x.action = "unmarked"
                 /\ x.visibility = "shared" \/ x.actor = u
         /\ /\ x.item = m /\ m \in wtAlive /\ x.identity = identity /\ x.action = "marked"
            /\ x.visibility = "shared" \/ x.actor = u
            => LastToldMarked(u, m, identity)'
<1> DEFINE last == Len(wtLog) + 1
<1>1. /\ wtLog \in Seq(Entry) /\ Len(wtLog) \in Nat
      /\ DOMAIN wtLog = 1..Len(wtLog) /\ DOMAIN wtLog' = 1..last
      /\ wtLog'[last] = x /\ \A n \in DOMAIN wtLog : wtLog'[n] = wtLog[n] /\ n # last
  BY DEF WtTypeOK
<1>2. \A n \in DOMAIN wtLog : n \in Visible(m, u)' <=> n \in Visible(m, u)
  BY <1>1 DEF Visible
<1>3. Visible(m, u)' \cap DOMAIN wtLog = Visible(m, u)
  BY <1>2 DEF Visible
<1>4. \A n \in DOMAIN wtLog : n \in Told(u, m, identity)' <=> n \in Told(u, m, identity)
  BY <1>1, <1>2 DEF Told
<1>5. /\ Told(u, m, identity) \subseteq DOMAIN wtLog
      /\ Told(u, m, identity)' \subseteq DOMAIN wtLog \cup {last}
  BY <1>1 DEF Told, Visible
<1>6. last \in Told(u, m, identity)' <=>
        /\ x.item = m /\ m \in wtAlive /\ x.identity = identity
        /\ x.action \in {"marked", "unmarked"}
        /\ x.visibility = "shared" \/ x.actor = u
  BY <1>1 DEF Told, Visible
<1>7. ASSUME x.action = "marked", last \in Told(u, m, identity)'
      PROVE  LastToldMarked(u, m, identity)'
  <2>1. \A k \in Told(u, m, identity)' : k <= last
    BY <1>1, <1>5
  <2>2. wtLog'[last].action = "marked"
    BY <1>1, <1>7
  <2> QED BY <1>7, <2>1, <2>2 DEF LastToldMarked
<1>8. ASSUME LastToldMarked(u, m, identity), last \notin Told(u, m, identity)'
      PROVE  LastToldMarked(u, m, identity)'
  <2>1. Told(u, m, identity)' = Told(u, m, identity)
    BY <1>4, <1>5, <1>8
  <2>2. PICK n \in Told(u, m, identity) :
          wtLog[n].action = "marked" /\ \A k \in Told(u, m, identity) : k <= n
    BY <1>8 DEF LastToldMarked
  <2>3. wtLog'[n].action = "marked"
    BY <1>1, <1>5, <2>2
  <2> QED BY <2>1, <2>2, <2>3 DEF LastToldMarked
<1> QED BY <1>1, <1>3, <1>6, <1>7, <1>8

\* An entry that tells nobody of an unmarking leaves all rows told.
LEMMA RowsStayTold ==
  ASSUME WtTypeOK, RowsTold, NEW x \in Entry, wtLog' = Append(wtLog, x), wtAlive' = wtAlive,
         NEW r \in wtRows, r.item # WtNone,
         ~(/\ x.item = r.item /\ x.identity = r.identity /\ x.action = "unmarked"
           /\ x.visibility = "shared" \/ x.actor = r.user)
  PROVE  LastToldMarked(r.user, r.item, r.identity)'
<1>1. LastToldMarked(r.user, r.item, r.identity)
  BY DEF RowsTold
<1> DEFINE u == r.user
           m == r.item
           identity == r.identity
<1> HIDE DEF u, m, identity
<1>2. LastToldMarked(u, m, identity) =>
        \/ LastToldMarked(u, m, identity)'
        \/ /\ x.item = m /\ x.identity = identity /\ x.action = "unmarked"
           /\ x.visibility = "shared" \/ x.actor = u
  BY AppendTold
<1> QED BY <1>1, <1>2 DEF u, m, identity

\* A reader keeps what it has, and needs no more, when entries are added or hidden.
LEMMA ReaderUndisturbed ==
  ASSUME ReaderInv, wtReader' = wtReader, DOMAIN wtLog \subseteq DOMAIN wtLog',
         \A m, u : u \in WtUsers => Visible(m, u)' \cap DOMAIN wtLog \subseteq Visible(m, u)
  PROVE  ReaderInv'
<1>1. wtReader.first \subseteq DOMAIN wtLog /\ wtReader.first \subseteq DOMAIN wtLog'
  BY DEF ReaderInv
<1>2. CASE wtReader.pc = "idle"
  BY <1>1, <1>2 DEF ReaderInv
<1>3. CASE wtReader.pc # "idle"
  <2>1. PICK m, u : m = wtReader.item /\ u = wtReader.viewer
    OBVIOUS
  <2>2. /\ Visible(wtReader.item, wtReader.viewer) = Visible(m, u)
        /\ Visible(wtReader.item, wtReader.viewer)' = Visible(m, u)'
    BY <2>1 DEF Visible
  <2>3. u \in WtUsers
    BY <1>3, <2>1 DEF ReaderInv
  <2>4. (wtReader.first \cap Visible(wtReader.item, wtReader.viewer))'
          \subseteq wtReader.first \cap Visible(wtReader.item, wtReader.viewer)
    BY <1>1, <2>2, <2>3
  <2> QED BY <1>1, <1>3, <2>4 DEF ReaderInv
<1> QED BY <1>2, <1>3

-----------------------------------------------------------------------------
(* Pages                                                                   *)

LEMMA Least ==
  ASSUME NEW T, T \subseteq Nat, T # {}
  PROVE  \E x \in T : \A y \in T : x <= y
<1>1. \E x \in T : \A y \in T : ~(<<y, x>> \in OpToRel(<, Nat))
  BY NatLessThanWellFounded, WFMin
<1>2. \A x, y \in Nat : ~(<<y, x>> \in OpToRel(<, Nat)) => x <= y
  BY DEF OpToRel
<1> QED BY <1>1, <1>2

\* A page is the end of what is left: what is newer than an entry of it is in it.
LEMMA PageIsNewest ==
  ASSUME NEW n \in Nat, NEW top \in Nat, NEW rest, rest \subseteq 1..top,
         NEW k \in Newest(n, rest), NEW j \in rest, k <= j
  PROVE  j \in Newest(n, rest)
<1> DEFINE Later(i) == {x \in rest : x > i}
<1>1. k \in Nat /\ j \in Nat /\ rest \subseteq Nat /\ k \in rest
  BY DEF Newest
<1>2. Later(j) \subseteq Later(k)
  <2> SUFFICES ASSUME NEW x \in rest, x > j PROVE x > k OBVIOUS
  <2> QED BY <1>1
<1>3. IsFiniteSet(rest) /\ IsFiniteSet(Later(k))
  <2>1. IsFiniteSet(1..top)
    BY FS_Interval
  <2>2. IsFiniteSet(rest)
    BY <2>1, FS_Subset
  <2>3. Later(k) \subseteq rest
    OBVIOUS
  <2> QED BY <2>2, <2>3, FS_Subset
<1>4. /\ Cardinality(Later(j)) \in Nat /\ Cardinality(Later(k)) \in Nat
      /\ Cardinality(Later(j)) <= Cardinality(Later(k))
  BY <1>2, <1>3, FS_Subset, FS_CardinalityType
<1>5. Cardinality(Later(k)) < n
  BY DEF Newest
<1> QED BY <1>4, <1>5 DEF Newest

\* A page is empty only if nothing is left.
LEMMA PageNotEmpty ==
  ASSUME NEW n \in Nat \ {0}, NEW top \in Nat, NEW rest, rest \subseteq 1..top, rest # {}
  PROVE  Newest(n, rest) # {}
<1> DEFINE T == {top - k : k \in rest}
<1>1. rest \subseteq Nat /\ \A k \in rest : k <= top /\ top - k \in Nat
  OBVIOUS
<1>2. T \subseteq Nat /\ T # {}
  BY <1>1
<1>3. PICK x \in T : \A y \in T : x <= y
  <2> HIDE DEF T
  <2> QED BY <1>2, Least
<1>4. PICK k \in rest : x = top - k
  OBVIOUS
<1>5. \A j \in rest : ~(j > k)
  <2> SUFFICES ASSUME NEW j \in rest PROVE ~(j > k) OBVIOUS
  <2>1. top - k <= top - j
    BY <1>3, <1>4
  <2> QED BY <1>1, <2>1
<1>6. {j \in rest : j > k} = {}
  BY <1>5
<1>7. Cardinality({j \in rest : j > k}) < n
  BY <1>6, FS_EmptySet
<1> QED BY <1>7 DEF Newest

\* The next page brings nothing twice, and leaves nothing out that is not before its cursor.
LEMMA PageReads == WtTypeOK /\ ReaderInv /\ WtPage => ReaderInv'
<1> SUFFICES ASSUME WtTypeOK, ReaderInv, WtPage PROVE ReaderInv' OBVIOUS
<1> USE WatchedAssumption
<1> DEFINE seen == Visible(wtReader.item, wtReader.viewer)
           rest == {n \in seen : n < wtReader.before}
           page == Newest(WtPageSize, rest)
<1>1. /\ wtReader.pc = "reads" /\ wtReader.before \in Nat /\ wtReader.got \subseteq Nat
      /\ Len(wtLog) \in Nat /\ DOMAIN wtLog = 1..Len(wtLog)
      /\ seen \subseteq DOMAIN wtLog
  BY DEF WtPage, WtTypeOK, Visible
<1>2. /\ wtReader'.got = wtReader.got \cup page
      /\ wtReader'.again = wtReader.again \cup (wtReader.got \cap page)
      /\ wtReader'.pc = IF page = rest THEN "done" ELSE "reads"
      /\ wtReader'.before = IF page = rest THEN wtReader.before ELSE Oldest(page)
      /\ wtReader'.viewer = wtReader.viewer /\ wtReader'.item = wtReader.item
      /\ wtReader'.first = wtReader.first
  BY <1>1 DEF WtPage, WtTypeOK
<1>3. wtLog' = wtLog /\ Visible(wtReader.item, wtReader.viewer)' = seen
  <2>1. wtLog' = wtLog /\ wtAlive' = wtAlive
    BY DEF WtPage
  <2> QED BY <1>2, <2>1 DEF Visible
<1>4. page \subseteq rest /\ rest \subseteq 1..Len(wtLog)
  BY <1>1 DEF Newest
<1>5. wtReader.got \cap page = {}
  BY <1>1, <1>4 DEF ReaderInv
<1>6. CASE page = rest
  <2>1. wtReader.first \cap seen \subseteq wtReader.got \cup page
    <3> SUFFICES ASSUME NEW n \in wtReader.first \cap seen, n \notin rest
                 PROVE  n \in wtReader.got
      BY <1>6
    <3>1. wtReader.before <= n
      BY <1>1
    <3> QED BY <1>1, <3>1 DEF ReaderInv
  <2> HIDE DEF seen, page
  <2> QED BY <1>1, <1>2, <1>3, <1>5, <1>6, <2>1 DEF ReaderInv
<1>7. CASE page # rest
  <2>1. page # {} /\ page \subseteq Nat
    <3>1. rest # {} /\ WtPageSize \in Nat \ {0}
      BY <1>4, <1>7
    <3>2. page # {}
      <4> HIDE DEF rest
      <4> QED BY <1>1, <1>4, <3>1, PageNotEmpty, Zenon
    <3>3. 1..Len(wtLog) \subseteq Nat
      BY <1>1
    <3> HIDE DEF page, rest, seen
    <3> QED BY <1>4, <3>2, <3>3, Zenon
  <2>2. Oldest(page) \in page /\ \A j \in page : Oldest(page) <= j
    <3> HIDE DEF page
    <3>1. \E x \in page : \A j \in page : x <= j
      BY <2>1, Least
    <3> QED BY <3>1 DEF Oldest
  <2>3. Oldest(page) \in Nat /\ Oldest(page) < wtReader.before
    BY <1>1, <1>4, <2>1, <2>2
  <2>4. \A n \in wtReader.got \cup page : Oldest(page) <= n
    <3> SUFFICES ASSUME NEW n \in wtReader.got PROVE Oldest(page) <= n
      BY <2>2
    <3>1. n \in Nat /\ wtReader.before <= n
      BY <1>1 DEF ReaderInv
    <3> HIDE DEF page
    <3> QED BY <1>1, <2>3, <3>1
  <2>5. \A n \in wtReader.first \cap seen : Oldest(page) <= n => n \in wtReader.got \cup page
    <3> SUFFICES ASSUME NEW n \in wtReader.first \cap seen, Oldest(page) <= n, n \notin wtReader.got
                 PROVE  n \in page
      OBVIOUS
    <3>1. ~(wtReader.before <= n) /\ n \in Nat
      BY <1>1 DEF ReaderInv
    <3>2. n \in rest
      BY <1>1, <3>1
    <3> HIDE DEF rest
    <3> QED BY <1>1, <1>4, <2>2, <3>2, PageIsNewest
  <2> HIDE DEF seen, page
  <2> QED BY <1>1, <1>2, <1>3, <1>5, <1>7, <2>4, <2>5 DEF ReaderInv
<1> QED BY <1>6, <1>7

-----------------------------------------------------------------------------
(* The invariant                                                           *)

LEMMA WtInitially == WtInit => WtInv
<1> SUFFICES ASSUME WtInit PROVE WtInv OBVIOUS
<1> USE WatchedAssumption
<1>1. WtTypeOK
  BY DEF WtInit, WtTypeOK, WtIdle
<1>2. OneRow /\ RowsTold
  BY DEF WtInit, OneRow, RowsTold
<1>3. ReaderInv
  BY DEF WtInit, WtIdle, ReaderInv
<1> QED BY <1>1, <1>2, <1>3 DEF WtInv

\* What every entry that is added must be, and where.
LEMMA Appends ==
  ASSUME WtTypeOK, NEW m \in WtItems, NEW u \in WtUsers \cup {WtNone},
         NEW action \in {"marked", "unmarked", "match"}, NEW v \in {"shared", "actor_only"},
         AppendActivity(m, u, action, v)
  PROVE  \E x \in Entry :
           /\ x.item = m /\ x.identity = wtMatch[m] /\ x.actor = u
           /\ x.action = action /\ x.visibility = v
           /\ wtLog' = Append(wtLog, x)
           /\ wtLog' \in Seq(Entry) /\ Len(wtLog') <= WtMaxEntries
<1> USE WatchedAssumption
<1> DEFINE x == [item |-> m, identity |-> wtMatch[m], actor |-> u, action |-> action, visibility |-> v]
<1>1. x \in Entry
  BY DEF WtTypeOK, Entry
<1>2. wtLog' = Append(wtLog, x) /\ Len(wtLog) < WtMaxEntries
  BY DEF AppendActivity
<1>3. wtLog' \in Seq(Entry) /\ Len(wtLog') <= WtMaxEntries
  <2> HIDE DEF x
  <2> QED BY <1>1, <1>2 DEF WtTypeOK
<1> QED BY <1>1, <1>2, <1>3

\* A step that adds an entry leaves readers undisturbed.
LEMMA AppendsUndisturbed ==
  ASSUME WtTypeOK, ReaderInv, wtReader' = wtReader, wtAlive' = wtAlive,
         NEW x \in Entry, wtLog' = Append(wtLog, x)
  PROVE  ReaderInv'
<1>1. \A m, u : Visible(m, u)' \cap DOMAIN wtLog \subseteq Visible(m, u)
  BY AppendTold
<1>2. DOMAIN wtLog \subseteq DOMAIN wtLog'
  BY DEF WtTypeOK
<1> QED BY <1>1, <1>2, ReaderUndisturbed

\* A step that changes neither entries nor who is there leaves what is told as it is.
LEMMA SameTold ==
  ASSUME wtLog' = wtLog, wtAlive' = wtAlive
  PROVE  /\ \A u, m, identity : LastToldMarked(u, m, identity)' <=> LastToldMarked(u, m, identity)
         /\ ReaderInv /\ wtReader' = wtReader => ReaderInv'
<1>1. \A u, m : Visible(m, u)' = Visible(m, u)
  BY DEF Visible
<1>2. \A u, m, identity : Told(u, m, identity)' = Told(u, m, identity)
  BY <1>1 DEF Told
<1>3. \A u, m, identity : LastToldMarked(u, m, identity)' <=> LastToldMarked(u, m, identity)
  BY <1>2 DEF LastToldMarked
<1> QED BY <1>1, <1>3, ReaderUndisturbed

LEMMA CreateKeeps ==
  ASSUME WtInv, NEW u \in WtUsers, NEW identity \in WtIdentities,
         NEW given \in WtItems \cup {WtNone}, WtCreate(u, identity, given)
  PROVE  WtInv'
<1> USE WatchedAssumption
<1>1. /\ WtTypeOK /\ OneRow /\ RowsTold /\ ReaderInv
      /\ wtReader' = wtReader /\ wtAlive' = wtAlive /\ wtMode' = wtMode /\ wtMatch' = wtMatch
      /\ ~\E r \in wtRows : r.user = u /\ r.identity = identity
  BY DEF WtInv, WtCreate
<1>2. ASSUME NEW row, row.user = u, row.identity = identity, wtRows' = wtRows \cup {row}
      PROVE  OneRow'
  BY <1>1, <1>2 DEF OneRow
<1>3. CASE wtRows' = wtRows \cup {[user |-> u, identity |-> identity, item |-> WtNone]}
           /\ wtLog' = wtLog
  <2>1. WtTypeOK'
    BY <1>1, <1>3 DEF WtTypeOK
  <2>2. RowsTold'
    BY <1>1, <1>3, SameTold DEF RowsTold
  <2> QED BY <1>1, <1>2, <1>3, <2>1, <2>2, SameTold DEF WtInv
<1>4. ASSUME NEW m \in ResolveMediaItem(identity, given),
             wtRows' = wtRows \cup {[user |-> u, identity |-> identity, item |-> m]},
             AppendActivity(m, u, "marked", Visibility)
      PROVE  WtInv'
  <2>1. m \in WtItems /\ m \in wtAlive /\ wtMatch[m] = identity
    BY <1>4 DEF ResolveMediaItem, Matched
  <2>2. Visibility \in {"shared", "actor_only"}
    BY DEF Visibility
  <2>3. PICK x \in Entry :
          /\ x.item = m /\ x.identity = identity /\ x.actor = u /\ x.action = "marked"
          /\ wtLog' = Append(wtLog, x) /\ wtLog' \in Seq(Entry) /\ Len(wtLog') <= WtMaxEntries
    BY <1>1, <1>4, <2>1, <2>2, Appends
  <2>4. WtTypeOK'
    BY <1>1, <1>4, <2>1, <2>3 DEF WtTypeOK
  <2>5. RowsTold'
    <3> SUFFICES ASSUME NEW r \in wtRows', r.item # WtNone
                 PROVE  LastToldMarked(r.user, r.item, r.identity)'
      BY DEF RowsTold
    <3>1. CASE r \in wtRows
      BY <1>1, <2>3, <3>1, RowsStayTold
    <3>2. CASE r = [user |-> u, identity |-> identity, item |-> m]
      <4>1. LastToldMarked(u, m, identity)'
        BY <1>1, <2>1, <2>3, AppendTold
      <4> QED BY <3>2, <4>1
    <3> QED BY <1>4, <3>1, <3>2
  <2>6. ReaderInv'
    BY <1>1, <2>3, AppendsUndisturbed
  <2> QED BY <1>2, <1>4, <2>4, <2>5, <2>6 DEF WtInv
<1> QED BY <1>3, <1>4 DEF WtCreate

LEMMA DeleteKeeps ==
  ASSUME WtInv, NEW u \in WtUsers, NEW r \in wtRows, WtDelete(u, r)
  PROVE  WtInv'
<1> USE WatchedAssumption
<1>1. /\ WtTypeOK /\ OneRow /\ RowsTold /\ ReaderInv
      /\ wtReader' = wtReader /\ wtAlive' = wtAlive /\ wtMode' = wtMode /\ wtMatch' = wtMatch
      /\ wtMode = "per_user" => r.user = u
      /\ wtRows' = wtRows \ Unmarked(r)
  BY DEF WtInv, WtDelete
<1>2. OneRow'
  BY <1>1 DEF OneRow
<1>3. CASE wtLog' = wtLog
  <2>1. WtTypeOK' /\ RowsTold'
    BY <1>1, <1>3, SameTold DEF WtTypeOK, RowsTold
  <2> QED BY <1>1, <1>2, <1>3, <2>1, SameTold DEF WtInv
<1>4. ASSUME NEW m \in ExactLinks(Unmarked(r)), AppendActivity(m, u, "unmarked", Visibility)
      PROVE  WtInv'
  <2>1. m \in WtItems /\ m \in wtAlive /\ wtMatch[m] = r.identity
    BY <1>4 DEF ExactLinks, Unmarked
  <2>2. Visibility = IF wtMode = "per_user" THEN "actor_only" ELSE "shared"
    BY DEF Visibility
  <2>3. PICK x \in Entry :
          /\ x.item = m /\ x.identity = r.identity /\ x.actor = u /\ x.visibility = Visibility
          /\ wtLog' = Append(wtLog, x) /\ wtLog' \in Seq(Entry) /\ Len(wtLog') <= WtMaxEntries
    BY <1>1, <1>4, <2>1, <2>2, Appends
  <2>4. WtTypeOK'
    BY <1>1, <2>3 DEF WtTypeOK
  <2>5. RowsTold'
    <3> SUFFICES ASSUME NEW q \in wtRows', q.item # WtNone
                 PROVE  LastToldMarked(q.user, q.item, q.identity)'
      BY DEF RowsTold
    <3>1. q \in wtRows /\ q \notin Unmarked(r)
      BY <1>1
    \* With one list, the row would have gone; with a list per user, it is of another user.
    <3>2. ~(x.identity = q.identity /\ (x.visibility = "shared" \/ x.actor = q.user))
      <4>1. CASE wtMode = "global"
        BY <2>3, <3>1, <4>1 DEF Unmarked
      <4>2. CASE wtMode = "per_user"
        <5>1. q # r /\ r.user = u
          BY <1>1, <3>1, <4>2 DEF Unmarked
        <5> QED BY <1>1, <2>2, <2>3, <3>1, <4>2, <5>1 DEF OneRow
      <4> QED BY <1>1, <4>1, <4>2 DEF WtTypeOK
    <3> QED BY <1>1, <2>3, <3>1, <3>2, RowsStayTold
  <2>6. ReaderInv'
    BY <1>1, <2>3, AppendsUndisturbed
  <2> QED BY <1>2, <2>4, <2>5, <2>6 DEF WtInv
<1> QED BY <1>3, <1>4 DEF WtDelete

LEMMA RematchKeeps ==
  ASSUME WtInv, NEW m \in WtItems, NEW identity \in WtIdentities \cup {WtNone},
         WtRematch(m, identity)
  PROVE  WtInv'
<1> USE WatchedAssumption
<1>1. /\ WtTypeOK /\ OneRow /\ RowsTold /\ ReaderInv
      /\ wtReader' = wtReader /\ wtAlive' = wtAlive /\ wtMode' = wtMode /\ wtRows' = wtRows
      /\ wtMatch' = [wtMatch EXCEPT ![m] = identity]
      /\ AppendActivity(m, WtNone, "match", "shared")
  BY DEF WtInv, WtRematch
<1>2. PICK x \in Entry :
        /\ x.action = "match"
        /\ wtLog' = Append(wtLog, x) /\ wtLog' \in Seq(Entry) /\ Len(wtLog') <= WtMaxEntries
  BY <1>1, Appends
<1>3. WtTypeOK'
  BY <1>1, <1>2 DEF WtTypeOK
<1>4. OneRow' /\ RowsTold'
  BY <1>1, <1>2, RowsStayTold DEF OneRow, RowsTold
<1>5. ReaderInv'
  BY <1>1, <1>2, AppendsUndisturbed
<1> QED BY <1>3, <1>4, <1>5 DEF WtInv

\* What is told about the other items stays.
LEMMA ItemDeletedKeeps ==
  ASSUME WtInv, NEW m \in WtItems, WtItemDeleted(m)
  PROVE  WtInv'
<1> USE WatchedAssumption
<1>1. /\ WtTypeOK /\ OneRow /\ RowsTold /\ ReaderInv
      /\ wtReader' = wtReader /\ wtAlive' = wtAlive \ {m} /\ wtLog' = wtLog
      /\ wtMode' = wtMode /\ wtMatch' = wtMatch
  BY DEF WtInv, WtItemDeleted
<1>2. ASSUME NEW q \in wtRows'
      PROVE  \E r \in wtRows : /\ q.user = r.user /\ q.identity = r.identity
                               /\ q = [r EXCEPT !.item = WtNone] \/ q = r
                               /\ q.item = WtNone \/ (q = r /\ q.item # m)
  <2>1. PICK r \in wtRows : q = IF r.item = m THEN [r EXCEPT !.item = WtNone] ELSE r
    BY DEF WtItemDeleted
  <2>2. r \in [user : WtUsers, identity : WtIdentities, item : WtItems \cup {WtNone}]
    BY <1>1 DEF WtTypeOK
  <2> QED BY <2>1, <2>2
<1>3. WtTypeOK'
  <2>1. wtRows' \subseteq [user : WtUsers, identity : WtIdentities, item : WtItems \cup {WtNone}]
    BY <1>1, <1>2 DEF WtTypeOK
  <2> QED BY <1>1, <2>1 DEF WtTypeOK
<1>4. OneRow'
  BY <1>1 DEF OneRow, WtItemDeleted, WtTypeOK
<1>5. \A i, u : i # m => Visible(i, u)' = Visible(i, u)
  BY <1>1 DEF Visible
<1>6. RowsTold'
  <2> SUFFICES ASSUME NEW q \in wtRows', q.item # WtNone
               PROVE  LastToldMarked(q.user, q.item, q.identity)'
    BY DEF RowsTold
  <2>1. q \in wtRows /\ q.item # m
    BY <1>2
  <2>2. Told(q.user, q.item, q.identity)' = Told(q.user, q.item, q.identity)
    BY <1>1, <1>5, <2>1 DEF Told
  <2> QED BY <1>1, <2>1, <2>2 DEF RowsTold, LastToldMarked
<1>7. ReaderInv'
  <2>1. \A i, u : Visible(i, u)' \subseteq Visible(i, u)
    BY <1>1 DEF Visible
  <2> QED BY <1>1, <2>1, ReaderUndisturbed
<1> QED BY <1>3, <1>4, <1>6, <1>7 DEF WtInv

\* What is told to the other users stays.
LEMMA UserDeletedKeeps ==
  ASSUME WtInv, NEW d \in WtUsers, WtUserDeleted(d)
  PROVE  WtInv'
<1> USE WatchedAssumption
<1>1. /\ WtTypeOK /\ OneRow /\ RowsTold /\ ReaderInv
      /\ wtReader' = wtReader /\ wtAlive' = wtAlive \ {d}
      /\ wtMode' = wtMode /\ wtMatch' = wtMatch
      /\ wtRows' = {r \in wtRows : r.user # d}
  BY DEF WtInv, WtUserDeleted
<1>2. /\ wtLog' \in Seq(Entry) /\ Len(wtLog') = Len(wtLog) /\ DOMAIN wtLog' = DOMAIN wtLog
      /\ \A n \in DOMAIN wtLog :
           /\ wtLog'[n].item = wtLog[n].item /\ wtLog'[n].identity = wtLog[n].identity
           /\ wtLog'[n].action = wtLog[n].action
           /\ wtLog'[n].visibility = wtLog[n].visibility
           /\ \A u \in WtUsers : u # d => (wtLog'[n].actor = u <=> wtLog[n].actor = u)
           /\ \A u \in WtUsers : wtLog'[n].actor = u => wtLog[n].actor = u
  <2>1. wtLog' = [n \in 1..Len(wtLog) |->
                    IF wtLog[n].actor = d THEN [wtLog[n] EXCEPT !.actor = WtNone] ELSE wtLog[n]]
    BY <1>1 DEF WtUserDeleted, WtTypeOK
  <2>2. Len(wtLog) \in Nat /\ \A n \in 1..Len(wtLog) : wtLog[n] \in Entry
    BY <1>1 DEF WtTypeOK
  <2>3. \A n \in 1..Len(wtLog) :
          (IF wtLog[n].actor = d THEN [wtLog[n] EXCEPT !.actor = WtNone] ELSE wtLog[n]) \in Entry
    BY <2>2 DEF Entry
  <2>4. wtLog' \in Seq(Entry) /\ Len(wtLog') = Len(wtLog)
    BY <2>1, <2>2, <2>3
  <2>5. DOMAIN wtLog = 1..Len(wtLog)
    BY <1>1 DEF WtTypeOK
  <2> QED BY <2>1, <2>2, <2>4, <2>5 DEF Entry
<1>3. \A m, u : u \in WtUsers /\ u # d => Visible(m, u)' = Visible(m, u)
  <2> SUFFICES ASSUME NEW m, NEW u \in WtUsers, u # d PROVE Visible(m, u)' = Visible(m, u)
    OBVIOUS
  <2>1. m \in wtAlive' /\ (\E n \in DOMAIN wtLog : wtLog[n].item = m) <=>
          m \in wtAlive /\ (\E n \in DOMAIN wtLog : wtLog[n].item = m)
    <3>1. \A n \in DOMAIN wtLog : wtLog[n].item \in WtItems
      <4>1. \A n \in DOMAIN wtLog : wtLog[n] \in Entry
        BY <1>1 DEF WtTypeOK
      <4> QED BY <4>1 DEF Entry
    <3> QED BY <1>1, <3>1
  <2> QED BY <1>2, <2>1 DEF Visible
<1>4. \A m, u : u \in WtUsers => Visible(m, u)' \subseteq Visible(m, u)
  BY <1>1, <1>2 DEF Visible
<1>5. WtTypeOK'
  BY <1>1, <1>2 DEF WtTypeOK
<1>6. RowsTold'
  <2> SUFFICES ASSUME NEW r \in wtRows', r.item # WtNone
               PROVE  LastToldMarked(r.user, r.item, r.identity)'
    BY DEF RowsTold
  <2>1. r \in wtRows /\ r.user \in WtUsers /\ r.user # d
    BY <1>1 DEF WtTypeOK
  <2>2. Visible(r.item, r.user)' = Visible(r.item, r.user)
    BY <1>3, <2>1
  <2>3. Visible(r.item, r.user) \subseteq DOMAIN wtLog
    BY DEF Visible
  <2>4. Told(r.user, r.item, r.identity)' = Told(r.user, r.item, r.identity)
    BY <1>2, <2>2, <2>3 DEF Told
  <2>5. Told(r.user, r.item, r.identity) \subseteq DOMAIN wtLog
    BY <2>3 DEF Told
  <2>6. LastToldMarked(r.user, r.item, r.identity)
    BY <1>1, <2>1 DEF RowsTold
  <2> QED BY <1>2, <2>4, <2>5, <2>6 DEF LastToldMarked
<1>7. OneRow' /\ ReaderInv'
  BY <1>1, <1>2, <1>4, ReaderUndisturbed DEF OneRow
<1> QED BY <1>5, <1>6, <1>7 DEF WtInv

LEMMA OpenKeeps ==
  ASSUME WtInv, NEW u \in WtUsers, NEW m \in WtItems, WtOpen(u, m)
  PROVE  WtInv'
<1> USE WatchedAssumption
<1>1. /\ WtTypeOK /\ OneRow /\ RowsTold
      /\ wtAlive' = wtAlive /\ wtLog' = wtLog /\ wtMode' = wtMode /\ wtMatch' = wtMatch
      /\ wtRows' = wtRows
      /\ wtReader' = [WtIdle EXCEPT !.pc = "reads", !.viewer = u, !.item = m, !.first = Visible(m, u)]
  BY DEF WtInv, WtOpen
<1>2. /\ wtReader'.pc = "reads" /\ wtReader'.viewer = u /\ wtReader'.item = m
      /\ wtReader'.first = Visible(m, u) /\ wtReader'.before = WtMaxEntries + 1
      /\ wtReader'.got = {} /\ wtReader'.again = {}
  BY <1>1 DEF WtIdle
<1>3. Visible(m, u) \subseteq DOMAIN wtLog /\ DOMAIN wtLog = 1..Len(wtLog)
  BY <1>1 DEF Visible, WtTypeOK
<1>4. WtTypeOK'
  <2>1. Visible(m, u) \in SUBSET Nat
    BY <1>3
  <2>2. wtReader' = [pc |-> "reads", viewer |-> u, item |-> m, before |-> WtMaxEntries + 1,
                     first |-> Visible(m, u), got |-> {}, again |-> {}]
    BY <1>1 DEF WtIdle
  <2> QED BY <1>1, <2>1, <2>2 DEF WtTypeOK
<1>5. OneRow' /\ RowsTold'
  BY <1>1, SameTold DEF OneRow, RowsTold
<1>6. \A n \in DOMAIN wtLog : ~(WtMaxEntries + 1 <= n)
  BY <1>1, <1>3 DEF WtTypeOK
<1>7. ReaderInv'
  BY <1>1, <1>2, <1>3, <1>6 DEF ReaderInv
<1> QED BY <1>4, <1>5, <1>7 DEF WtInv

LEMMA PageKeeps == WtInv /\ WtPage => WtInv'
<1> SUFFICES ASSUME WtInv, WtPage PROVE WtInv' OBVIOUS
<1> USE WatchedAssumption
<1>1. /\ WtTypeOK /\ OneRow /\ RowsTold /\ ReaderInv
      /\ wtAlive' = wtAlive /\ wtLog' = wtLog /\ wtMode' = wtMode /\ wtMatch' = wtMatch
      /\ wtRows' = wtRows
  BY DEF WtInv, WtPage
<1>2. WtTypeOK'
  <2> DEFINE rest == {n \in Visible(wtReader.item, wtReader.viewer) : n < wtReader.before}
             page == Newest(WtPageSize, rest)
  <2>1. rest \subseteq 1..Len(wtLog) /\ page \subseteq rest /\ Len(wtLog) \in Nat
    BY <1>1 DEF Visible, Newest, WtTypeOK
  <2>2. page # rest => Oldest(page) \in Nat
    <3> SUFFICES ASSUME page # rest PROVE Oldest(page) \in Nat OBVIOUS
    <3>1. page # {}
      <4>1. rest # {}
        BY <2>1
      <4> HIDE DEF rest
      <4> QED BY <2>1, <4>1, PageNotEmpty
    <3>2. page \subseteq Nat
      BY <2>1
    <3> HIDE DEF page
    <3>3. \E x \in page : \A j \in page : x <= j
      BY <3>1, <3>2, Least
    <3> QED BY <3>2, <3>3 DEF Oldest
  <2>3. wtReader' = [wtReader EXCEPT
                       !.got = @ \cup page, !.again = @ \cup (wtReader.got \cap page),
                       !.pc = IF page = rest THEN "done" ELSE @,
                       !.before = IF page = rest THEN @ ELSE Oldest(page)]
    BY DEF WtPage
  <2>4. page \subseteq Nat
    BY <2>1
  <2> HIDE DEF page, rest
  <2> QED BY <1>1, <2>2, <2>3, <2>4 DEF WtTypeOK
<1>3. OneRow' /\ RowsTold'
  BY <1>1, SameTold DEF OneRow, RowsTold
<1> QED BY <1>1, <1>2, <1>3, PageReads DEF WtInv

LEMMA WtStep == WtInv /\ [WtNext]_wtVars => WtInv'
<1> SUFFICES ASSUME WtInv, [WtNext]_wtVars PROVE WtInv' OBVIOUS
<1>1. CASE WtSetMode
  <2>1. /\ wtMode' \in {"global", "per_user"} /\ wtAlive' = wtAlive /\ wtMatch' = wtMatch
        /\ wtRows' = wtRows /\ wtLog' = wtLog /\ wtReader' = wtReader
    BY <1>1 DEF WtSetMode
  <2>2. WtTypeOK' /\ OneRow' /\ RowsTold'
    BY <2>1, SameTold DEF WtInv, WtTypeOK, OneRow, RowsTold
  <2> QED BY <2>1, <2>2, SameTold DEF WtInv
<1>2. CASE UNCHANGED wtVars
  <2>1. /\ wtMode' = wtMode /\ wtAlive' = wtAlive /\ wtMatch' = wtMatch
        /\ wtRows' = wtRows /\ wtLog' = wtLog /\ wtReader' = wtReader
    BY <1>2 DEF wtVars
  <2>2. WtTypeOK' /\ OneRow' /\ RowsTold'
    BY <2>1, SameTold DEF WtInv, WtTypeOK, OneRow, RowsTold
  <2> QED BY <2>1, <2>2, SameTold DEF WtInv
<1> QED BY <1>1, <1>2, CreateKeeps, DeleteKeeps, RematchKeeps, ItemDeletedKeeps,
           UserDeletedKeeps, OpenKeeps, PageKeeps DEF WtNext

\* Whoever marks and unmarks what, under whichever setting, and whatever items and users are
\* deleted: nobody's list is belied by the activity, and a reader of it misses nothing and
\* gets nothing twice (watched/service.go, store/sqlite/media_activity.go).
THEOREM HistoryAlwaysTrue == WtSpec => []HistoryTrue
<1>1. WtInv => HistoryTrue
  BY DEF WtInv, RowsTold, ReaderInv, HistoryTrue
<1> QED BY <1>1, WtInitially, WtStep, PTL DEF WtSpec

-----------------------------------------------------------------------------
(* Accounts                                                                *)

AcSpec == AcInit /\ [][AcNext]_acVars

AcToken == [id : TokenIds, user : Users, since : Nat, excused : BOOLEAN]
AcOps == {"none", "login", "refresh", "password", "profile", "deleteUser", "setup"}
AcCall == [op : AcOps, pc : CallPcs, user : Users \cup {Nobody}, since : Nat, admin : BOOLEAN,
           token : 0..MaxTokens, long : BOOLEAN, crossed : BOOLEAN]

AcTypes ==
  /\ users \in [Users -> User]
  /\ refreshTokens \subseteq AcToken
  /\ lastToken \in 0..MaxTokens /\ changes \in [Users -> Nat]
  /\ call \in [Calls -> AcCall] /\ \A c \in Calls : call[c].pc # "idle" => call[c].user \in Users
  /\ successors \in [TokenIds -> Nat]
  /\ boot # "up" => \A c \in Calls : call[c].pc = "idle"

\* A token in the table was not exchanged and dropped, and has seen no change of password.
TokenIs(t) ==
  t.id <= lastToken /\ successors[t.id] = 0 /\ (t.since < changes[t.user] => t.excused)

\* A call that will issue a token has seen no change either, and has spent the one it had, if it
\* could be dropped.
IssuerIs(q) ==
  /\ q.pc \in {"revoke", "create", "promote", "issue"} => (q.since < changes[q.user] => q.crossed)
  /\ q.pc \in {"create", "promote"} => q.token = 0
  /\ (q.token # 0 /\ q.pc \in {"revoke", "issue"}) => q.token \in 1..lastToken
  /\ (q.token # 0 /\ q.pc = "issue") => \A t \in refreshTokens : t.id # q.token

TokensInv ==
  /\ \A t \in refreshTokens : TokenIs(t)
  /\ \A id \in TokenIds : id > lastToken => successors[id] = 0
  /\ \A c \in Calls : IssuerIs(call[c])

\* There was no user yet, and only one request is about to create one ...
Untouched ==
  /\ \A u \in Users : users[u].state = "none" /\ ~users[u].admin
  /\ refreshTokens = {} /\ boot # "promote"
  /\ \A c \in Calls : call[c].pc \in {"idle", "create"} /\ (call[c].pc = "create" => setupMu = c)

\* ... or the first user is there for good, and nobody else ever is an administrator.
FounderCall(f, q) ==
  /\ q.pc # "create"
  /\ q.pc \in {"tokens", "delete"} => q.user # f
  /\ (q.pc = "promote" \/ (q.pc = "save" /\ q.admin)) => q.user = f

FounderIs(f) ==
  /\ Live(f) /\ \A u \in Users : users[u].admin => u = f
  /\ boot = "promote" => f = DefaultUser
  /\ \A c \in Calls : FounderCall(f, call[c])

AcInv == AcTypes /\ TokensInv /\ (Untouched \/ \E f \in Users : FounderIs(f))

LEMMA AcInitially == AcInit => AcInv
<1> SUFFICES ASSUME AcInit PROVE AcInv
  OBVIOUS
<1>1. Idle \in AcCall /\ Idle.pc = "idle" /\ Idle.op = "none"
  BY AccountsAssumption DEF Idle, AcCall, AcOps, CallPcs
<1>2. /\ users \in [Users -> User] /\ refreshTokens = {} /\ lastToken \in 0..MaxTokens
      /\ changes \in [Users -> Nat] /\ successors \in [TokenIds -> Nat]
      /\ \A id \in TokenIds : successors[id] = 0
  BY AccountsAssumption DEF AcInit, User
<1>3. AcTypes
  BY <1>1, <1>2 DEF AcInit, AcTypes
<1>4. TokensInv
  BY <1>1, <1>2 DEF AcInit, TokensInv, IssuerIs
<1>5. Untouched
  BY <1>1 DEF AcInit, Untouched
<1> QED
  BY <1>3, <1>4, <1>5 DEF AcInv


LEMMA AcIdleIs ==
  /\ Idle \in AcCall /\ Idle.pc = "idle" /\ Idle.op = "none"
  /\ \A f \in Users : FounderCall(f, Idle)
  /\ IssuerIs(Idle) /\ IssuerIs(Idle)'
BY AccountsAssumption DEF Idle, AcCall, AcOps, CallPcs, FounderCall, IssuerIs

\* Tokens go, and requests proceed.
LEMMA AcTokensKept ==
  ASSUME TokensInv, refreshTokens' \subseteq refreshTokens,
         UNCHANGED <<lastToken, successors, changes>>,
         \A c \in Calls : call'[c] = call[c] \/ IssuerIs(call[c])'
  PROVE  TokensInv'
<1>1. \A t \in refreshTokens' : TokenIs(t)'
  BY DEF TokensInv, TokenIs
<1>2. ASSUME NEW c \in Calls PROVE IssuerIs(call[c])'
  <2>1. PICK q : q = call[c]
    OBVIOUS
  <2>2. IssuerIs(q)
    BY <2>1 DEF TokensInv
  <2>3. IssuerIs(q)'
    BY <2>2 DEF IssuerIs
  <2>4. call'[c] = q => IssuerIs(call[c])'
    BY <2>3 DEF IssuerIs
  <2> QED
    BY <2>1, <2>4
<1> QED
  BY <1>1, <1>2 DEF TokensInv

LEMMA AcFounderKept ==
  ASSUME NEW f \in Users, FounderIs(f), Live(f)', \A u \in Users : users'[u].admin => u = f,
         boot' = "promote" => f = DefaultUser,
         \A c \in Calls : call'[c] = call[c] \/ FounderCall(f, call'[c])
  PROVE  \E g \in Users : FounderIs(g)'
<1>1. \A c \in Calls : FounderCall(f, call'[c])
  BY DEF FounderIs
<1>2. FounderIs(f)'
  BY <1>1 DEF FounderIs
<1> QED
  BY <1>2

\* A step of one request that leaves the tables alone.
AcOnlyCall(c, n) ==
  /\ call' = [call EXCEPT ![c] = n]
  /\ UNCHANGED <<users, refreshTokens, lastToken, changes, successors, boot>>
  /\ \A d \in Calls : (d # c /\ setupMu = d) => setupMu' = d

LEMMA AcCallStep ==
  ASSUME AcInv, NEW c \in Calls, NEW n \in AcCall, AcOnlyCall(c, n), IssuerIs(n),
         n.pc # "idle" => (n.user \in Users /\ boot = "up"),
         Untouched => (n.pc \in {"idle", "create"} /\ (n.pc = "create" => setupMu' = c)),
         \A f \in Users : FounderIs(f) => FounderCall(f, n)
  PROVE  AcInv'
<1>a. /\ call'[c] = n /\ \A d \in Calls : d # c => call'[d] = call[d]
      /\ call' \in [Calls -> AcCall]
  BY DEF AcInv, AcTypes, AcOnlyCall
<1>b. UNCHANGED <<users, refreshTokens, lastToken, changes, successors, boot>>
  BY DEF AcOnlyCall
<1>1. AcTypes'
  BY <1>a, <1>b DEF AcInv, AcTypes
<1>2. TokensInv'
  <2>1. IssuerIs(call[c])'
    BY <1>a, <1>b DEF IssuerIs
  <2> QED
    BY <1>a, <1>b, <2>1, AcTokensKept DEF AcInv
<1>3. CASE Untouched
  <2>1. \A d \in Calls : call'[d].pc \in {"idle", "create"} /\ (call'[d].pc = "create" => setupMu' = d)
    BY <1>3, <1>a DEF Untouched, AcOnlyCall
  <2>2. Untouched'
    BY <1>3, <1>b, <2>1 DEF Untouched
  <2> QED
    BY <1>1, <1>2, <2>2 DEF AcInv
<1>4. ASSUME NEW f \in Users, FounderIs(f) PROVE AcInv'
  <2>1. \A d \in Calls : call'[d] = call[d] \/ FounderCall(f, call'[d])
    BY <1>4, <1>a
  <2>2. Live(f)' /\ (\A u \in Users : users'[u].admin => u = f) /\ (boot' = "promote" => f = DefaultUser)
    BY <1>4, <1>b DEF FounderIs, Live
  <2>3. \E g \in Users : FounderIs(g)'
    BY <1>4, <2>1, <2>2, AcFounderKept
  <2> QED
    BY <1>1, <1>2, <2>3 DEF AcInv
<1> QED
  BY <1>3, <1>4 DEF AcInv

\* A request that goes on with the row of a user it has read.
LEMMA AcEnters ==
  ASSUME AcInv, NEW c \in Calls, NEW u \in Users, NEW op \in AcOps, NEW pc \in CallPcs,
         NEW long \in BOOLEAN, Enter(c, op, pc, u, 0, long), op # "refresh", boot = "up",
         NEW n, n = [op |-> op, pc |-> pc, user |-> u, since |-> changes[u],
                     admin |-> users[u].admin, token |-> 0, long |-> long, crossed |-> FALSE],
         UNCHANGED <<users, refreshTokens, lastToken, changes, successors, boot>>,
         \A d \in Calls : (d # c /\ setupMu = d) => setupMu' = d,
         Untouched => (pc = "create" /\ setupMu' = c),
         \A f \in Users : FounderIs(f) => FounderCall(f, n)
  PROVE  AcInv'
<1>1. n \in AcCall /\ n.user \in Users /\ n.pc = pc
  BY AccountsAssumption DEF AcInv, AcTypes, AcCall, User
<1>2. IssuerIs(n)
  BY DEF AcInv, AcTypes, IssuerIs
<1>3. AcOnlyCall(c, n)
  BY DEF AcOnlyCall, Enter
<1> QED
  BY <1>1, <1>2, <1>3, AcCallStep

LEMMA AcLoginStep == ASSUME AcInv, NEW c \in Calls, NEW u \in Users, AcLogin(c, u) PROVE AcInv'
<1>1. PICK long \in BOOLEAN : Enter(c, "login", "issue", u, 0, long)
  BY DEF AcLogin
<1>2. PICK n : n = [op |-> "login", pc |-> "issue", user |-> u, since |-> changes[u],
                    admin |-> users[u].admin, token |-> 0, long |-> long, crossed |-> FALSE]
  OBVIOUS
<1>3. \A f \in Users : FounderCall(f, n)
  BY <1>2 DEF FounderCall
<1>4. ~Untouched
  BY DEF AcLogin, Untouched, Live
<1>5. "login" \in AcOps /\ "issue" \in CallPcs
  BY DEF AcOps, CallPcs
<1>6. /\ UNCHANGED <<users, refreshTokens, lastToken, changes, successors, boot, setupMu>>
      /\ boot = "up"
  BY DEF AcLogin, Accepts
<1> QED
  BY <1>1, <1>2, <1>3, <1>4, <1>5, <1>6, AcEnters

LEMMA AcReadUserStep ==
  ASSUME AcInv, NEW c \in Calls, NEW u \in Users, NEW op \in {"password", "profile"},
         AcReadUser(c, op, u)
  PROVE  AcInv'
<1>2. PICK n : n = [op |-> op, pc |-> "save", user |-> u, since |-> changes[u],
                    admin |-> users[u].admin, token |-> 0, long |-> FALSE, crossed |-> FALSE]
  OBVIOUS
<1>3. \A f \in Users : FounderIs(f) => FounderCall(f, n)
  BY <1>2 DEF FounderCall, FounderIs
<1>4. ~Untouched
  BY DEF AcReadUser, Untouched, Live
<1>5. op \in AcOps /\ op # "refresh" /\ "save" \in CallPcs
  BY DEF AcOps, CallPcs
<1>6. /\ UNCHANGED <<users, refreshTokens, lastToken, changes, successors, boot, setupMu>>
      /\ boot = "up" /\ Enter(c, op, "save", u, 0, FALSE)
  BY DEF AcReadUser, Accepts
<1> QED
  BY <1>2, <1>3, <1>4, <1>5, <1>6, AcEnters

LEMMA AcAdmitDeleteStep ==
  ASSUME AcInv, NEW c \in Calls, NEW a \in Users, NEW u \in Users, AcAdmitDelete(c, a, u)
  PROVE  AcInv'
<1>2. PICK n : n = [op |-> "deleteUser", pc |-> "tokens", user |-> u, since |-> changes[u],
                    admin |-> users[u].admin, token |-> 0, long |-> FALSE, crossed |-> FALSE]
  OBVIOUS
<1>3. \A f \in Users : FounderIs(f) => FounderCall(f, n)
  BY <1>2 DEF FounderCall, FounderIs, AcAdmitDelete, IsUserAdmin
<1>4. ~Untouched
  BY DEF AcAdmitDelete, IsUserAdmin, Untouched, Live
<1>5. "deleteUser" \in AcOps /\ "tokens" \in CallPcs
  BY DEF AcOps, CallPcs
<1>6. /\ UNCHANGED <<users, refreshTokens, lastToken, changes, successors, boot, setupMu>>
      /\ boot = "up" /\ Enter(c, "deleteUser", "tokens", u, 0, FALSE)
  BY DEF AcAdmitDelete, Accepts
<1> QED
  BY <1>2, <1>3, <1>4, <1>5, <1>6, AcEnters

LEMMA AcSetupCountStep ==
  ASSUME AcInv, NEW c \in Calls, NEW u \in Users, AcSetupCount(c, u) PROVE AcInv'
<1>2. PICK n : n = [op |-> "setup", pc |-> "create", user |-> u, since |-> changes[u],
                    admin |-> users[u].admin, token |-> 0, long |-> TRUE, crossed |-> FALSE]
  OBVIOUS
<1>3. ASSUME NEW f \in Users, FounderIs(f) PROVE FALSE
  BY <1>3 DEF FounderIs, AcSetupCount, LiveUsers
<1>4. (\A d \in Calls : (d # c /\ setupMu = d) => setupMu' = d) /\ setupMu' = c
  BY AccountsAssumption DEF AcSetupCount
<1>5. "setup" \in AcOps /\ "create" \in CallPcs
  BY DEF AcOps, CallPcs
<1>6. /\ UNCHANGED <<users, refreshTokens, lastToken, changes, successors, boot>>
      /\ boot = "up" /\ Enter(c, "setup", "create", u, 0, TRUE)
  BY DEF AcSetupCount, Accepts
<1> QED
  BY <1>2, <1>3, <1>4, <1>5, <1>6, AcEnters

LEMMA AcPresentStep ==
  ASSUME AcInv, NEW c \in Calls, NEW t \in refreshTokens, AcPresent(c, t) PROVE AcInv'
<1>1. PICK n : n = [Idle EXCEPT !.op = "refresh", !.pc = "revoke", !.user = t.user,
                                !.since = t.since, !.token = t.id, !.crossed = t.excused]
  OBVIOUS
<1>2. /\ n.op = "refresh" /\ n.pc = "revoke" /\ n.user = t.user /\ n.since = t.since
      /\ n.token = t.id /\ n.crossed = t.excused
  BY <1>1 DEF Idle
<1>3. t \in AcToken /\ TokenIs(t) /\ lastToken \in 0..MaxTokens /\ MaxTokens \in Nat
  BY AccountsAssumption DEF AcInv, AcTypes, TokensInv
<1>4. n \in AcCall /\ n.user \in Users
  <2>1. t.id \in 0..MaxTokens /\ t.user \in Users /\ t.since \in Nat /\ t.excused \in BOOLEAN
    BY <1>3 DEF AcToken, TokenIds
  <2> QED
    BY <1>1, <2>1, AcIdleIs DEF AcCall, AcOps, CallPcs
<1>5. IssuerIs(n)
  <2>1. t.id \in 1..lastToken
    BY <1>3 DEF AcToken, TokenIs, TokenIds
  <2> QED
    BY <1>2, <1>3, <2>1 DEF IssuerIs, TokenIs
<1>6. AcOnlyCall(c, n) /\ boot = "up"
  BY <1>1 DEF AcOnlyCall, AcPresent, Accepts
<1>7. ~Untouched
  BY DEF Untouched
<1>8. \A f \in Users : FounderCall(f, n)
  BY <1>2 DEF FounderCall
<1> QED
  BY <1>4, <1>5, <1>6, <1>7, <1>8, AcCallStep

LEMMA AcRevokeAllFailsStep ==
  ASSUME AcInv, NEW c \in Calls, AcRevokeAllFails(c) PROVE AcInv'
<1>1. AcOnlyCall(c, Idle)
  BY DEF AcOnlyCall, AcRevokeAllFails, Returns
<1>2. ~Untouched
  BY DEF Untouched, AcRevokeAllFails, At
<1> QED
  BY <1>1, <1>2, AcIdleIs, AcCallStep

\* The token issued is a new one.
LEMMA AcIssues ==
  ASSUME AcTypes, TokensInv, NEW c \in Calls, NEW q \in AcCall, q = call[c], q.pc = "issue",
         q.user \in Users, lastToken < MaxTokens,
         NEW k, k = lastToken + 1, lastToken' = k,
         refreshTokens' = refreshTokens \cup
           {[id |-> k, user |-> q.user, since |-> q.since, excused |-> q.crossed]},
         successors' = IF q.token # 0 THEN [successors EXCEPT ![q.token] = @ + 1]
                                      ELSE successors,
         call' = [call EXCEPT ![c] = Idle], changes' = changes, users' = users, boot' = boot
  PROVE  AcTypes' /\ TokensInv'
<1>a. /\ lastToken \in 0..MaxTokens /\ MaxTokens \in Nat /\ successors \in [TokenIds -> Nat]
      /\ call \in [Calls -> AcCall] /\ refreshTokens \subseteq AcToken
  BY AccountsAssumption DEF AcTypes
<1>b. k \in TokenIds /\ k \in 0..MaxTokens /\ k > lastToken /\ 1..lastToken \subseteq 1..k
  BY <1>a DEF TokenIds
<1>c. /\ call'[c] = Idle /\ \A d \in Calls : d # c => call'[d] = call[d]
      /\ call' \in [Calls -> AcCall]
  BY <1>a, AcIdleIs
<1>d. PICK new : new = [id |-> k, user |-> q.user, since |-> q.since, excused |-> q.crossed]
  OBVIOUS
<1>e. new.id = k /\ new.user = q.user /\ new.since = q.since /\ new.excused = q.crossed
  BY <1>d
<1>f. new \in AcToken
  BY <1>b, <1>d DEF AcToken, AcCall
<1>g. IssuerIs(q)
  BY DEF TokensInv
<1>h. q.token # 0 => q.token \in 1..lastToken /\ q.token \in TokenIds /\ q.token # k
  BY <1>a, <1>b, <1>g DEF IssuerIs, TokenIds
<1>i. successors' \in [TokenIds -> Nat]
  BY <1>a, <1>h
<1>1. AcTypes'
  BY <1>a, <1>b, <1>c, <1>d, <1>f, <1>i, AcIdleIs DEF AcTypes
<1>j. \A id \in TokenIds : (q.token # 0 => id # q.token) => successors'[id] = successors[id]
  BY <1>a, <1>h
<1>2. ASSUME NEW t \in refreshTokens' PROVE TokenIs(t)'
  <2>1. CASE t = new
    <3>1. successors'[k] = 0
      BY <1>b, <1>h, <1>j DEF TokensInv
    <3>2. q.since < changes[q.user] => q.crossed
      BY <1>g DEF IssuerIs
    <3>3. k <= k
      BY <1>a
    <3> QED
      BY <1>e, <2>1, <3>1, <3>2, <3>3 DEF TokenIs
  <2>2. CASE t \in refreshTokens
    <3>1. TokenIs(t) /\ t.id \in TokenIds
      BY <1>a, <2>2 DEF TokensInv, AcToken
    <3>2. q.token # 0 => t.id # q.token
      BY <1>g, <2>2 DEF IssuerIs
    <3>3. successors'[t.id] = 0
      BY <1>j, <3>1, <3>2 DEF TokenIs
    <3>4. t.id <= k
      BY <1>a, <3>1 DEF TokenIs, TokenIds
    <3> QED
      BY <3>1, <3>3, <3>4 DEF TokenIs
  <2> QED
    BY <1>d, <2>1, <2>2
<1>3. ASSUME NEW id \in TokenIds, id > lastToken' PROVE successors'[id] = 0
  <2>1. id > lastToken /\ (q.token # 0 => id # q.token)
    BY <1>a, <1>h, <1>3 DEF TokenIds
  <2> QED
    BY <1>j, <2>1 DEF TokensInv
<1>4. ASSUME NEW d \in Calls PROVE IssuerIs(call[d])'
  <2>1. CASE d = c
    BY <1>c, <2>1, AcIdleIs DEF IssuerIs
  <2>2. CASE d # c
    <3>1. PICK p \in AcCall : p = call[d]
      BY <1>a
    <3>2. IssuerIs(p)
      BY <3>1 DEF TokensInv
    <3>3. (p.token # 0 /\ p.pc \in {"revoke", "issue"}) => (p.token \in 1..k /\ p.token # k)
      BY <1>a, <1>b, <3>2 DEF IssuerIs
    <3>4. IssuerIs(p)'
      BY <1>d, <1>e, <3>2, <3>3 DEF IssuerIs
    <3> QED
      BY <1>c, <2>2, <3>1, <3>4 DEF IssuerIs
  <2> QED
    BY <2>1, <2>2
<1> QED
  BY <1>1, <1>2, <1>3, <1>4 DEF TokensInv

\* A request that returns, or goes on, makes nobody an administrator.
LEMMA AcFounderCalls ==
  ASSUME AcInv, ~Untouched, users' = users, boot' = boot, call \in [Calls -> AcCall],
         NEW c \in Calls, NEW n, call' = [call EXCEPT ![c] = n],
         \A f \in Users : FounderIs(f) => FounderCall(f, n)
  PROVE  \E f \in Users : FounderIs(f)'
<1>1. PICK f \in Users : FounderIs(f)
  BY DEF AcInv
<1>2. \A d \in Calls : call'[d] = call[d] \/ FounderCall(f, call'[d])
  BY <1>1
<1>3. Live(f)' /\ (\A u \in Users : users'[u].admin => u = f) /\ (boot' = "promote" => f = DefaultUser)
  BY <1>1 DEF FounderIs, Live
<1> QED
  BY <1>1, <1>2, <1>3, AcFounderKept

LEMMA AcIssueStep == ASSUME AcInv, NEW c \in Calls, AcIssue(c) PROVE AcInv'
<1>a. /\ AcTypes /\ TokensInv /\ call \in [Calls -> AcCall] /\ call[c].pc = "issue"
      /\ call[c].user \in Users /\ call' = [call EXCEPT ![c] = Idle]
      /\ users' = users /\ boot' = boot /\ changes' = changes
  BY DEF AcInv, AcTypes, AcIssue, At, Returns
<1>b. PICK q \in AcCall : q = call[c]
  BY <1>a
<1>c. ~Untouched
  BY <1>a DEF Untouched
<1>1. CASE Live(q.user)
  <2>1. PICK k : k = lastToken + 1
    OBVIOUS
  <2>2. /\ lastToken < MaxTokens /\ lastToken' = k
        /\ refreshTokens' = refreshTokens \cup
             {[id |-> k, user |-> q.user, since |-> q.since, excused |-> q.crossed]}
        /\ successors' = IF q.token # 0 THEN [successors EXCEPT ![q.token] = @ + 1]
                                        ELSE successors
    BY <1>b, <1>1, <2>1 DEF AcIssue
  <2>3. AcTypes' /\ TokensInv'
    BY <1>a, <1>b, <2>1, <2>2, AcIssues
  <2>4. \E f \in Users : FounderIs(f)'
    BY <1>a, <1>c, AcFounderCalls, AcIdleIs
  <2> QED
    BY <2>3, <2>4 DEF AcInv
<1>2. CASE ~Live(q.user)
  <2>1. UNCHANGED <<refreshTokens, lastToken, successors>>
    BY <1>b, <1>2 DEF AcIssue
  <2>2. \A d \in Calls : (d # c /\ setupMu = d) => setupMu' = d
    BY DEF AcIssue
  <2>3. AcOnlyCall(c, Idle)
    BY <1>a, <2>1, <2>2 DEF AcOnlyCall
  <2> QED
    BY <1>c, <2>3, AcIdleIs, AcCallStep
<1> QED
  BY <1>1, <1>2

\* Tokens go, and one request may proceed.
LEMMA AcTokensGo ==
  ASSUME AcInv, ~Untouched, refreshTokens' \subseteq refreshTokens,
         UNCHANGED <<users, lastToken, successors, changes, boot>>,
         NEW c \in Calls, NEW n \in AcCall, call' = [call EXCEPT ![c] = n], IssuerIs(n)',
         n.pc # "idle" => (n.user \in Users /\ boot = "up"),
         \A f \in Users : FounderIs(f) => FounderCall(f, n)
  PROVE  AcInv'
<1>a. /\ AcTypes /\ TokensInv /\ call \in [Calls -> AcCall]
      /\ call'[c] = n /\ \A d \in Calls : d # c => call'[d] = call[d]
      /\ call' \in [Calls -> AcCall]
  BY DEF AcInv, AcTypes
<1>1. AcTypes'
  BY <1>a DEF AcTypes
<1>2. TokensInv'
  <2>1. IssuerIs(call[c])'
    BY <1>a DEF IssuerIs
  <2> QED
    BY <1>a, <2>1, AcTokensKept
<1>3. \E f \in Users : FounderIs(f)'
  BY <1>a, AcFounderCalls
<1> QED
  BY <1>1, <1>2, <1>3 DEF AcInv

LEMMA AcRevokeStep == ASSUME AcInv, NEW c \in Calls, AcRevoke(c) PROVE AcInv'
<1>a. /\ call \in [Calls -> AcCall] /\ call[c].pc = "revoke" /\ call[c].user \in Users
      /\ boot = "up"
  BY DEF AcInv, AcTypes, AcRevoke, At
<1>b. PICK l \in BOOLEAN : l = (ttl[call[c].token] = "long")
  OBVIOUS
<1>c. PICK n : n = [call[c] EXCEPT !.pc = "issue", !.long = l]
  OBVIOUS
<1>d. /\ n \in AcCall /\ n.pc = "issue" /\ n.user = call[c].user /\ n.since = call[c].since
      /\ n.crossed = call[c].crossed /\ n.op = call[c].op /\ n.token = call[c].token
  BY <1>a, <1>c DEF AcCall, CallPcs
<1>e. call' = [call EXCEPT ![c] = n]
  BY <1>a, <1>b, <1>c DEF AcRevoke
<1>f. \A t \in refreshTokens' : t \in refreshTokens /\ t.id # n.token
  BY <1>d DEF AcRevoke, Revoked
<1>g. IssuerIs(call[c])
  BY DEF AcInv, TokensInv
<1>h. UNCHANGED <<users, lastToken, successors, changes, boot>>
  BY DEF AcRevoke
<1>1. IssuerIs(n)'
  BY <1>a, <1>d, <1>f, <1>g, <1>h DEF IssuerIs
<1>2. ~Untouched
  BY <1>a DEF Untouched
<1>3. \A f \in Users : FounderCall(f, n)
  BY <1>d DEF FounderCall
<1> QED
  BY <1>a, <1>d, <1>e, <1>f, <1>h, <1>1, <1>2, <1>3, AcTokensGo

LEMMA AcRevokeFailsStep == ASSUME AcInv, NEW c \in Calls, AcRevokeFails(c) PROVE AcInv'
<1>a. /\ call \in [Calls -> AcCall] /\ call[c].pc = "revoke" /\ call[c].user \in Users
      /\ boot = "up" /\ lastToken \in Nat
  BY AccountsAssumption DEF AcInv, AcTypes, AcRevokeFails, At
<1>b. PICK l \in BOOLEAN : l = (ttl[call[c].token] = "long")
  OBVIOUS
<1>c. PICK z \in 0..MaxTokens : z = 0
  BY AccountsAssumption
<1>i. PICK n : n = [call[c] EXCEPT !.pc = "issue", !.long = l, !.token = z]
  OBVIOUS
<1>d. /\ n \in AcCall /\ n.pc = "issue" /\ n.user = call[c].user /\ n.since = call[c].since
      /\ n.crossed = call[c].crossed /\ n.token = 0
  BY <1>a, <1>c, <1>i DEF AcCall, CallPcs
<1>e. /\ call' = [call EXCEPT ![c] = n]
      /\ UNCHANGED <<users, refreshTokens, lastToken, successors, changes, boot>>
  BY <1>a, <1>b, <1>c, <1>i DEF AcRevokeFails
<1>g. IssuerIs(call[c])
  BY DEF AcInv, TokensInv
<1>1. IssuerIs(n)'
  BY <1>a, <1>d, <1>e, <1>g DEF IssuerIs
<1>2. ~Untouched
  BY <1>a DEF Untouched
<1>3. \A f \in Users : FounderCall(f, n)
  BY <1>d DEF FounderCall
<1> QED
  BY <1>a, <1>d, <1>e, <1>1, <1>2, <1>3, AcTokensGo

LEMMA AcDeleteTokensStep == ASSUME AcInv, NEW c \in Calls, AcDeleteTokens(c) PROVE AcInv'
<1>a. /\ call \in [Calls -> AcCall] /\ call[c].pc = "tokens" /\ call[c].user \in Users
      /\ boot = "up"
  BY DEF AcInv, AcTypes, AcDeleteTokens, At
<1>c. PICK n : n = [call[c] EXCEPT !.pc = "delete"]
  OBVIOUS
<1>d. n \in AcCall /\ n.pc = "delete" /\ n.user = call[c].user
  BY <1>a, <1>c DEF AcCall, CallPcs
<1>e. call' = [call EXCEPT ![c] = n]
  BY <1>a, <1>c DEF AcDeleteTokens, Goes
<1>f. /\ UNCHANGED <<users, lastToken, successors, changes, boot>>
      /\ refreshTokens' \subseteq refreshTokens
  BY DEF AcDeleteTokens
<1>1. IssuerIs(n)'
  BY <1>d DEF IssuerIs
<1>2. ~Untouched
  BY <1>a DEF Untouched
<1>3. \A f \in Users : FounderIs(f) => FounderCall(f, n)
  BY <1>a, <1>d DEF FounderIs, FounderCall
<1> QED
  BY <1>a, <1>d, <1>e, <1>f, <1>1, <1>2, <1>3, AcTokensGo

LEMMA AcTokenGoes ==
  ASSUME AcInv, NEW t \in refreshTokens, refreshTokens' \subseteq refreshTokens,
         UNCHANGED <<users, lastToken, changes, call, boot, successors>>
  PROVE  AcInv'
<1>1. ~Untouched
  BY DEF Untouched
<1>2. AcTypes'
  BY DEF AcInv, AcTypes
<1>3. TokensInv'
  BY AcTokensKept DEF AcInv
<1>4. \E f \in Users : FounderIs(f)'
  <2>1. PICK f \in Users : FounderIs(f)
    BY <1>1 DEF AcInv
  <2>2. FounderIs(f)'
    BY <2>1 DEF FounderIs, Live
  <2> QED
    BY <2>2
<1> QED
  BY <1>2, <1>3, <1>4 DEF AcInv

\* A request that writes a row it has read makes an administrator of the founder only.
LEMMA AcUpdates ==
  ASSUME AcInv, ~Untouched, NEW c \in Calls, NEW a \in BOOLEAN, UpdateUser(c, a),
         call[c].user \in Users, \A f \in Users : (FounderIs(f) /\ a) => call[c].user = f,
         NEW n \in AcCall, call' = [call EXCEPT ![c] = n], IssuerIs(n),
         n.pc # "idle" => (n.user \in Users /\ boot = "up"),
         \A f \in Users : FounderIs(f) => FounderCall(f, n),
         UNCHANGED <<refreshTokens, lastToken, changes, boot, successors>>
  PROVE  AcInv'
<1>a. /\ AcTypes /\ TokensInv /\ call \in [Calls -> AcCall] /\ users \in [Users -> User]
      /\ call'[c] = n /\ \A d \in Calls : d # c => call'[d] = call[d]
      /\ call' \in [Calls -> AcCall]
  BY DEF AcInv, AcTypes
<1>b. PICK w \in Users : w = call[c].user
  OBVIOUS
<1>c. PICK row : row = IF users[w].state = "live" THEN [users[w] EXCEPT !.admin = a] ELSE users[w]
  OBVIOUS
<1>d. row \in User /\ row.state = users[w].state /\ (row.admin => (users[w].admin \/ a))
  BY <1>a, <1>c DEF User
<1>e. /\ users' = [users EXCEPT ![w] = row] /\ users' \in [Users -> User]
      /\ users'[w] = row /\ \A u \in Users : u # w => users'[u] = users[u]
  BY <1>a, <1>b, <1>c, <1>d DEF UpdateUser
<1>1. AcTypes'
  BY <1>a, <1>e DEF AcTypes
<1>2. TokensInv'
  <2>1. IssuerIs(call[c])'
    BY <1>a DEF IssuerIs
  <2> QED
    BY <1>a, <2>1, AcTokensKept
<1>3. \E f \in Users : FounderIs(f)'
  <2>1. PICK f \in Users : FounderIs(f)
    BY DEF AcInv
  <2>2. Live(f)'
    BY <1>d, <1>e, <2>1 DEF FounderIs, Live
  <2>3. \A u \in Users : users'[u].admin => u = f
    BY <1>b, <1>d, <1>e, <2>1 DEF FounderIs
  <2>4. \A d \in Calls : call'[d] = call[d] \/ FounderCall(f, call'[d])
    BY <1>a, <2>1
  <2>5. boot' = "promote" => f = DefaultUser
    BY <2>1 DEF FounderIs
  <2> QED
    BY <2>1, <2>2, <2>3, <2>4, <2>5, AcFounderKept
<1> QED
  BY <1>1, <1>2, <1>3 DEF AcInv

LEMMA AcSaveStep ==
  ASSUME AcInv, NEW c \in Calls, AcSavePassword(c) \/ AcSaveProfile(c) PROVE AcInv'
<1>a. /\ call \in [Calls -> AcCall] /\ call[c].pc = "save" /\ call[c].user \in Users
      /\ boot = "up" /\ call[c].admin \in BOOLEAN
  BY DEF AcInv, AcTypes, AcSavePassword, AcSaveProfile, At, AcCall
<1>b. PICK a \in BOOLEAN : a = call[c].admin
  BY <1>a
<1>c. /\ UpdateUser(c, a) /\ UNCHANGED <<refreshTokens, lastToken, changes, boot, successors>>
  BY <1>b DEF AcSavePassword, AcSaveProfile
<1>d. ~Untouched
  BY <1>a DEF Untouched
<1>e. \A f \in Users : (FounderIs(f) /\ a) => call[c].user = f
  BY <1>a, <1>b DEF FounderIs, FounderCall
<1>1. CASE Returns(c)
  <2>1. call' = [call EXCEPT ![c] = Idle]
    BY <1>1 DEF Returns
  <2> QED
    BY <1>a, <1>c, <1>d, <1>e, <2>1, AcIdleIs, AcUpdates
<1>2. CASE Goes(c, "revokeAll")
  <2>1. PICK n : n = [call[c] EXCEPT !.pc = "revokeAll"]
    OBVIOUS
  <2>2. n \in AcCall /\ n.pc = "revokeAll" /\ n.user = call[c].user
    BY <1>a, <2>1 DEF AcCall, CallPcs
  <2>3. call' = [call EXCEPT ![c] = n]
    BY <1>a, <1>2, <2>1 DEF Goes
  <2>4. IssuerIs(n) /\ \A f \in Users : FounderCall(f, n)
    BY <2>2 DEF IssuerIs, FounderCall
  <2> QED
    BY <1>a, <1>c, <1>d, <1>e, <2>2, <2>3, <2>4, AcUpdates
<1> QED
  BY <1>1, <1>2 DEF AcSavePassword, AcSaveProfile

LEMMA AcSetupPromoteStep ==
  ASSUME AcInv, NEW c \in Calls, AcSetupPromote(c) PROVE AcInv'
<1>a. /\ call \in [Calls -> AcCall] /\ call[c].pc = "promote" /\ call[c].user \in Users
      /\ boot = "up" /\ IssuerIs(call[c])
  BY DEF AcInv, AcTypes, TokensInv, AcSetupPromote, At
<1>b. PICK a \in BOOLEAN : a = TRUE
  OBVIOUS
<1>c. /\ UpdateUser(c, a) /\ UNCHANGED <<refreshTokens, lastToken, changes, boot, successors>>
  BY <1>b DEF AcSetupPromote
<1>d. ~Untouched
  BY <1>a DEF Untouched
<1>e. \A f \in Users : (FounderIs(f) /\ a) => call[c].user = f
  BY <1>a DEF FounderIs, FounderCall
<1>1. PICK n : n = [call[c] EXCEPT !.pc = "issue"]
  OBVIOUS
<1>2. /\ n \in AcCall /\ n.pc = "issue" /\ n.user = call[c].user /\ n.since = call[c].since
      /\ n.crossed = call[c].crossed /\ n.token = call[c].token
  BY <1>a, <1>1 DEF AcCall, CallPcs
<1>3. call' = [call EXCEPT ![c] = n]
  BY <1>a, <1>1 DEF Goes, AcSetupPromote
<1>4. \A f \in Users : FounderCall(f, n)
  BY <1>2 DEF FounderCall
<1>5. IssuerIs(n)
  BY <1>a, <1>2 DEF IssuerIs
<1> QED
  BY <1>a, <1>c, <1>d, <1>e, <1>2, <1>3, <1>4, <1>5, AcUpdates

LEMMA AcRegisterStep ==
  ASSUME AcInv, NEW c \in Calls, NEW u \in Users, AcRegister(c, u) PROVE AcInv'
<1>a. /\ AcTypes /\ TokensInv /\ users \in [Users -> User]
      /\ users[u].state = "none" /\ users' = [users EXCEPT ![u].state = "live"]
      /\ UNCHANGED <<changes, refreshTokens, lastToken, call, boot, successors>>
  BY DEF AcInv, AcTypes, AcRegister, CreateUser
<1>b. /\ users' \in [Users -> User] /\ users'[u].state = "live" /\ users'[u].admin = users[u].admin
      /\ \A v \in Users : v # u => users'[v] = users[v]
  BY <1>a DEF User
<1>c. ~Untouched
  BY DEF AcRegister, IsUserAdmin, Untouched
<1>1. AcTypes'
  BY <1>a, <1>b DEF AcTypes
<1>2. TokensInv'
  BY <1>a, AcTokensKept
<1>3. \E f \in Users : FounderIs(f)'
  <2>1. PICK f \in Users : FounderIs(f)
    BY <1>c DEF AcInv
  <2>2. Live(f)' /\ \A v \in Users : users'[v].admin => v = f
    BY <1>b, <2>1 DEF FounderIs, Live
  <2> QED
    BY <1>a, <2>1, <2>2, AcFounderKept DEF FounderIs
<1> QED
  BY <1>1, <1>2, <1>3 DEF AcInv

LEMMA AcDeleteUserStep == ASSUME AcInv, NEW c \in Calls, AcDeleteUser(c) PROVE AcInv'
<1>a. PICK u \in Users : u = call[c].user
  BY DEF AcInv, AcTypes, AcDeleteUser, At
<1>b. PICK s : s = IF users[u].state = "live" THEN "deleted" ELSE users[u].state
  OBVIOUS
<1>c. /\ AcTypes /\ TokensInv /\ users \in [Users -> User] /\ call \in [Calls -> AcCall]
      /\ call[c].pc = "delete" /\ users' = [users EXCEPT ![u].state = s]
      /\ call' = [call EXCEPT ![c] = Idle]
      /\ UNCHANGED <<changes, lastToken, boot, successors>> /\ refreshTokens' \subseteq refreshTokens
  BY <1>a, <1>b DEF AcInv, AcTypes, AcDeleteUser, At, Returns
<1>d. /\ users' \in [Users -> User] /\ users'[u].admin = users[u].admin
      /\ \A v \in Users : v # u => users'[v] = users[v]
  BY <1>b, <1>c DEF User
<1>e. /\ call'[c] = Idle /\ \A d \in Calls : d # c => call'[d] = call[d]
      /\ call' \in [Calls -> AcCall]
  BY <1>c, AcIdleIs
<1>f. ~Untouched
  BY <1>c DEF Untouched
<1>1. AcTypes'
  BY <1>c, <1>d, <1>e, AcIdleIs DEF AcTypes
<1>2. TokensInv'
  <2>1. IssuerIs(call[c])'
    BY <1>e, AcIdleIs DEF IssuerIs
  <2> QED
    BY <1>c, <1>e, <2>1, AcTokensKept
<1>3. \E f \in Users : FounderIs(f)'
  <2>1. PICK f \in Users : FounderIs(f)
    BY <1>f DEF AcInv
  <2>2. u # f
    BY <1>a, <1>c, <2>1 DEF FounderIs, FounderCall
  <2>3. Live(f)' /\ \A v \in Users : users'[v].admin => v = f
    BY <1>d, <2>1, <2>2 DEF FounderIs, Live
  <2>4. \A d \in Calls : call'[d] = call[d] \/ FounderCall(f, call'[d])
    BY <1>e, <2>1, AcIdleIs
  <2> QED
    BY <1>c, <2>1, <2>3, <2>4, AcFounderKept DEF FounderIs
<1> QED
  BY <1>1, <1>2, <1>3 DEF AcInv

LEMMA AcRevokeAllStep == ASSUME AcInv, NEW c \in Calls, AcRevokeAll(c) PROVE AcInv'
<1>a. PICK u \in Users : u = call[c].user
  BY DEF AcInv, AcTypes, AcRevokeAll, At
<1>c. /\ AcTypes /\ TokensInv /\ call \in [Calls -> AcCall] /\ changes \in [Users -> Nat]
      /\ call[c].pc = "revokeAll" /\ refreshTokens \subseteq AcToken
      /\ refreshTokens' = refreshTokens \ TokensOf(u)
      /\ UNCHANGED <<users, lastToken, boot, successors>>
  BY <1>a DEF AcInv, AcTypes, AcRevokeAll, At
<1>d. /\ changes' = [changes EXCEPT ![u] = @ + 1] /\ changes' \in [Users -> Nat]
      /\ \A v \in Users : v # u => changes'[v] = changes[v]
  BY <1>a, <1>c DEF AcRevokeAll
<1>e. call' = [q \in Calls |-> IF q = c THEN Idle
                ELSE [call[q] EXCEPT !.crossed = @ \/ q \in Underway(u)]]
  BY <1>a DEF AcRevokeAll
<1>f. ~Untouched
  BY <1>c DEF Untouched
<1>g. PICK f \in Users : FounderIs(f)
  BY <1>f DEF AcInv
<1>h. ASSUME NEW d \in Calls, d # c
      PROVE  /\ call'[d] \in AcCall /\ call'[d].pc = call[d].pc /\ call'[d].op = call[d].op
             /\ call'[d].user = call[d].user /\ call'[d].since = call[d].since
             /\ call'[d].admin = call[d].admin /\ call'[d].token = call[d].token
             /\ (call[d].crossed \/ d \in Underway(u)) => call'[d].crossed
  <2>1. PICK x \in BOOLEAN : x = (call[d].crossed \/ d \in Underway(u))
    OBVIOUS
  <2>2. call'[d] = [call[d] EXCEPT !.crossed = x]
    BY <1>e, <1>h, <2>1
  <2>3. call[d] \in AcCall
    BY <1>c
  <2>4. PICK n : n = [call[d] EXCEPT !.crossed = x]
    OBVIOUS
  <2>5. n \in AcCall /\ n.crossed = x
    BY <2>3, <2>4 DEF AcCall
  <2>6. /\ n.pc = call[d].pc /\ n.op = call[d].op /\ n.user = call[d].user
        /\ n.since = call[d].since /\ n.admin = call[d].admin /\ n.token = call[d].token
    BY <2>3, <2>4 DEF AcCall
  <2> QED
    BY <2>1, <2>2, <2>4, <2>5, <2>6
<1>i. call'[c] = Idle
  BY <1>e
<1>1. AcTypes'
  <2>1. call' \in [Calls -> AcCall]
    <3>1. \A d \in Calls : call'[d] \in AcCall
      BY <1>h, <1>i, AcIdleIs
    <3>2. call' = [d \in Calls |-> call'[d]]
      BY <1>e
    <3> QED
      BY <3>1, <3>2
  <2>2. \A d \in Calls : call'[d].pc # "idle" => call'[d].user \in Users
    BY <1>c, <1>h, <1>i, AcIdleIs DEF AcTypes
  <2>3. boot' # "up" => \A d \in Calls : call'[d].pc = "idle"
    BY <1>c, <1>h, <1>i, AcIdleIs DEF AcTypes
  <2>4. refreshTokens' \subseteq AcToken
    BY <1>c
  <2> QED
    BY <1>c, <1>d, <2>1, <2>2, <2>3, <2>4 DEF AcTypes
<1>2. TokensInv'
  <2>1. ASSUME NEW t \in refreshTokens' PROVE TokenIs(t)'
    <3>1. TokenIs(t) /\ t.user \in Users /\ t.user # u
      BY <1>c DEF TokensInv, TokensOf, AcToken
    <3> QED
      BY <1>c, <1>d, <3>1 DEF TokenIs
  <2>2. ASSUME NEW d \in Calls PROVE IssuerIs(call[d])'
    <3>1. CASE d = c
      BY <1>i, <3>1, AcIdleIs DEF IssuerIs
    <3>2. CASE d # c
      <4>1. IssuerIs(call[d]) /\ call[d].pc # "create"
        BY <1>c, <1>g DEF TokensInv, FounderIs, FounderCall
      <4>2. call[d].pc \in {"revoke", "promote", "issue"} =>
              (call[d].since < changes'[call[d].user] => call'[d].crossed)
        <5>1. CASE call[d].user = u
          BY <1>h, <3>2, <5>1 DEF Underway
        <5>2. CASE call[d].user # u
          BY <1>c, <1>d, <1>h, <3>2, <4>1, <5>2 DEF IssuerIs, AcTypes
        <5> QED
          BY <5>1, <5>2
      <4>3. \A t \in refreshTokens' : t \in refreshTokens
        BY <1>c
      <4>4. PICK n : n = call'[d]
        OBVIOUS
      <4>5. n.pc \in {"revoke", "create", "promote", "issue"} => (n.since < changes'[n.user] => n.crossed)
        BY <1>h, <3>2, <4>1, <4>2, <4>4
      <4>6. IssuerIs(n)'
        BY <1>c, <1>h, <3>2, <4>1, <4>3, <4>4, <4>5 DEF IssuerIs
      <4> QED
        BY <4>4, <4>6 DEF IssuerIs
    <3> QED
      BY <3>1, <3>2
  <2> QED
    BY <1>c, <2>1, <2>2 DEF TokensInv
<1>3. \E g \in Users : FounderIs(g)'
  <2>1. \A d \in Calls : FounderCall(f, call'[d])
    BY <1>g, <1>h, <1>i, AcIdleIs DEF FounderIs, FounderCall
  <2>2. Live(f)' /\ (\A v \in Users : users'[v].admin => v = f) /\ (boot' = "promote" => f = DefaultUser)
    BY <1>c, <1>g DEF FounderIs, Live
  <2> QED
    BY <1>g, <2>1, <2>2, AcFounderKept
<1> QED
  BY <1>1, <1>2, <1>3 DEF AcInv

\* The first user is the founder.
LEMMA AcFounds ==
  ASSUME AcInv, Untouched, NEW u \in Users, CreateUser(u),
         \A c \in Calls : FounderCall(u, call'[c]), boot' = "promote" => u = DefaultUser
  PROVE  \E f \in Users : FounderIs(f)'
<1>a. users \in [Users -> User] /\ users' = [users EXCEPT ![u].state = "live"]
  BY DEF AcInv, AcTypes, CreateUser
<1>b. /\ users'[u].state = "live" /\ users'[u].admin = users[u].admin
      /\ \A v \in Users : v # u => users'[v] = users[v]
  BY <1>a DEF User
<1>c. Live(u)' /\ \A v \in Users : ~users'[v].admin
  BY <1>b DEF Untouched, Live
<1>d. FounderIs(u)'
  BY <1>c DEF FounderIs
<1> QED
  BY <1>d

LEMMA AcSetupCreateStep == ASSUME AcInv, NEW c \in Calls, AcSetupCreate(c) PROVE AcInv'
<1>a. /\ AcTypes /\ TokensInv /\ call \in [Calls -> AcCall] /\ users \in [Users -> User]
      /\ call[c].pc = "create" /\ call[c].user \in Users /\ boot = "up" /\ IssuerIs(call[c])
      /\ UNCHANGED <<changes, refreshTokens, lastToken, boot, successors>>
  BY DEF AcInv, AcTypes, TokensInv, AcSetupCreate, At
<1>b. PICK u \in Users : u = call[c].user
  BY <1>a
<1>c. CreateUser(u) /\ users' \in [Users -> User]
  BY <1>a, <1>b DEF AcSetupCreate, CreateUser, User
<1>d. PICK n : n = [call[c] EXCEPT !.pc = "promote"]
  OBVIOUS
<1>e. /\ n \in AcCall /\ n.pc = "promote" /\ n.user = u /\ n.since = call[c].since
      /\ n.crossed = call[c].crossed /\ n.token = call[c].token
  BY <1>a, <1>b, <1>d DEF AcCall, CallPcs
<1>f. call' = [call EXCEPT ![c] = n]
  BY <1>a, <1>d DEF AcSetupCreate, Goes
<1>g. /\ call'[c] = n /\ \A d \in Calls : d # c => call'[d] = call[d]
      /\ call' \in [Calls -> AcCall]
  BY <1>a, <1>e, <1>f
<1>h. Untouched
  BY <1>a DEF AcInv, FounderIs, FounderCall
<1>i. \A d \in Calls : d # c => call[d].pc = "idle"
  BY <1>a, <1>h DEF Untouched
<1>1. AcTypes'
  BY <1>a, <1>b, <1>c, <1>e, <1>g DEF AcTypes
<1>2. TokensInv'
  <2>1. IssuerIs(n)'
    BY <1>a, <1>b, <1>e DEF IssuerIs
  <2>2. IssuerIs(call[c])'
    BY <1>g, <2>1 DEF IssuerIs
  <2> QED
    BY <1>a, <1>g, <2>2, AcTokensKept
<1>3. \A d \in Calls : FounderCall(u, call'[d])
  BY <1>e, <1>g, <1>i DEF FounderCall
<1>4. \E f \in Users : FounderIs(f)'
  BY <1>a, <1>c, <1>h, <1>3, AcFounds
<1> QED
  BY <1>1, <1>2, <1>4 DEF AcInv

LEMMA AcBootStep ==
  ASSUME AcInv, AcBootstrapCreate \/ AcBootstrapPromote \/ AcBootstrapSkip PROVE AcInv'
<1>a. /\ AcTypes /\ TokensInv /\ users \in [Users -> User] /\ boot # "up"
      /\ \A c \in Calls : call[c].pc = "idle"
      /\ UNCHANGED <<changes, lastToken, call, successors>> /\ refreshTokens' \subseteq refreshTokens
  BY DEF AcInv, AcTypes, AcBootstrapCreate, AcBootstrapPromote, AcBootstrapSkip, Up
<1>b. \A f \in Users, c \in Calls : FounderCall(f, call[c])
  BY <1>a DEF FounderCall
<1>c. DefaultUser \in Users
  BY AccountsAssumption
<1>d. TokensInv'
  BY <1>a, AcTokensKept
<1>1. CASE AcBootstrapCreate
  <2>1. CreateUser(DefaultUser) /\ users' \in [Users -> User]
    BY <1>a, <1>1, <1>c DEF AcBootstrapCreate, CreateUser, User
  <2>2. AcTypes'
    BY <1>a, <2>1 DEF AcTypes
  <2>3. Untouched
    BY <1>1 DEF AcInv, AcBootstrapCreate, FounderIs, LiveUsers
  <2>4. \E f \in Users : FounderIs(f)'
    BY <1>a, <1>b, <1>c, <2>1, <2>3, AcFounds
  <2> QED
    BY <1>d, <2>2, <2>4 DEF AcInv
<1>2. CASE AcBootstrapPromote
  <2>1. PICK w : w = DefaultUser
    OBVIOUS
  <2>2. /\ users' = [users EXCEPT ![w].admin = TRUE] /\ w \in Users /\ boot = "promote" /\ boot' = "up"
    BY <1>2, <1>c, <2>1 DEF AcBootstrapPromote, Up
  <2>3. /\ users' \in [Users -> User] /\ users'[w].state = users[w].state
        /\ \A v \in Users : v # w => users'[v] = users[v]
    <3>1. PICK y \in BOOLEAN : y = TRUE
      OBVIOUS
    <3>2. users' = [users EXCEPT ![w].admin = y]
      BY <2>2, <3>1
    <3> QED
      BY <1>a, <2>2, <3>2 DEF User
  <2>4. AcTypes'
    BY <1>a, <2>2, <2>3 DEF AcTypes
  <2>5. PICK f \in Users : FounderIs(f)
    BY <2>2 DEF AcInv, Untouched
  <2>6. f = w
    BY <2>1, <2>2, <2>5 DEF FounderIs
  <2>7. Live(f)' /\ \A v \in Users : users'[v].admin => v = f
    BY <2>3, <2>5, <2>6 DEF FounderIs, Live
  <2>8. boot' # "promote"
    BY <2>2
  <2>9. \E g \in Users : FounderIs(g)'
    BY <1>a, <2>5, <2>7, <2>8, AcFounderKept
  <2> QED
    BY <1>d, <2>4, <2>9 DEF AcInv
<1>3. CASE AcBootstrapSkip
  <2>1. users' = users /\ boot' = "up"
    BY <1>3 DEF AcBootstrapSkip, Up
  <2>2. AcTypes'
    BY <1>a, <2>1 DEF AcTypes
  <2>3. CASE Untouched
    <3>1. Untouched'
      BY <1>a, <2>1, <2>3 DEF Untouched
    <3> QED
      BY <1>d, <2>2, <3>1 DEF AcInv
  <2>4. ASSUME NEW f \in Users, FounderIs(f) PROVE AcInv'
    <3>1. \E g \in Users : FounderIs(g)'
      BY <1>a, <2>1, <2>4, AcFounderKept DEF FounderIs, Live
    <3> QED
      BY <1>d, <2>2, <3>1 DEF AcInv
  <2> QED
    BY <2>3, <2>4 DEF AcInv
<1> QED
  BY <1>1, <1>2, <1>3

LEMMA AcRestartStep == ASSUME AcInv, AcRestart PROVE AcInv'
<1>a. /\ AcTypes /\ TokensInv /\ boot' = "bootstrap" /\ call' = [c \in Calls |-> Idle]
      /\ UNCHANGED <<users, changes, refreshTokens, lastToken, successors>>
  BY DEF AcInv, AcRestart
<1>b. \A c \in Calls : call'[c] = Idle
  BY <1>a
<1>c. call' \in [Calls -> AcCall] /\ \A c \in Calls : call'[c].pc = "idle"
  BY <1>a, <1>b, AcIdleIs
<1>1. AcTypes'
  BY <1>a, <1>c DEF AcTypes
<1>2. TokensInv'
  <2>1. \A c \in Calls : IssuerIs(call[c])'
    BY <1>b, AcIdleIs DEF IssuerIs
  <2> QED
    BY <1>a, <2>1, AcTokensKept
<1>3. CASE Untouched
  <2>1. Untouched'
    BY <1>3, <1>a, <1>c DEF Untouched
  <2> QED
    BY <1>1, <1>2, <2>1 DEF AcInv
<1>4. ASSUME NEW f \in Users, FounderIs(f) PROVE AcInv'
  <2>1. /\ Live(f)' /\ (\A u \in Users : users'[u].admin => u = f) /\ boot' # "promote"
        /\ \A c \in Calls : FounderCall(f, call'[c])
    BY <1>4, <1>a, <1>b, AcIdleIs DEF FounderIs, Live
  <2>2. \E g \in Users : FounderIs(g)'
    BY <1>4, <2>1, AcFounderKept
  <2> QED
    BY <1>1, <1>2, <2>2 DEF AcInv
<1> QED
  BY <1>3, <1>4 DEF AcInv

LEMMA AcSameTables ==
  ASSUME AcInv, UNCHANGED <<users, refreshTokens, lastToken, changes, call, setupMu, boot, successors>>
  PROVE  AcInv'
BY DEF AcInv, AcTypes, TokensInv, TokenIs, IssuerIs, Untouched, FounderIs, Live

LEMMA AcStep == AcInv /\ [AcNext]_acVars => AcInv'
<1> SUFFICES ASSUME AcInv, [AcNext]_acVars PROVE AcInv'
  OBVIOUS
<1>1. CASE UNCHANGED acVars
  BY <1>1, AcSameTables DEF acVars
<1>2. ASSUME NEW c \in Calls, NEW u \in Users,
             \/ AcLogin(c, u) \/ AcRegister(c, u) \/ AcSetupCount(c, u)
             \/ AcReadUser(c, "password", u) \/ AcReadUser(c, "profile", u)
             \/ \E a \in Users : AcAdmitDelete(c, a, u)
      PROVE  AcInv'
  BY <1>2, AcLoginStep, AcRegisterStep, AcSetupCountStep, AcReadUserStep, AcAdmitDeleteStep
<1>3. ASSUME NEW c \in Calls, NEW t \in refreshTokens,
             AcPresent(c, t) \/ AcPresentExpired(c, t) \/ AcLogout(c, t)
      PROVE  AcInv'
  <2>1. CASE AcPresent(c, t)
    BY <2>1, AcPresentStep
  <2>2. CASE AcPresentExpired(c, t) \/ AcLogout(c, t)
    <3>1. /\ refreshTokens' \subseteq refreshTokens
          /\ UNCHANGED <<users, lastToken, changes, call, boot, successors>>
      BY <2>2 DEF AcPresentExpired, AcLogout, Revoked
    <3> QED
      BY <3>1, AcTokenGoes
  <2> QED
    BY <1>3, <2>1, <2>2
<1>4. ASSUME NEW c \in Calls,
             \/ AcIssue(c) \/ AcRevoke(c) \/ AcRevokeFails(c) \/ AcSavePassword(c)
             \/ AcRevokeAll(c)
             \/ AcRevokeAllFails(c) \/ AcSaveProfile(c)
      PROVE  AcInv'
  BY <1>4, AcIssueStep, AcRevokeStep, AcRevokeFailsStep, AcSaveStep, AcRevokeAllStep, AcRevokeAllFailsStep
<1>5. ASSUME NEW c \in Calls,
             AcDeleteTokens(c) \/ AcDeleteUser(c) \/ AcSetupCreate(c) \/ AcSetupPromote(c)
      PROVE  AcInv'
  BY <1>5, AcDeleteTokensStep, AcDeleteUserStep, AcSetupCreateStep, AcSetupPromoteStep
<1>6. CASE AcBootstrapCreate \/ AcBootstrapPromote \/ AcBootstrapSkip \/ AcRestart
  BY <1>6, AcBootStep, AcRestartStep
<1>7. CASE (\E t \in TokenIds : AcAge(t)) \/ \E u \in Users : AcAccessExpires(u)
  BY <1>7, AcSameTables DEF AcAge, AcAccessExpires
<1> QED
  BY <1>1, <1>2, <1>3, <1>4, <1>5, <1>6, <1>7 DEF AcNext

LEMMA AcInvSuffices == AcInv => AccountsSafe
<1> SUFFICES ASSUME AcInv PROVE AccountsSafe
  OBVIOUS
<1>1. ExchangedTokenIsSpent /\ PasswordChangeEndsSessions
  BY DEF AcInv, TokensInv, TokenIs, ExchangedTokenIsSpent, PasswordChangeEndsSessions
<1>2. CASE Untouched
  <2>1. {u \in LiveUsers : users[u].admin} = {}
    BY <1>2 DEF Untouched, LiveUsers
  <2>2. Cardinality({u \in LiveUsers : users[u].admin}) = 0
    BY <2>1, FS_EmptySet
  <2> QED
    BY <1>1, <1>2, <2>2 DEF Untouched, AccountsSafe, RevokedTokensStayDead, SetupStaysClosed
<1>3. ASSUME NEW f \in Users, FounderIs(f) PROVE AccountsSafe
  <2>1. {u \in LiveUsers : users[u].admin} \in SUBSET {f}
    BY <1>3 DEF FounderIs, LiveUsers
  <2>2. IsFiniteSet({f}) /\ Cardinality({f}) = 1
    BY FS_Singleton
  <2>3. Cardinality({u \in LiveUsers : users[u].admin}) <= 1
    BY <2>1, <2>2, FS_Subset
  <2>4. LiveUsers # {}
    BY <1>3 DEF FounderIs, LiveUsers
  <2> QED
    BY <1>1, <2>3, <2>4 DEF AccountsSafe, RevokedTokensStayDead, SetupStaysClosed
<1> QED
  BY <1>2, <1>3 DEF AcInv

\* However requests, deletions of users, changes of passwords and restarts interleave: a token
\* that was exchanged is spent, a change of the password ends the sessions opened before, and
\* the setup, once used, stays closed (RotateRefreshToken, ChangePassword, SetupHandler,
\* Bootstrap, DeleteUser).
THEOREM AccountsAlwaysSafe == AcSpec => []AccountsSafe
<1>1. AcInit => AcInv
  BY AcInitially
<1>2. AcInv /\ [AcNext]_acVars => AcInv'
  BY AcStep
<1>3. AcInv => AccountsSafe
  BY AcInvSuffices
<1> QED
  BY <1>1, <1>2, <1>3, PTL DEF AcSpec

-----------------------------------------------------------------------------
(* Searches                                                                *)

IxSpec == IxInit /\ [][IxNext]_ixVars

IxPcs == {"none", "slot", "get", "defs", "secrets", "solver", "keep", "lock", "ask", "send",
          "over"}
IxTaskRecord == [pc : IxPcs, json : Nat, defs : Nat, secret : Nat, solver : Nat,
                 engine : Nat, raced : BOOLEAN, found : BOOLEAN]
IxEngine == [of : IxIndexers, json : Nat, defs : Nat, secret : Nat, solver : Nat,
             raced : BOOLEAN, loggedIn : BOOLEAN, holder : SUBSET IxEveryCall]
IxCallRecord == [pc : {"idle", "asking", "returned"}, found : SUBSET IxIndexers,
                 failed : SUBSET IxIndexers]
IxUpdateRecord == [pc : {"idle", "secrets", "invalidate", "save", "done", "failed"},
                   of : IxIndexers \cup {IxNoUpdate.of},
                   kind : {"settings", "secret", "enabled", "delete"}, json : Nat,
                   secret : Nat, enabled : BOOLEAN]

IxTypes ==
  /\ ixRow \in [IxIndexers -> [there : BOOLEAN, enabled : BOOLEAN, json : Nat]]
  /\ ixSecret \in [IxIndexers -> Nat] /\ ixDefs \in Nat /\ ixRefresh \in {"idle", "swapped"}
  /\ ixSolver \in Nat /\ ixDropped \in [IxIndexers -> Nat]
  /\ ixEngines \in Seq(IxEngine)
  /\ ixCache \in [IxIndexers -> 0..Len(ixEngines)]
  /\ ixTask \in [IxEveryCall -> [IxIndexers -> IxTaskRecord]]
  /\ ixCall \in [IxEveryCall -> IxCallRecord]
  /\ ixUpdate \in [IxUpdates -> IxUpdateRecord]
  /\ \A u \in IxUpdates : ixUpdate[u].pc # "idle" => ixUpdate[u].of \in IxIndexers

\* What a task has read for an engine is still so, or it was raced.
TaskIs(t, i) ==
  (t.pc \in IxBuilding /\ ~t.raced) =>
    /\ t.json = ixRow[i].json
    /\ t.pc \in {"secrets", "solver", "keep"} => t.defs = ixDefs
    /\ t.pc \in {"solver", "keep"} => t.secret = ixSecret[i]

\* Every engine of an indexer, cached or to come, is a raced one.
Tainted(i) ==
  /\ ixCache[i] # 0 => ixEngines[ixCache[i]].raced
  /\ \A c \in IxEveryCall : ixTask[c][i].pc \in IxBuilding => ixTask[c][i].raced

\* An update has dropped the engine and is not done, or holds a row that is not the latest.
Dropped(p) ==
  \/ p.kind \in {"settings", "secret"} /\ p.pc = "save"
  \/ p.kind = "delete" /\ p.pc \in {"secrets", "save"}
UpdateIs(p) ==
  (p.pc \notin {"idle", "done", "failed"} /\ (Dropped(p) \/ p.json # ixRow[p.of].json))
    => Tainted(p.of)

CacheIs(i) ==
  (ixCache[i] # 0 /\ ixRow[i].there) =>
    LET e == ixEngines[ixCache[i]] IN
    \/ e.json = ixRow[i].json /\ e.secret = ixSecret[i] /\ e.defs = ixDefs
    \/ ixRefresh = "swapped"
    \/ \E u \in IxUpdates : ixUpdate[u].of = i /\ ixUpdate[u].pc \in {"invalidate", "failed"}
    \/ e.raced

\* What a call has counted of an indexer.
OutcomeIs(t, q, i) ==
  /\ q.pc = "idle" => t.pc = "none"
  /\ q.pc = "returned" => t.pc \in {"none", "over"}
  /\ IF t.pc = "over"
     THEN (i \in q.found <=> t.found) /\ (i \in q.failed <=> ~t.found)
     ELSE i \notin q.found \cup q.failed

HoldersAsk ==
  \A e \in DOMAIN ixEngines : \A c \in ixEngines[e].holder :
    \E i \in IxIndexers : ixTask[c][i].pc = "ask" /\ ixTask[c][i].engine = e

IxInv ==
  /\ IxTypes /\ HoldersAsk
  /\ \A i \in IxIndexers : CacheIs(i)
  /\ \A c \in IxEveryCall, i \in IxIndexers :
       TaskIs(ixTask[c][i], i) /\ OutcomeIs(ixTask[c][i], ixCall[c], i)
  /\ \A u \in IxUpdates : UpdateIs(ixUpdate[u])

LEMMA IxNoTaskIs == IxNoTask \in IxTaskRecord /\ IxNoTask.pc = "none"
BY DEF IxNoTask, IxTaskRecord, IxPcs

LEMMA IxInitially == IxInit => IxInv
<1> SUFFICES ASSUME IxInit PROVE IxInv
  OBVIOUS
<1>1. ixEngines \in Seq(IxEngine) /\ Len(ixEngines) = 0 /\ DOMAIN ixEngines = {}
  BY DEF IxInit
<1>2. IxNoUpdate \in IxUpdateRecord /\ IxNoUpdate.pc = "idle"
  BY DEF IxNoUpdate, IxUpdateRecord
<1>3. ixTask \in [IxEveryCall -> [IxIndexers -> IxTaskRecord]]
  BY IxNoTaskIs DEF IxInit
<1>4. /\ ixCall \in [IxEveryCall -> IxCallRecord] /\ ixRefresh \in {"idle", "swapped"}
      /\ ixRow \in [IxIndexers -> [there : BOOLEAN, enabled : BOOLEAN, json : Nat]]
      /\ ixSecret \in [IxIndexers -> Nat] /\ ixDefs \in Nat
      /\ ixSolver \in Nat /\ ixDropped \in [IxIndexers -> Nat]
      /\ ixCache \in [IxIndexers -> 0..Len(ixEngines)]
      /\ ixUpdate \in [IxUpdates -> IxUpdateRecord]
  BY <1>1, <1>2 DEF IxInit, IxCallRecord
<1>5. \A u \in IxUpdates : ixUpdate[u].pc = "idle"
  BY <1>2 DEF IxInit
<1>6. IxTypes
  BY <1>1, <1>3, <1>4, <1>5 DEF IxTypes
<1>7. HoldersAsk
  BY <1>1 DEF HoldersAsk
<1>8. \A i \in IxIndexers : CacheIs(i)
  BY DEF IxInit, CacheIs
<1>9. ASSUME NEW c \in IxEveryCall, NEW i \in IxIndexers
      PROVE  TaskIs(ixTask[c][i], i) /\ OutcomeIs(ixTask[c][i], ixCall[c], i)
  BY IxNoTaskIs DEF IxInit, TaskIs, OutcomeIs, IxBuilding
<1>10. \A u \in IxUpdates : UpdateIs(ixUpdate[u])
  BY <1>5 DEF UpdateIs
<1> QED
  BY <1>6, <1>7, <1>8, <1>9, <1>10 DEF IxInv

LEMMA IxTaskWritten ==
  ASSUME ixTask \in [IxEveryCall -> [IxIndexers -> IxTaskRecord]],
         NEW c \in IxEveryCall, NEW i \in IxIndexers, NEW n \in IxTaskRecord, IxGoes(c, i, n)
  PROVE  /\ ixTask' \in [IxEveryCall -> [IxIndexers -> IxTaskRecord]]
         /\ ixTask'[c][i] = n
         /\ \A d \in IxEveryCall, j \in IxIndexers :
              (d # c \/ j # i) => ixTask'[d][j] = ixTask[d][j]
<1>1. ixTask' = [ixTask EXCEPT ![c] = [ixTask[c] EXCEPT ![i] = n]]
  BY DEF IxGoes
<1>2. [ixTask[c] EXCEPT ![i] = n] \in [IxIndexers -> IxTaskRecord]
  OBVIOUS
<1> QED
  BY <1>1, <1>2

\* What the invariant says when nothing but tasks and outcomes change, of the building ones
\* none becomes unraced.
LEMMA IxCacheKept ==
  ASSUME IxInv, UNCHANGED <<IxStore, ixCache>>,
         \A i \in IxIndexers : ixCache[i] # 0 =>
           /\ ixEngines'[ixCache[i]].json = ixEngines[ixCache[i]].json
           /\ ixEngines'[ixCache[i]].secret = ixEngines[ixCache[i]].secret
           /\ ixEngines'[ixCache[i]].defs = ixEngines[ixCache[i]].defs
           /\ ixEngines'[ixCache[i]].raced = ixEngines[ixCache[i]].raced,
         \A d \in IxEveryCall, j \in IxIndexers :
           ixTask'[d][j].pc \in IxBuilding =>
             (ixTask'[d][j].raced \/ (ixTask[d][j].pc \in IxBuilding /\ ~ixTask[d][j].raced)
               \/ ~IxChanging(j))
  PROVE  /\ \A i \in IxIndexers : CacheIs(i)'
         /\ \A u \in IxUpdates : UpdateIs(ixUpdate[u])'
<1>a. UNCHANGED <<ixRow, ixSecret, ixDefs, ixSolver, ixDropped, ixRefresh, ixUpdate, ixCache>>
  BY DEF IxStore
<1>1. ASSUME NEW i \in IxIndexers PROVE CacheIs(i)'
  BY <1>a DEF IxInv, CacheIs
<1>2. ASSUME NEW u \in IxUpdates PROVE UpdateIs(ixUpdate[u])'
  <2>1. PICK p : p = ixUpdate[u]
    OBVIOUS
  <2> SUFFICES ASSUME p.pc \notin {"idle", "done", "failed"}, Dropped(p) \/ p.json # ixRow[p.of].json
               PROVE  Tainted(p.of)'
    BY <1>a, <2>1 DEF UpdateIs, Dropped
  <2>2. Tainted(p.of) /\ p.of \in IxIndexers
    BY <2>1 DEF IxInv, UpdateIs, IxTypes
  <2>3. IxChanging(p.of)
    BY <2>1 DEF IxChanging
  <2>4. ixCache'[p.of] # 0 => ixEngines'[ixCache'[p.of]].raced
    BY <1>a, <2>2 DEF Tainted
  <2>5. \A c \in IxEveryCall : ixTask'[c][p.of].pc \in IxBuilding => ixTask'[c][p.of].raced
    BY <2>2, <2>3 DEF Tainted
  <2> QED
    BY <2>4, <2>5 DEF Tainted
<1> QED
  BY <1>1, <1>2

\* One task moves, and with it at most who holds an engine.
LEMMA IxOneTask ==
  ASSUME IxInv, NEW c \in IxEveryCall, NEW i \in IxIndexers, NEW n \in IxTaskRecord,
         IxGoes(c, i, n), UNCHANGED <<IxStore, ixCache, ixCall>>,
         ixEngines' \in Seq(IxEngine), Len(ixEngines') = Len(ixEngines),
         \A e \in DOMAIN ixEngines :
           /\ ixEngines'[e].json = ixEngines[e].json /\ ixEngines'[e].secret = ixEngines[e].secret
           /\ ixEngines'[e].defs = ixEngines[e].defs /\ ixEngines'[e].raced = ixEngines[e].raced,
         TaskIs(n, i), OutcomeIs(n, ixCall[c], i),
         n.pc \in IxBuilding => ixTask[c][i].pc \in IxBuilding /\ n.raced = ixTask[c][i].raced,
         HoldersAsk'
  PROVE  IxInv'
<1>a. /\ ixTask \in [IxEveryCall -> [IxIndexers -> IxTaskRecord]]
      /\ ixEngines \in Seq(IxEngine) /\ ixCache \in [IxIndexers -> 0..Len(ixEngines)]
      /\ UNCHANGED <<ixRow, ixSecret, ixDefs, ixSolver, ixDropped, ixRefresh, ixUpdate, ixCache, ixCall>>
  BY DEF IxInv, IxTypes, IxStore
<1>b. /\ ixTask' \in [IxEveryCall -> [IxIndexers -> IxTaskRecord]]
      /\ ixTask'[c][i] = n
      /\ \A d \in IxEveryCall, j \in IxIndexers :
           (d # c \/ j # i) => ixTask'[d][j] = ixTask[d][j]
  BY <1>a, IxTaskWritten
<1>1. IxTypes'
  BY <1>a, <1>b DEF IxInv, IxTypes
<1>3. ASSUME NEW d \in IxEveryCall, NEW j \in IxIndexers
      PROVE  TaskIs(ixTask[d][j], j)' /\ OutcomeIs(ixTask[d][j], ixCall[d], j)'
  <2>1. CASE d = c /\ j = i
    BY <1>a, <1>b, <2>1 DEF TaskIs, OutcomeIs
  <2>2. CASE d # c \/ j # i
    <3>1. ixTask'[d][j] = ixTask[d][j]
      BY <1>b, <2>2
    <3> QED
      BY <1>a, <3>1 DEF IxInv, TaskIs, OutcomeIs
  <2> QED
    BY <2>1, <2>2
<1>4. \A d \in IxEveryCall, j \in IxIndexers :
        ixTask'[d][j].pc \in IxBuilding =>
          (ixTask'[d][j].raced \/ (ixTask[d][j].pc \in IxBuilding /\ ~ixTask[d][j].raced)
            \/ ~IxChanging(j))
  <2> SUFFICES ASSUME NEW d \in IxEveryCall, NEW j \in IxIndexers, ixTask'[d][j].pc \in IxBuilding,
                      ~ixTask'[d][j].raced
               PROVE  ixTask[d][j].pc \in IxBuilding /\ ~ixTask[d][j].raced
    OBVIOUS
  <2>1. CASE d = c /\ j = i
    BY <1>b, <2>1
  <2>2. CASE d # c \/ j # i
    BY <1>b, <2>2
  <2> QED
    BY <2>1, <2>2
<1>5. ASSUME NEW j \in IxIndexers, ixCache[j] # 0 PROVE ixCache[j] \in DOMAIN ixEngines
  BY <1>a, <1>5
<1>6. (\A j \in IxIndexers : CacheIs(j)') /\ \A u \in IxUpdates : UpdateIs(ixUpdate[u])'
  BY <1>a, <1>4, <1>5, IxCacheKept
<1> QED
  BY <1>1, <1>3, <1>6 DEF IxInv

\* A task that proceeds, and has its engine neither before nor after.
LEMMA IxTaskStep ==
  ASSUME IxInv, NEW c \in IxEveryCall, NEW i \in IxIndexers, NEW n \in IxTaskRecord,
         IxGoes(c, i, n), UNCHANGED <<IxStore, ixEngines, ixCache, ixCall>>,
         ixTask[c][i].pc \in IxBuilding, n.pc \notin {"none", "ask", "over"},
         n.raced = ixTask[c][i].raced, TaskIs(n, i)
  PROVE  IxInv'
<1>a. /\ ixTask \in [IxEveryCall -> [IxIndexers -> IxTaskRecord]]
      /\ ixEngines \in Seq(IxEngine) /\ ixEngines' = ixEngines
  BY DEF IxInv, IxTypes
<1>b. \A d \in IxEveryCall, j \in IxIndexers :
        (d # c \/ j # i) => ixTask'[d][j] = ixTask[d][j]
  BY <1>a, IxTaskWritten
<1>1. HoldersAsk'
  <2> SUFFICES ASSUME NEW e \in DOMAIN ixEngines, NEW d \in ixEngines[e].holder
               PROVE  \E j \in IxIndexers : ixTask'[d][j].pc = "ask" /\ ixTask'[d][j].engine = e
    BY <1>a DEF HoldersAsk
  <2>1. PICK j \in IxIndexers : ixTask[d][j].pc = "ask" /\ ixTask[d][j].engine = e
    BY DEF IxInv, HoldersAsk
  <2>2. ixEngines[e] \in IxEngine
    BY <1>a
  <2>3. d \in IxEveryCall
    BY <2>2 DEF IxEngine
  <2>4. ixTask'[d][j] = ixTask[d][j]
    BY <1>b, <2>1, <2>3 DEF IxBuilding
  <2> QED
    BY <2>1, <2>4
<1>2. OutcomeIs(ixTask[c][i], ixCall[c], i)
  BY DEF IxInv
<1>3. OutcomeIs(n, ixCall[c], i)
  BY <1>2 DEF OutcomeIs, IxBuilding
<1> QED
  BY <1>a, <1>1, <1>3, IxOneTask

LEMMA IxBuildSteps ==
  ASSUME IxInv, NEW c \in IxEveryCall, NEW i \in IxIndexers,
         \/ IxSlot(c, i) \/ IxGetEngine(c, i) \/ IxReadDefinition(c, i)
         \/ IxReadSecrets(c, i) \/ IxReadSolver(c, i) \/ IxBuildFails(c, i)
  PROVE  IxInv'
<1> DEFINE t == ixTask[c][i]
<1>1. /\ t \in IxTaskRecord /\ TaskIs(t, i) /\ ixCache[i] \in Nat
      /\ ixDefs \in Nat /\ ixSecret[i] \in Nat /\ ixSolver \in Nat
  BY DEF IxInv, IxTypes
<1>2. CASE IxSlot(c, i)
  <2>1. PICK n : n = [t EXCEPT !.pc = "get"]
    OBVIOUS
  <2>2. n \in IxTaskRecord /\ n.pc = "get" /\ n.raced = t.raced /\ n.json = t.json
    BY <1>1, <2>1 DEF IxTaskRecord, IxPcs
  <2>3. t.pc \in IxBuilding /\ TaskIs(n, i)
    BY <1>1, <1>2, <2>2 DEF IxSlot, TaskIs, IxBuilding
  <2> QED
    BY <1>2, <2>1, <2>2, <2>3, IxTaskStep DEF IxSlot
<1>3. CASE IxGetEngine(c, i)
  <2>0. t.pc \in IxBuilding
    BY <1>3 DEF IxGetEngine, IxBuilding
  <2>1. CASE ixCache[i] # 0
    <3>1. PICK n : n = [t EXCEPT !.pc = "lock", !.engine = ixCache[i]]
      OBVIOUS
    <3>2. n \in IxTaskRecord /\ n.pc = "lock" /\ n.raced = t.raced
      BY <1>1, <3>1 DEF IxTaskRecord, IxPcs
    <3>3. TaskIs(n, i)
      BY <3>2 DEF TaskIs, IxBuilding
    <3> QED
      BY <1>3, <2>0, <2>1, <3>1, <3>2, <3>3, IxTaskStep DEF IxGetEngine
  <2>2. CASE ixCache[i] = 0
    <3>1. PICK n : n = [t EXCEPT !.pc = "defs"]
      OBVIOUS
    <3>2. n \in IxTaskRecord /\ n.pc = "defs" /\ n.raced = t.raced /\ n.json = t.json
      BY <1>1, <3>1 DEF IxTaskRecord, IxPcs
    <3>3. TaskIs(n, i)
      BY <1>1, <2>0, <3>2 DEF TaskIs, IxBuilding
    <3> QED
      BY <1>3, <2>0, <2>2, <3>1, <3>2, <3>3, IxTaskStep DEF IxGetEngine
  <2> QED
    BY <2>1, <2>2
<1>4. CASE IxReadDefinition(c, i)
  <2>1. PICK n : n = [t EXCEPT !.pc = "secrets", !.defs = ixDefs]
    OBVIOUS
  <2>2. /\ n \in IxTaskRecord /\ n.pc = "secrets" /\ n.raced = t.raced /\ n.json = t.json
        /\ n.defs = ixDefs
    BY <1>1, <2>1 DEF IxTaskRecord, IxPcs
  <2>3. t.pc \in IxBuilding /\ TaskIs(n, i)
    BY <1>1, <1>4, <2>2 DEF IxReadDefinition, TaskIs, IxBuilding
  <2> QED
    BY <1>4, <2>1, <2>2, <2>3, IxTaskStep DEF IxReadDefinition
<1>5. CASE IxReadSecrets(c, i)
  <2>1. PICK n : n = [t EXCEPT !.pc = "solver", !.secret = ixSecret[i]]
    OBVIOUS
  <2>2. /\ n \in IxTaskRecord /\ n.pc = "solver" /\ n.raced = t.raced /\ n.json = t.json
        /\ n.defs = t.defs /\ n.secret = ixSecret[i]
    BY <1>1, <2>1 DEF IxTaskRecord, IxPcs
  <2>3. t.pc \in IxBuilding /\ TaskIs(n, i)
    BY <1>1, <1>5, <2>2 DEF IxReadSecrets, TaskIs, IxBuilding
  <2> QED
    BY <1>5, <2>1, <2>2, <2>3, IxTaskStep DEF IxReadSecrets
<1>6. CASE IxBuildFails(c, i)
  <2>1. PICK n : n = [t EXCEPT !.pc = "send"]
    OBVIOUS
  <2>2. n \in IxTaskRecord /\ n.pc = "send" /\ n.raced = t.raced
    BY <1>1, <2>1 DEF IxTaskRecord, IxPcs
  <2>3. t.pc \in IxBuilding /\ TaskIs(n, i)
    BY <1>6, <2>2 DEF IxBuildFails, TaskIs, IxBuilding
  <2> QED
    BY <1>6, <2>1, <2>2, <2>3, IxTaskStep DEF IxBuildFails
<1>7. CASE IxReadSolver(c, i)
  <2>1. PICK solver \in {0, ixSolver} :
          IxGoes(c, i, [t EXCEPT !.pc = "keep", !.solver = solver])
    BY <1>7 DEF IxReadSolver
  <2>2. PICK n : n = [t EXCEPT !.pc = "keep", !.solver = solver]
    OBVIOUS
  <2>3. solver \in Nat
    BY <1>1
  <2>4. /\ n \in IxTaskRecord /\ n.pc = "keep" /\ n.raced = t.raced /\ n.json = t.json
        /\ n.defs = t.defs /\ n.secret = t.secret
    BY <1>1, <2>2, <2>3 DEF IxTaskRecord, IxPcs
  <2>5. t.pc \in IxBuilding /\ TaskIs(n, i)
    BY <1>1, <1>7, <2>4 DEF IxReadSolver, TaskIs, IxBuilding
  <2> QED
    BY <1>7, <2>1, <2>2, <2>4, <2>5, IxTaskStep DEF IxReadSolver
<1> QED
  BY <1>2, <1>3, <1>4, <1>5, <1>6, <1>7

\* Every task but the one that moves stays as it is.
LEMMA IxOthersTypes ==
  ASSUME IxInv
  PROVE  /\ ixTask \in [IxEveryCall -> [IxIndexers -> IxTaskRecord]]
         /\ ixEngines \in Seq(IxEngine) /\ Len(ixEngines) \in Nat
         /\ DOMAIN ixEngines = 1..Len(ixEngines)
         /\ ixCache \in [IxIndexers -> 0..Len(ixEngines)]
         /\ \A e \in DOMAIN ixEngines : ixEngines[e] \in IxEngine
<1>1. /\ ixEngines \in Seq(IxEngine) /\ ixTask \in [IxEveryCall -> [IxIndexers -> IxTaskRecord]]
      /\ ixCache \in [IxIndexers -> 0..Len(ixEngines)]
  BY DEF IxInv, IxTypes
<1>2. Len(ixEngines) \in Nat /\ DOMAIN ixEngines = 1..Len(ixEngines)
  BY <1>1
<1>3. ASSUME NEW e \in DOMAIN ixEngines PROVE ixEngines[e] \in IxEngine
  BY <1>1
<1> QED
  BY <1>1, <1>2, <1>3

LEMMA IxLockKeeps ==
  ASSUME IxInv, NEW c \in IxEveryCall, NEW i \in IxIndexers, IxLock(c, i)
  PROVE  IxInv'
<1> DEFINE t == ixTask[c][i]
           e == t.engine
<1>1. t \in IxTaskRecord /\ t.pc = "lock" /\ e \in Nat
  BY IxOthersTypes DEF IxLock, IxTaskRecord
<1>2. PICK n : n = [t EXCEPT !.pc = "ask"]
  OBVIOUS
<1>3. n \in IxTaskRecord /\ n.pc = "ask" /\ n.engine = e
  BY <1>1, <1>2 DEF IxTaskRecord, IxPcs
<1>4. IxGoes(c, i, n) /\ UNCHANGED <<IxStore, ixCache, ixCall>>
  BY <1>2 DEF IxLock
<1>b. /\ ixTask'[c][i] = n
      /\ \A d \in IxEveryCall, j \in IxIndexers :
           (d # c \/ j # i) => ixTask'[d][j] = ixTask[d][j]
  BY <1>3, <1>4, IxOthersTypes, IxTaskWritten
<1>5. PICK h : h = {c}
  OBVIOUS
<1>6. ixEngines' = [ixEngines EXCEPT ![e].holder = h]
  BY <1>5 DEF IxLock
<1>7. ASSUME NEW f \in DOMAIN ixEngines
      PROVE  /\ ixEngines'[f] \in IxEngine
             /\ ixEngines'[f].json = ixEngines[f].json /\ ixEngines'[f].secret = ixEngines[f].secret
             /\ ixEngines'[f].defs = ixEngines[f].defs /\ ixEngines'[f].raced = ixEngines[f].raced
             /\ ixEngines'[f].holder = IF f = e THEN h ELSE ixEngines[f].holder
  <2>1. ixEngines[f] \in IxEngine /\ h \in SUBSET IxEveryCall
    BY <1>5, IxOthersTypes
  <2>2. CASE f = e
    <3>1. ixEngines'[f] = [ixEngines[f] EXCEPT !.holder = h]
      BY <1>6, <2>2
    <3> QED
      BY <2>1, <2>2, <3>1 DEF IxEngine
  <2>3. CASE f # e
    BY <1>6, <2>1, <2>3
  <2> QED
    BY <2>2, <2>3
<1>8. /\ ixEngines' \in Seq(IxEngine) /\ Len(ixEngines') = Len(ixEngines)
      /\ DOMAIN ixEngines' = DOMAIN ixEngines
  <2>1. Len(ixEngines) \in Nat /\ DOMAIN ixEngines = 1..Len(ixEngines)
    BY IxOthersTypes
  <2>2. ixEngines' = [f \in 1..Len(ixEngines) |-> ixEngines'[f]]
    BY <1>6, <2>1
  <2> QED
    BY <1>7, <2>1, <2>2
<1>9. HoldersAsk'
  <2> SUFFICES ASSUME NEW f \in DOMAIN ixEngines, NEW d \in ixEngines'[f].holder
               PROVE  \E j \in IxIndexers : ixTask'[d][j].pc = "ask" /\ ixTask'[d][j].engine = f
    BY <1>8 DEF HoldersAsk
  <2>1. CASE f = e
    BY <1>3, <1>5, <1>7, <1>b, <2>1
  <2>2. CASE f # e
    <3>1. d \in ixEngines[f].holder /\ d \in IxEveryCall
      BY <1>7, <2>2, IxOthersTypes DEF IxEngine
    <3>2. PICK j \in IxIndexers : ixTask[d][j].pc = "ask" /\ ixTask[d][j].engine = f
      BY <3>1 DEF IxInv, HoldersAsk
    <3>3. ixTask'[d][j] = ixTask[d][j]
      BY <1>1, <1>b, <3>1, <3>2
    <3> QED
      BY <3>2, <3>3
  <2> QED
    BY <2>1, <2>2
<1>10. TaskIs(n, i)
  BY <1>3 DEF TaskIs, IxBuilding
<1>11. OutcomeIs(n, ixCall[c], i)
  <2>1. OutcomeIs(t, ixCall[c], i)
    BY DEF IxInv
  <2> QED
    BY <1>1, <1>3, <2>1 DEF OutcomeIs
<1> HIDE DEF t, e
<1> QED
  BY <1>3, <1>4, <1>7, <1>8, <1>9, <1>10, <1>11, IxOneTask DEF IxBuilding

LEMMA IxAskedKeeps ==
  ASSUME IxInv, NEW c \in IxEveryCall, NEW i \in IxIndexers, IxAsked(c, i)
  PROVE  IxInv'
<1> DEFINE t == ixTask[c][i]
           e == t.engine
<1>0. PICK login \in BOOLEAN, found \in BOOLEAN :
        /\ IxGoes(c, i, [t EXCEPT !.pc = "send", !.found = found])
        /\ ixEngines' = [ixEngines EXCEPT ![e] = [IxLogin(@, login) EXCEPT !.holder = {}]]
  BY DEF IxAsked
<1>1. t \in IxTaskRecord /\ t.pc = "ask" /\ e \in Nat
  BY IxOthersTypes DEF IxAsked, IxTaskRecord
<1>2. PICK n : n = [t EXCEPT !.pc = "send", !.found = found]
  OBVIOUS
<1>3. n \in IxTaskRecord /\ n.pc = "send"
  BY <1>1, <1>2 DEF IxTaskRecord, IxPcs
<1>4. IxGoes(c, i, n) /\ UNCHANGED <<IxStore, ixCache, ixCall>>
  BY <1>0, <1>2 DEF IxAsked
<1>b. /\ ixTask'[c][i] = n
      /\ \A d \in IxEveryCall, j \in IxIndexers :
           (d # c \/ j # i) => ixTask'[d][j] = ixTask[d][j]
  BY <1>3, <1>4, IxOthersTypes, IxTaskWritten
<1>7. ASSUME NEW f \in DOMAIN ixEngines
      PROVE  /\ ixEngines'[f] \in IxEngine
             /\ ixEngines'[f].json = ixEngines[f].json /\ ixEngines'[f].secret = ixEngines[f].secret
             /\ ixEngines'[f].defs = ixEngines[f].defs /\ ixEngines'[f].raced = ixEngines[f].raced
             /\ ixEngines'[f].holder = IF f = e THEN {} ELSE ixEngines[f].holder
  <2>1. ixEngines[f] \in IxEngine
    BY IxOthersTypes
  <2>2. CASE f = e
    <3>1. PICK l : l = (ixEngines[f].loggedIn \/ login)
      OBVIOUS
    <3>2. l \in BOOLEAN
      BY <3>1
    <3>3. ixEngines'[f] = [[ixEngines[f] EXCEPT !.loggedIn = l] EXCEPT !.holder = {}]
      BY <1>0, <2>2, <3>1 DEF IxLogin
    <3> QED
      BY <2>1, <2>2, <3>2, <3>3 DEF IxEngine
  <2>3. CASE f # e
    BY <1>0, <2>1, <2>3
  <2> QED
    BY <2>2, <2>3
<1>8. /\ ixEngines' \in Seq(IxEngine) /\ Len(ixEngines') = Len(ixEngines)
      /\ DOMAIN ixEngines' = DOMAIN ixEngines
  <2>1. Len(ixEngines) \in Nat /\ DOMAIN ixEngines = 1..Len(ixEngines)
    BY IxOthersTypes
  <2>2. ixEngines' = [f \in 1..Len(ixEngines) |-> ixEngines'[f]]
    BY <1>0, <2>1
  <2> QED
    BY <1>7, <2>1, <2>2
<1>9. HoldersAsk'
  <2> SUFFICES ASSUME NEW f \in DOMAIN ixEngines, NEW d \in ixEngines'[f].holder
               PROVE  \E j \in IxIndexers : ixTask'[d][j].pc = "ask" /\ ixTask'[d][j].engine = f
    BY <1>8 DEF HoldersAsk
  <2>1. f # e /\ d \in ixEngines[f].holder
    BY <1>7
  <2>2. d \in IxEveryCall
    BY <2>1, IxOthersTypes DEF IxEngine
  <2>3. PICK j \in IxIndexers : ixTask[d][j].pc = "ask" /\ ixTask[d][j].engine = f
    BY <2>1 DEF IxInv, HoldersAsk
  <2>4. ixTask'[d][j] = ixTask[d][j]
    BY <1>b, <2>1, <2>2, <2>3
  <2> QED
    BY <2>3, <2>4
<1>10. TaskIs(n, i)
  BY <1>3 DEF TaskIs, IxBuilding
<1>11. OutcomeIs(n, ixCall[c], i)
  <2>1. OutcomeIs(t, ixCall[c], i)
    BY DEF IxInv
  <2> QED
    BY <1>1, <1>3, <2>1 DEF OutcomeIs
<1> HIDE DEF t, e
<1> QED
  BY <1>3, <1>4, <1>7, <1>8, <1>9, <1>10, <1>11, IxOneTask DEF IxBuilding
\* The new engine is current, or it is raced as the task that built it was.
LEMMA IxKeepEngineKeeps ==
  ASSUME IxInv, NEW c \in IxEveryCall, NEW i \in IxIndexers, IxKeepEngine(c, i)
  PROVE  IxInv'
<1> DEFINE t == ixTask[c][i]
<1>1. t \in IxTaskRecord /\ t.pc = "keep" /\ TaskIs(t, i)
  BY IxOthersTypes DEF IxKeepEngine, IxInv
<1>2. PICK w : w = [of |-> i, json |-> t.json, defs |-> t.defs, secret |-> t.secret,
                    solver |-> t.solver, raced |-> t.raced, loggedIn |-> FALSE, holder |-> {}]
  OBVIOUS
<1>3. /\ w \in IxEngine /\ w.holder = {} /\ w.raced = t.raced
      /\ w.json = t.json /\ w.defs = t.defs /\ w.secret = t.secret
  BY <1>1, <1>2 DEF IxEngine, IxTaskRecord
<1>4. ixEngines' = Append(ixEngines, w)
  BY <1>2 DEF IxKeepEngine
<1>5. PICK k \in Nat : k = Len(ixEngines) + 1
  BY IxOthersTypes
<1>6. /\ ixEngines' \in Seq(IxEngine) /\ Len(ixEngines') = k
      /\ ixEngines'[k] = w /\ k \notin DOMAIN ixEngines /\ k # 0
      /\ DOMAIN ixEngines' = DOMAIN ixEngines \cup {k}
      /\ \A e \in DOMAIN ixEngines : ixEngines'[e] = ixEngines[e]
  BY <1>3, <1>4, <1>5, IxOthersTypes
<1>7. PICK n : n = [t EXCEPT !.pc = "lock", !.engine = k]
  OBVIOUS
<1>8. n \in IxTaskRecord /\ n.pc = "lock"
  BY <1>1, <1>7 DEF IxTaskRecord, IxPcs
<1>9. /\ IxGoes(c, i, n) /\ ixCache' = [ixCache EXCEPT ![i] = k]
      /\ UNCHANGED <<ixRow, ixSecret, ixDefs, ixSolver, ixDropped, ixRefresh, ixUpdate, ixCall>>
  BY <1>5, <1>7 DEF IxKeepEngine, IxStore
<1>b. /\ ixTask' \in [IxEveryCall -> [IxIndexers -> IxTaskRecord]]
      /\ ixTask'[c][i] = n
      /\ \A d \in IxEveryCall, j \in IxIndexers :
           (d # c \/ j # i) => ixTask'[d][j] = ixTask[d][j]
  BY <1>8, <1>9, IxOthersTypes, IxTaskWritten
<1>10. ixCache' \in [IxIndexers -> 0..Len(ixEngines')] /\ ixCache'[i] = k
       /\ \A j \in IxIndexers : j # i => ixCache'[j] = ixCache[j]
  BY <1>5, <1>6, <1>9, IxOthersTypes
<1>11. \A j \in IxIndexers : ixCache[j] # 0 => ixCache[j] \in DOMAIN ixEngines
  BY IxOthersTypes
<1>12. IxTypes'
  BY <1>6, <1>9, <1>10, <1>b DEF IxInv, IxTypes
<1>13. HoldersAsk'
  <2> SUFFICES ASSUME NEW f \in DOMAIN ixEngines', NEW d \in ixEngines'[f].holder
               PROVE  \E j \in IxIndexers : ixTask'[d][j].pc = "ask" /\ ixTask'[d][j].engine = f
    BY DEF HoldersAsk
  <2>1. f \in DOMAIN ixEngines /\ d \in ixEngines[f].holder
    BY <1>3, <1>6
  <2>2. d \in IxEveryCall
    BY <2>1, IxOthersTypes DEF IxEngine
  <2>3. PICK j \in IxIndexers : ixTask[d][j].pc = "ask" /\ ixTask[d][j].engine = f
    BY <2>1 DEF IxInv, HoldersAsk
  <2>4. ixTask'[d][j] = ixTask[d][j]
    BY <1>1, <1>b, <2>2, <2>3
  <2> QED
    BY <2>3, <2>4
<1>14. ASSUME NEW j \in IxIndexers PROVE CacheIs(j)'
  <2>1. CASE j = i
    <3>1. w.raced \/ (w.json = ixRow[i].json /\ w.secret = ixSecret[i] /\ w.defs = ixDefs)
      BY <1>1, <1>3 DEF TaskIs, IxBuilding
    <3> QED
      BY <1>6, <1>9, <1>10, <2>1, <3>1 DEF CacheIs
  <2>2. CASE j # i
    <3>1. CacheIs(j) /\ ixCache'[j] = ixCache[j]
      BY <1>10, <2>2 DEF IxInv
    <3>2. ixCache[j] # 0 => ixEngines'[ixCache[j]] = ixEngines[ixCache[j]]
      BY <1>6, <1>11
    <3> QED
      BY <1>9, <3>1, <3>2 DEF CacheIs
  <2> QED
    BY <2>1, <2>2
<1>15. ASSUME NEW d \in IxEveryCall, NEW j \in IxIndexers
       PROVE  TaskIs(ixTask[d][j], j)' /\ OutcomeIs(ixTask[d][j], ixCall[d], j)'
  <2>1. CASE d = c /\ j = i
    <3>1. OutcomeIs(t, ixCall[c], i)
      BY DEF IxInv
    <3>2. OutcomeIs(n, ixCall[c], i)
      BY <1>1, <1>8, <3>1 DEF OutcomeIs
    <3> QED
      BY <1>8, <1>9, <1>b, <2>1, <3>2 DEF TaskIs, OutcomeIs, IxBuilding
  <2>2. CASE d # c \/ j # i
    <3>1. ixTask'[d][j] = ixTask[d][j]
      BY <1>b, <2>2
    <3> QED
      BY <1>9, <3>1 DEF IxInv, TaskIs, OutcomeIs
  <2> QED
    BY <2>1, <2>2
<1>16. ASSUME NEW u \in IxUpdates PROVE UpdateIs(ixUpdate[u])'
  <2>1. PICK p : p = ixUpdate[u]
    OBVIOUS
  <2> SUFFICES ASSUME p.pc \notin {"idle", "done", "failed"}, Dropped(p) \/ p.json # ixRow[p.of].json
               PROVE  Tainted(p.of)'
    BY <1>9, <2>1 DEF UpdateIs, Dropped
  <2>2. Tainted(p.of) /\ p.of \in IxIndexers
    BY <2>1 DEF IxInv, UpdateIs, IxTypes
  <2>3. PICK j \in IxIndexers : j = p.of
    BY <2>2
  <2>4. ixCache'[j] # 0 => ixEngines'[ixCache'[j]].raced
    <3>1. CASE j = i
      <4>1. t.raced
        BY <1>1, <2>2, <2>3, <3>1 DEF Tainted, IxBuilding
      <4> QED
        BY <1>3, <1>6, <1>10, <3>1, <4>1
    <3>2. CASE j # i
      BY <1>6, <1>10, <1>11, <2>2, <2>3, <3>2 DEF Tainted
    <3> QED
      BY <3>1, <3>2
  <2>5. ASSUME NEW d \in IxEveryCall, ixTask'[d][j].pc \in IxBuilding PROVE ixTask'[d][j].raced
    <3>1. d # c \/ j # i
      BY <1>8, <1>b, <2>5 DEF IxBuilding
    <3>2. ixTask'[d][j] = ixTask[d][j]
      BY <1>b, <3>1
    <3> QED
      BY <2>2, <2>3, <2>5, <3>2 DEF Tainted
  <2> QED
    BY <2>3, <2>4, <2>5 DEF Tainted
<1> QED
  BY <1>12, <1>13, <1>14, <1>15, <1>16 DEF IxInv

LEMMA IxSendKeeps ==
  ASSUME IxInv, NEW c \in IxEveryCall, NEW i \in IxIndexers, IxSend(c, i)
  PROVE  IxInv'
<1> DEFINE t == ixTask[c][i]
           q == ixCall[c]
<1>1. t \in IxTaskRecord /\ t.pc = "send" /\ q \in IxCallRecord /\ OutcomeIs(t, q, i)
  BY IxOthersTypes DEF IxSend, IxInv, IxTypes
<1>2. PICK n : n = [t EXCEPT !.pc = "over"]
  OBVIOUS
<1>3. n \in IxTaskRecord /\ n.pc = "over" /\ n.found = t.found
  BY <1>1, <1>2 DEF IxTaskRecord, IxPcs
<1>4. PICK r : r = IF t.found THEN [q EXCEPT !.found = @ \cup {i}]
                              ELSE [q EXCEPT !.failed = @ \cup {i}]
  OBVIOUS
<1>5. /\ r \in IxCallRecord /\ r.pc = q.pc
      /\ r.found = IF t.found THEN q.found \cup {i} ELSE q.found
      /\ r.failed = IF t.found THEN q.failed ELSE q.failed \cup {i}
  <2>1. CASE t.found
    BY <1>1, <1>4, <2>1 DEF IxCallRecord
  <2>2. CASE ~t.found
    BY <1>1, <1>4, <2>2 DEF IxCallRecord
  <2> QED
    BY <2>1, <2>2
<1>6. /\ IxGoes(c, i, n) /\ ixCall' = [ixCall EXCEPT ![c] = r]
      /\ UNCHANGED <<ixRow, ixSecret, ixDefs, ixSolver, ixDropped, ixRefresh, ixUpdate, ixEngines, ixCache>>
  <2>1. IxGoes(c, i, n)
    BY <1>2 DEF IxSend
  <2>2. ixCall' = [ixCall EXCEPT ![c] = r]
    <3>1. CASE t.found
      BY <1>4, <3>1 DEF IxSend
    <3>2. CASE ~t.found
      BY <1>4, <3>2 DEF IxSend
    <3> QED
      BY <3>1, <3>2
  <2>3. UNCHANGED <<ixRow, ixSecret, ixDefs, ixSolver, ixDropped, ixRefresh, ixUpdate, ixEngines, ixCache>>
    BY DEF IxSend, IxStore
  <2> QED
    BY <2>1, <2>2, <2>3
<1>b. /\ ixTask' \in [IxEveryCall -> [IxIndexers -> IxTaskRecord]]
      /\ ixTask'[c][i] = n
      /\ \A d \in IxEveryCall, j \in IxIndexers :
           (d # c \/ j # i) => ixTask'[d][j] = ixTask[d][j]
  BY <1>3, <1>6, IxOthersTypes, IxTaskWritten
<1>7. /\ ixCall' \in [IxEveryCall -> IxCallRecord] /\ ixCall'[c] = r
      /\ \A d \in IxEveryCall : d # c => ixCall'[d] = ixCall[d]
  BY <1>5, <1>6 DEF IxInv, IxTypes
<1>8. IxTypes'
  BY <1>6, <1>7, <1>b DEF IxInv, IxTypes
<1>9. HoldersAsk'
  <2> SUFFICES ASSUME NEW f \in DOMAIN ixEngines, NEW d \in ixEngines[f].holder
               PROVE  \E j \in IxIndexers : ixTask'[d][j].pc = "ask" /\ ixTask'[d][j].engine = f
    BY <1>6 DEF HoldersAsk
  <2>1. d \in IxEveryCall
    BY IxOthersTypes DEF IxEngine
  <2>2. PICK j \in IxIndexers : ixTask[d][j].pc = "ask" /\ ixTask[d][j].engine = f
    BY DEF IxInv, HoldersAsk
  <2>3. ixTask'[d][j] = ixTask[d][j]
    BY <1>1, <1>b, <2>1, <2>2
  <2> QED
    BY <2>2, <2>3
<1>10. ASSUME NEW d \in IxEveryCall, NEW j \in IxIndexers
       PROVE  TaskIs(ixTask[d][j], j)' /\ OutcomeIs(ixTask[d][j], ixCall[d], j)'
  <2>1. CASE d = c /\ j = i
    <3>1. OutcomeIs(n, r, i)
      BY <1>1, <1>3, <1>5 DEF OutcomeIs
    <3> QED
      BY <1>3, <1>7, <1>b, <2>1, <3>1 DEF TaskIs, OutcomeIs, IxBuilding
  <2>2. CASE d = c /\ j # i
    <3>1. ixTask'[d][j] = ixTask[d][j]
      BY <1>b, <2>2
    <3>2. TaskIs(ixTask[d][j], j) /\ OutcomeIs(ixTask[c][j], q, j)
      BY <2>2 DEF IxInv
    <3>3. OutcomeIs(ixTask[c][j], r, j)
      BY <1>5, <2>2, <3>2 DEF OutcomeIs
    <3> QED
      BY <1>6, <1>7, <2>2, <3>1, <3>2, <3>3 DEF TaskIs, OutcomeIs
  <2>3. CASE d # c
    <3>1. ixTask'[d][j] = ixTask[d][j]
      BY <1>b, <2>3
    <3> QED
      BY <1>6, <1>7, <2>3, <3>1 DEF IxInv, TaskIs, OutcomeIs
  <2> QED
    BY <2>1, <2>2, <2>3
<1>11. ASSUME NEW d \in IxEveryCall, NEW j \in IxIndexers, ixTask'[d][j].pc \in IxBuilding
       PROVE  ixTask'[d][j].raced \/ (ixTask[d][j].pc \in IxBuilding /\ ~ixTask[d][j].raced)
  <2>1. d # c \/ j # i
    BY <1>3, <1>b, <1>11 DEF IxBuilding
  <2> QED
    BY <1>b, <1>11, <2>1
<1>12. (\A j \in IxIndexers : CacheIs(j)') /\ \A u \in IxUpdates : UpdateIs(ixUpdate[u])'
  BY <1>6, <1>11, IxCacheKept DEF IxStore
<1> QED
  BY <1>8, <1>9, <1>10, <1>12 DEF IxInv

LEMMA IxReturnKeeps ==
  ASSUME IxInv, NEW c \in IxEveryCall, IxReturn(c)
  PROVE  IxInv'
<1> DEFINE q == ixCall[c]
<1>1. PICK r : r = [q EXCEPT !.pc = "returned"]
  OBVIOUS
<1>2. /\ q \in IxCallRecord /\ q.pc = "asking"
      /\ \A i \in IxIndexers : ixTask[c][i].pc \in {"none", "over"}
  BY DEF IxReturn, IxInv, IxTypes
<1>3. r \in IxCallRecord /\ r.pc = "returned" /\ r.found = q.found /\ r.failed = q.failed
  BY <1>1, <1>2 DEF IxCallRecord
<1>4. /\ ixCall' = [ixCall EXCEPT ![c] = r] /\ UNCHANGED <<IxStore, ixEngines, ixCache, ixTask>>
      /\ UNCHANGED <<ixRow, ixSecret, ixDefs, ixSolver, ixDropped, ixRefresh, ixUpdate>>
  BY <1>1 DEF IxReturn, IxStore
<1>5. /\ ixCall' \in [IxEveryCall -> IxCallRecord] /\ ixCall'[c] = r
      /\ \A d \in IxEveryCall : d # c => ixCall'[d] = ixCall[d]
  BY <1>3, <1>4 DEF IxInv, IxTypes
<1>6. IxTypes'
  BY <1>4, <1>5 DEF IxInv, IxTypes
<1>7. HoldersAsk'
  BY <1>4 DEF HoldersAsk, IxInv
<1>8. ASSUME NEW d \in IxEveryCall, NEW j \in IxIndexers
      PROVE  TaskIs(ixTask[d][j], j)' /\ OutcomeIs(ixTask[d][j], ixCall[d], j)'
  <2>1. TaskIs(ixTask[d][j], j) /\ OutcomeIs(ixTask[d][j], ixCall[d], j)
    BY DEF IxInv
  <2>2. OutcomeIs(ixTask[d][j], ixCall'[d], j)
    <3>1. CASE d = c
      BY <1>2, <1>3, <1>5, <2>1, <3>1 DEF OutcomeIs
    <3>2. CASE d # c
      BY <1>5, <2>1, <3>2
    <3> QED
      BY <3>1, <3>2
  <2> QED
    BY <1>4, <2>1, <2>2 DEF TaskIs, OutcomeIs
<1>9. (\A j \in IxIndexers : CacheIs(j)') /\ \A u \in IxUpdates : UpdateIs(ixUpdate[u])'
  BY <1>4, IxCacheKept
<1> QED
  BY <1>6, <1>7, <1>8, <1>9 DEF IxInv
LEMMA IxBeginIs ==
  ASSUME IxInv, NEW i \in IxIndexers, NEW pc \in {"slot", "get"}
  PROVE  /\ IxBegin(i, pc) \in IxTaskRecord /\ IxBegin(i, pc).pc = pc
         /\ IxBegin(i, pc).json = ixRow[i].json /\ IxBegin(i, pc).raced = IxChanging(i)
<1>1. PICK l : l = IxChanging(i)
  OBVIOUS
<1>2. l \in BOOLEAN
  BY <1>1 DEF IxChanging
<1>3. ixRow[i].json \in Nat
  BY DEF IxInv, IxTypes
<1>4. IxBegin(i, pc) = [pc |-> pc, json |-> ixRow[i].json, defs |-> 0, secret |-> 0, solver |-> 0,
                        engine |-> 0, raced |-> l, found |-> FALSE]
  <2>1. IxBegin(i, pc) = [IxNoTask EXCEPT !.pc = pc, !.json = ixRow[i].json, !.raced = l]
    BY <1>1, Zenon DEF IxBegin
  <2> QED
    BY <2>1 DEF IxNoTask
<1> QED
  BY <1>1, <1>2, <1>3, <1>4 DEF IxTaskRecord, IxPcs

\* A call that begins has counted nothing, and is raced by what is changing.
LEMMA IxBeginsKeeps ==
  ASSUME IxInv, NEW c \in IxEveryCall, ixCall[c].pc = "idle",
         ixCall' = [ixCall EXCEPT ![c].pc = "asking"], UNCHANGED <<IxStore, ixEngines, ixCache>>,
         ixTask' \in [IxEveryCall -> [IxIndexers -> IxTaskRecord]],
         \A d \in IxEveryCall : d # c => ixTask'[d] = ixTask[d],
         \A j \in IxIndexers :
           \/ ixTask'[c][j].pc = "none"
           \/ /\ ixTask'[c][j].pc \in {"slot", "get"} /\ ixTask'[c][j].json = ixRow[j].json
              /\ ixTask'[c][j].raced = IxChanging(j)
  PROVE  IxInv'
<1> DEFINE q == ixCall[c]
<1>1. PICK r : r = [q EXCEPT !.pc = "asking"]
  OBVIOUS
<1>2. q \in IxCallRecord
  BY DEF IxInv, IxTypes
<1>3. r \in IxCallRecord /\ r.pc = "asking" /\ r.found = q.found /\ r.failed = q.failed
  BY <1>1, <1>2 DEF IxCallRecord
<1>4. ixCall' = [ixCall EXCEPT ![c] = r] /\ UNCHANGED <<ixRow, ixSecret, ixDefs, ixSolver, ixDropped, ixRefresh, ixUpdate>>
  BY <1>1 DEF IxStore
<1>5. /\ ixCall' \in [IxEveryCall -> IxCallRecord] /\ ixCall'[c] = r
      /\ \A d \in IxEveryCall : d # c => ixCall'[d] = ixCall[d]
  BY <1>3, <1>4 DEF IxInv, IxTypes
<1>6. IxTypes'
  BY <1>4, <1>5 DEF IxInv, IxTypes
<1>7. \A j \in IxIndexers : ixTask[c][j].pc = "none" /\ OutcomeIs(ixTask[c][j], q, j)
  BY DEF IxInv, OutcomeIs
<1>8. HoldersAsk'
  <2> SUFFICES ASSUME NEW f \in DOMAIN ixEngines, NEW d \in ixEngines[f].holder
               PROVE  \E j \in IxIndexers : ixTask'[d][j].pc = "ask" /\ ixTask'[d][j].engine = f
    BY DEF HoldersAsk
  <2>1. d \in IxEveryCall
    BY IxOthersTypes DEF IxEngine
  <2>2. PICK j \in IxIndexers : ixTask[d][j].pc = "ask" /\ ixTask[d][j].engine = f
    BY DEF IxInv, HoldersAsk
  <2>3. d # c
    BY <1>7, <2>2
  <2> QED
    BY <2>1, <2>2, <2>3
<1>9. ASSUME NEW d \in IxEveryCall, NEW j \in IxIndexers
      PROVE  TaskIs(ixTask[d][j], j)' /\ OutcomeIs(ixTask[d][j], ixCall[d], j)'
  <2>1. CASE d = c
    <3>1. TaskIs(ixTask[c][j], j)'
      BY <1>4 DEF TaskIs, IxBuilding
    <3>2. j \notin q.found \cup q.failed
      BY <1>7 DEF OutcomeIs
    <3>3. OutcomeIs(ixTask'[c][j], r, j)
      BY <1>3, <3>2 DEF OutcomeIs
    <3> QED
      BY <1>5, <2>1, <3>1, <3>3 DEF OutcomeIs
  <2>2. CASE d # c
    BY <1>4, <1>5, <2>2 DEF IxInv, TaskIs, OutcomeIs
  <2> QED
    BY <2>1, <2>2
<1>10. \A d \in IxEveryCall, j \in IxIndexers :
         ixTask'[d][j].pc \in IxBuilding =>
           (ixTask'[d][j].raced \/ (ixTask[d][j].pc \in IxBuilding /\ ~ixTask[d][j].raced)
             \/ ~IxChanging(j))
  <2> TAKE d \in IxEveryCall, j \in IxIndexers
  <2>1. CASE d = c
    BY <2>1 DEF IxBuilding
  <2>2. CASE d # c
    BY <2>2
  <2> QED
    BY <2>1, <2>2
<1>11. (\A j \in IxIndexers : CacheIs(j)') /\ \A u \in IxUpdates : UpdateIs(ixUpdate[u])'
  BY <1>10, IxCacheKept
<1> QED
  BY <1>6, <1>8, <1>9, <1>11 DEF IxInv

LEMMA IxSearchKeeps ==
  ASSUME IxInv, NEW c \in IxCalls, IxSearch(c)
  PROVE  IxInv'
<1>1. c \in IxEveryCall
  BY DEF IxEveryCall
<1>2. PICK targets : ixTask' = [ixTask EXCEPT ![c] = [i \in IxIndexers |->
                                  IF i \in targets THEN IxBegin(i, "slot") ELSE IxNoTask]]
  BY DEF IxSearch
<1>3. PICK row : row = [i \in IxIndexers |->
                          IF i \in targets THEN IxBegin(i, "slot") ELSE IxNoTask]
  OBVIOUS
<1>4. ASSUME NEW j \in IxIndexers
      PROVE  /\ row[j] \in IxTaskRecord
             /\ \/ row[j].pc = "none"
                \/ row[j].pc = "slot" /\ row[j].json = ixRow[j].json /\ row[j].raced = IxChanging(j)
  <2>1. CASE j \in targets
    BY <1>3, <2>1, IxBeginIs
  <2>2. CASE j \notin targets
    BY <1>3, <2>2, IxNoTaskIs
  <2> QED
    BY <2>1, <2>2
<1>5. row \in [IxIndexers -> IxTaskRecord]
  BY <1>3, <1>4
<1>6. ixTask' \in [IxEveryCall -> [IxIndexers -> IxTaskRecord]] /\ ixTask'[c] = row
      /\ \A d \in IxEveryCall : d # c => ixTask'[d] = ixTask[d]
  BY <1>1, <1>2, <1>3, <1>5, IxOthersTypes
<1>7. /\ ixCall[c].pc = "idle" /\ ixCall' = [ixCall EXCEPT ![c].pc = "asking"]
      /\ UNCHANGED <<IxStore, ixEngines, ixCache>>
  BY DEF IxSearch
<1> QED
  BY <1>1, <1>4, <1>6, <1>7, IxBeginsKeeps

LEMMA IxFetchKeeps ==
  ASSUME IxInv, NEW c \in IxFetches, IxFetch(c)
  PROVE  IxInv'
<1>1. c \in IxEveryCall
  BY DEF IxEveryCall
<1>2. PICK i \in IxIndexers : IxGoes(c, i, IxBegin(i, "get"))
  BY DEF IxFetch
<1>3. PICK n : n = IxBegin(i, "get")
  OBVIOUS
<1>4. n \in IxTaskRecord /\ n.pc = "get" /\ n.json = ixRow[i].json /\ n.raced = IxChanging(i)
  BY <1>3, IxBeginIs
<1>5. /\ ixTask' \in [IxEveryCall -> [IxIndexers -> IxTaskRecord]] /\ ixTask'[c][i] = n
      /\ \A d \in IxEveryCall, j \in IxIndexers :
           (d # c \/ j # i) => ixTask'[d][j] = ixTask[d][j]
  BY <1>1, <1>2, <1>3, <1>4, IxOthersTypes, IxTaskWritten
<1>6. ASSUME NEW d \in IxEveryCall, d # c PROVE ixTask'[d] = ixTask[d]
  BY <1>5, <1>6, IxOthersTypes
<1>7. /\ ixCall[c].pc = "idle" /\ ixCall' = [ixCall EXCEPT ![c].pc = "asking"]
      /\ UNCHANGED <<IxStore, ixEngines, ixCache>>
  BY DEF IxFetch
<1>8. ASSUME NEW j \in IxIndexers
      PROVE  \/ ixTask'[c][j].pc = "none"
             \/ /\ ixTask'[c][j].pc \in {"slot", "get"} /\ ixTask'[c][j].json = ixRow[j].json
                /\ ixTask'[c][j].raced = IxChanging(j)
  <2>1. CASE j = i
    BY <1>4, <1>5, <2>1
  <2>2. CASE j # i
    <3>1. OutcomeIs(ixTask[c][j], ixCall[c], j)
      BY <1>1 DEF IxInv
    <3> QED
      BY <1>1, <1>5, <1>7, <2>2, <3>1 DEF OutcomeIs
  <2> QED
    BY <2>1, <2>2
<1> QED
  BY <1>1, <1>5, <1>6, <1>7, <1>8, IxBeginsKeeps
\* What a change does to the tasks: those without an engine yet are raced, of the indexers it
\* is about.
Raced(changed) ==
  \A d \in IxEveryCall, j \in IxIndexers :
    /\ ixTask'[d][j] \in IxTaskRecord
    /\ ixTask'[d][j].pc = ixTask[d][j].pc /\ ixTask'[d][j].engine = ixTask[d][j].engine
    /\ ixTask'[d][j].found = ixTask[d][j].found /\ ixTask'[d][j].json = ixTask[d][j].json
    /\ ixTask'[d][j].defs = ixTask[d][j].defs /\ ixTask'[d][j].secret = ixTask[d][j].secret
    /\ ixTask'[d][j].solver = ixTask[d][j].solver
    /\ ixTask'[d][j].raced <=>
         (ixTask[d][j].raced \/ (j \in changed /\ ixTask[d][j].pc \in IxBuilding))

LEMMA IxRaceIs ==
  ASSUME IxInv, NEW changed \in SUBSET IxIndexers, IxRace(changed)
  PROVE  Raced(changed) /\ ixTask' \in [IxEveryCall -> [IxIndexers -> IxTaskRecord]]
<1>1. ASSUME NEW d \in IxEveryCall, NEW j \in IxIndexers
      PROVE  /\ ixTask'[d][j] \in IxTaskRecord
             /\ ixTask'[d][j].pc = ixTask[d][j].pc /\ ixTask'[d][j].engine = ixTask[d][j].engine
             /\ ixTask'[d][j].found = ixTask[d][j].found /\ ixTask'[d][j].json = ixTask[d][j].json
             /\ ixTask'[d][j].defs = ixTask[d][j].defs
             /\ ixTask'[d][j].secret = ixTask[d][j].secret
             /\ ixTask'[d][j].solver = ixTask[d][j].solver
             /\ ixTask'[d][j].raced <=>
                  (ixTask[d][j].raced \/ (j \in changed /\ ixTask[d][j].pc \in IxBuilding))
  <2>1. PICK t : t = ixTask[d][j]
    OBVIOUS
  <2>2. PICK l : l = (t.raced \/ (j \in changed /\ t.pc \in IxBuilding))
    OBVIOUS
  <2>3. l \in BOOLEAN
    BY <2>2
  <2>4. t \in IxTaskRecord
    BY <2>1, IxOthersTypes
  <2>5. ixTask'[d][j] = [t EXCEPT !.raced = l]
    BY <2>1, <2>2, Zenon DEF IxRace
  <2>6. PICK n : n = [t EXCEPT !.raced = l]
    OBVIOUS
  <2>7. /\ n \in IxTaskRecord /\ n.pc = t.pc /\ n.engine = t.engine /\ n.found = t.found
        /\ n.json = t.json /\ n.defs = t.defs /\ n.secret = t.secret /\ n.solver = t.solver
        /\ n.raced = l
    BY <2>3, <2>4, <2>6 DEF IxTaskRecord
  <2>8. n.raced <=> (t.raced \/ (j \in changed /\ t.pc \in IxBuilding))
    BY <2>2, <2>7
  <2> QED
    BY <2>1, <2>5, <2>6, <2>7, <2>8
<1>2. \A d \in IxEveryCall : ixTask'[d] = [j \in IxIndexers |-> ixTask'[d][j]]
  BY DEF IxRace
<1>3. ixTask' = [d \in IxEveryCall |-> ixTask'[d]]
  BY DEF IxRace
<1>4. \A d \in IxEveryCall : ixTask'[d] \in [IxIndexers -> IxTaskRecord]
  BY <1>1, <1>2
<1> QED
  BY <1>1, <1>3, <1>4 DEF Raced

LEMMA IxNoRaceIs ==
  ASSUME IxInv, UNCHANGED ixTask
  PROVE  Raced({})
BY IxOthersTypes DEF Raced

\* What is raced stays so, and so does what has its engine dropped as it changes.
LEMMA IxTaintedKept ==
  ASSUME NEW changed, Raced(changed), UNCHANGED ixEngines, NEW i \in IxIndexers,
         Tainted(i) \/ i \in changed,
         ixCache'[i] = 0 \/ (Tainted(i) /\ ixCache'[i] = ixCache[i])
  PROVE  Tainted(i)'
<1>1. ixCache'[i] # 0 => ixEngines'[ixCache'[i]].raced
  BY DEF Tainted
<1>2. ASSUME NEW c \in IxEveryCall, ixTask'[c][i].pc \in IxBuilding
      PROVE  ixTask'[c][i].raced
  <2>1. ixTask[c][i].pc \in IxBuilding
    BY <1>2 DEF Raced
  <2>2. ixTask[c][i].raced \/ i \in changed
    BY <2>1 DEF Tainted
  <2> QED
    BY <2>1, <2>2 DEF Raced
<1> QED
  BY <1>1, <1>2 DEF Tainted

\* An indexer that a change is not about.
LEMMA IxCacheOther ==
  ASSUME NEW i \in IxIndexers, CacheIs(i), UNCHANGED ixEngines,
         ixRow'[i] = ixRow[i], ixSecret'[i] = ixSecret[i], ixDefs' = ixDefs,
         ixRefresh' = ixRefresh, ixCache'[i] = ixCache[i],
         \A v \in IxUpdates : (ixUpdate[v].of = i /\ ixUpdate[v].pc \in {"invalidate", "failed"})
           => ixUpdate'[v] = ixUpdate[v]
  PROVE  CacheIs(i)'
BY DEF CacheIs

\* What the invariant says of tasks, as something that engines are built from changes.
LEMMA IxChangeKeeps ==
  ASSUME IxInv, NEW changed \in SUBSET IxIndexers, Raced(changed), UNCHANGED <<ixEngines, ixCall>>,
         IxTypes',
         \A i \in IxIndexers \ changed :
           ixRow'[i].json = ixRow[i].json /\ ixSecret'[i] = ixSecret[i] /\ ixDefs' = ixDefs,
         \A i \in IxIndexers : CacheIs(i)',
         \A u \in IxUpdates : UpdateIs(ixUpdate[u])'
  PROVE  IxInv'
<1>1. HoldersAsk'
  <2> SUFFICES ASSUME NEW f \in DOMAIN ixEngines, NEW d \in ixEngines[f].holder
               PROVE  \E j \in IxIndexers : ixTask'[d][j].pc = "ask" /\ ixTask'[d][j].engine = f
    BY DEF HoldersAsk
  <2>1. d \in IxEveryCall
    BY IxOthersTypes DEF IxEngine
  <2>2. PICK j \in IxIndexers : ixTask[d][j].pc = "ask" /\ ixTask[d][j].engine = f
    BY DEF IxInv, HoldersAsk
  <2> QED
    BY <2>1, <2>2 DEF Raced
<1>2. ASSUME NEW d \in IxEveryCall, NEW j \in IxIndexers
      PROVE  TaskIs(ixTask[d][j], j)' /\ OutcomeIs(ixTask[d][j], ixCall[d], j)'
  <2>1. TaskIs(ixTask[d][j], j) /\ OutcomeIs(ixTask[d][j], ixCall[d], j)
    BY DEF IxInv
  <2>2. /\ ixTask'[d][j].pc = ixTask[d][j].pc /\ ixTask'[d][j].found = ixTask[d][j].found
        /\ ixTask'[d][j].json = ixTask[d][j].json
        /\ ixTask'[d][j].defs = ixTask[d][j].defs
        /\ ixTask'[d][j].secret = ixTask[d][j].secret
        /\ ixTask'[d][j].raced <=>
             (ixTask[d][j].raced \/ (j \in changed /\ ixTask[d][j].pc \in IxBuilding))
    BY DEF Raced
  <2>3. TaskIs(ixTask[d][j], j)'
    <3>1. CASE j \in changed
      BY <2>2, <3>1 DEF TaskIs
    <3>2. CASE j \notin changed
      BY <2>1, <2>2, <3>2 DEF TaskIs
    <3> QED
      BY <3>1, <3>2
  <2>4. OutcomeIs(ixTask[d][j], ixCall[d], j)'
    BY <2>1, <2>2 DEF OutcomeIs
  <2> QED
    BY <2>3, <2>4
<1> QED
  BY <1>1, <1>2 DEF IxInv
\* The update that moves, and the others.
LEMMA IxUpdateMoves ==
  ASSUME IxInv, NEW u \in IxUpdates, ixUpdate[u].pc # "idle",
         NEW pc \in {"secrets", "invalidate", "save", "done", "failed"},
         ixUpdate' = [ixUpdate EXCEPT ![u].pc = pc]
  PROVE  /\ ixUpdate' \in [IxUpdates -> IxUpdateRecord]
         /\ ixUpdate'[u].pc = pc /\ ixUpdate'[u].of = ixUpdate[u].of
         /\ ixUpdate'[u].kind = ixUpdate[u].kind /\ ixUpdate'[u].json = ixUpdate[u].json
         /\ \A v \in IxUpdates : v # u => ixUpdate'[v] = ixUpdate[v]
         /\ \A v \in IxUpdates : ixUpdate'[v].pc # "idle" => ixUpdate'[v].of \in IxIndexers
<1> DEFINE p == ixUpdate[u]
<1>1. p \in IxUpdateRecord /\ p.of \in IxIndexers
  BY DEF IxInv, IxTypes
<1>2. PICK n : n = [p EXCEPT !.pc = pc]
  OBVIOUS
<1>3. n \in IxUpdateRecord /\ n.pc = pc /\ n.of = p.of /\ n.kind = p.kind /\ n.json = p.json
  BY <1>1, <1>2 DEF IxUpdateRecord
<1>4. ixUpdate' = [ixUpdate EXCEPT ![u] = n]
  BY <1>2
<1> HIDE DEF p
<1>5. /\ ixUpdate' \in [IxUpdates -> IxUpdateRecord] /\ ixUpdate'[u] = n
      /\ \A v \in IxUpdates : v # u => ixUpdate'[v] = ixUpdate[v]
  BY <1>3, <1>4 DEF IxInv, IxTypes
<1>6. ASSUME NEW v \in IxUpdates, ixUpdate'[v].pc # "idle" PROVE ixUpdate'[v].of \in IxIndexers
  <2>1. CASE v = u
    BY <1>1, <1>3, <1>5, <2>1
  <2>2. CASE v # u
    BY <1>5, <1>6, <2>2 DEF IxInv, IxTypes
  <2> QED
    BY <2>1, <2>2
<1> QED
  BY <1>1, <1>3, <1>5, <1>6 DEF p

\* An update that stays where it is: what it needs is that its indexer's row is what it was, or
\* that all its engines are raced.
LEMMA IxUpdateOther ==
  ASSUME IxInv, NEW changed, Raced(changed), UNCHANGED ixEngines, NEW v \in IxUpdates,
         ixUpdate'[v] = ixUpdate[v],
         \A i \in IxIndexers :
           \/ ixCache'[i] = ixCache[i] /\ (ixRow'[i].json = ixRow[i].json \/ Tainted(i))
           \/ ixCache'[i] = 0 /\ i \in changed
  PROVE  UpdateIs(ixUpdate[v])'
<1>1. PICK p : p = ixUpdate[v]
  OBVIOUS
<1> SUFFICES ASSUME p.pc \notin {"idle", "done", "failed"},
                    Dropped(p) \/ p.json # ixRow'[p.of].json
             PROVE  Tainted(p.of)'
  BY <1>1 DEF UpdateIs, Dropped
<1>2. p.of \in IxIndexers
  BY <1>1 DEF IxInv, IxTypes
<1>3. PICK i \in IxIndexers : i = p.of
  BY <1>2
<1>4. UpdateIs(p)
  BY <1>1 DEF IxInv
<1>5. CASE ixCache'[i] = ixCache[i] /\ (ixRow'[i].json = ixRow[i].json \/ Tainted(i))
  <2>1. Tainted(i)
    BY <1>3, <1>4, <1>5 DEF UpdateIs
  <2>2. Tainted(i)'
    BY <1>5, <2>1, IxTaintedKept
  <2> QED
    BY <1>3, <2>2 DEF Tainted
<1>6. CASE ixCache'[i] = 0 /\ i \in changed
  <2>1. Tainted(i)'
    BY <1>6, IxTaintedKept
  <2> QED
    BY <1>3, <2>1 DEF Tainted
<1> QED
  BY <1>5, <1>6

LEMMA IxBeginUpdateKeeps ==
  ASSUME IxInv, NEW u \in IxUpdates, IxBeginUpdate(u)
  PROVE  IxInv'
<1>1. PICK i \in {x \in IxIndexers : ixRow[x].there},
           kind \in {"settings", "secret", "enabled", "delete"} :
        ixUpdate' = [ixUpdate EXCEPT ![u] =
         [pc |-> CASE kind = "enabled" -> "save" [] kind = "delete" -> "invalidate" [] OTHER -> "secrets",
          of |-> i, kind |-> kind, json |-> ixRow[i].json, secret |-> ixSecret[i],
          enabled |-> IF kind = "enabled" THEN ~ixRow[i].enabled ELSE ixRow[i].enabled]]
  BY DEF IxBeginUpdate
<1>2. PICK pc \in {"save", "invalidate", "secrets"} :
        /\ pc = CASE kind = "enabled" -> "save" [] kind = "delete" -> "invalidate"
                  [] OTHER -> "secrets"
        /\ pc = "save" => kind = "enabled"
        /\ kind = "delete" => pc = "invalidate"
  OBVIOUS
<1>3. PICK on \in BOOLEAN : on = IF kind = "enabled" THEN ~ixRow[i].enabled ELSE ixRow[i].enabled
  BY DEF IxInv, IxTypes
<1>4. PICK n : n = [pc |-> pc, of |-> i, kind |-> kind, json |-> ixRow[i].json,
                    secret |-> ixSecret[i], enabled |-> on]
  OBVIOUS
<1>5. /\ n \in IxUpdateRecord /\ n.pc = pc /\ n.of = i /\ n.kind = kind
      /\ n.json = ixRow[i].json
  BY <1>4 DEF IxInv, IxTypes, IxUpdateRecord
<1>6. ixUpdate' = [ixUpdate EXCEPT ![u] = n]
  BY <1>1, <1>2, <1>3, <1>4
<1>7. /\ ixUpdate' \in [IxUpdates -> IxUpdateRecord] /\ ixUpdate'[u] = n
      /\ \A v \in IxUpdates : v # u => ixUpdate'[v] = ixUpdate[v]
  BY <1>5, <1>6 DEF IxInv, IxTypes
<1>8. /\ UNCHANGED <<ixRow, ixSecret, ixDefs, ixSolver, ixDropped, ixRefresh, ixEngines, ixCache, ixTask, ixCall>>
      /\ ixUpdate[u].pc = "idle"
  BY DEF IxBeginUpdate
<1>9. Raced({})
  BY <1>8, IxNoRaceIs
<1>10. \A v \in IxUpdates : ixUpdate'[v].pc # "idle" => ixUpdate'[v].of \in IxIndexers
  BY <1>5, <1>7 DEF IxInv, IxTypes
<1>11. IxTypes'
  BY <1>7, <1>8, <1>10 DEF IxInv, IxTypes
<1>12. ASSUME NEW j \in IxIndexers PROVE CacheIs(j)'
  BY <1>7, <1>8, IxCacheOther DEF IxInv
<1>13. ASSUME NEW v \in IxUpdates PROVE UpdateIs(ixUpdate[v])'
  <2>1. CASE v = u
    <3>1. ~Dropped(n) /\ n.json = ixRow'[n.of].json
      BY <1>2, <1>5, <1>8 DEF Dropped
    <3> QED
      BY <1>7, <2>1, <3>1 DEF UpdateIs, Dropped
  <2>2. CASE v # u
    BY <1>7, <1>8, <1>9, <2>2, IxUpdateOther
  <2> QED
    BY <2>1, <2>2
<1> QED
  BY <1>8, <1>9, <1>11, <1>12, <1>13, IxChangeKeeps

LEMMA IxSaveSecretsKeeps ==
  ASSUME IxInv, NEW u \in IxUpdates, IxSaveSecrets(u)
  PROVE  IxInv'
<1> DEFINE p == ixUpdate[u]
<1>1. p.pc = "secrets" /\ p \in IxUpdateRecord /\ p.of \in IxIndexers /\ UpdateIs(p)
  BY DEF IxSaveSecrets, IxInv, IxTypes
<1>2. PICK i \in IxIndexers : i = p.of
  BY <1>1
<1>3. PICK pc \in {"save", "invalidate"} : pc = IF p.kind = "delete" THEN "save" ELSE "invalidate"
  OBVIOUS
<1>4. PICK s \in Nat : s = CASE p.kind = "secret" -> 2 [] p.kind = "delete" -> 0 [] OTHER -> p.secret
  <2>1. p.secret \in Nat /\ 2 \in Nat /\ 0 \in Nat
    BY <1>1 DEF IxUpdateRecord
  <2>2. CASE p.kind = "secret"
    BY <2>1, <2>2
  <2>3. CASE p.kind = "delete"
    BY <2>1, <2>3
  <2>4. CASE p.kind # "secret" /\ p.kind # "delete"
    BY <2>1, <2>4
  <2> QED
    BY <2>2, <2>3, <2>4
<1>5. ixSecret' = [ixSecret EXCEPT ![i] = s]
  BY <1>2, <1>4 DEF IxSaveSecrets
<1>6. /\ ixSecret' \in [IxIndexers -> Nat]
      /\ \A j \in IxIndexers : j # i => ixSecret'[j] = ixSecret[j]
  BY <1>5 DEF IxInv, IxTypes
<1>7. /\ IxRace({i}) /\ ixUpdate' = [ixUpdate EXCEPT ![u].pc = pc]
      /\ UNCHANGED <<ixRow, ixDefs, ixSolver, ixDropped, ixRefresh, ixEngines, ixCache, ixCall>>
  BY <1>2, <1>3 DEF IxSaveSecrets
<1>8. Raced({i}) /\ ixTask' \in [IxEveryCall -> [IxIndexers -> IxTaskRecord]]
  BY <1>7, IxRaceIs
<1>9. /\ ixUpdate' \in [IxUpdates -> IxUpdateRecord]
      /\ ixUpdate'[u].pc = pc /\ ixUpdate'[u].of = i
      /\ ixUpdate'[u].kind = p.kind /\ ixUpdate'[u].json = p.json
      /\ \A v \in IxUpdates : v # u => ixUpdate'[v] = ixUpdate[v]
      /\ \A v \in IxUpdates : ixUpdate'[v].pc # "idle" => ixUpdate'[v].of \in IxIndexers
  BY <1>1, <1>2, <1>7, IxUpdateMoves
<1>10. IxTypes'
  BY <1>6, <1>7, <1>8, <1>9 DEF IxInv, IxTypes
<1>11. ASSUME Tainted(i) PROVE Tainted(i)'
  BY <1>7, <1>8, <1>11, IxTaintedKept
<1>12. ASSUME NEW j \in IxIndexers PROVE CacheIs(j)'
  <2>1. CASE j # i
    BY <1>1, <1>2, <1>6, <1>7, <1>9, <2>1, IxCacheOther DEF IxInv
  <2>2. CASE j = i /\ p.kind = "delete"
    <3>1. Tainted(i)
      BY <1>1, <1>2, <2>2 DEF UpdateIs, Dropped
    <3> QED
      BY <1>7, <2>2, <3>1 DEF Tainted, CacheIs
  <2>3. CASE j = i /\ p.kind # "delete"
    <3>1. ixUpdate'[u].of = j /\ ixUpdate'[u].pc \in {"invalidate", "failed"}
      BY <1>3, <1>9, <2>3
    <3> QED
      BY <3>1 DEF CacheIs
  <2> QED
    BY <2>1, <2>2, <2>3
<1>13. ASSUME NEW v \in IxUpdates PROVE UpdateIs(ixUpdate[v])'
  <2>1. CASE v = u
    <3> SUFFICES ASSUME Dropped(ixUpdate'[u]) \/ p.json # ixRow[i].json
                 PROVE  Tainted(i)'
      BY <1>7, <1>9, <2>1 DEF UpdateIs, Dropped, Tainted
    <3>1. Dropped(p) \/ p.json # ixRow[i].json
      BY <1>1, <1>3, <1>9 DEF Dropped
    <3>2. Tainted(i)
      BY <1>1, <1>2, <3>1 DEF UpdateIs
    <3> QED
      BY <1>11, <3>2
  <2>2. CASE v # u
    BY <1>7, <1>8, <1>9, <2>2, IxUpdateOther
  <2> QED
    BY <2>1, <2>2
<1> QED
  BY <1>6, <1>7, <1>8, <1>10, <1>12, <1>13, IxChangeKeeps
LEMMA IxUpdateFailsKeeps ==
  ASSUME IxInv, NEW u \in IxUpdates, IxUpdateFails(u)
  PROVE  IxInv'
<1> DEFINE p == ixUpdate[u]
<1>1. /\ p.pc \in {"save", "secrets"} /\ p \in IxUpdateRecord /\ p.of \in IxIndexers
  BY DEF IxUpdateFails, IxInv, IxTypes
<1>2. PICK i \in IxIndexers : i = p.of
  BY <1>1
<1>3. PICK changed \in SUBSET {i} :
        /\ Raced(changed) /\ ixTask' \in [IxEveryCall -> [IxIndexers -> IxTaskRecord]]
        /\ ixSecret' \in [IxIndexers -> Nat]
        /\ \A j \in IxIndexers : j \notin changed => ixSecret'[j] = ixSecret[j]
  <2>1. CASE p.pc = "secrets" /\ p.kind = "secret"
    <3>1. ixSecret' \in {ixSecret, [ixSecret EXCEPT ![i] = 2]} /\ IxRace({i})
      BY <1>2, <2>1 DEF IxUpdateFails
    <3>2. 2 \in Nat
      OBVIOUS
    <3>3. /\ ixSecret' \in [IxIndexers -> Nat]
          /\ \A j \in IxIndexers : j # i => ixSecret'[j] = ixSecret[j]
      BY <3>1, <3>2 DEF IxInv, IxTypes
    <3>4. Raced({i}) /\ ixTask' \in [IxEveryCall -> [IxIndexers -> IxTaskRecord]]
      BY <3>1, IxRaceIs
    <3> QED
      BY <3>3, <3>4
  <2>2. CASE ~(p.pc = "secrets" /\ p.kind = "secret")
    <3>1. UNCHANGED <<ixSecret, ixTask>>
      BY <2>2 DEF IxUpdateFails
    <3>2. Raced({})
      BY <3>1, IxNoRaceIs
    <3> QED
      BY <3>1, <3>2 DEF IxInv, IxTypes
  <2> QED
    BY <2>1, <2>2
<1>4. /\ ixUpdate' = [ixUpdate EXCEPT ![u].pc = "failed"]
      /\ UNCHANGED <<ixRow, ixDefs, ixSolver, ixDropped, ixRefresh, ixEngines, ixCache, ixCall>>
  BY DEF IxUpdateFails
<1>5. /\ ixUpdate' \in [IxUpdates -> IxUpdateRecord]
      /\ ixUpdate'[u].pc = "failed" /\ ixUpdate'[u].of = i
      /\ \A v \in IxUpdates : v # u => ixUpdate'[v] = ixUpdate[v]
      /\ \A v \in IxUpdates : ixUpdate'[v].pc # "idle" => ixUpdate'[v].of \in IxIndexers
  BY <1>1, <1>2, <1>4, IxUpdateMoves
<1>6. IxTypes'
  BY <1>3, <1>4, <1>5 DEF IxInv, IxTypes
<1>7. ASSUME NEW j \in IxIndexers PROVE CacheIs(j)'
  <2>1. CASE j # i
    <3>1. ixSecret'[j] = ixSecret[j] /\ CacheIs(j)
      BY <1>3, <2>1 DEF IxInv
    <3> QED
      BY <1>2, <1>4, <1>5, <2>1, <3>1, IxCacheOther
  <2>2. CASE j = i
    BY <1>5, <2>2 DEF CacheIs
  <2> QED
    BY <2>1, <2>2
<1>8. ASSUME NEW v \in IxUpdates PROVE UpdateIs(ixUpdate[v])'
  <2>1. CASE v = u
    BY <1>5, <2>1 DEF UpdateIs
  <2>2. CASE v # u
    BY <1>3, <1>4, <1>5, <2>2, IxUpdateOther
  <2> QED
    BY <2>1, <2>2
<1>9. changed \in SUBSET IxIndexers
  BY <1>3
<1> QED
  BY <1>3, <1>4, <1>6, <1>7, <1>8, <1>9, IxChangeKeeps

LEMMA IxInvalidateKeeps ==
  ASSUME IxInv, NEW u \in IxUpdates, IxInvalidate(u)
  PROVE  IxInv'
<1> DEFINE p == ixUpdate[u]
<1>1. p.pc = "invalidate" /\ p \in IxUpdateRecord /\ p.of \in IxIndexers
  BY DEF IxInvalidate, IxInv, IxTypes
<1>2. PICK i \in IxIndexers : i = p.of
  BY <1>1
<1>3. PICK pc \in {"save", "secrets"} : pc = IF p.kind = "delete" THEN "secrets" ELSE "save"
  OBVIOUS
<1>4. /\ IxRace({i}) /\ ixUpdate' = [ixUpdate EXCEPT ![u].pc = pc]
      /\ ixCache' = [ixCache EXCEPT ![i] = 0]
      /\ UNCHANGED <<ixRow, ixSecret, ixDefs, ixSolver, ixRefresh, ixEngines, ixCall>>
      /\ ixDropped' = [ixDropped EXCEPT ![i] = ixSolver]
  BY <1>2, <1>3 DEF IxInvalidate
<1>5. Raced({i}) /\ ixTask' \in [IxEveryCall -> [IxIndexers -> IxTaskRecord]]
  BY <1>4, IxRaceIs
<1>6. /\ ixUpdate' \in [IxUpdates -> IxUpdateRecord]
      /\ ixUpdate'[u].pc = pc /\ ixUpdate'[u].of = i
      /\ \A v \in IxUpdates : v # u => ixUpdate'[v] = ixUpdate[v]
      /\ \A v \in IxUpdates : ixUpdate'[v].pc # "idle" => ixUpdate'[v].of \in IxIndexers
  BY <1>1, <1>2, <1>4, IxUpdateMoves
<1>7. /\ ixCache' \in [IxIndexers -> 0..Len(ixEngines')] /\ ixCache'[i] = 0
      /\ \A j \in IxIndexers : j # i => ixCache'[j] = ixCache[j]
  BY <1>4, IxOthersTypes
<1>8. IxTypes'
  <2>1. ixDropped' \in [IxIndexers -> Nat]
    BY <1>4 DEF IxInv, IxTypes
  <2> QED
    BY <1>4, <1>5, <1>6, <1>7, <2>1 DEF IxInv, IxTypes
<1>9. ASSUME NEW j \in IxIndexers PROVE CacheIs(j)'
  <2>1. CASE j # i
    <3>1. CacheIs(j) /\ ixCache'[j] = ixCache[j]
      BY <1>7, <2>1 DEF IxInv
    <3> QED
      BY <1>2, <1>4, <1>6, <2>1, <3>1, IxCacheOther
  <2>2. CASE j = i
    BY <1>7, <2>2 DEF CacheIs
  <2> QED
    BY <2>1, <2>2
<1>10. ASSUME NEW v \in IxUpdates PROVE UpdateIs(ixUpdate[v])'
  <2>1. CASE v = u
    <3>1. Tainted(i)'
      BY <1>4, <1>5, <1>7, IxTaintedKept
    <3> QED
      BY <1>6, <2>1, <3>1 DEF UpdateIs, Tainted
  <2>2. CASE v # u
    <3>1. \A j \in IxIndexers :
            \/ ixCache'[j] = ixCache[j] /\ (ixRow'[j].json = ixRow[j].json \/ Tainted(j))
            \/ ixCache'[j] = 0 /\ j \in {i}
      BY <1>4, <1>7
    <3> QED
      BY <1>4, <1>5, <1>6, <2>2, <3>1, IxUpdateOther
  <2> QED
    BY <2>1, <2>2
<1> QED
  BY <1>4, <1>5, <1>8, <1>9, <1>10, IxChangeKeeps

\* The row that is written is as it was, or every engine of the indexer is raced.
LEMMA IxSaveRowKeeps ==
  ASSUME IxInv, NEW u \in IxUpdates, IxSaveRow(u)
  PROVE  IxInv'
<1> DEFINE p == ixUpdate[u]
<1>1. p.pc = "save" /\ p \in IxUpdateRecord /\ p.of \in IxIndexers /\ UpdateIs(p)
  BY DEF IxSaveRow, IxInv, IxTypes
<1>2. PICK i \in IxIndexers : i = p.of
  BY <1>1
<1>3. ixRow[i] \in [there : BOOLEAN, enabled : BOOLEAN, json : Nat]
  BY DEF IxInv, IxTypes
<1>4. PICK k \in Nat : k = IF p.kind = "settings" THEN 2 ELSE p.json
  BY <1>1 DEF IxUpdateRecord
<1>5. PICK r : r = IF p.kind = "delete" THEN [ixRow[i] EXCEPT !.there = FALSE]
                   ELSE IF ~ixRow[i].there THEN ixRow[i]
                   ELSE [ixRow[i] EXCEPT !.json = k, !.enabled = p.enabled]
  OBVIOUS
<1>6. /\ r \in [there : BOOLEAN, enabled : BOOLEAN, json : Nat]
      /\ r.there => ixRow[i].there /\ p.kind # "delete"
      /\ r.json = ixRow[i].json \/ (p.kind # "delete" /\ r.json = k)
  <2>1. CASE p.kind = "delete"
    <3>1. PICK a \in BOOLEAN : a = FALSE
      OBVIOUS
    <3>2. r = [ixRow[i] EXCEPT !.there = a]
      BY <1>5, <2>1, <3>1
    <3> QED
      BY <1>3, <3>1, <3>2
  <2>2. CASE p.kind # "delete" /\ ~ixRow[i].there
    BY <1>3, <1>5, <2>2
  <2>3. CASE p.kind # "delete" /\ ixRow[i].there
    <3>1. r = [ixRow[i] EXCEPT !.json = k, !.enabled = p.enabled] /\ p.enabled \in BOOLEAN
      BY <1>1, <1>5, <2>3 DEF IxUpdateRecord
    <3> QED
      BY <1>3, <2>3, <3>1
  <2> QED
    BY <2>1, <2>2, <2>3
<1>7. /\ IxRace({i}) /\ ixUpdate' = [ixUpdate EXCEPT ![u].pc = "done"]
      /\ ixRow' = [ixRow EXCEPT ![i] = r]
      /\ UNCHANGED <<ixSecret, ixDefs, ixSolver, ixDropped, ixRefresh, ixEngines, ixCache, ixCall>>
  <2>1. IxRace({i}) /\ ixUpdate' = [ixUpdate EXCEPT ![u].pc = "done"]
    BY <1>2 DEF IxSaveRow
  <2>2. ixRow' = [ixRow EXCEPT ![i] = r]
    BY <1>2, <1>4, <1>5 DEF IxSaveRow
  <2> QED
    BY <2>1, <2>2 DEF IxSaveRow
<1>8. Raced({i}) /\ ixTask' \in [IxEveryCall -> [IxIndexers -> IxTaskRecord]]
  BY <1>7, IxRaceIs
<1>9. /\ ixUpdate' \in [IxUpdates -> IxUpdateRecord]
      /\ ixUpdate'[u].pc = "done"
      /\ \A v \in IxUpdates : v # u => ixUpdate'[v] = ixUpdate[v]
      /\ \A v \in IxUpdates : ixUpdate'[v].pc # "idle" => ixUpdate'[v].of \in IxIndexers
  BY <1>1, <1>7, IxUpdateMoves
<1>10. /\ ixRow' \in [IxIndexers -> [there : BOOLEAN, enabled : BOOLEAN, json : Nat]]
       /\ ixRow'[i] = r /\ \A j \in IxIndexers : j # i => ixRow'[j] = ixRow[j]
  BY <1>6, <1>7 DEF IxInv, IxTypes
<1>11. IxTypes'
  BY <1>7, <1>8, <1>9, <1>10 DEF IxInv, IxTypes
<1>12. r.json = ixRow[i].json \/ Tainted(i)
  <2> SUFFICES ASSUME r.json # ixRow[i].json PROVE Tainted(i)
    OBVIOUS
  <2>1. r.json = k /\ p.kind \in {"settings", "secret", "enabled"}
    BY <1>1, <1>6 DEF IxUpdateRecord
  <2>2. CASE p.kind \in {"settings", "secret"}
    BY <1>1, <1>2, <2>2 DEF UpdateIs, Dropped
  <2>3. CASE p.kind = "enabled"
    BY <1>1, <1>2, <1>4, <2>1, <2>3 DEF UpdateIs
  <2> QED
    BY <2>1, <2>2, <2>3
<1>13. ASSUME NEW j \in IxIndexers PROVE CacheIs(j)'
  <2>0. \A v \in IxUpdates : (ixUpdate[v].of = j /\ ixUpdate[v].pc \in {"invalidate", "failed"})
          => ixUpdate'[v] = ixUpdate[v]
    BY <1>1, <1>9
  <2>1. CASE j # i
    <3>1. CacheIs(j) /\ ixRow'[j] = ixRow[j]
      BY <1>10, <2>1 DEF IxInv
    <3> QED
      BY <1>7, <2>0, <3>1, IxCacheOther
  <2>2. CASE j = i /\ Tainted(i)
    BY <1>7, <2>2 DEF Tainted, CacheIs
  <2>3. CASE j = i /\ r.json = ixRow[i].json
    <3>1. CacheIs(i)
      BY DEF IxInv
    <3>2. ixRow'[i].there => ixRow[i].there
      BY <1>6, <1>10
    <3>3. ixRow'[i].json = ixRow[i].json
      BY <1>10, <2>3
    <3> QED
      BY <1>7, <2>0, <2>3, <3>1, <3>2, <3>3 DEF CacheIs
  <2> QED
    BY <1>12, <2>1, <2>2, <2>3
<1>14. ASSUME NEW v \in IxUpdates PROVE UpdateIs(ixUpdate[v])'
  <2>1. CASE v = u
    BY <1>9, <2>1 DEF UpdateIs
  <2>2. CASE v # u
    <3>1. \A j \in IxIndexers :
            \/ ixCache'[j] = ixCache[j] /\ (ixRow'[j].json = ixRow[j].json \/ Tainted(j))
            \/ ixCache'[j] = 0 /\ j \in {i}
      BY <1>7, <1>10, <1>12
    <3> QED
      BY <1>7, <1>8, <1>9, <2>2, <3>1, IxUpdateOther
  <2> QED
    BY <2>1, <2>2
<1> QED
  BY <1>7, <1>8, <1>10, <1>11, <1>13, <1>14, IxChangeKeeps

LEMMA IxRefreshKeeps ==
  ASSUME IxInv, IxSwapDefinitions \/ IxDropEngines
  PROVE  IxInv'
<1>1. IxRace(IxIndexers) /\ UNCHANGED <<ixRow, ixSecret, ixSolver, ixUpdate, ixEngines, ixCall>>
  BY DEF IxSwapDefinitions, IxDropEngines
<1>2. Raced(IxIndexers) /\ ixTask' \in [IxEveryCall -> [IxIndexers -> IxTaskRecord]]
  BY <1>1, IxRaceIs
<1>3. /\ ixDefs' \in Nat /\ ixRefresh' \in {"idle", "swapped"}
      /\ ixDropped' \in [IxIndexers -> Nat]
      /\ ixCache' \in [IxIndexers -> 0..Len(ixEngines')]
      /\ \/ ixCache' = ixCache /\ ixRefresh' = "swapped"
         \/ \A i \in IxIndexers : ixCache'[i] = 0
  <2>1. CASE IxSwapDefinitions
    BY <1>1, <2>1 DEF IxSwapDefinitions, IxInv, IxTypes
  <2>2. CASE IxDropEngines
    BY <1>1, <2>2, IxOthersTypes DEF IxDropEngines, IxInv, IxTypes
  <2> QED
    BY <2>1, <2>2
<1>4. IxTypes'
  BY <1>1, <1>2, <1>3 DEF IxInv, IxTypes
<1>5. ASSUME NEW i \in IxIndexers PROVE CacheIs(i)'
  BY <1>3 DEF CacheIs
<1>6. ASSUME NEW u \in IxUpdates PROVE UpdateIs(ixUpdate[u])'
  <2>1. \A i \in IxIndexers :
          \/ ixCache'[i] = ixCache[i] /\ (ixRow'[i].json = ixRow[i].json \/ Tainted(i))
          \/ ixCache'[i] = 0 /\ i \in IxIndexers
    BY <1>1, <1>3
  <2> QED
    BY <1>1, <1>2, <2>1, IxUpdateOther
<1> QED
  BY <1>1, <1>2, <1>4, <1>5, <1>6, IxChangeKeeps

\* Nothing that is compared with what an engine was built from changes with the address.
LEMMA IxChangeAddressKeeps ==
  ASSUME IxInv, IxChangeAddress
  PROVE  IxInv'
<1>1. /\ UNCHANGED <<ixRow, ixSecret, ixDefs, ixDropped, ixRefresh, ixEngines, ixCache, ixTask,
                    ixCall, ixUpdate>>
      /\ ixSolver' = ixSolver + 1
  BY DEF IxChangeAddress
<1>2. Raced({})
  BY <1>1, IxNoRaceIs
<1>3. IxTypes'
  BY <1>1 DEF IxInv, IxTypes
<1>4. ASSUME NEW i \in IxIndexers PROVE CacheIs(i)'
  BY <1>1, IxCacheOther DEF IxInv
<1>5. ASSUME NEW u \in IxUpdates PROVE UpdateIs(ixUpdate[u])'
  BY <1>1, <1>2, IxUpdateOther
<1> QED
  BY <1>1, <1>2, <1>3, <1>4, <1>5, IxChangeKeeps

\* The address a task is about to build with, or an engine in use, is no older than the last
\* drop of the indexer's engine.
AddressOf(x, i) == x.solver = 0 \/ x.solver >= ixDropped[i] \/ x.raced
IxAddressInv ==
  /\ \A i \in IxIndexers : ixDropped[i] <= ixSolver
  /\ \A i \in IxIndexers : ixCache[i] # 0 => AddressOf(ixEngines[ixCache[i]], i)
  /\ \A c \in IxEveryCall, i \in IxIndexers :
       ixTask[c][i].pc = "keep" => AddressOf(ixTask[c][i], i)

LEMMA IxAddressInitially == IxInit => IxAddressInv
<1> SUFFICES ASSUME IxInit PROVE IxAddressInv
  OBVIOUS
<1>1. ASSUME NEW c \in IxEveryCall, NEW i \in IxIndexers PROVE ixTask[c][i].pc # "keep"
  BY IxNoTaskIs DEF IxInit
<1> QED
  BY <1>1 DEF IxInit, IxAddressInv

\* A task moves: what is cached stays, and so does a task that keeps its address.
LEMMA IxAddressTask ==
  ASSUME IxInv, IxAddressInv, UNCHANGED <<ixSolver, ixDropped, ixCache>>,
         \A i \in IxIndexers : ixCache[i] # 0 =>
           /\ ixEngines'[ixCache[i]].solver = ixEngines[ixCache[i]].solver
           /\ ixEngines'[ixCache[i]].raced = ixEngines[ixCache[i]].raced,
         \A d \in IxEveryCall, j \in IxIndexers : ixTask'[d][j].pc = "keep" =>
           \/ ixTask'[d][j] = ixTask[d][j]
           \/ ixTask'[d][j].solver \in {0, ixSolver}
  PROVE  IxAddressInv'
<1>1. ixSolver \in Nat /\ \A i \in IxIndexers : ixDropped[i] \in Nat
  BY DEF IxInv, IxTypes
<1>2. ASSUME NEW i \in IxIndexers, ixCache'[i] # 0 PROVE AddressOf(ixEngines[ixCache[i]], i)'
  BY <1>2 DEF IxAddressInv, AddressOf
<1>3. ASSUME NEW c \in IxEveryCall, NEW i \in IxIndexers, ixTask'[c][i].pc = "keep"
      PROVE  AddressOf(ixTask[c][i], i)'
  BY <1>1, <1>3 DEF IxAddressInv, AddressOf
<1> QED
  BY <1>2, <1>3 DEF IxAddressInv

\* Something else changes: the engine is as recent as it was, or is dropped and the tasks raced.
LEMMA IxAddressChange ==
  ASSUME IxInv, IxAddressInv, NEW changed, Raced(changed), UNCHANGED ixEngines, IxTypes',
         ixSolver' >= ixSolver,
         \A i \in IxIndexers :
           \/ ixDropped'[i] = ixDropped[i] /\ ixCache'[i] = ixCache[i]
           \/ ixDropped'[i] = ixSolver /\ ixCache'[i] = 0 /\ i \in changed
  PROVE  IxAddressInv'
<1>1. /\ ixSolver \in Nat /\ \A i \in IxIndexers : ixDropped[i] \in Nat
      /\ ixSolver' \in Nat /\ \A i \in IxIndexers : ixDropped'[i] \in Nat
  BY DEF IxInv, IxTypes
<1>2. ASSUME NEW i \in IxIndexers PROVE ixDropped'[i] <= ixSolver'
  BY <1>1 DEF IxAddressInv
<1>3. ASSUME NEW i \in IxIndexers, ixCache'[i] # 0 PROVE AddressOf(ixEngines[ixCache[i]], i)'
  BY <1>3 DEF IxAddressInv, AddressOf
<1>4. ASSUME NEW c \in IxEveryCall, NEW i \in IxIndexers, ixTask'[c][i].pc = "keep"
      PROVE  AddressOf(ixTask[c][i], i)'
  <2>1. /\ ixTask[c][i].pc = "keep" /\ ixTask'[c][i].solver = ixTask[c][i].solver
        /\ ixTask'[c][i].raced <=> (ixTask[c][i].raced \/ i \in changed)
    BY <1>4 DEF Raced, IxBuilding
  <2>2. AddressOf(ixTask[c][i], i)
    BY <2>1 DEF IxAddressInv
  <2> QED
    BY <2>1, <2>2 DEF AddressOf
<1> QED
  BY <1>2, <1>3, <1>4 DEF IxAddressInv

\* A step of a task that leaves the engines as they are, the reading of the address included.
LEMMA IxAddressGoes ==
  ASSUME IxInv, IxAddressInv, NEW c \in IxEveryCall, NEW i \in IxIndexers,
         NEW n \in IxTaskRecord, IxGoes(c, i, n), UNCHANGED <<IxStore, ixCache>>,
         n.pc = "keep" => n.solver \in {0, ixSolver},
         \A k \in IxIndexers : ixCache[k] # 0 =>
           /\ ixEngines'[ixCache[k]].solver = ixEngines[ixCache[k]].solver
           /\ ixEngines'[ixCache[k]].raced = ixEngines[ixCache[k]].raced
  PROVE  IxAddressInv'
<1>1. /\ ixTask'[c][i] = n
      /\ \A d \in IxEveryCall, j \in IxIndexers :
           (d # c \/ j # i) => ixTask'[d][j] = ixTask[d][j]
  BY IxOthersTypes, IxTaskWritten
<1>2. UNCHANGED <<ixSolver, ixDropped, ixCache>>
  BY DEF IxStore
<1>3. ASSUME NEW d \in IxEveryCall, NEW j \in IxIndexers, ixTask'[d][j].pc = "keep"
      PROVE  ixTask'[d][j] = ixTask[d][j] \/ ixTask'[d][j].solver \in {0, ixSolver}
  BY <1>1, <1>3
<1> QED
  BY <1>2, <1>3, IxAddressTask

LEMMA IxAddressSteps ==
  ASSUME IxInv, IxAddressInv, NEW c \in IxEveryCall, NEW i \in IxIndexers,
         \/ IxSlot(c, i) \/ IxGetEngine(c, i) \/ IxReadDefinition(c, i) \/ IxReadSecrets(c, i)
         \/ IxReadSolver(c, i) \/ IxBuildFails(c, i) \/ IxSend(c, i)
  PROVE  IxAddressInv'
<1> DEFINE t == ixTask[c][i]
<1>1. /\ t \in IxTaskRecord /\ ixCache[i] \in Nat
      /\ ixDefs \in Nat /\ ixSecret[i] \in Nat /\ ixSolver \in Nat
  BY DEF IxInv, IxTypes
<1>2. UNCHANGED <<IxStore, ixEngines, ixCache>>
  BY DEF IxSlot, IxGetEngine, IxReadDefinition, IxReadSecrets, IxReadSolver, IxBuildFails, IxSend
<1>3. CASE IxReadSolver(c, i)
  <2>1. PICK solver \in {0, ixSolver} :
          IxGoes(c, i, [t EXCEPT !.pc = "keep", !.solver = solver])
    BY <1>3 DEF IxReadSolver
  <2>2. PICK n : n = [t EXCEPT !.pc = "keep", !.solver = solver]
    OBVIOUS
  <2>3. solver \in Nat
    BY <1>1
  <2>4. n \in IxTaskRecord /\ n.solver = solver
    BY <1>1, <2>2, <2>3 DEF IxTaskRecord, IxPcs
  <2> QED
    BY <1>2, <2>1, <2>2, <2>4, IxAddressGoes
<1>4. CASE ~IxReadSolver(c, i)
  <2>1. PICK n \in IxTaskRecord : n.pc # "keep" /\ IxGoes(c, i, n)
    <3>1. CASE IxSlot(c, i)
      <4>1. PICK n : n = [t EXCEPT !.pc = "get"]
        OBVIOUS
      <4>2. n \in IxTaskRecord /\ n.pc # "keep"
        BY <1>1, <4>1 DEF IxTaskRecord, IxPcs
      <4> QED
        BY <3>1, <4>1, <4>2 DEF IxSlot
    <3>2. CASE IxGetEngine(c, i) /\ ixCache[i] # 0
      <4>1. PICK n : n = [t EXCEPT !.pc = "lock", !.engine = ixCache[i]]
        OBVIOUS
      <4>2. n \in IxTaskRecord /\ n.pc # "keep"
        BY <1>1, <4>1 DEF IxTaskRecord, IxPcs
      <4> QED
        BY <3>2, <4>1, <4>2 DEF IxGetEngine
    <3>3. CASE IxGetEngine(c, i) /\ ixCache[i] = 0
      <4>1. PICK n : n = [t EXCEPT !.pc = "defs"]
        OBVIOUS
      <4>2. n \in IxTaskRecord /\ n.pc # "keep"
        BY <1>1, <4>1 DEF IxTaskRecord, IxPcs
      <4> QED
        BY <3>3, <4>1, <4>2 DEF IxGetEngine
    <3>4. CASE IxReadDefinition(c, i)
      <4>1. PICK n : n = [t EXCEPT !.pc = "secrets", !.defs = ixDefs]
        OBVIOUS
      <4>2. n \in IxTaskRecord /\ n.pc # "keep"
        BY <1>1, <4>1 DEF IxTaskRecord, IxPcs
      <4> QED
        BY <3>4, <4>1, <4>2 DEF IxReadDefinition
    <3>5. CASE IxReadSecrets(c, i)
      <4>1. PICK n : n = [t EXCEPT !.pc = "solver", !.secret = ixSecret[i]]
        OBVIOUS
      <4>2. n \in IxTaskRecord /\ n.pc # "keep"
        BY <1>1, <4>1 DEF IxTaskRecord, IxPcs
      <4> QED
        BY <3>5, <4>1, <4>2 DEF IxReadSecrets
    <3>6. CASE IxBuildFails(c, i)
      <4>1. PICK n : n = [t EXCEPT !.pc = "send"]
        OBVIOUS
      <4>2. n \in IxTaskRecord /\ n.pc # "keep"
        BY <1>1, <4>1 DEF IxTaskRecord, IxPcs
      <4> QED
        BY <3>6, <4>1, <4>2 DEF IxBuildFails
    <3>7. CASE IxSend(c, i)
      <4>1. PICK n : n = [t EXCEPT !.pc = "over"]
        OBVIOUS
      <4>2. n \in IxTaskRecord /\ n.pc # "keep"
        BY <1>1, <4>1 DEF IxTaskRecord, IxPcs
      <4> QED
        BY <3>7, <4>1, <4>2 DEF IxSend
    <3> QED
      BY <1>4, <3>1, <3>2, <3>3, <3>4, <3>5, <3>6, <3>7
  <2> QED
    BY <1>2, <2>1, IxAddressGoes
<1> QED
  BY <1>3, <1>4

\* Holding an engine or letting go of it changes nothing it was built from.
LEMMA IxAddressAsks ==
  ASSUME IxInv, IxAddressInv, NEW c \in IxEveryCall, NEW i \in IxIndexers,
         IxLock(c, i) \/ IxAsked(c, i)
  PROVE  IxAddressInv'
<1> DEFINE t == ixTask[c][i]
           e == t.engine
<1>1. t \in IxTaskRecord /\ UNCHANGED <<IxStore, ixCache>>
  BY IxOthersTypes DEF IxLock, IxAsked
<1>2. PICK pc \in {"ask", "send"}, found \in BOOLEAN :
        IxGoes(c, i, [t EXCEPT !.pc = pc, !.found = found])
  <2>1. CASE IxLock(c, i)
    <3>1. [t EXCEPT !.pc = "ask"] = [t EXCEPT !.pc = "ask", !.found = t.found]
      BY <1>1 DEF IxTaskRecord
    <3> QED
      BY <1>1, <2>1, <3>1 DEF IxLock, IxTaskRecord
  <2>2. CASE IxAsked(c, i)
    BY <2>2 DEF IxAsked
  <2> QED
    BY <2>1, <2>2
<1>3. PICK n : n = [t EXCEPT !.pc = pc, !.found = found]
  OBVIOUS
<1>4. n \in IxTaskRecord /\ n.pc # "keep"
  BY <1>1, <1>3 DEF IxTaskRecord, IxPcs
<1>5. PICK l, h : ixEngines' = [ixEngines EXCEPT ![e] = [@ EXCEPT !.loggedIn = l, !.holder = h]]
  <2>1. CASE IxLock(c, i)
    <3>1. ixEngines' = [ixEngines EXCEPT ![e].holder = {c}]
      BY <2>1 DEF IxLock
    <3>2. e \in DOMAIN ixEngines =>
            [ixEngines[e] EXCEPT !.holder = {c}]
            = [ixEngines[e] EXCEPT !.loggedIn = ixEngines[e].loggedIn, !.holder = {c}]
      BY IxOthersTypes DEF IxEngine
    <3> QED
      BY <3>1, <3>2
  <2>2. CASE IxAsked(c, i)
    BY <2>2 DEF IxAsked, IxLogin
  <2> QED
    BY <2>1, <2>2
<1>6. ASSUME NEW f \in DOMAIN ixEngines
      PROVE  ixEngines'[f].solver = ixEngines[f].solver /\ ixEngines'[f].raced = ixEngines[f].raced
  <2>1. ixEngines[f] \in IxEngine
    BY IxOthersTypes
  <2>2. CASE f = e
    <3>1. ixEngines'[f] = [ixEngines[f] EXCEPT !.loggedIn = l, !.holder = h]
      BY <1>5, <2>2
    <3> QED
      BY <2>1, <3>1 DEF IxEngine
  <2>3. CASE f # e
    BY <1>5, <2>3
  <2> QED
    BY <2>2, <2>3
<1>7. \A k \in IxIndexers : ixCache[k] # 0 => ixCache[k] \in DOMAIN ixEngines
  BY IxOthersTypes
<1> HIDE DEF t, e
<1> QED
  BY <1>1, <1>2, <1>3, <1>4, <1>6, <1>7, IxAddressGoes

\* The engine that is kept has the address its task had.
LEMMA IxAddressKeepEngine ==
  ASSUME IxInv, IxAddressInv, NEW c \in IxEveryCall, NEW i \in IxIndexers, IxKeepEngine(c, i)
  PROVE  IxAddressInv'
<1> DEFINE t == ixTask[c][i]
<1>1. t \in IxTaskRecord /\ t.pc = "keep" /\ AddressOf(t, i)
  BY IxOthersTypes DEF IxKeepEngine, IxAddressInv
<1>2. PICK w : w = [of |-> i, json |-> t.json, defs |-> t.defs, secret |-> t.secret,
                    solver |-> t.solver, raced |-> t.raced, loggedIn |-> FALSE, holder |-> {}]
  OBVIOUS
<1>3. w.raced = t.raced /\ w.solver = t.solver /\ w \in IxEngine
  BY <1>1, <1>2 DEF IxEngine, IxTaskRecord
<1>4. PICK k \in Nat : k = Len(ixEngines) + 1
  BY IxOthersTypes
<1>5. ixEngines' = Append(ixEngines, w)
  BY <1>2 DEF IxKeepEngine
<1>6. ixEngines'[k] = w /\ \A f \in DOMAIN ixEngines : ixEngines'[f] = ixEngines[f]
  BY <1>3, <1>4, <1>5, IxOthersTypes
<1>7. PICK n : n = [t EXCEPT !.pc = "lock", !.engine = k]
  OBVIOUS
<1>8. n \in IxTaskRecord /\ n.pc = "lock"
  BY <1>1, <1>7 DEF IxTaskRecord, IxPcs
<1>9. /\ IxGoes(c, i, n) /\ ixCache' = [ixCache EXCEPT ![i] = k]
      /\ UNCHANGED <<ixSolver, ixDropped>>
  BY <1>4, <1>7 DEF IxKeepEngine, IxStore
<1>10. /\ ixTask'[c][i] = n
       /\ \A d \in IxEveryCall, j \in IxIndexers :
            (d # c \/ j # i) => ixTask'[d][j] = ixTask[d][j]
  BY <1>8, <1>9, IxOthersTypes, IxTaskWritten
<1>11. ASSUME NEW j \in IxIndexers, ixCache'[j] # 0 PROVE AddressOf(ixEngines[ixCache[j]], j)'
  <2>1. CASE j = i
    <3>1. ixEngines'[ixCache'[j]] = w
      BY <1>6, <1>9, <2>1, IxOthersTypes
    <3> QED
      BY <1>1, <1>3, <1>9, <2>1, <3>1 DEF AddressOf
  <2>2. CASE j # i
    <3>1. ixCache'[j] = ixCache[j] /\ ixCache[j] \in DOMAIN ixEngines
      BY <1>9, <1>11, <2>2, IxOthersTypes
    <3>2. ixEngines'[ixCache'[j]] = ixEngines[ixCache[j]] /\ AddressOf(ixEngines[ixCache[j]], j)
      BY <1>6, <1>11, <3>1 DEF IxAddressInv
    <3> QED
      BY <1>9, <3>2 DEF AddressOf
  <2> QED
    BY <2>1, <2>2
<1>12. ASSUME NEW d \in IxEveryCall, NEW j \in IxIndexers, ixTask'[d][j].pc = "keep"
       PROVE  AddressOf(ixTask[d][j], j)'
  <2>1. ixTask'[d][j] = ixTask[d][j]
    BY <1>8, <1>10, <1>12
  <2> QED
    BY <1>9, <1>12, <2>1 DEF IxAddressInv, AddressOf
<1> QED
  BY <1>9, <1>11, <1>12 DEF IxAddressInv

LEMMA IxAddressCalls ==
  ASSUME IxInv, IxAddressInv,
         \/ \E c \in IxCalls : IxSearch(c)
         \/ \E c \in IxFetches : IxFetch(c)
         \/ \E c \in IxEveryCall : IxReturn(c)
  PROVE  IxAddressInv'
<1>1. UNCHANGED <<IxStore, ixEngines, ixCache>>
  BY DEF IxSearch, IxFetch, IxReturn
<1>2. UNCHANGED <<ixSolver, ixDropped>>
  BY <1>1 DEF IxStore
<1>3. ASSUME NEW d \in IxEveryCall, NEW j \in IxIndexers, ixTask'[d][j].pc = "keep"
      PROVE  ixTask'[d][j] = ixTask[d][j]
  <2>1. CASE \E c \in IxCalls : IxSearch(c)
    <3>0. PICK c \in IxCalls : IxSearch(c)
      BY <2>1
    <3>1. PICK targets : ixTask' = [ixTask EXCEPT ![c] = [i \in IxIndexers |->
                                      IF i \in targets THEN IxBegin(i, "slot") ELSE IxNoTask]]
      BY <3>0 DEF IxSearch
    <3>2. c \in IxEveryCall
      BY DEF IxEveryCall
    <3>3. CASE d = c
      <4>1. ixTask'[d][j].pc \in {"slot", "none"}
        BY <3>1, <3>2, <3>3, IxBeginIs, IxNoTaskIs, IxOthersTypes
      <4> QED
        BY <1>3, <4>1
    <3>4. CASE d # c
      BY <3>1, <3>4, IxOthersTypes
    <3> QED
      BY <3>3, <3>4
  <2>2. CASE \E c \in IxFetches : IxFetch(c)
    <3>1. PICK c \in IxFetches, i \in IxIndexers : IxGoes(c, i, IxBegin(i, "get"))
      BY <2>2 DEF IxFetch
    <3>2. c \in IxEveryCall
      BY DEF IxEveryCall
    <3>3. PICK n : n = IxBegin(i, "get")
      OBVIOUS
    <3>4. n \in IxTaskRecord /\ n.pc = "get"
      BY <3>3, IxBeginIs
    <3> QED
      BY <1>3, <3>1, <3>2, <3>3, <3>4, IxOthersTypes, IxTaskWritten
  <2>3. CASE \E c \in IxEveryCall : IxReturn(c)
    BY <2>3 DEF IxReturn
  <2> QED
    BY <2>1, <2>2, <2>3
<1> QED
  BY <1>1, <1>2, <1>3, IxAddressTask

LEMMA IxAddressChanges ==
  ASSUME IxInv, IxAddressInv, IxInv',
         \/ \E u \in IxUpdates : \/ IxBeginUpdate(u) \/ IxSaveSecrets(u) \/ IxInvalidate(u)
                                  \/ IxSaveRow(u) \/ IxUpdateFails(u)
         \/ IxSwapDefinitions \/ IxDropEngines \/ IxChangeAddress
  PROVE  IxAddressInv'
<1>1. IxTypes' /\ ixSolver \in Nat
  BY DEF IxInv, IxTypes
<1>2. CASE \E u \in IxUpdates : IxInvalidate(u)
  <2>1. PICK i \in IxIndexers :
          /\ ixCache' = [ixCache EXCEPT ![i] = 0] /\ ixDropped' = [ixDropped EXCEPT ![i] = ixSolver]
          /\ IxRace({i}) /\ UNCHANGED <<ixSolver, ixEngines>>
    BY <1>2 DEF IxInvalidate, IxInv, IxTypes
  <2>2. Raced({i})
    BY <2>1, IxRaceIs
  <2>3. \A j \in IxIndexers :
          \/ ixDropped'[j] = ixDropped[j] /\ ixCache'[j] = ixCache[j]
          \/ ixDropped'[j] = ixSolver /\ ixCache'[j] = 0 /\ j \in {i}
    BY <2>1 DEF IxInv, IxTypes
  <2> QED
    BY <1>1, <2>1, <2>2, <2>3, IxAddressChange
<1>3. CASE IxDropEngines
  <2>1. /\ \A i \in IxIndexers : ixCache'[i] = 0 /\ ixDropped'[i] = ixSolver
        /\ IxRace(IxIndexers) /\ UNCHANGED <<ixSolver, ixEngines>>
    BY <1>3 DEF IxDropEngines
  <2>2. Raced(IxIndexers)
    BY <2>1, IxRaceIs
  <2> QED
    BY <1>1, <2>1, <2>2, IxAddressChange
<1>4. CASE \/ \E u \in IxUpdates : \/ IxBeginUpdate(u) \/ IxSaveSecrets(u) \/ IxSaveRow(u)
                                    \/ IxUpdateFails(u)
           \/ IxSwapDefinitions \/ IxChangeAddress
  <2>1. /\ UNCHANGED <<ixDropped, ixCache, ixEngines>>
        /\ ixSolver' \in {ixSolver, ixSolver + 1}
    BY <1>4 DEF IxBeginUpdate, IxSaveSecrets, IxSaveRow, IxUpdateFails, IxSwapDefinitions,
       IxChangeAddress
  <2>2. PICK changed \in SUBSET IxIndexers : IxRace(changed) \/ UNCHANGED ixTask
    <3>1. \A u \in IxUpdates : ixUpdate[u].pc # "idle" => ixUpdate[u].of \in IxIndexers
      BY DEF IxInv, IxTypes
    <3> QED
      BY <1>4, <3>1 DEF IxBeginUpdate, IxSaveSecrets, IxSaveRow, IxUpdateFails, IxSwapDefinitions,
         IxChangeAddress
  <2>3. \E some : Raced(some)
    BY <2>2, IxRaceIs, IxNoRaceIs
  <2> QED
    BY <1>1, <2>1, <2>3, IxAddressChange
<1> QED
  BY <1>2, <1>3, <1>4

LEMMA IxServes ==
  ASSUME IxInv, IxAddressInv
  PROVE  SearchesServe
<1>1. EngineCurrentOrRaced
  BY DEF IxInv, CacheIs, EngineCurrentOrRaced
<1>2. ASSUME NEW c \in IxEveryCall, ixCall[c].pc = "returned",
             NEW i \in IxIndexers, ixTask[c][i].pc # "none"
      PROVE  IF ixTask[c][i].found THEN i \in ixCall[c].found \ ixCall[c].failed
                                   ELSE i \in ixCall[c].failed \ ixCall[c].found
  <2>1. OutcomeIs(ixTask[c][i], ixCall[c], i)
    BY DEF IxInv
  <2> QED
    BY <1>2, <2>1 DEF OutcomeIs
<1>3. SearchesAccountedFor
  BY <1>2 DEF IxInv, HoldersAsk, SearchesAccountedFor
<1>4. AddressSinceDrop
  BY DEF IxAddressInv, AddressOf, AddressSinceDrop
<1> QED
  BY <1>1, <1>3, <1>4 DEF SearchesServe

LEMMA IxUnchangedKeeps ==
  ASSUME IxInv, IxAddressInv, UNCHANGED ixVars
  PROVE  IxInv' /\ IxAddressInv'
<1>1. /\ UNCHANGED <<ixRow, ixSecret, ixDefs, ixSolver, ixDropped, ixRefresh, ixEngines, ixCache, ixTask, ixCall>>
      /\ UNCHANGED ixUpdate
  BY DEF ixVars
<1>2. Raced({})
  BY <1>1, IxNoRaceIs
<1>3. IxTypes'
  BY <1>1 DEF IxInv, IxTypes
<1>4. (\A i \in IxIndexers : CacheIs(i)') /\ \A u \in IxUpdates : UpdateIs(ixUpdate[u])'
  BY <1>1, IxCacheKept DEF IxStore
<1>5. IxInv'
  BY <1>1, <1>2, <1>3, <1>4, IxChangeKeeps
<1>6. IxAddressInv'
  BY <1>1, IxAddressTask
<1> QED
  BY <1>5, <1>6

\* For any indexers, calls, updates and changes of the FlareSolverr address: the engine cached
\* for an indexer is built from the settings, secrets and definitions stored now, and from an
\* address no older than the last time the indexer's engine was dropped, unless one of these
\* changed while it was on its way; an engine's mutex is held by a call that asks through it;
\* and a search that returned has counted each indexer once (getOrCreateEngine,
\* invalidateEngine, Update, Delete, RefreshDefinitions, Search).
THEOREM SearchesAlwaysServe == IxSpec => []SearchesServe
<1>1. ASSUME IxInv, IxAddressInv, IxNext PROVE IxInv' /\ IxAddressInv'
  <2>1. ASSUME NEW c \in IxCalls, IxSearch(c) PROVE IxInv' /\ IxAddressInv'
    BY <1>1, <2>1, IxSearchKeeps, IxAddressCalls
  <2>2. ASSUME NEW c \in IxFetches, IxFetch(c) PROVE IxInv' /\ IxAddressInv'
    BY <1>1, <2>2, IxFetchKeeps, IxAddressCalls
  <2>3. ASSUME NEW c \in IxEveryCall, IxReturn(c) PROVE IxInv' /\ IxAddressInv'
    BY <1>1, <2>3, IxReturnKeeps, IxAddressCalls
  <2>4. ASSUME NEW c \in IxEveryCall, NEW i \in IxIndexers,
               \/ IxSlot(c, i) \/ IxGetEngine(c, i) \/ IxReadDefinition(c, i)
               \/ IxReadSecrets(c, i) \/ IxReadSolver(c, i) \/ IxBuildFails(c, i)
        PROVE  IxInv' /\ IxAddressInv'
    BY <1>1, <2>4, IxBuildSteps, IxAddressSteps
  <2>5. ASSUME NEW c \in IxEveryCall, NEW i \in IxIndexers,
               IxKeepEngine(c, i) \/ IxLock(c, i) \/ IxAsked(c, i) \/ IxSend(c, i)
        PROVE  IxInv' /\ IxAddressInv'
    BY <1>1, <2>5, IxKeepEngineKeeps, IxLockKeeps, IxAskedKeeps, IxSendKeeps,
       IxAddressKeepEngine, IxAddressAsks, IxAddressSteps
  <2>6. ASSUME NEW u \in IxUpdates,
               \/ IxBeginUpdate(u) \/ IxSaveSecrets(u) \/ IxInvalidate(u) \/ IxSaveRow(u)
               \/ IxUpdateFails(u)
        PROVE  IxInv' /\ IxAddressInv'
    <3>1. IxInv'
      BY <1>1, <2>6, IxBeginUpdateKeeps, IxSaveSecretsKeeps, IxInvalidateKeeps, IxSaveRowKeeps,
         IxUpdateFailsKeeps
    <3> QED
      BY <1>1, <2>6, <3>1, IxAddressChanges
  <2>7. CASE IxSwapDefinitions \/ IxDropEngines \/ IxChangeAddress
    <3>1. IxInv'
      BY <1>1, <2>7, IxRefreshKeeps, IxChangeAddressKeeps
    <3> QED
      BY <1>1, <2>7, <3>1, IxAddressChanges
  <2> QED
    BY <1>1, <2>1, <2>2, <2>3, <2>4, <2>5, <2>6, <2>7 DEF IxNext
<1>2. IxInv /\ IxAddressInv /\ [IxNext]_ixVars => IxInv' /\ IxAddressInv'
  BY <1>1, IxUnchangedKeeps
<1> QED
  BY <1>2, IxInitially, IxAddressInitially, IxServes, PTL DEF IxSpec

-----------------------------------------------------------------------------
(* Monitoring                                                              *)

MoSpec == MoInit /\ [][MoNext]_moVars

MoState == [here : BOOLEAN, mon : BOOLEAN, new : BOOLEAN, seasons : Settings(MoSeasons),
            overrides : Settings(MoEpisodes), count : {0} \cup MoSeasons]
MoRequestRecord == [new : BOOLEAN, seasons : Settings(MoSeasons), episodes : Settings(MoEpisodes)]

\* Nothing is monitored of an item that is not there.
MoInv == moState \in MoState /\ (~moState.here => ~moState.mon)

\* What a request asks of an episode.
Asks(req, k) ==
  IF k \in DOMAIN req.episodes THEN req.episodes[k]
  ELSE k[1] \in DOMAIN req.seasons /\ req.seasons[k[1]]

LEMMA MoConstants ==
  /\ MoSeasons \subseteq Nat \ {0}
  /\ \A n \in {0} \cup MoSeasons : n \in Nat /\ 1..n \subseteq MoSeasons
  /\ \A k \in MoEpisodes : k[1] \in MoSeasons /\ k[2] \in Nat /\ k = <<k[1], k[2]>>
<1>1. PICK m \in Nat : MoSeasons = 1..m
  BY MonitoringAssumption, FS_CardinalityType
<1>2. \A k \in MoEpisodes : k[1] \in MoSeasons /\ k[2] \in Nat /\ k = <<k[1], k[2]>>
  BY MonitoringAssumption
<1> QED
  BY <1>1, <1>2

LEMMA SettingsAre ==
  ASSUME NEW keys, NEW f
  PROVE  f \in Settings(keys) <=> (f \in [DOMAIN f -> BOOLEAN] /\ DOMAIN f \subseteq keys)
BY DEF Settings

\* What holds of both settings, the new ones first.
Overlaid(h, f, g) ==
  /\ DOMAIN h = DOMAIN f \cup DOMAIN g
  /\ \A k \in DOMAIN f : h[k] = f[k]
  /\ \A k \in DOMAIN g \ DOMAIN f : h[k] = g[k]

LEMMA OverlayIs ==
  ASSUME NEW keys, NEW f \in Settings(keys), NEW g \in Settings(keys)
  PROVE  Overlay(f, g) \in Settings(keys) /\ Overlaid(Overlay(f, g), f, g)
<1>1. /\ f \in [DOMAIN f -> BOOLEAN] /\ DOMAIN f \subseteq keys
      /\ g \in [DOMAIN g -> BOOLEAN] /\ DOMAIN g \subseteq keys
  BY SettingsAre
<1>2. PICK h : h = Overlay(f, g)
  OBVIOUS
<1>3. h = [k \in DOMAIN f \cup DOMAIN g |-> IF k \in DOMAIN f THEN f[k] ELSE g[k]]
  BY <1>2 DEF Overlay
<1>4. ASSUME NEW k \in DOMAIN f \cup DOMAIN g PROVE h[k] \in BOOLEAN
  <2>1. CASE k \in DOMAIN f
    BY <1>1, <1>3, <2>1
  <2>2. CASE k \notin DOMAIN f
    BY <1>1, <1>3, <2>2
  <2> QED
    BY <2>1, <2>2
<1>5. h \in [DOMAIN h -> BOOLEAN] /\ DOMAIN h = DOMAIN f \cup DOMAIN g
  BY <1>3, <1>4
<1>6. h \in Settings(keys)
  BY <1>1, <1>5, SettingsAre
<1>7. Overlaid(h, f, g)
  BY <1>3, <1>5 DEF Overlaid
<1> QED
  BY <1>2, <1>6, <1>7

LEMMA WithoutIs ==
  ASSUME NEW keys, NEW f \in Settings(keys), NEW out
  PROVE  /\ Without(f, out) \in Settings(keys)
         /\ DOMAIN Without(f, out) = DOMAIN f \ out
         /\ \A k \in DOMAIN f \ out : Without(f, out)[k] = f[k]
<1>1. f \in [DOMAIN f -> BOOLEAN] /\ DOMAIN f \subseteq keys
  BY SettingsAre
<1>2. PICK h : h = Without(f, out)
  OBVIOUS
<1>3. h = [k \in DOMAIN f \ out |-> f[k]]
  BY <1>2 DEF Without
<1>4. h \in [DOMAIN h -> BOOLEAN] /\ DOMAIN h = DOMAIN f \ out
  BY <1>1, <1>3
<1>5. h \in Settings(keys)
  BY <1>1, <1>4, SettingsAre
<1> QED
  BY <1>2, <1>3, <1>4, <1>5

LEMMA ConstantIs ==
  ASSUME NEW keys, NEW in \in SUBSET keys, NEW b \in BOOLEAN
  PROVE  /\ [k \in in |-> b] \in Settings(keys) /\ DOMAIN [k \in in |-> b] = in
         /\ \A k \in in : [j \in in |-> b][k] = b
<1>1. PICK h : h = [k \in in |-> b]
  OBVIOUS
<1>2. h \in [DOMAIN h -> BOOLEAN] /\ DOMAIN h = in /\ \A k \in in : h[k] = b
  BY <1>1
<1>3. h \in Settings(keys)
  BY <1>2, SettingsAre
<1> QED
  BY <1>1, <1>2, <1>3

LEMMA NoSettingsIs ==
  ASSUME NEW keys
  PROVE  NoSettings \in Settings(keys) /\ DOMAIN NoSettings = {}
<1>1. NoSettings \in [{} -> BOOLEAN] /\ DOMAIN NoSettings = {}
  BY DEF NoSettings
<1> QED
  BY <1>1, SettingsAre

\* How sets of scopes are made up, for what was turned on and for what is requested.
ScopesFor(scopes, on, whole, seasons, episodes) ==
  LET content == FutureSeasons(on) \cup IF whole THEN WholeSeries
                                        ELSE SeasonScopes(seasons) \cup EpisodeScopes(episodes)
  IN scopes = SomeScopes(content) \/ scopes = {<<"media", 0, 0>>} \cup content

\* Scopes are of different kinds: which of them a set of scopes holds.
LEMMA ScopesHold ==
  ASSUME NEW on \in BOOLEAN, NEW whole \in BOOLEAN, NEW seasons, NEW episodes, NEW scopes,
         ScopesFor(scopes, on, whole, seasons, episodes)
  PROVE  /\ WholeSeries \subseteq scopes <=> whole
         /\ \A n : <<"season", n, 0>> \in scopes <=> (~whole /\ n \in seasons)
         /\ \A a, b : <<"episode", a, b>> \in scopes <=>
              (~whole /\ \E k \in episodes : k[1] = a /\ k[2] = b)
<1> DEFINE Known == FutureSeasons(on) \cup {<<"media", 0, 0>>}
<1>1. /\ \A x \in Known : x[1] \in {"media", "future_seasons"}
      /\ \A x \in WholeSeries : x[1] = "whole_series"
      /\ \A x \in SeasonScopes(seasons) : x[1] = "season"
      /\ \A x \in EpisodeScopes(episodes) : x[1] = "episode"
  BY DEF FutureSeasons, WholeSeries, SeasonScopes, EpisodeScopes
<1>2. \A x : (x[1] \notin {"media", "future_seasons"}) =>
        (x \in scopes <=> x \in (IF whole THEN WholeSeries
                                 ELSE SeasonScopes(seasons) \cup EpisodeScopes(episodes)))
  BY <1>1 DEF SomeScopes, ScopesFor
<1>3. WholeSeries \subseteq scopes <=> whole
  <2>1. PICK x : x = <<"whole_series", 0, 0>>
    OBVIOUS
  <2>2. WholeSeries = {x} /\ x[1] = "whole_series"
    BY <2>1 DEF WholeSeries
  <2>3. x \in scopes <=> whole
    BY <1>1, <1>2, <2>2
  <2> QED
    BY <2>2, <2>3
<1>4. ASSUME NEW n PROVE <<"season", n, 0>> \in scopes <=> (~whole /\ n \in seasons)
  <2>1. PICK x : x = <<"season", n, 0>>
    OBVIOUS
  <2>2. x[1] = "season" /\ (x \in SeasonScopes(seasons) <=> n \in seasons)
    BY <2>1 DEF SeasonScopes
  <2>3. x \in scopes <=> (~whole /\ x \in SeasonScopes(seasons))
    BY <1>1, <1>2, <2>2
  <2> QED
    BY <2>1, <2>2, <2>3
<1>5. ASSUME NEW a, NEW b
      PROVE  <<"episode", a, b>> \in scopes <=> (~whole /\ \E k \in episodes : k[1] = a /\ k[2] = b)
  <2>1. PICK x : x = <<"episode", a, b>>
    OBVIOUS
  <2>2. x[1] = "episode"
    BY <2>1
  <2>3. x \in EpisodeScopes(episodes) <=> \E k \in episodes : k[1] = a /\ k[2] = b
    BY <2>1 DEF EpisodeScopes
  <2>4. x \in scopes <=> (~whole /\ x \in EpisodeScopes(episodes))
    BY <1>1, <1>2, <2>2
  <2> QED
    BY <2>1, <2>3, <2>4
<1> QED
  BY <1>3, <1>4, <1>5

-----------------------------------------------------------------------------

LEMMA UpsertSeasonsIs ==
  ASSUME NEW s \in MoState, NEW seasons \in Settings(MoSeasons)
  PROVE  /\ UpsertSeasonMonitors(s, seasons) \in MoState
         /\ UpsertSeasonMonitors(s, seasons).here = s.here
         /\ UpsertSeasonMonitors(s, seasons).mon = s.mon
         /\ UpsertSeasonMonitors(s, seasons).count = s.count
         /\ UpsertSeasonMonitors(s, seasons).seasons = Overlay(seasons, s.seasons)
         /\ UpsertSeasonMonitors(s, seasons).overrides
              = Without(s.overrides, InSeasons(DOMAIN seasons))
<1>1. PICK o : o = Overlay(seasons, s.seasons)
  OBVIOUS
<1>2. PICK w : w = Without(s.overrides, InSeasons(DOMAIN seasons))
  OBVIOUS
<1>3. s.seasons \in Settings(MoSeasons) /\ s.overrides \in Settings(MoEpisodes)
  BY DEF MoState
<1>4. o \in Settings(MoSeasons) /\ w \in Settings(MoEpisodes)
  BY <1>1, <1>2, <1>3, OverlayIs, WithoutIs
<1>5. PICK n : n = [s EXCEPT !.seasons = o, !.overrides = w]
  OBVIOUS
<1>6. /\ n \in MoState /\ n.here = s.here /\ n.mon = s.mon /\ n.count = s.count
      /\ n.seasons = o /\ n.overrides = w
  BY <1>4, <1>5 DEF MoState
<1>7. UpsertSeasonMonitors(s, seasons) = n
  BY <1>1, <1>2, <1>5 DEF UpsertSeasonMonitors
<1> QED
  BY <1>1, <1>2, <1>6, <1>7

LEMMA UpsertEpisodesIs ==
  ASSUME NEW s \in MoState, NEW episodes \in Settings(MoEpisodes)
  PROVE  /\ UpsertEpisodeMonitors(s, episodes) \in MoState
         /\ UpsertEpisodeMonitors(s, episodes).here = s.here
         /\ UpsertEpisodeMonitors(s, episodes).mon = s.mon
         /\ UpsertEpisodeMonitors(s, episodes).count = s.count
         /\ UpsertEpisodeMonitors(s, episodes).seasons = s.seasons
         /\ UpsertEpisodeMonitors(s, episodes).overrides = Overlay(episodes, s.overrides)
<1>1. PICK o : o = Overlay(episodes, s.overrides)
  OBVIOUS
<1>2. s.overrides \in Settings(MoEpisodes)
  BY DEF MoState
<1>3. o \in Settings(MoEpisodes)
  BY <1>1, <1>2, OverlayIs
<1>4. PICK n : n = [s EXCEPT !.overrides = o]
  OBVIOUS
<1>5. /\ n \in MoState /\ n.here = s.here /\ n.mon = s.mon /\ n.count = s.count
      /\ n.seasons = s.seasons /\ n.overrides = o
  BY <1>3, <1>4 DEF MoState
<1>6. UpsertEpisodeMonitors(s, episodes) = n
  BY <1>1, <1>4 DEF UpsertEpisodeMonitors
<1> QED
  BY <1>1, <1>5, <1>6

\* A change of settings names the episodes that it turned on, and no other.
NamesTurnedOn(before, after, scopes) ==
  LET seen == Counted(before, after)
      turned == TurnedOn(before, after) \cap seen
      named == Named(scopes, after) \cap seen
  IN /\ named \subseteq turned
     /\ turned \subseteq named \/ WholeSeries \subseteq scopes

LEMMA ScopesNameTurnedOn ==
  ASSUME NEW before \in MoState, NEW after \in MoState, NEW changedSeasons, NEW changedEpisodes,
         changedEpisodes \subseteq DOMAIN after.overrides
  PROVE  NamesTurnedOn(before, after,
           NewlyEnabledRequestScopes(before, after, changedSeasons, changedEpisodes))
<1>1. PICK seen : seen = Counted(before, after)
  OBVIOUS
<1>2. PICK turned : turned = TurnedOn(before, after) \cap seen
  OBVIOUS
<1>3. turned = TurnedOn(before, after) \cap (Counted(before, after) \cup changedEpisodes)
  BY <1>1, <1>2 DEF Counted
<1>4. PICK seasons : seasons = SeasonTransitions(before, after, turned)
  OBVIOUS
<1>5. PICK whole \in BOOLEAN : whole <=>
        /\ after.count > 0 /\ 1..after.count \subseteq seasons
        /\ (~before.mon /\ after.mon) \/ 1..after.count \subseteq changedSeasons
  OBVIOUS
<1>6. PICK on \in BOOLEAN : on = (~(before.mon /\ before.new) /\ after.mon /\ after.new)
  OBVIOUS
<1>7. PICK episodes : episodes = turned \ InSeasons(seasons)
  OBVIOUS
<1>8. PICK scopes : scopes = NewlyEnabledRequestScopes(before, after, changedSeasons, changedEpisodes)
  OBVIOUS
<1>9. ScopesFor(scopes, on, whole, seasons, episodes)
  BY <1>3, <1>4, <1>5, <1>6, <1>7, <1>8 DEF NewlyEnabledRequestScopes, ScopesFor
<1>10. /\ WholeSeries \subseteq scopes <=> whole
       /\ \A n : <<"season", n, 0>> \in scopes <=> (~whole /\ n \in seasons)
       /\ \A a, b : <<"episode", a, b>> \in scopes <=>
            (~whole /\ \E k \in episodes : k[1] = a /\ k[2] = b)
  BY <1>9, ScopesHold
<1>11. \A n \in seasons : \A k \in seen : k[1] = n => k \in turned
  BY <1>1, <1>4 DEF SeasonTransitions
<1>12. turned \subseteq MoEpisodes
  BY <1>2 DEF TurnedOn
<1>13. ASSUME NEW k \in Named(scopes, after), k \in seen PROVE k \in turned
  <2>1. k \in MoEpisodes
    BY <1>13 DEF Named
  <2>2. CASE whole /\ k \in Catalog(after)
    <3>1. k[1] \in 1..after.count
      BY <2>2 DEF Catalog, InSeasons
    <3> QED
      BY <1>5, <1>11, <1>13, <2>2, <3>1
  <2>3. CASE k[1] \in seasons
    BY <1>11, <1>13, <2>3
  <2>4. CASE \E e \in episodes : e[1] = k[1] /\ e[2] = k[2]
    <3>1. PICK e \in episodes : e[1] = k[1] /\ e[2] = k[2]
      BY <2>4
    <3>2. e \in turned
      BY <1>7
    <3>3. e = k
      BY <1>12, <2>1, <3>1, <3>2, MoConstants
    <3> QED
      BY <3>2, <3>3
  <2> QED
    BY <1>10, <1>13, <2>2, <2>3, <2>4 DEF Named
<1>14. ASSUME ~whole, NEW k \in turned PROVE k \in Named(scopes, after) /\ k \in seen
  <2>1. k \in MoEpisodes /\ k \in seen
    BY <1>2, <1>12
  <2>2. CASE k[1] \in seasons
    BY <1>10, <1>14, <2>1, <2>2 DEF Named
  <2>3. CASE k[1] \notin seasons
    <3>1. k \in episodes
      BY <1>7, <2>3 DEF InSeasons
    <3>2. <<"episode", k[1], k[2]>> \in scopes
      BY <1>10, <1>14, <3>1
    <3> QED
      BY <2>1, <3>2 DEF Named
  <2> QED
    BY <2>2, <2>3
<1>15. NamesTurnedOn(before, after, scopes)
  BY <1>1, <1>2, <1>10, <1>13, <1>14 DEF NamesTurnedOn
<1> QED
  BY <1>8, <1>15

\* What a step does about attribution.
MoAttributes == AttributedAsTurnedOn /\ RequestKept

LEMMA UpdatesAttribute ==
  ASSUME MoInv, NEW after \in MoState, NEW changedSeasons, NEW changedEpisodes,
         changedEpisodes \subseteq DOMAIN after.overrides, moState.here, after.here,
         Updates(after, changedSeasons, changedEpisodes)
  PROVE  MoInv' /\ MoAttributes
<1>1. PICK scopes : scopes = NewlyEnabledRequestScopes(moState, after, changedSeasons, changedEpisodes)
  OBVIOUS
<1>2. moState' = after /\ moLast' = [op |-> "update", scopes |-> scopes]
  BY <1>1 DEF Updates
<1>3. NamesTurnedOn(moState, after, scopes)
  BY <1>1, ScopesNameTurnedOn DEF MoInv
<1>4. moLast'.op = "update" /\ moLast'.scopes = scopes
  BY <1>2
<1>5. AttributedAsTurnedOn
  BY <1>2, <1>3, <1>4 DEF AttributedAsTurnedOn, NamesTurnedOn
<1>6. RequestKept
  BY <1>4 DEF RequestKept
<1>7. MoInv'
  BY <1>2 DEF MoInv
<1> QED
  BY <1>5, <1>6, <1>7 DEF MoAttributes

LEMMA UpdateMediaItemAttributes ==
  ASSUME MoInv, NEW mon \in {{}, {FALSE}, {TRUE}}, NEW new \in {{}, {FALSE}, {TRUE}},
         NEW seasons \in Settings(MoSeasons), NEW episodes \in Settings(MoEpisodes),
         UpdateMediaItem(mon, new, seasons, episodes)
  PROVE  MoInv' /\ MoAttributes
<1>0. moState \in MoState /\ moState.here
  BY DEF UpdateMediaItem, MoInv
<1>1. PICK m \in BOOLEAN : m = IF mon = {} THEN moState.mon ELSE CHOOSE b \in mon : TRUE
  <2>1. CASE mon = {}
    BY <1>0, <2>1 DEF MoState
  <2>2. CASE mon # {}
    <3>1. (CHOOSE b \in mon : TRUE) \in mon
      BY <2>2
    <3> QED
      BY <2>2, <3>1
  <2> QED
    BY <2>1, <2>2
<1>2. PICK n \in BOOLEAN : n = IF new = {} THEN moState.new ELSE CHOOSE b \in new : TRUE
  <2>1. CASE new = {}
    BY <1>0, <2>1 DEF MoState
  <2>2. CASE new # {}
    <3>1. (CHOOSE b \in new : TRUE) \in new
      BY <2>2
    <3> QED
      BY <2>2, <3>1
  <2> QED
    BY <2>1, <2>2
<1>3. PICK o \in Settings(MoEpisodes) :
        o = IF mon = {FALSE} THEN NoSettings ELSE moState.overrides
  BY <1>0, NoSettingsIs DEF MoState
<1>4. PICK item : item = [moState EXCEPT !.mon = m, !.new = n, !.overrides = o]
  OBVIOUS
<1>5. item \in MoState /\ item.here
  BY <1>0, <1>4 DEF MoState
<1>6. PICK seasoned : seasoned = UpsertSeasonMonitors(item, seasons)
  OBVIOUS
<1>7. seasoned \in MoState /\ seasoned.here
  BY <1>5, <1>6, UpsertSeasonsIs
<1>8. PICK after : after = UpsertEpisodeMonitors(seasoned, episodes)
  OBVIOUS
<1>9. after \in MoState /\ after.here /\ after.overrides = Overlay(episodes, seasoned.overrides)
  BY <1>7, <1>8, UpsertEpisodesIs
<1>10. DOMAIN episodes \subseteq DOMAIN after.overrides
  <2>1. seasoned.overrides \in Settings(MoEpisodes)
    BY <1>7 DEF MoState
  <2>2. DOMAIN Overlay(episodes, seasoned.overrides)
          = DOMAIN episodes \cup DOMAIN seasoned.overrides
    <3>1. PICK g : g = seasoned.overrides
      OBVIOUS
    <3>2. g \in Settings(MoEpisodes) /\ episodes \in Settings(MoEpisodes)
      BY <2>1, <3>1
    <3>3. Overlaid(Overlay(episodes, g), episodes, g)
      BY <3>2, OverlayIs
    <3> QED
      BY <3>1, <3>3 DEF Overlaid
  <2> QED
    BY <1>9, <2>2
<1>11. Updates(after, DOMAIN seasons, DOMAIN episodes)
  BY <1>1, <1>2, <1>3, <1>4, <1>6, <1>8 DEF UpdateMediaItem
<1> QED
  BY <1>0, <1>9, <1>10, <1>11, UpdatesAttribute

LEMMA UpdateSeasonAttributes ==
  ASSUME MoInv, NEW n \in MoSeasons, NEW on \in BOOLEAN, UpdateSeasonMonitor(n, on)
  PROVE  MoInv' /\ MoAttributes
<1>1. moState \in MoState /\ moState.here
  BY DEF UpdateSeasonMonitor, MoInv
<1>2. PICK seasons : seasons = [m \in {n} |-> on]
  OBVIOUS
<1>3. seasons \in Settings(MoSeasons)
  <2>1. {n} \in SUBSET MoSeasons
    OBVIOUS
  <2> QED BY ONLY <1>2, <2>1, on \in BOOLEAN, ConstantIs, Zenon
<1>4. PICK after : after = UpsertSeasonMonitors(moState, seasons)
  OBVIOUS
<1>5. after \in MoState /\ after.here
  BY <1>1, <1>3, <1>4, UpsertSeasonsIs
<1>6. Updates(after, {n}, {})
  BY <1>2, <1>4 DEF UpdateSeasonMonitor
<1> QED
  BY <1>1, <1>5, <1>6, UpdatesAttribute

LEMMA UpdateEpisodeAttributes ==
  ASSUME MoInv, NEW k \in MoEpisodes, NEW on \in BOOLEAN, UpdateEpisodeMonitor(k, on)
  PROVE  MoInv' /\ MoAttributes
<1>1. moState \in MoState /\ moState.here
  BY DEF UpdateEpisodeMonitor, MoInv
<1>2. PICK episodes : episodes = [e \in {k} |-> on]
  OBVIOUS
<1>3. episodes \in Settings(MoEpisodes) /\ DOMAIN episodes = {k}
  <2>1. PICK only : only = {k}
    OBVIOUS
  <2>2. only \in SUBSET MoEpisodes
    BY <2>1
  <2>3. [e \in only |-> on] \in Settings(MoEpisodes)
    BY <2>2, ConstantIs
  <2> QED
    BY <1>2, <2>1, <2>3
<1>4. PICK after : after = UpsertEpisodeMonitors(moState, episodes)
  OBVIOUS
<1>5. after \in MoState /\ after.here /\ after.overrides = Overlay(episodes, moState.overrides)
  BY <1>1, <1>3, <1>4, UpsertEpisodesIs
<1>6. {k} \subseteq DOMAIN after.overrides
  <2>1. moState.overrides \in Settings(MoEpisodes)
    BY <1>1 DEF MoState
  <2>2. DOMAIN Overlay(episodes, moState.overrides)
          = DOMAIN episodes \cup DOMAIN moState.overrides
    BY <1>3, <2>1, OverlayIs DEF Overlaid
  <2> QED
    BY <1>3, <1>5, <2>2
<1>7. Updates(after, {}, {k})
  BY <1>2, <1>4 DEF UpdateEpisodeMonitor
<1> QED
  BY <1>1, <1>5, <1>6, <1>7, UpdatesAttribute
-----------------------------------------------------------------------------

LEMMA NormalizedIs ==
  ASSUME NEW s \in MoState, s = moState, NEW req \in MoRequestRecord
  PROVE  NormalizeSeriesRequest(req) \in MoRequestRecord
<1>1. PICK known : known = [n \in 1..s.count |-> TRUE]
  OBVIOUS
<1>2. 1..s.count \subseteq MoSeasons
  BY MoConstants DEF MoState
<1>3. known \in Settings(MoSeasons)
  BY <1>1, <1>2, ConstantIs
<1>4. PICK filled : filled = Overlay(req.seasons, known)
  OBVIOUS
<1>5. req.seasons \in Settings(MoSeasons)
  BY DEF MoRequestRecord
<1>6. filled \in Settings(MoSeasons)
  BY <1>3, <1>4, <1>5, OverlayIs
<1>7. PICK n : n = [req EXCEPT !.seasons = filled]
  OBVIOUS
<1>8. n \in MoRequestRecord
  BY <1>6, <1>7 DEF MoRequestRecord
<1>9. NormalizeSeriesRequest(req) \in {n, req}
  BY <1>1, <1>4, <1>7 DEF NormalizeSeriesRequest
<1> QED
  BY <1>8, <1>9

\* The scopes of a request name what it asks for.
LEMMA RequestNames ==
  ASSUME NEW s \in MoState, s = moState, NEW req \in MoRequestRecord,
         NEW scopes, scopes = BuildRequestScopes(req)
  PROVE  /\ WholeSeries \subseteq scopes =>
              /\ \A n \in 1..s.count : n \in DOMAIN req.seasons /\ req.seasons[n]
              /\ \A k \in Catalog(s) : Asks(req, k)
         /\ \A n : <<"season", n, 0>> \in scopes =>
              /\ n \in DOMAIN req.seasons
              /\ \A k \in MoEpisodes : k[1] = n => Asks(req, k)
         /\ \A k \in MoEpisodes : <<"episode", k[1], k[2]>> \in scopes => Asks(req, k)
<1>0. /\ req.seasons \in [DOMAIN req.seasons -> BOOLEAN] /\ DOMAIN req.seasons \subseteq MoSeasons
      /\ req.episodes \in [DOMAIN req.episodes -> BOOLEAN]
      /\ DOMAIN req.episodes \subseteq MoEpisodes /\ req.new \in BOOLEAN
  BY SettingsAre DEF MoRequestRecord
<1>1. PICK excluded : excluded = {k \in DOMAIN req.episodes : ~req.episodes[k]}
  OBVIOUS
<1>2. PICK all \in BOOLEAN : all <=>
        /\ \A n \in DOMAIN req.seasons : req.seasons[n]
        /\ \A n \in 1..s.count : n \in DOMAIN req.seasons /\ req.seasons[n]
        /\ \A k \in Catalog(s) : Asks(req, k)
        /\ excluded = {}
  OBVIOUS
<1>3. PICK seasons : seasons = {n \in DOMAIN req.seasons :
        (n \in DOMAIN req.seasons /\ req.seasons[n]) /\ excluded \cap InSeasons({n}) = {}}
  OBVIOUS
<1>4. PICK known : known = {k \in Catalog(s) : k[1] \in DOMAIN req.seasons \ seasons /\ Asks(req, k)}
  OBVIOUS
<1>5. PICK episodes : episodes = known \cup (DOMAIN req.episodes \ excluded)
  OBVIOUS
<1>6. PICK whole \in BOOLEAN : whole = (DOMAIN req.seasons # {} /\ all)
  OBVIOUS
<1>7. scopes = {<<"media", 0, 0>>} \cup FutureSeasons(req.new)
                 \cup IF DOMAIN req.seasons = {} THEN {}
                      ELSE IF all THEN WholeSeries
                      ELSE SeasonScopes(seasons) \cup EpisodeScopes(episodes)
  BY <1>1, <1>2, <1>3, <1>4, <1>5 DEF BuildRequestScopes, Asks
<1>8. PICK named, single :
        /\ named = IF DOMAIN req.seasons = {} THEN {} ELSE seasons
        /\ single = IF DOMAIN req.seasons = {} THEN {} ELSE episodes
  OBVIOUS
<1>9. ScopesFor(scopes, req.new, whole, named, single)
  <2>1. CASE DOMAIN req.seasons = {}
    <3>1. SeasonScopes(named) = {} /\ EpisodeScopes(single) = {} /\ ~whole
      BY <1>6, <1>8, <2>1 DEF SeasonScopes, EpisodeScopes
    <3> QED
      BY <1>7, <2>1, <3>1 DEF ScopesFor
  <2>2. CASE DOMAIN req.seasons # {}
    BY <1>6, <1>7, <1>8, <2>2 DEF ScopesFor
  <2> QED
    BY <2>1, <2>2
<1>10. /\ WholeSeries \subseteq scopes <=> whole
       /\ \A n : <<"season", n, 0>> \in scopes <=> (~whole /\ n \in named)
       /\ \A a, b : <<"episode", a, b>> \in scopes <=>
            (~whole /\ \E k \in single : k[1] = a /\ k[2] = b)
  BY <1>0, <1>9, ScopesHold
<1>11. ASSUME NEW n \in named
       PROVE  n \in DOMAIN req.seasons /\ \A k \in MoEpisodes : k[1] = n => Asks(req, k)
  <2>1. n \in seasons
    BY <1>8
  <2>2. n \in DOMAIN req.seasons /\ req.seasons[n] /\ excluded \cap InSeasons({n}) = {}
    BY <1>3, <2>1
  <2>3. ASSUME NEW k \in MoEpisodes, k[1] = n PROVE Asks(req, k)
    <3>1. k \in InSeasons({n})
      BY <2>3 DEF InSeasons
    <3> QED
      BY <1>0, <1>1, <2>2, <2>3, <3>1 DEF Asks
  <2> QED
    BY <2>2, <2>3
<1>12. ASSUME NEW k \in MoEpisodes, NEW e \in single, e[1] = k[1], e[2] = k[2]
       PROVE  Asks(req, k)
  <2>1. e \in episodes /\ e \in MoEpisodes
    BY <1>0, <1>4, <1>5, <1>8 DEF Catalog, InSeasons
  <2>2. e = k
    BY <1>12, <2>1, MoConstants
  <2>3. CASE k \in known
    BY <1>4, <2>3
  <2>4. CASE k \in DOMAIN req.episodes \ excluded
    BY <1>1, <2>4 DEF Asks
  <2> QED
    BY <1>5, <2>1, <2>2, <2>3, <2>4
<1> QED
  BY <1>2, <1>6, <1>10, <1>11, <1>12

LEMMA AddAttributes ==
  ASSUME MoInv, NEW req \in MoRequestRecord, MoAdd(req)
  PROVE  MoInv' /\ MoAttributes
<1>1. PICK s \in MoState : s = moState
  BY DEF MoInv
<1>2. PICK full \in MoRequestRecord : full = NormalizeSeriesRequest(req)
  BY <1>1, NormalizedIs
<1>3. PICK scopes : scopes = BuildRequestScopes(full)
  OBVIOUS
<1>4. PICK after : after = [s EXCEPT !.here = TRUE, !.mon = TRUE, !.new = full.new,
                                     !.seasons = full.seasons, !.overrides = full.episodes]
  OBVIOUS
<1>5. /\ full.new \in BOOLEAN /\ full.seasons \in Settings(MoSeasons)
      /\ full.episodes \in Settings(MoEpisodes)
  BY DEF MoRequestRecord
<1>6. PICK yes \in BOOLEAN : yes = TRUE
  OBVIOUS
<1>7. after = [s EXCEPT !.here = yes, !.mon = yes, !.new = full.new,
                        !.seasons = full.seasons, !.overrides = full.episodes]
  BY <1>4, <1>6
<1>8. /\ after \in MoState /\ after.here /\ after.mon /\ after.count = s.count
      /\ after.seasons = full.seasons /\ after.overrides = full.episodes
  BY <1>5, <1>6, <1>7 DEF MoState
<1>9. /\ ~moState.here /\ moState' = after /\ moLast' = [op |-> "add", scopes |-> scopes]
  BY <1>1, <1>2, <1>3, <1>4 DEF MoAdd, Requested
<1>10. moLast'.op = "add" /\ moLast'.scopes = scopes
  BY <1>9
<1>11. /\ WholeSeries \subseteq scopes => \A k \in Catalog(s) : Asks(full, k)
       /\ \A n : <<"season", n, 0>> \in scopes =>
            \A k \in MoEpisodes : k[1] = n => Asks(full, k)
       /\ \A k \in MoEpisodes : <<"episode", k[1], k[2]>> \in scopes => Asks(full, k)
  BY <1>1, <1>3, RequestNames
<1>12. \A k \in MoEpisodes : Asks(full, k) => EpisodeMonitored(after, k)
  BY <1>8 DEF Asks, EpisodeMonitored
<1>13. Catalog(after) = Catalog(s)
  BY <1>8 DEF Catalog
<1>14. \A k \in Named(scopes, after) : EpisodeMonitored(after, k)
  BY <1>11, <1>12, <1>13 DEF Named
<1>15. \A k \in MoEpisodes : ~EpisodeMonitored(moState, k)
  BY <1>9 DEF MoInv, EpisodeMonitored
<1>16. RequestKept
  BY <1>9, <1>10, <1>14, <1>15 DEF RequestKept
<1>17. AttributedAsTurnedOn
  BY <1>10 DEF AttributedAsTurnedOn
<1> QED
  BY <1>8, <1>9, <1>16, <1>17 DEF MoInv, MoAttributes

LEMMA RequestAttributes ==
  ASSUME MoInv, NEW req \in MoRequestRecord, MoRequest(req)
  PROVE  MoInv' /\ MoAttributes
<1>1. PICK s \in MoState : s = moState /\ s.here
  BY DEF MoInv, MoRequest
<1>2. PICK full \in MoRequestRecord : full = NormalizeSeriesRequest(req)
  BY <1>1, NormalizedIs
<1>3. PICK scopes : scopes = BuildRequestScopes(full)
  OBVIOUS
<1>4. PICK on : on = (IF WholeSeries \subseteq scopes THEN DOMAIN full.seasons ELSE {})
                       \cup {n \in MoSeasons : <<"season", n, 0>> \in scopes}
  OBVIOUS
<1>5. PICK single : single = {k \in MoEpisodes : <<"episode", k[1], k[2]>> \in scopes}
  OBVIOUS
<1>6. PICK new \in BOOLEAN : new = (s.new \/ full.new)
  OBVIOUS
<1>7. PICK yes \in BOOLEAN : yes = TRUE
  OBVIOUS
<1>8. PICK item : item = [s EXCEPT !.mon = yes, !.new = new]
  OBVIOUS
<1>9. /\ item \in MoState /\ item.here /\ item.mon /\ item.count = s.count
      /\ item.seasons = s.seasons /\ item.overrides = s.overrides
  BY <1>1, <1>6, <1>7, <1>8 DEF MoState
<1>10. PICK onward : onward = [n \in on |-> TRUE]
  OBVIOUS
<1>11. PICK singly : singly = [k \in single |-> TRUE]
  OBVIOUS
<1>12. on \subseteq MoSeasons /\ single \subseteq MoEpisodes
  BY <1>4, <1>5, SettingsAre DEF MoRequestRecord
<1>13. /\ onward \in Settings(MoSeasons) /\ DOMAIN onward = on /\ \A n \in on : onward[n]
       /\ singly \in Settings(MoEpisodes) /\ DOMAIN singly = single /\ \A k \in single : singly[k]
  BY <1>10, <1>11, <1>12, ConstantIs
<1>14. PICK seasoned : seasoned = UpsertSeasonMonitors(item, onward)
  OBVIOUS
<1>15. /\ seasoned \in MoState /\ seasoned.here /\ seasoned.mon /\ seasoned.count = s.count
       /\ seasoned.seasons = Overlay(onward, s.seasons)
       /\ seasoned.overrides = Without(s.overrides, InSeasons(on))
  BY <1>9, <1>13, <1>14, UpsertSeasonsIs
<1>16. PICK after : after = UpsertEpisodeMonitors(seasoned, singly)
  OBVIOUS
<1>17. /\ after \in MoState /\ after.here /\ after.mon /\ after.count = s.count
       /\ after.seasons = Overlay(onward, s.seasons)
       /\ after.overrides = Overlay(singly, seasoned.overrides)
  BY <1>13, <1>15, <1>16, UpsertEpisodesIs
<1>18. /\ moState' = after /\ moLast' = [op |-> "request", scopes |-> scopes]
  BY <1>1, <1>2, <1>3, <1>4, <1>5, <1>6, <1>7, <1>8, <1>10, <1>11, <1>14, <1>16
     DEF MoRequest, Requested
<1>19. moLast'.op = "request" /\ moLast'.scopes = scopes
  BY <1>18
<1>20. PICK seasons : seasons = s.seasons
  OBVIOUS
<1>21. PICK old : old = s.overrides
  OBVIOUS
<1>22. PICK kept : kept = Without(old, InSeasons(on))
  OBVIOUS
<1>23. seasons \in Settings(MoSeasons) /\ old \in Settings(MoEpisodes)
  BY <1>20, <1>21 DEF MoState
<1>24. /\ kept \in Settings(MoEpisodes) /\ DOMAIN kept = DOMAIN old \ InSeasons(on)
       /\ \A k \in DOMAIN old \ InSeasons(on) : kept[k] = old[k]
  <2>1. /\ Without(old, InSeasons(on)) \in Settings(MoEpisodes)
        /\ DOMAIN Without(old, InSeasons(on)) = DOMAIN old \ InSeasons(on)
        /\ \A k \in DOMAIN old \ InSeasons(on) : Without(old, InSeasons(on))[k] = old[k]
    BY ONLY <1>23, WithoutIs, Zenon
  <2> QED BY ONLY <1>22, <2>1, SMT
<1>25. PICK ov : ov = Overlay(singly, kept)
  OBVIOUS
<1>26. /\ DOMAIN ov = single \cup DOMAIN kept
       /\ \A k \in single : ov[k]
       /\ \A k \in DOMAIN kept \ single : ov[k] = old[k]
  <2>1. /\ DOMAIN ov = DOMAIN singly \cup DOMAIN kept
        /\ \A k \in DOMAIN singly : ov[k] = singly[k]
        /\ \A k \in DOMAIN kept \ DOMAIN singly : ov[k] = kept[k]
    <3>1. singly \in Settings(MoEpisodes) /\ kept \in Settings(MoEpisodes)
      BY <1>13, <1>24
    <3>2. Overlaid(Overlay(singly, kept), singly, kept)
      BY <3>1, OverlayIs
    <3> QED
      BY <1>25, <3>2 DEF Overlaid
  <2> QED
    BY <1>13, <1>24, <2>1
<1>27. PICK os : os = Overlay(onward, seasons)
  OBVIOUS
<1>28. /\ DOMAIN os = on \cup DOMAIN seasons
       /\ \A n \in on : os[n]
       /\ \A n \in DOMAIN seasons \ on : os[n] = seasons[n]
  <2>1. /\ DOMAIN os = DOMAIN onward \cup DOMAIN seasons
        /\ \A n \in DOMAIN onward : os[n] = onward[n]
        /\ \A n \in DOMAIN seasons \ DOMAIN onward : os[n] = seasons[n]
    <3>1. onward \in Settings(MoSeasons) /\ seasons \in Settings(MoSeasons)
      BY <1>13, <1>23
    <3>2. Overlaid(Overlay(onward, seasons), onward, seasons)
      BY <3>1, OverlayIs
    <3> QED
      BY <1>27, <3>2 DEF Overlaid
  <2> QED
    BY <1>13, <2>1
<1>29. after.seasons = os /\ after.overrides = ov
  BY <1>15, <1>17, <1>20, <1>21, <1>22, <1>25, <1>27
<1>30. ASSUME NEW k \in MoEpisodes, k[1] \in on \/ k \in single
       PROVE  EpisodeMonitored(after, k)
  <2>1. CASE k \in single
    BY <1>17, <1>26, <1>29, <2>1 DEF EpisodeMonitored
  <2>2. CASE k \notin single /\ k[1] \in on
    <3>1. k \notin DOMAIN ov
      BY <1>24, <1>26, <2>2 DEF InSeasons
    <3> QED
      BY <1>17, <1>28, <1>29, <2>2, <3>1 DEF EpisodeMonitored
  <2> QED
    BY <1>30, <2>1, <2>2
<1>31. ASSUME NEW k \in MoEpisodes, EpisodeMonitored(s, k)
       PROVE  EpisodeMonitored(after, k)
  <2>1. CASE k[1] \in on \/ k \in single
    BY <1>30, <2>1
  <2>2. CASE k[1] \notin on /\ k \notin single
    <3>1. k \notin InSeasons(on)
      BY <2>2 DEF InSeasons
    <3>2. CASE k \in DOMAIN old
      BY <1>17, <1>21, <1>24, <1>26, <1>29, <1>31, <2>2, <3>1, <3>2 DEF EpisodeMonitored
    <3>3. CASE k \notin DOMAIN old
      BY <1>17, <1>20, <1>21, <1>24, <1>26, <1>28, <1>29, <1>31, <2>2, <3>3 DEF EpisodeMonitored
    <3> QED
      BY <3>2, <3>3
  <2> QED
    BY <2>1, <2>2
<1>32. ASSUME NEW k \in Named(scopes, after) PROVE EpisodeMonitored(after, k)
  <2>1. k \in MoEpisodes
    BY DEF Named
  <2>2. CASE WholeSeries \subseteq scopes /\ k \in Catalog(after)
    <3>1. k[1] \in 1..s.count
      BY <1>17, <2>2 DEF Catalog, InSeasons
    <3>2. \A n \in 1..s.count : n \in DOMAIN full.seasons
      BY <1>1, <1>3, <2>2, RequestNames
    <3>3. k[1] \in on
      BY <1>4, <2>2, <3>1, <3>2
    <3> QED
      BY <1>30, <2>1, <3>3
  <2>3. CASE <<"season", k[1], 0>> \in scopes
    <3>1. k[1] \in on
      BY <1>4, <2>1, <2>3, MoConstants
    <3> QED
      BY <1>30, <2>1, <3>1
  <2>4. CASE <<"episode", k[1], k[2]>> \in scopes
    <3>1. k \in single
      BY <1>5, <2>1, <2>4
    <3> QED
      BY <1>30, <2>1, <3>1
  <2> QED
    BY <2>2, <2>3, <2>4 DEF Named
<1>33. RequestKept
  BY <1>1, <1>18, <1>19, <1>31, <1>32 DEF RequestKept
<1>34. AttributedAsTurnedOn
  BY <1>19 DEF AttributedAsTurnedOn
<1> QED
  BY <1>17, <1>18, <1>33, <1>34 DEF MoInv, MoAttributes
LEMMA SystemAttributes ==
  ASSUME MoInv, NEW n \in MoSeasons, MoRefresh(n) \/ MoMatch(n) \/ MoUnmatch
  PROVE  MoInv' /\ MoAttributes
<1>1. PICK s \in MoState : s = moState /\ s.here
  BY DEF MoInv, MoRefresh, MoMatch, MoUnmatch
<1>2. PICK seasons \in Settings(MoSeasons), overrides \in Settings(MoEpisodes),
           count \in {0} \cup MoSeasons :
        Systemically([s EXCEPT !.seasons = seasons, !.overrides = overrides, !.count = count])
  <2>0. /\ s.seasons \in Settings(MoSeasons) /\ s.overrides \in Settings(MoEpisodes)
        /\ s.count \in {0} \cup MoSeasons
    BY DEF MoState
  <2>1. CASE MoRefresh(n)
    <3>1. PICK new : new = s.count + 1..n
      OBVIOUS
    <3>2. new \subseteq MoSeasons
      BY <2>0, <3>1, MoConstants
    <3>3. PICK filled : filled = [m \in new |-> TRUE]
      OBVIOUS
    <3>4. filled \in Settings(MoSeasons)
      BY <3>2, <3>3, ConstantIs
    <3>5. PICK all : all = IF s.mon /\ s.new THEN Overlay(filled, s.seasons) ELSE s.seasons
      OBVIOUS
    <3>6. Overlay(filled, s.seasons) \in Settings(MoSeasons)
      BY <2>0, <3>4, OverlayIs
    <3>7. all \in Settings(MoSeasons)
      BY <2>0, <3>5, <3>6
    <3>8. Systemically([s EXCEPT !.count = n, !.seasons = all])
      BY <1>1, <2>1, <3>1, <3>3, <3>5 DEF MoRefresh
    <3>9. [s EXCEPT !.count = n, !.seasons = all]
            = [s EXCEPT !.seasons = all, !.overrides = s.overrides, !.count = n]
      BY DEF MoState
    <3> QED
      BY <2>0, <3>7, <3>8, <3>9
  <2>2. CASE MoMatch(n)
    <3>1. Systemically([s EXCEPT !.count = n])
      BY <1>1, <2>2 DEF MoMatch
    <3>2. [s EXCEPT !.count = n]
            = [s EXCEPT !.seasons = s.seasons, !.overrides = s.overrides, !.count = n]
      BY DEF MoState
    <3> QED
      BY <2>0, <3>1, <3>2
  <2>3. CASE MoUnmatch
    <3>1. PICK none : none = NoSettings
      OBVIOUS
    <3>2. none \in Settings(MoEpisodes)
      BY <3>1, NoSettingsIs
    <3>3. Systemically([s EXCEPT !.count = 0, !.overrides = none])
      BY <1>1, <2>3, <3>1 DEF MoUnmatch
    <3>4. [s EXCEPT !.count = 0, !.overrides = none]
            = [s EXCEPT !.seasons = s.seasons, !.overrides = none, !.count = 0]
      BY DEF MoState
    <3> QED
      BY <2>0, <3>2, <3>3, <3>4
  <2> QED
    BY <2>1, <2>2, <2>3
<1>3. PICK after : after = [s EXCEPT !.seasons = seasons, !.overrides = overrides, !.count = count]
  OBVIOUS
<1>4. after \in MoState /\ after.here
  BY <1>1, <1>3 DEF MoState
<1>5. moState' = after /\ moLast' = [op |-> "system", scopes |-> {}]
  BY <1>2, <1>3 DEF Systemically
<1>6. moLast'.op = "system"
  BY <1>5
<1> QED
  BY <1>4, <1>5, <1>6 DEF MoInv, MoAttributes, AttributedAsTurnedOn, RequestKept

LEMMA MoInitially ==
  ASSUME MoInit
  PROVE  MoInv
<1>1. PICK h \in BOOLEAN, n \in MoSeasons : moState = [NoMonitoring EXCEPT !.here = h, !.count = n]
  BY DEF MoInit
<1>2. PICK none : none = NoSettings
  OBVIOUS
<1>3. none \in Settings(MoSeasons) /\ none \in Settings(MoEpisodes)
  BY <1>2, NoSettingsIs
<1>4. moState = [here |-> h, mon |-> FALSE, new |-> TRUE, seasons |-> none, overrides |-> none,
                 count |-> n]
  BY <1>1, <1>2 DEF NoMonitoring
<1> QED
  BY <1>3, <1>4 DEF MoInv, MoState

\* For any seasons and episodes: a change of settings is attributed with scopes that name the
\* episodes that came to be monitored by it and no other, and what a request was recorded for is
\* monitored when it returns, with all that was before (NewlyEnabledRequestScopes,
\* buildRequestScopes, applyExistingRequest).
THEOREM RequestsAlwaysAttributed == MoSpec => RequestsAttributed
<1>1. ASSUME MoInv, MoNext PROVE MoInv' /\ MoAttributes
  <2>1. FewEpisodes \subseteq Settings(MoEpisodes)
    BY DEF FewEpisodes
  <2>2. ASSUME NEW g \in Given, NEW seasons \in Settings(MoSeasons), NEW e \in FewEpisodes,
               UpdateMediaItem(g[1], g[2], seasons, e)
        PROVE  MoInv' /\ MoAttributes
    <3>1. g[1] \in {{}, {FALSE}, {TRUE}} /\ g[2] \in {{}, {FALSE}, {TRUE}}
      BY DEF Given
    <3>2. e \in Settings(MoEpisodes)
      BY <2>1
    <3> QED
      BY <1>1, <2>2, <3>1, <3>2, UpdateMediaItemAttributes
  <2>3. ASSUME NEW n \in MoSeasons, NEW on \in BOOLEAN, UpdateSeasonMonitor(n, on)
        PROVE  MoInv' /\ MoAttributes
    BY <1>1, <2>3, UpdateSeasonAttributes
  <2>4. ASSUME NEW k \in MoEpisodes, NEW on \in BOOLEAN, UpdateEpisodeMonitor(k, on)
        PROVE  MoInv' /\ MoAttributes
    BY <1>1, <2>4, UpdateEpisodeAttributes
  <2>5. ASSUME NEW req \in MoRequestsOf(Settings(MoSeasons), FewEpisodes),
               MoAdd(req) \/ MoRequest(req)
        PROVE  MoInv' /\ MoAttributes
    <3>1. req \in MoRequestRecord
      BY <2>1 DEF MoRequestsOf, MoRequestRecord
    <3> QED
      BY <1>1, <2>5, <3>1, AddAttributes, RequestAttributes
  <2>6. ASSUME NEW n \in MoSeasons, MoRefresh(n) \/ MoMatch(n)
        PROVE  MoInv' /\ MoAttributes
    BY <1>1, <2>6, SystemAttributes
  <2>7. ASSUME MoUnmatch PROVE MoInv' /\ MoAttributes
    <3>1. PICK n : n \in MoSeasons
      BY <2>7, <1>1 DEF MoUnmatch, MoInv, MoState
    <3> QED
      BY <1>1, <2>7, <3>1, SystemAttributes
  <2> QED
    BY <1>1, <2>2, <2>3, <2>4, <2>5, <2>6, <2>7 DEF MoNext
<1>2. MoInv /\ UNCHANGED moVars => MoInv'
  BY DEF MoInv, moVars
<1>3. MoInv /\ [MoNext]_moVars => MoInv' /\ [AttributedAsTurnedOn /\ RequestKept]_moVars
  BY <1>1, <1>2 DEF MoAttributes
<1> QED
  BY <1>3, MoInitially, PTL DEF MoSpec, RequestsAttributed

=============================================================================
