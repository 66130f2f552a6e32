---------------------------- MODULE MonitorReport ----------------------------
(***************************************************************************)
(* decisionCheck: what the monitor reports of one check of an item.  Each  *)
(* step of the check adds a detail; a limited number of them is kept, the  *)
(* important ones rather than the early ones; the row is saved when the    *)
(* check returns, over the one of the check before.  The item may be       *)
(* changed or deleted meanwhile.  An outcome is its place in               *)
(* decisionOutcomes: the lower, the more important.                        *)
(***************************************************************************)
EXTENDS Naturals, Sequences

CONSTANTS
  NumOutcomes,    \* the outcomes there are (16 in the code)
  MaxDetails,     \* maxDecisionDetails (50 in the code)
  RpMaxAdded,     \* details added in a check
  RpMaxChanges    \* changes of the item

ASSUME MonitorReportAssumption ==
  /\ NumOutcomes \in Nat \ {0} /\ MaxDetails \in Nat \ {0}
  /\ RpMaxAdded \in Nat /\ RpMaxChanges \in Nat

VARIABLES
  rpItem,         \* version of the item (UpdatedAt), 0 when it is deleted
  rpChecking,     \* a check is under way
  rpInput,        \* the version it was given
  rpAdded,        \* the outcomes added in the check; counts counts them
  rpDetails,      \* row.Details: which of them are kept
  rpTruncated,    \* row.Truncated
  rpOvertaken,    \* the item has changed since the check was given it
  rpRow           \* the table monitor_decisions: at most one row

rpVars == <<rpItem, rpChecking, rpInput, rpAdded, rpDetails, rpTruncated, rpOvertaken, rpRow>>

Outcomes == 1..NumOutcomes
RpVersions == 1..RpMaxChanges + 1

MonitorDecision ==
  [input : RpVersions, outcome : Outcomes, counted : Seq(Outcomes), details : Seq(Nat \ {0}),
   truncated : BOOLEAN, overtaken : BOOLEAN]

RpTypeOK ==
  /\ rpItem \in RpVersions \cup {0} /\ rpInput \in RpVersions
  /\ rpChecking \in BOOLEAN /\ rpTruncated \in BOOLEAN /\ rpOvertaken \in BOOLEAN
  /\ rpAdded \in Seq(Outcomes) /\ rpDetails \in Seq(Nat \ {0})
  /\ rpRow \in SUBSET MonitorDecision

RpInit ==
  /\ rpItem = 1 /\ rpInput = 1
  /\ rpChecking = FALSE /\ rpTruncated = FALSE /\ rpOvertaken = FALSE
  /\ rpAdded = <<>> /\ rpDetails = <<>>
  /\ rpRow = {}

-----------------------------------------------------------------------------
(* A check                                                                 *)

\* newDecisionCheck; the monitor checks one item at a time.
RpCheck ==
  /\ ~rpChecking /\ rpItem # 0
  /\ rpChecking' = TRUE /\ rpInput' = rpItem
  /\ rpAdded' = <<>> /\ rpDetails' = <<>>
  /\ rpTruncated' = FALSE /\ rpOvertaken' = FALSE
  /\ UNCHANGED <<rpItem, rpRow>>

Priority(i) == rpAdded[rpDetails[i]]

\* Mutant: any detail that is less important makes room.
SomeWorse(i, o) == Priority(i) > o

\* The least important of the kept details, if it is less important than o; of several the last.
Worst(i, o) ==
  /\ Priority(i) > o
  /\ \A k \in DOMAIN rpDetails :
       Priority(k) < Priority(i) \/ (Priority(k) = Priority(i) /\ k <= i)

RpAdd(o) ==
  LET this == Len(rpAdded) + 1 IN
  /\ rpChecking /\ Len(rpAdded) < RpMaxAdded
  /\ rpAdded' = Append(rpAdded, o)
  /\ \/ /\ Len(rpDetails) < MaxDetails
        /\ rpDetails' = Append(rpDetails, this)
        /\ UNCHANGED rpTruncated
     \/ /\ Len(rpDetails) >= MaxDetails
        /\ rpTruncated' = TRUE
        /\ \/ \E i \in DOMAIN rpDetails :
                Worst(i, o) /\ rpDetails' = [rpDetails EXCEPT ![i] = this]
           \/ /\ \A i \in DOMAIN rpDetails : Priority(i) <= o
              /\ UNCHANGED rpDetails
  /\ UNCHANGED <<rpItem, rpChecking, rpInput, rpOvertaken, rpRow>>

\* Mutant: the row takes the version the item has when the check returns.
RpSaveFresh ==
  /\ rpChecking /\ rpAdded # <<>>
  /\ rpChecking' = FALSE
  /\ IF rpItem = 0 THEN UNCHANGED rpRow
     ELSE \E o \in Outcomes :
       /\ \E j \in DOMAIN rpAdded : rpAdded[j] = o
       /\ \A j \in DOMAIN rpAdded : o <= rpAdded[j]
       /\ rpRow' = {[input |-> rpItem, outcome |-> o, counted |-> rpAdded, details |-> rpDetails,
                     truncated |-> rpTruncated, overtaken |-> rpOvertaken]}
  /\ UNCHANGED <<rpItem, rpInput, rpAdded, rpDetails, rpTruncated, rpOvertaken>>

\* saveDecision: every way through a check adds a detail before it returns.  The foreign key
\* refuses the row of an item that is gone; the error is logged.
RpSave ==
  /\ rpChecking /\ rpAdded # <<>>
  /\ rpChecking' = FALSE
  /\ IF rpItem = 0 THEN UNCHANGED rpRow
     ELSE \E o \in Outcomes :
       /\ \E j \in DOMAIN rpAdded : rpAdded[j] = o
       /\ \A j \in DOMAIN rpAdded : o <= rpAdded[j]
       /\ rpRow' = {[input |-> rpInput, outcome |-> o, counted |-> rpAdded, details |-> rpDetails,
                     truncated |-> rpTruncated, overtaken |-> rpOvertaken]}
  /\ UNCHANGED <<rpItem, rpInput, rpAdded, rpDetails, rpTruncated, rpOvertaken>>

-----------------------------------------------------------------------------
(* The item                                                                *)

\* A user, a sync or the check itself saves the item.
RpItemChanges ==
  /\ rpItem \in 1..RpMaxChanges
  /\ rpItem' = rpItem + 1
  /\ rpOvertaken' = TRUE
  /\ rpRow' = {[r EXCEPT !.overtaken = TRUE] : r \in rpRow}
  /\ UNCHANGED <<rpChecking, rpInput, rpAdded, rpDetails, rpTruncated>>

\* The row goes with the item (ON DELETE CASCADE).
RpItemDeleted ==
  /\ rpItem # 0
  /\ rpItem' = 0 /\ rpRow' = {}
  /\ UNCHANGED <<rpChecking, rpInput, rpAdded, rpDetails, rpTruncated, rpOvertaken>>

RpNext ==
  \/ RpCheck \/ RpSave \/ RpItemChanges \/ RpItemDeleted
  \/ \E o \in Outcomes : RpAdd(o)

RpSpec == RpInit /\ [][RpNext]_rpVars

-----------------------------------------------------------------------------
(* Properties                                                              *)

Hidden(counted, details) ==
  {j \in DOMAIN counted : \A i \in DOMAIN details : details[i] # j}

\* What is left out is not more important than anything kept, and something is left out if,
\* and only if, the row says so: "a large series cannot hide a grab/error behind skips"
\* (monitor/decision.go:16).  This is about replacing the right detail, every time.
ImportantKept(counted, details, truncated) ==
  /\ \A i \in DOMAIN details : details[i] \in DOMAIN counted
  /\ \A j \in Hidden(counted, details), i \in DOMAIN details : counted[details[i]] <= counted[j]
  /\ truncated <=> Hidden(counted, details) # {}

\* The outcome of a saved row is explained by one of its details, and a row that carries the
\* version the item has now was made from it: "never advance this on rereads" (decision.go:42).
ReportTrue ==
  \A r \in rpRow :
    /\ ImportantKept(r.counted, r.details, r.truncated)
    /\ \E i \in DOMAIN r.details : r.counted[r.details[i]] = r.outcome
    /\ r.input = rpItem => ~r.overtaken
=============================================================================
