------------------------------ MODULE MCAccounts ------------------------------
(***************************************************************************)
(* Two users with two requests at a time and a bootstrap; or one series    *)
(* whose monitoring users and requests change; or indexers that are asked, *)
(* while they are updated; or two users who mark two items as watched.     *)
(* The four share no state: a behaviour is about one of them, the others   *)
(* stay as they are.                                                       *)
(***************************************************************************)
EXTENDS Accounts, Monitoring, IndexerSearch, Watched, TLC

CONSTANTS a, b, c1, c2, i1, i2

VARIABLE about
allVars == <<about, acVars, moVars, ixVars, wtVars>>

MCMoEpisodes == {<<1, 1>>, <<1, 2>>}

\* Two indexers asked, or one asked twice; with the changes made, three at most.
FewTasks ==
  LET asked == Cardinality({t \in IxEveryCall \X IxIndexers : ixTask[t[1]][t[2]].pc # "none"})
      updates == Cardinality({u \in IxUpdates : ixUpdate[u].pc # "idle"})
  IN  asked <= 2 /\ asked + updates + (ixDefs - 1) + (ixSolver - 1) <= 3

\* One restart, or one user who changes the password; a restart may interrupt the change.
OneEvent ==
  boots + Cardinality({u \in Users : changes[u] > 0 \/ Changing(u) # {}}) <= 1

\* While somebody reads, at most one row is there and nothing is deleted.
QuietReading ==
  wtReader.pc # "idle" => Cardinality(wtRows) <= 1 /\ wtAlive = WtUsers \cup WtItems

UserInit ==
  /\ about \in {"accounts", "attribution", "search", "watched"}
  /\ AcInit /\ MoInit /\ IxInit /\ WtInit
  /\ about # "attribution" => ~moState.here /\ \A n \in MoSeasons : moState.count <= n

UserNext ==
  \/ about = "accounts" /\ AcNext /\ OneEvent' /\ UNCHANGED <<about, moVars, ixVars, wtVars>>
  \/ about = "attribution" /\ MoNext /\ UNCHANGED <<about, acVars, ixVars, wtVars>>
  \/ about = "search" /\ IxNext /\ FewTasks' /\ UNCHANGED <<about, acVars, moVars, wtVars>>
  \/ about = "watched" /\ WtNext /\ QuietReading' /\ UNCHANGED <<about, acVars, moVars, ixVars>>

UserSpec == UserInit /\ [][UserNext]_allVars

\* Two calls (or watched items) may be exchanged, and two indexers.
AccountsSymmetry == Permutations(Calls) \cup Permutations(IxIndexers)
=============================================================================
