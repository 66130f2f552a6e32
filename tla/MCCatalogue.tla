----------------------------- MODULE MCCatalogue ----------------------------
(***************************************************************************)
(* A library of one series in two folders of one title, with two calls at  *)
(* a time: library syncs, matches, requests, imports and removals.         *)
(***************************************************************************)
EXTENDS Catalogue, TLC

CONSTANTS p1, p2, x, y, c1, c2, none

MCPaths == {p1, p2}
MCFolderOf == (p1 :> 1) @@ (p2 :> 2)
MCEpisodeOf == (p1 :> 1) @@ (p2 :> 2)
MCTitleOf == (1 :> 1) @@ (2 :> 1)
MCAired == <<{1}, {1, 2}>>

CaSymmetry == Permutations(CaCalls) \cup Permutations(Providers)
=============================================================================
