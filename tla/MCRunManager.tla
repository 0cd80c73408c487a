------------------------------ MODULE MCRunManager ------------------------------
(* RunManager on three runs of two assets, two of which compete for one; and
   on those two alone, where more writes fail and the process dies twice. *)
EXTENDS RunManager, TLC

CONSTANTS r1, r2, r3, stockA, stockB

MCRuns    == {r1, r2, r3}
MCAssets  == {stockA, stockB}
MCAssetOf == r1 :> stockA @@ r2 :> stockA @@ r3 :> stockB

MCPair    == {r1, r2}
MCSameAsset == r1 :> stockA @@ r2 :> stockA

(* The competing runs are interchangeable. *)
Competitors == Permutations({r1, r2})
=============================================================================
