--------------------------- MODULE MCAnalysisService ---------------------------
(* AnalysisService on two runs of one asset. *)
EXTENDS AnalysisService

CONSTANTS r1, r2, stockA

MCRuns    == {r1, r2}
MCAssets  == {stockA}
MCAssetOf == [r \in MCRuns |-> stockA]
MCEitherRoot == {TRUE, FALSE}
MCAppRoot    == {FALSE}
=============================================================================
