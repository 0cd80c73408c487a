----------------------------- MODULE MCScheduled -----------------------------
(***************************************************************************)
(* A small instance of ScheduledAnalysis: one job, that may be deleted,    *)
(* and one run, for which the scheduler, two requests and other analyses   *)
(* compete.                                                                *)
(***************************************************************************)
EXTENDS ScheduledAnalysis

CONSTANTS j1, q1, q2, a

MCAssetOf == [r \in Runs |-> a]
=============================================================================
