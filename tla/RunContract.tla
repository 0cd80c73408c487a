------------------------------ MODULE RunContract ------------------------------
(***************************************************************************)
(* What the run manager promises to everyone who starts an analysis: an    *)
(* asset never has two unfinished runs, no more runs are unfinished than   *)
(* the highest cap allows, and a run ends once, with a verdict that never  *)
(* changes until the service forgets the run.  RunManager is shown to      *)
(* implement this specification across service restarts.                   *)
(***************************************************************************)
EXTENDS Naturals, FiniteSets

CONSTANTS Runs,      \* identifiers runs are given
          Assets,    \* what a run analyses: a ticker of an asset type
          AssetOf,   \* the asset each run analyses
          MaxCap     \* the highest number of unfinished runs ever allowed

VARIABLE outcome     \* what the service answers when asked about a run

Verdicts == {"completed", "failed", "cancelled", "interrupted", "timed_out"}
Outcomes == {"absent", "pending", "forgotten"} \cup Verdicts

Pending == {r \in Runs : outcome[r] = "pending"}
Ended   == {r \in Runs : outcome[r] \in Verdicts}

Init == outcome = [r \in Runs |-> "absent"]

(* What a step may do beside its purpose: forget runs that have ended. *)
KeepsOrForgets(q) ==
  outcome'[q] = outcome[q] \/ (q \in Ended /\ outcome'[q] = "forgotten")

(* A run is admitted when its asset is free and a place is left. *)
Admit(r) ==
  /\ outcome[r] = "absent"
  /\ Cardinality(Pending) < MaxCap
  /\ \A q \in Pending : AssetOf[q] # AssetOf[r]
  /\ outcome' \in [Runs -> Outcomes]
  /\ outcome'[r] = "pending"
  /\ \A q \in Runs \ {r} : KeepsOrForgets(q)

(* Pending runs end, each with a verdict of its own. *)
Resolve ==
  /\ outcome' \in [Runs -> Outcomes]
  /\ \A q \in Runs : outcome'[q] = outcome[q] \/ (q \in Pending /\ outcome'[q] \in Verdicts)

Forget ==
  /\ outcome' \in [Runs -> Outcomes]
  /\ \A q \in Runs : KeepsOrForgets(q)

Next == (\E r \in Runs : Admit(r)) \/ Resolve \/ Forget

Spec == Init /\ [][Next]_outcome
=============================================================================
