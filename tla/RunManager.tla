------------------------------- MODULE RunManager -------------------------------
(***************************************************************************)
(* web/manager.py: the RunManager, which owns the state of every analysis  *)
(* run.  Each public method holds one lock from beginning to end, so each  *)
(* is one action here.  Callers (API handlers, workers, lease threads, the *)
(* watchdog) may call the methods in any order; AnalysisService adds the   *)
(* order in which the real worker calls them.                              *)
(*                                                                         *)
(* A row of the web_runs table is written by every method that changes a   *)
(* record.  A write may fail (the method raises, memory keeps the change)  *)
(* at most MaxFaults times, and the process may die MaxCrashes times.      *)
(* Wall-clock time is abstracted to what _check_expired_locked tells       *)
(* apart: a live run is "overdue" once now is past timeout_at, "lapsed"    *)
(* while only its worker heartbeat is too old, and "fresh" otherwise.      *)
(***************************************************************************)
EXTENDS Naturals, FiniteSets

CONSTANTS Runs,        \* run identifiers uuid4 can hand out
          NoRun,       \* parent of a run that retries nothing
          Assets,      \* (ticker, asset type) pairs
          AssetOf,     \* the asset of the request a run carries
          MaxCap,      \* MAX_MAX_CONCURRENT_RUNS
          MaxFaults,   \* bound: database writes that fail
          MaxCrashes   \* bound: process deaths

ASSUME RunsAssumption   == IsFiniteSet(Runs) /\ NoRun \notin Runs
ASSUME AssetAssumption  == AssetOf \in [Runs -> Assets]
ASSUME BoundsAssumption == MaxCap \in Nat \ {0} /\ MaxFaults \in Nat /\ MaxCrashes \in Nat

VARIABLES
  phase,    \* of the process: "up", "down" or "loading" (inside __init__)
  mem,      \* _records: the record of each run the manager knows
  ctl,      \* the rest of _ManagedRun: its lease and its clock
  disk,     \* rows of web_runs
  issued,   \* identifiers already used
  active,   \* _active_run_ids
  pool,     \* _max_workers of the current executor
  cap,      \* concurrent_runs_cap()
  faults,   \* database writes that failed so far
  crashes   \* process deaths so far

vars == <<phase, mem, ctl, disk, issued, active, pool, cap, faults, crashes>>

-----------------------------------------------------------------------------
(* Records *)

Live       == {"queued", "running"}
Unfinished == Live \cup {"publishing"}
Terminal   == {"completed", "failed", "cancelled", "interrupted", "timed_out"}

(* One reason of each kind the code distinguishes: model_timeout stands for
   the retryable provider failures, worker_error for the others. *)
FailureReasons   == {"model_timeout", "worker_error", "publish_incomplete"}
RetryableReasons == {"model_timeout", "worker_lease_expired", "service_restarted",
                     "run_deadline_exceeded"}
Reasons == FailureReasons \cup RetryableReasons \cup {"none", "completed", "cancelled"}

Record  == [status : Unfinished \cup Terminal \cup {"none"}, reason : Reasons,
            resume : BOOLEAN, parent : Runs \cup {NoRun}]
Control == [leased : BOOLEAN, clock : {"fresh", "lapsed", "overdue"}]

NoRecord  == [status |-> "none", reason |-> "none", resume |-> FALSE, parent |-> NoRun]
NoControl == [leased |-> FALSE, clock |-> "fresh"]

NewRecord(parent, resume) ==
  [status |-> "queued", reason |-> "none", resume |-> resume, parent |-> parent]

Known(r) == mem[r].status # "none"
(* Wrong variant: the fixed deadline is forgotten, only heartbeats count. *)
DueByHeartbeatOnly(r) == mem[r].status \in Live /\ ctl[r].clock = "lapsed"

Due(r)   == mem[r].status \in Live /\ ctl[r].clock # "fresh"

(* The writes that may happen now. *)
Writes == IF faults < MaxFaults THEN BOOLEAN ELSE {TRUE}

(* A store without the entries of `gone`. *)
Without(store, gone, empty) == [r \in Runs |-> IF r \in gone THEN empty ELSE store[r]]

-----------------------------------------------------------------------------
(* Writes *)

(* _persist_locked and _persist_terminal_locked: the whole record replaces
   the row, or the write fails and the row stays as it was. *)
Persist(rows, r, ok) ==
  /\ disk' = IF ok THEN [rows EXCEPT ![r] = mem'[r]] ELSE rows
  /\ faults' = IF ok THEN faults ELSE faults + 1

(* Wrong variant: the place is given back only after a successful write. *)
EndRunKeepingPlace(r, status, reason, ok) ==
  /\ mem' = [mem EXCEPT ![r] = [@ EXCEPT !.status = status, !.reason = reason]]
  /\ ctl' = [ctl EXCEPT ![r] = NoControl]
  /\ active' = IF ok THEN active \ {r} ELSE active
  /\ Persist(disk, r, ok)
  /\ UNCHANGED <<phase, issued, pool, cap, crashes>>

(* _transition_terminal_locked, with _stop_lease_locked and _finish_locked.
   Once a run is not live nobody renews its lease or looks at its clock. *)
EndRun(r, status, reason, ok) ==
  /\ mem' = [mem EXCEPT ![r] = [@ EXCEPT !.status = status, !.reason = reason]]
  /\ ctl' = [ctl EXCEPT ![r] = NoControl]
  /\ active' = active \ {r}
  /\ Persist(disk, r, ok)
  /\ UNCHANGED <<phase, issued, pool, cap, crashes>>

-----------------------------------------------------------------------------
(* Admission *)

(* Wrong variant: only the number of runs is limited. *)
AdmissibleByCount(asset) == Cardinality(active) < cap

(* _check_admission_locked: a place is left and no active run is on the asset. *)
Admissible(asset) ==
  /\ Cardinality(active) < cap
  /\ \A q \in active : AssetOf[q] # asset

(* Wrong variants: the pool grows by the cap; the pool never grows. *)
GrowPoolByCap == pool' = pool + cap
KeepPool      == pool' = pool

(* _resize_executor: a larger pool replaces the current one, never a smaller. *)
GrowPool == pool' = IF cap > pool THEN cap ELSE pool

(* The runs cleanup() may find past their terminal TTL. *)
Forgettable == {r \in Runs : mem[r].status \in Terminal}

(* What start_run and retry_run share once the new record is made. *)
AdmitRun(r, record, old, ok) ==
  /\ phase = "up"
  /\ r \notin issued
  /\ old \subseteq Forgettable
  /\ Admissible(AssetOf[r])
  /\ mem' = [Without(mem, old, NoRecord) EXCEPT ![r] = record]
  /\ ctl' = Without(ctl, old, NoControl)
  /\ issued' = issued \cup {r}
  /\ active' = active \cup {r}
  /\ GrowPool
  /\ Persist(Without(disk, old, NoRecord), r, ok)
  /\ UNCHANGED <<phase, cap, crashes>>

(* The conditions of retry_run on the run to retry. *)
Retryable(p) ==
  /\ mem[p].status \in {"failed", "timed_out", "interrupted"}
  /\ mem[p].reason \in RetryableReasons
  /\ mem[p].resume

StartRun(r, old, ok) == AdmitRun(r, NewRecord(NoRun, FALSE), old, ok)

RetryRun(r, p, old, ok) ==
  /\ AssetOf[r] = AssetOf[p]
  /\ p \notin old
  /\ Retryable(p)
  /\ AdmitRun(r, NewRecord(p, mem[p].resume), old, ok)

(* cleanup: expired records leave memory and the table. *)
ForgetRuns(old) ==
  /\ phase = "up"
  /\ old \subseteq Forgettable
  /\ mem' = Without(mem, old, NoRecord)
  /\ ctl' = Without(ctl, old, NoControl)
  /\ disk' = Without(disk, old, NoRecord)
  /\ UNCHANGED <<phase, issued, active, cap, faults, crashes>>

Cleanup(old) == old # {} /\ ForgetRuns(old) /\ UNCHANGED pool

(* cleanup pops a record before it deletes the row: when the delete fails,
   the row outlives the record. *)
CleanupFails(r) ==
  /\ phase = "up"
  /\ r \in Forgettable
  /\ faults < MaxFaults
  /\ mem' = Without(mem, {r}, NoRecord)
  /\ ctl' = Without(ctl, {r}, NoControl)
  /\ faults' = faults + 1
  /\ UNCHANGED <<phase, disk, issued, active, pool, cap, crashes>>

(* A start or a retry that raises has already cleaned up and grown the pool. *)
RefuseStart(asset, old) == ~Admissible(asset) /\ ForgetRuns(old) /\ GrowPool

RefuseRetry(p, old) ==
  /\ Admissible(AssetOf[p])
  /\ p \in old \/ ~Retryable(p)
  /\ ForgetRuns(old)
  /\ GrowPool

(* configure_concurrency, with the clamp of concurrent_runs_cap. *)
ConfigureCap(n) ==
  /\ phase = "up"
  /\ cap' = n
  /\ UNCHANGED <<phase, mem, ctl, disk, issued, active, pool, faults, crashes>>

-----------------------------------------------------------------------------
(* Methods on one run.  All but renewals, complete_publishing and the
   checkpoint bookkeeping begin with _check_expired_locked: on a run that is
   due they do what CheckExpired does and then find a terminal record, so
   their own actions are guarded with ~Due(r). *)

(* The deadline comes first, the heartbeat second. *)
ExpiryStatus(r) == IF ctl[r].clock = "overdue" THEN "timed_out" ELSE "interrupted"
ExpiryReason(r) == IF ctl[r].clock = "overdue" THEN "run_deadline_exceeded" ELSE "worker_lease_expired"

CheckExpired(r, ok) ==
  /\ phase = "up"
  /\ Due(r)
  /\ EndRun(r, ExpiryStatus(r), ExpiryReason(r), ok)

(* One round of the watchdog, _check_all_expired_locked: every due run ends
   under one lock.  (A round in which a write fails is its CheckExpired steps
   up to the failure.) *)
Watchdog ==
  LET due == {r \in Runs : Due(r)} IN
  /\ phase = "up"
  /\ due # {}
  /\ mem' = [r \in Runs |-> IF r \in due
                THEN [mem[r] EXCEPT !.status = ExpiryStatus(r), !.reason = ExpiryReason(r)]
                ELSE mem[r]]
  /\ ctl' = [r \in Runs |-> IF r \in due THEN NoControl ELSE ctl[r]]
  /\ active' = active \ due
  /\ disk' = [r \in Runs |-> IF r \in due THEN mem'[r] ELSE disk[r]]
  /\ UNCHANGED <<phase, issued, pool, cap, faults, crashes>>

(* Wrong variant: a run begins whatever its status is. *)
BeginAnyRun(r, ok) ==
  /\ phase = "up"
  /\ Known(r)
  /\ ~Due(r)
  /\ mem' = [mem EXCEPT ![r] = [@ EXCEPT !.status = "running"]]
  /\ Persist(disk, r, ok)
  /\ UNCHANGED <<phase, ctl, issued, active, pool, cap, crashes>>

BeginRun(r, ok) ==
  /\ phase = "up"
  /\ mem[r].status = "queued"
  /\ ~Due(r)
  /\ mem' = [mem EXCEPT ![r] = [@ EXCEPT !.status = "running"]]
  /\ Persist(disk, r, ok)
  /\ UNCHANGED <<phase, ctl, issued, active, pool, cap, crashes>>

(* Wrong variant: the row is left for the verdict to write. *)
BeginPublishingUnwritten(r, ok) ==
  /\ phase = "up"
  /\ mem[r].status = "running"
  /\ ~Due(r)
  /\ mem' = [mem EXCEPT ![r] = [@ EXCEPT !.status = "publishing"]]
  /\ ctl' = [ctl EXCEPT ![r] = NoControl]
  /\ UNCHANGED <<phase, disk, issued, active, pool, cap, faults, crashes>>

BeginPublishing(r, ok) ==
  /\ phase = "up"
  /\ mem[r].status = "running"
  /\ ~Due(r)
  /\ mem' = [mem EXCEPT ![r] = [@ EXCEPT !.status = "publishing"]]
  /\ ctl' = [ctl EXCEPT ![r] = NoControl]
  /\ Persist(disk, r, ok)
  /\ UNCHANGED <<phase, issued, active, pool, cap, crashes>>

(* `gate`: the report directory holds the files is_gate_ready asks for. *)
CompletePublishing(r, gate, ok) ==
  /\ phase = "up"
  /\ mem[r].status = "publishing"
  /\ IF gate THEN EndRun(r, "completed", "completed", ok)
             ELSE EndRun(r, "failed", "publish_incomplete", ok)

CompleteRun(r, ok) ==
  /\ phase = "up"
  /\ mem[r].status \in Unfinished
  /\ ~Due(r)
  /\ EndRun(r, "completed", "completed", ok)

(* Wrong variant: a late failure overwrites a verdict. *)
FailAnyRun(r, reason, ok) ==
  /\ phase = "up"
  /\ Known(r)
  /\ EndRun(r, "failed", reason, ok)

FailRun(r, reason, ok) ==
  /\ phase = "up"
  /\ mem[r].status \in Unfinished
  /\ ~Due(r)
  /\ EndRun(r, "failed", reason, ok)

(* Wrong variant: a late cancellation overwrites a verdict. *)
CancelAnyRun(r, ok) ==
  /\ phase = "up"
  /\ Known(r)
  /\ EndRun(r, "cancelled", "cancelled", ok)

CancelRun(r, ok) ==
  /\ phase = "up"
  /\ mem[r].status \in Live
  /\ ~Due(r)
  /\ EndRun(r, "cancelled", "cancelled", ok)

(* heartbeat, record_activity, publish, set_data_metadata, request_cancel:
   the record is written again, with changes no property here tells apart.
   (The flag request_cancel raises is the worker's: see AnalysisService.) *)
Touch(r) ==
  /\ phase = "up"
  /\ Known(r)
  /\ disk' = [disk EXCEPT ![r] = mem[r]]
  /\ UNCHANGED <<phase, mem, ctl, issued, active, pool, cap, faults, crashes>>

(* set_checkpoint_retained_until: no look at the status. *)
SetCheckpoint(r, ok) ==
  /\ phase = "up"
  /\ Known(r)
  /\ mem' = [mem EXCEPT ![r] = [@ EXCEPT !.resume = TRUE]]
  /\ Persist(disk, r, ok)
  /\ UNCHANGED <<phase, ctl, issued, active, pool, cap, crashes>>

-----------------------------------------------------------------------------
(* Leases and time *)

(* A renewal looks at the status and at the owner of the lease, and never at
   the clock: it freshens a heartbeat that has lapsed already. *)
Renewed(control) ==
  [leased |-> TRUE, clock |-> IF control.clock = "lapsed" THEN "fresh" ELSE control.clock]

(* _run_worker, first lock: a lease starts with a renewal. On a run that is
   not live the renewal is refused, and so is every later one. *)
StartLease(r) ==
  /\ phase = "up"
  /\ mem[r].status \in Live
  /\ ctl' = [ctl EXCEPT ![r] = Renewed(@)]
  /\ disk' = [disk EXCEPT ![r] = mem[r]]
  /\ UNCHANGED <<phase, mem, issued, active, pool, cap, faults, crashes>>

(* renew_worker_lease with the token of the lease the record holds. *)
RenewLease(r) == ctl[r].leased /\ StartLease(r)

(* The clock passes timeout_at, or worker_heartbeat_at plus the timeout. *)
PassDeadline(r) ==
  /\ mem[r].status \in Live
  /\ ctl[r].clock # "overdue"
  /\ ctl' = [ctl EXCEPT ![r] = [@ EXCEPT !.clock = "overdue"]]
  /\ UNCHANGED <<phase, mem, disk, issued, active, pool, cap, faults, crashes>>

Lapse(r) ==
  /\ mem[r].status \in Live
  /\ ctl[r].clock = "fresh"
  /\ ctl' = [ctl EXCEPT ![r] = [@ EXCEPT !.clock = "lapsed"]]
  /\ UNCHANGED <<phase, mem, disk, issued, active, pool, cap, faults, crashes>>

-----------------------------------------------------------------------------
(* Crash and restart *)

Crash ==
  /\ phase # "down"
  /\ crashes < MaxCrashes
  /\ phase' = "down"
  /\ mem' = [r \in Runs |-> NoRecord]
  /\ ctl' = [r \in Runs |-> NoControl]
  /\ active' = {}
  /\ pool' = 1
  /\ crashes' = crashes + 1
  /\ UNCHANGED <<disk, issued, cap, faults>>

(* _load_persisted_runs: the rows become records; then every unfinished one
   is ended, and last every record is normalised. *)
Load ==
  /\ phase = "down"
  /\ phase' = "loading"
  /\ mem' = disk
  /\ UNCHANGED <<ctl, disk, issued, active, pool, cap, faults, crashes>>

(* `gate`: _recover_publishing_locked finds the committed report. *)
RecoverRun(r, gate) ==
  /\ phase = "loading"
  /\ \/ /\ mem[r].status = "publishing"
        /\ gate
        /\ EndRun(r, "completed", "completed", TRUE)
     \/ /\ mem[r].status = "publishing"
        /\ ~gate
        /\ EndRun(r, "failed", "publish_incomplete", TRUE)
     \/ /\ mem[r].status \in Live
        /\ EndRun(r, "interrupted", "service_restarted", TRUE)

(* _normalize_loaded_terminal_locked: only a failed run keeps its reason. *)
Normalised(record) ==
  [record EXCEPT !.reason = CASE record.status = "completed"   -> "completed"
                              [] record.status = "cancelled"   -> "cancelled"
                              [] record.status = "interrupted" -> "service_restarted"
                              [] record.status = "timed_out"   -> "run_deadline_exceeded"
                              [] OTHER -> record.reason]

FinishLoad ==
  /\ phase = "loading"
  /\ \A r \in Runs : mem[r].status \notin Unfinished
  /\ phase' = "up"
  /\ mem' = [r \in Runs |-> Normalised(mem[r])]
  /\ disk' = mem'
  /\ UNCHANGED <<ctl, issued, active, pool, cap, faults, crashes>>

-----------------------------------------------------------------------------
Init ==
  /\ phase = "up"
  /\ mem = [r \in Runs |-> NoRecord]
  /\ ctl = [r \in Runs |-> NoControl]
  /\ disk = [r \in Runs |-> NoRecord]
  /\ issued = {}
  /\ active = {}
  /\ pool = 1
  /\ cap \in 1..MaxCap
  /\ faults = 0
  /\ crashes = 0

Admission ==
  \/ \E old \in SUBSET Forgettable :
       \/ \E r \in Runs \ issued, ok \in Writes :
            \/ StartRun(r, old, ok)
            \/ \E p \in issued : RetryRun(r, p, old, ok)
       \/ \E asset \in Assets : RefuseStart(asset, old)
       \/ \E p \in issued : RefuseRetry(p, old)
       \/ Cleanup(old)
  \/ \E r \in Forgettable : CleanupFails(r)
  \/ \E n \in 1..MaxCap : ConfigureCap(n)

Lifecycle(r) ==
  \/ \E ok \in Writes : \/ CheckExpired(r, ok)
                        \/ BeginRun(r, ok)
                        \/ BeginPublishing(r, ok)
                        \/ \E gate \in BOOLEAN : CompletePublishing(r, gate, ok)
                        \/ CompleteRun(r, ok)
                        \/ \E reason \in FailureReasons : FailRun(r, reason, ok)
                        \/ CancelRun(r, ok)
                        \/ SetCheckpoint(r, ok)
  \/ Touch(r)

Clock(r) == StartLease(r) \/ RenewLease(r) \/ PassDeadline(r) \/ Lapse(r)

Restart ==
  \/ Crash
  \/ Load
  \/ \E r \in Runs, gate \in BOOLEAN : RecoverRun(r, gate)
  \/ FinishLoad

Next ==
  \/ Admission
  \/ \E r \in Runs : Lifecycle(r) \/ Clock(r)
  \/ Watchdog
  \/ Restart

Spec == Init /\ [][Next]_vars

-----------------------------------------------------------------------------
(* Properties *)

TypeOK ==
  /\ phase \in {"up", "down", "loading"}
  /\ mem \in [Runs -> Record]
  /\ ctl \in [Runs -> Control]
  /\ disk \in [Runs -> Record]
  /\ issued \subseteq Runs
  /\ active \subseteq Runs
  /\ pool \in 1..MaxCap
  /\ cap \in 1..MaxCap
  /\ faults \in 0..MaxFaults
  /\ crashes \in 0..MaxCrashes

(* The set admission looks at is exactly the runs that have not ended:
   whatever ends a run, in whatever order writes fail, its place and its
   asset are given back, and nothing else gives them back. *)
ActiveIndexAgrees ==
  phase = "up" => active = {r \in Runs : mem[r].status \in Unfinished}

(* README, scheduled tasks: no second run of an asset is started while one
   is unfinished. Holds of records; AnalysisService looks at the workers. *)
AssetExclusive ==
  phase = "up" =>
    \A r, q \in Runs :
      r # q /\ mem[r].status \in Unfinished /\ mem[q].status \in Unfinished
        => AssetOf[r] # AssetOf[q]

(* There are never more unfinished runs than the current executor has threads:
   not after the cap was lowered, after a restart made the pool small again or
   after refused starts. No run is admitted to wait for another unfinished one. *)
ActiveFitsPool == Cardinality(active) <= pool

(* As long as no write failed, a crash loses nothing: the table holds the
   records the manager holds. *)
MemoryMatchesDisk == phase = "up" /\ faults = 0 => mem = disk

(* A verdict in the table was reached in memory first: after failed writes
   the table may lag behind memory, and never says that a run ended which
   memory still runs, or that it ended otherwise. *)
DiskNeverLeads ==
  phase = "up" =>
    \A r \in Runs : disk[r].status \in Terminal /\ Known(r) => mem[r].status = disk[r].status

(* A record keeps its verdict or is forgotten, and so does a row. *)
KeepsVerdicts ==
  \A r \in Runs :
    /\ mem[r].status \in Terminal =>
         mem'[r].status = mem[r].status \/ phase' = "down" \/ mem'[r] = NoRecord
    /\ disk[r].status \in Terminal =>
         disk'[r].status = disk[r].status \/ disk'[r] = NoRecord

(* Platform design, state table: a terminal status never changes, whoever
   is late (a worker, a lease, the watchdog, a cancellation), and across
   restarts. *)
VerdictIsFinal == [][KeepsVerdicts]_vars

(* A retry starts after its parent has ended, and the parent never comes
   back to life beside it. *)
ParentHasEnded ==
  phase = "up" =>
    \A r \in Runs : mem[r].parent # NoRun => mem[mem[r].parent].status \notin Unfinished

(* The comment in _load_persisted_runs: the reason in the audit trail tells a
   service restart from an expired worker lease. So a run that has ended keeps
   the reason its row gives, as long as the row is kept. *)
ReasonIsKept ==
  [][\A r \in Runs :
       disk[r].status \in Terminal =>
         disk'[r] = NoRecord \/ disk'[r].reason = disk[r].reason]_vars

(* What RunContract calls the outcome of a run: what its row says. *)
Outcome(r) ==
  IF r \notin issued THEN "absent"
  ELSE IF disk[r].status \in Unfinished THEN "pending"
  ELSE IF disk[r].status \in Terminal THEN disk[r].status
  ELSE "forgotten"

Contract == INSTANCE RunContract WITH outcome <- [r \in Runs |-> Outcome(r)]

(* Without write failures, the manager keeps RunContract's promises: over
   crashes and restarts too, one unfinished run per asset, no more of them
   than the largest cap, and one verdict for each. *)
KeepsContract == Contract!Spec
=============================================================================
