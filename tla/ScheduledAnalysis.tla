--------------------------- MODULE ScheduledAnalysis ---------------------------
(***************************************************************************)
(* Scheduled analyses: ScheduledAnalysisService (web/scheduler.py), the    *)
(* tables of jobs and logs (web/repositories.py), the endpoints and chat   *)
(* tools that change jobs, and the run manager, of which only what         *)
(* RunContract promises is used.                                           *)
(*                                                                         *)
(* A job is fired by APScheduler in a thread of the job's own (one at a    *)
(* time) or by a request to run it now.  Either way `trigger` looks twice  *)
(* at settings and job, asks the manager for a run and writes a log, with  *)
(* a gate that keeps the run's worker back until then.  A reconcile thread *)
(* per run copies the run's verdict into the log.  A thread takes one step *)
(* per transaction.                                                        *)
(*                                                                         *)
(* A run has at most one log, so logs are named by their runs; the logs of *)
(* a deleted job go with it.  Logs of skipped fires never change once      *)
(* written and are left out, and so are cron expressions, fire times, the  *)
(* parameters of a request but for its asset, and the watchlist: a fire    *)
(* may be skipped for want of it, and an asset that leaves it takes its    *)
(* job along.                                                              *)
(***************************************************************************)
EXTENDS Naturals, FiniteSets

CONSTANTS Jobs,        \* identifiers jobs are given
          Requests,    \* threads of requests to run a job now
          Assets,
          AssetOf,     \* the asset each run analyses
          MaxCap,      \* the highest number of unfinished runs
          None,        \* no job yet, no run, no asset
          Deleted,     \* a job that was deleted: its identifier is not used again
          MaxRuns,     \* bound: runs ever admitted
          MaxWriters   \* bound: endpoints between their write and their resync

Runs    == 1..MaxRuns         \* in the order they are admitted
Threads == Jobs \cup Requests   \* the thread APScheduler fires a job in is named after it

ASSUME NamesAssumption  == /\ Jobs \cap Requests = {}
                           /\ {None, Deleted} \cap (Jobs \cup Runs \cup Assets) = {}
                           /\ {None, Deleted} \cap [asset : Assets, enabled : BOOLEAN] = {}
                           /\ None # Deleted
ASSUME RunsAssumption   == AssetOf \in [Runs -> Assets]
ASSUME BoundsAssumption == MaxCap \in Nat \ {0} /\ MaxRuns \in Nat /\ MaxWriters \in Nat

VARIABLES
  phase,       \* of the process: "up", "stopping" or "down"
  enabled,     \* scheduler.enabled in the settings
  job,         \* rows of scheduled_jobs
  registered,  \* jobs APScheduler knows
  writers,     \* endpoints that have changed jobs and not yet called resync
  bypassed,    \* history: a chat tool has changed jobs since the last resync
  pc,          \* where each thread is in trigger
  fires,       \* the job it fires
  wants,       \* the asset its request is for
  run,         \* the run it was given
  outcome,     \* RunContract: what the manager says of each run
  worker,      \* the scheduled worker of each run
  log,         \* scheduled_run_logs
  owner,       \* the job a log belongs to
  reconciler   \* the reconcile thread of each run

tables  == <<enabled, job>>
cron    == <<registered, writers, bypassed>>
threads == <<pc, fires, wants, run>>
logs    == <<log, owner>>
runs    == <<outcome, worker, logs, reconciler>>
vars    == <<phase, tables, cron, threads, runs>>

Manager == INSTANCE RunContract

-----------------------------------------------------------------------------
(* Data *)

Job   == [asset : Assets, enabled : BOOLEAN]
Exist == {j \in Jobs : job[j] \in Job}

Places == {"idle", "read", "recheck", "admit", "log", "reconcile", "open"}

Closed   == {"succeeded", "failed"}
Unclosed == {"queued", "running"}
(* "lost" is a log that could not be written or went with its job. *)

(* "gated" waits for its gate, "open" has passed it, "working" has written
   its log and runs the analysis. *)
Workers == {"none", "gated", "open", "working"}

(* "lost": nobody is left to close the log before the next start.  Its thread
   died of an error or gave up a write that failed, or never was. *)
Reconcilers == {"none", "polling", "done", "lost"}

SchedTypeOK ==
  /\ phase \in {"up", "stopping", "down"}
  /\ enabled \in BOOLEAN
  /\ job \in [Jobs -> Job \cup {None, Deleted}]
  /\ registered \subseteq Jobs
  /\ writers \in 0..MaxWriters
  /\ bypassed \in BOOLEAN
  /\ pc \in [Threads -> Places]
  /\ fires \in [Threads -> Jobs \cup {None}]
  /\ wants \in [Threads -> Assets \cup {None}]
  /\ run \in [Threads -> Runs \cup {None}]
  /\ outcome \in [Runs -> Manager!Outcomes]
  /\ worker \in [Runs -> Workers]
  /\ log \in [Runs -> {"none", "lost"} \cup Unclosed \cup Closed]
  /\ owner \in [Runs -> Jobs \cup {None}]
  /\ reconciler \in [Runs -> Reconcilers]

Init ==
  /\ phase = "up"
  /\ enabled = FALSE
  /\ job = [j \in Jobs |-> None]
  /\ registered = {}
  /\ writers = 0
  /\ bypassed = FALSE
  /\ pc = [t \in Threads |-> "idle"]
  /\ fires = [t \in Threads |-> None]
  /\ wants = [t \in Threads |-> None]
  /\ run = [t \in Threads |-> None]
  /\ Manager!Init
  /\ worker = [r \in Runs |-> "none"]
  /\ log = [r \in Runs |-> "none"]
  /\ owner = [r \in Runs |-> None]
  /\ reconciler = [r \in Runs |-> "none"]

-----------------------------------------------------------------------------
(* Jobs and settings *)

(* What create, update and toggle of ScheduledJobRepository leave: an asset
   has at most one job.  *)
WriteJob(j, row) ==
  /\ \A i \in Exist \ {j} : job[i].asset # row.asset
  /\ job' = [job EXCEPT ![j] = row]
  /\ UNCHANGED log

(* delete, which cascades to the logs *)
RemoveJob(j) ==
  /\ job' = [job EXCEPT ![j] = Deleted]
  /\ log' = [r \in Runs |-> IF owner[r] = j THEN "lost" ELSE log[r]]

(* An endpoint writes, and calls resync in a step of its own. *)
Endpoint ==
  /\ phase = "up"
  /\ writers < MaxWriters
  /\ writers' = writers + 1
  /\ UNCHANGED <<phase, registered, bypassed, threads, outcome, worker, owner, reconciler>>

CreateJob(j, asset) ==
  /\ Endpoint
  /\ job[j] = None
  /\ WriteJob(j, [asset |-> asset, enabled |-> TRUE])
  /\ UNCHANGED enabled

UpdateJob(j, row) ==
  /\ Endpoint
  /\ j \in Exist
  /\ WriteJob(j, row)
  /\ UNCHANGED enabled

ToggleJob(j) ==
  /\ Endpoint
  /\ j \in Exist
  /\ WriteJob(j, [job[j] EXCEPT !.enabled = ~@])
  /\ UNCHANGED enabled

(* Mutant: the endpoint deletes and does not resync. *)
DeleteJobQuietly(j) ==
  /\ phase = "up"
  /\ j \in Exist
  /\ RemoveJob(j)
  /\ UNCHANGED <<phase, enabled, cron, threads, outcome, worker, owner, reconciler>>

(* also delete_item of the watchlist, which deletes the asset's job *)
DeleteJob(j) ==
  /\ Endpoint
  /\ j \in Exist
  /\ RemoveJob(j)
  /\ UNCHANGED enabled

SwitchScheduler ==
  /\ Endpoint
  /\ enabled' = ~enabled
  /\ UNCHANGED <<job, log>>

(* The chat's tools write the table and leave APScheduler as it is. *)
Tool ==
  /\ phase = "up"
  /\ bypassed' = TRUE
  /\ UNCHANGED <<phase, enabled, registered, writers, threads, outcome, worker, owner, reconciler>>

ToolWritesJob(j, row) ==
  /\ Tool
  /\ job[j] # Deleted
  /\ j \in Exist => row.asset = job[j].asset
  /\ WriteJob(j, row)

ToolDeletesJob(j) ==
  /\ Tool
  /\ j \in Exist
  /\ RemoveJob(j)

EnabledJobs == {j \in Exist : job[j].enabled}

Resync ==
  /\ phase # "down"
  /\ writers > 0
  /\ writers' = writers - 1
  /\ registered' = EnabledJobs
  /\ bypassed' = FALSE
  /\ UNCHANGED <<phase, tables, threads, runs>>

-----------------------------------------------------------------------------
(* Firing a job *)

Goto(t, place) == pc' = [pc EXCEPT ![t] = place]

(* trigger returns or raises. *)
Return(t) ==
  /\ Goto(t, "idle")
  /\ fires' = [fires EXCEPT ![t] = None]
  /\ wants' = [wants EXCEPT ![t] = None]
  /\ run' = [run EXCEPT ![t] = None]

(* APScheduler fires a due job, at most once at a time; a fire it drops, or
   that finds the service stopping, is none. *)
Fire(j) ==
  /\ phase = "up"
  /\ j \in registered
  /\ pc[j] = "idle"
  /\ Goto(j, "read")
  /\ fires' = [fires EXCEPT ![j] = j]
  /\ UNCHANGED <<phase, tables, cron, wants, run, runs>>

RunNow(t, j) ==
  /\ phase = "up"
  /\ pc[t] = "idle"
  /\ j \in Exist
  /\ Goto(t, "read")
  /\ fires' = [fires EXCEPT ![t] = j]
  /\ UNCHANGED <<phase, tables, cron, wants, run, runs>>

(* What a scheduled fire, not a manual one, asks of settings and job *)
MayFire(t) == t \in Jobs => enabled /\ job[fires[t]].enabled

(* The first look; the request is made for the asset the job has now. *)
ReadJob(t) ==
  /\ pc[t] = "read"
  /\ fires[t] \in Exist
  /\ MayFire(t)
  /\ wants' = [wants EXCEPT ![t] = job[fires[t]].asset]
  /\ Goto(t, IF t \in Jobs THEN "recheck" ELSE "admit")
  /\ UNCHANGED <<phase, tables, cron, fires, run, runs>>

(* The second look, of a scheduled fire only *)
Recheck(t) ==
  /\ pc[t] = "recheck"
  /\ fires[t] \in Exist
  /\ MayFire(t)
  /\ Goto(t, "admit")
  /\ UNCHANGED <<phase, tables, cron, fires, wants, run, runs>>

(* A look finds the job gone or switched off; or the asset is not on the
   watchlist, or no request can be made for it. *)
GiveUp(t) ==
  /\ pc[t] \in {"read", "recheck"}
  /\ Return(t)
  /\ UNCHANGED <<phase, tables, cron, runs>>

NextRun(r) == \A q \in 1..(r - 1) : outcome[q] # "absent"

(* start_run, with the gated worker *)
Admit(t, r) ==
  /\ pc[t] = "admit"
  /\ AssetOf[r] = wants[t]
  /\ NextRun(r)
  /\ Manager!Admit(r)
  /\ worker' = [worker EXCEPT ![r] = "gated"]
  /\ run' = [run EXCEPT ![t] = r]
  /\ Goto(t, "log")
  /\ UNCHANGED <<phase, tables, cron, fires, wants, logs, reconciler>>

(* The asset is busy, as list_active_runs or start_run finds, or there is no
   place for a run: the cap may be anything from one to MaxCap. *)
Refused(t) ==
  /\ pc[t] = "admit"
  /\ Manager!Pending # {}
  /\ Return(t)
  /\ UNCHANGED <<phase, tables, cron, runs>>

CreateLog(t) ==
  /\ pc[t] = "log"
  /\ fires[t] \in Exist
  /\ log' = [log EXCEPT ![run[t]] = "queued"]
  /\ owner' = [owner EXCEPT ![run[t]] = fires[t]]
  /\ Goto(t, "reconcile")
  /\ UNCHANGED <<phase, tables, cron, fires, wants, run, outcome, worker, reconciler>>

(* The job is gone or the write fails, or the row is written and cannot be
   read back.  The run is admitted already: both gates are opened, the worker
   finds no log to write "running" in, and the error is raised. *)
CreateLogFails(t) ==
  /\ pc[t] = "log"
  /\ worker' = [worker EXCEPT ![run[t]] = "working"]
  /\ \/ /\ log' = [log EXCEPT ![run[t]] = "lost"]
        /\ UNCHANGED <<owner, reconciler>>
     \/ /\ fires[t] \in Exist
        /\ log' = [log EXCEPT ![run[t]] = "queued"]
        /\ owner' = [owner EXCEPT ![run[t]] = fires[t]]
        /\ reconciler' = [reconciler EXCEPT ![run[t]] = "lost"]
  /\ Return(t)
  /\ UNCHANGED <<phase, tables, cron, outcome>>

(* Mutant: the gate is opened before the reconcile thread is there. *)
StartReconcilerLate(t) ==
  /\ pc[t] = "reconcile"
  /\ worker' = [worker EXCEPT ![run[t]] = "open"]
  /\ Goto(t, "open")
  /\ UNCHANGED <<phase, tables, cron, fires, wants, run, outcome, logs, reconciler>>

(* A reconcile thread started while the service stops ends at once. *)
StartReconciler(t) ==
  /\ pc[t] = "reconcile"
  /\ reconciler' = [reconciler EXCEPT ![run[t]] = IF phase = "up" THEN "polling" ELSE "done"]
  /\ Goto(t, "open")
  /\ UNCHANGED <<phase, tables, cron, fires, wants, run, outcome, worker, logs>>

OpenGate(t) ==
  /\ pc[t] = "open"
  /\ worker' = [worker EXCEPT ![run[t]] = "open"]
  /\ Return(t)
  /\ UNCHANGED <<phase, tables, cron, outcome, logs, reconciler>>

-----------------------------------------------------------------------------
(* Runs and their logs *)

(* The scheduled worker writes "running", whatever the log says by now; or
   the log went with its job or the write fails, and it goes on or ends. *)
MarkRunning(r) ==
  /\ worker[r] = "open"
  /\ worker' = [worker EXCEPT ![r] = "working"]
  /\ \/ log[r] # "lost" /\ log' = [log EXCEPT ![r] = "running"]
     \/ UNCHANGED log
  /\ UNCHANGED <<phase, tables, cron, threads, outcome, owner, reconciler>>

(* Mutant: the run's own status is written. *)
VerdictVerbatim(o) == o

(* What a log becomes when the manager is asked about its run *)
Verdict(o) == IF o = "completed" THEN "succeeded" ELSE "failed"

(* Mutants: the thread stops asking when the manager still knows the run; *)
ReconcileEarly(r) ==
  /\ phase = "up"
  /\ reconciler[r] = "polling"
  /\ worker[r] = "working"
  /\ log' = [log EXCEPT ![r] = IF @ = "lost" THEN @ ELSE Verdict(outcome[r])]
  /\ reconciler' = [reconciler EXCEPT ![r] = "done"]
  /\ UNCHANGED <<phase, tables, cron, threads, outcome, owner, worker>>

(* it waits for a run the manager has forgotten. *)
ReconcileKnown(r) ==
  /\ phase = "up"
  /\ reconciler[r] = "polling"
  /\ outcome[r] \in Manager!Verdicts
  /\ log' = [log EXCEPT ![r] = IF @ = "lost" THEN @ ELSE Verdict(outcome[r])]
  /\ reconciler' = [reconciler EXCEPT ![r] = "done"]
  /\ UNCHANGED <<phase, tables, cron, threads, outcome, owner, worker>>

(* _reconcile_run: the run has ended, or the manager does not know it. *)
Reconcile(r) ==
  /\ phase = "up"
  /\ reconciler[r] = "polling"
  /\ outcome[r] # "pending"
  /\ log' = [log EXCEPT ![r] = IF @ = "lost" THEN @ ELSE Verdict(outcome[r])]
  /\ reconciler' = [reconciler EXCEPT ![r] = "done"]
  /\ UNCHANGED <<phase, tables, cron, threads, outcome, owner, worker>>

(* The thread ends and leaves the log as it is: the write fails, which is
   suppressed or kills it; get_run raises another error than KeyError; or
   wait_for_events raises, the manager having forgotten the run since it was
   asked or failing to persist its expiry. *)
ReconcileFails(r) ==
  /\ phase = "up"
  /\ reconciler[r] = "polling"
  /\ reconciler' = [reconciler EXCEPT ![r] = "lost"]
  /\ UNCHANGED <<phase, tables, cron, threads, outcome, logs, worker>>

(* Analyses that were not scheduled compete for the same assets. *)
AdmitOther(r) ==
  /\ phase # "down"
  /\ NextRun(r)
  /\ Manager!Admit(r)
  /\ UNCHANGED <<phase, tables, cron, threads, worker, logs, reconciler>>

(* Runs end; "failed" stands for every verdict but completed, which a run
   whose worker waits at the gate cannot have. *)
Ending == [Runs -> (Manager!Outcomes \ Manager!Verdicts) \cup {"completed", "failed"}]

RunsEnd ==
  /\ phase # "down"
  /\ Manager!Resolve
  /\ outcome' \in Ending
  /\ \A r \in Runs : outcome'[r] = "completed" /\ outcome[r] = "pending"
                       => worker[r] \in {"none", "working"}
  /\ UNCHANGED <<phase, tables, cron, threads, worker, logs, reconciler>>

ForgetRuns ==
  /\ phase # "down"
  /\ Manager!Forget
  /\ UNCHANGED <<phase, tables, cron, threads, worker, logs, reconciler>>

-----------------------------------------------------------------------------
(* The process *)

(* shutdown: reconcile threads leave their loop; triggers run on. *)
Stop ==
  /\ phase = "up"
  /\ phase' = "stopping"
  /\ reconciler' = [r \in Runs |-> IF reconciler[r] = "polling" THEN "done" ELSE reconciler[r]]
  /\ UNCHANGED <<tables, cron, threads, outcome, worker, logs>>

(* The process ends, by itself or not: the tables stay. *)
Exit ==
  /\ phase # "down"
  /\ phase' = "down"
  /\ registered' = {}
  /\ writers' = 0
  /\ bypassed' = FALSE
  /\ pc' = [t \in Threads |-> "idle"]
  /\ fires' = [t \in Threads |-> None]
  /\ wants' = [t \in Threads |-> None]
  /\ run' = [t \in Threads |-> None]
  /\ worker' = [r \in Runs |-> "none"]
  /\ reconciler' = [r \in Runs |-> "none"]
  /\ UNCHANGED <<tables, outcome, logs>>

(* Mutant: every log that has a run is reconciled again, not only those of
   list_incomplete. *)
StartOverwriting ==
  /\ phase = "down"
  /\ phase' = "up"
  /\ Manager!Resolve
  /\ outcome' \in Ending
  /\ \A r \in Runs : outcome'[r] # "pending"
  /\ registered' = EnabledJobs
  /\ log' = [r \in Runs |-> IF log[r] \in Unclosed \cup Closed THEN Verdict(outcome'[r]) ELSE log[r]]
  /\ UNCHANGED <<tables, writers, bypassed, threads, worker, owner, reconciler>>

(* The manager has ended what the old process left unfinished when start
   registers the jobs and _reconcile_incomplete_logs closes the logs, but for
   those whose write fails or that are too many for list_incomplete. *)
Start ==
  /\ phase = "down"
  /\ phase' = "up"
  /\ Manager!Resolve
  /\ outcome' \in Ending
  /\ \A r \in Runs : outcome'[r] # "pending"
  /\ registered' = EnabledJobs
  /\ \E left \in SUBSET {r \in Runs : log[r] \in Unclosed} :
       /\ log' = [r \in Runs |-> IF log[r] \in Unclosed /\ r \notin left THEN Verdict(outcome'[r]) ELSE log[r]]
       /\ reconciler' = [r \in Runs |-> IF r \in left THEN "lost" ELSE reconciler[r]]
  /\ UNCHANGED <<tables, writers, bypassed, threads, worker, owner>>

-----------------------------------------------------------------------------

Edit ==
  \/ \E j \in Jobs : \/ \E asset \in Assets : CreateJob(j, asset)
                     \/ \E row \in Job : UpdateJob(j, row)
                     \/ ToggleJob(j)
                     \/ DeleteJob(j)
                     \/ \E row \in Job : ToolWritesJob(j, row)
                     \/ ToolDeletesJob(j)
  \/ SwitchScheduler

Trigger(t) ==
  \/ ReadJob(t) \/ Recheck(t) \/ GiveUp(t)
  \/ (\E r \in Runs : Admit(t, r)) \/ Refused(t)
  \/ CreateLog(t) \/ CreateLogFails(t) \/ StartReconciler(t) \/ OpenGate(t)

Next ==
  \/ Edit
  \/ Resync
  \/ \E j \in Jobs : Fire(j)
  \/ \E t \in Requests, j \in Jobs : RunNow(t, j)
  \/ \E t \in Threads : Trigger(t)
  \/ \E r \in Runs : MarkRunning(r) \/ Reconcile(r) \/ ReconcileFails(r) \/ AdmitOther(r)
  \/ RunsEnd
  \/ ForgetRuns
  \/ Stop \/ Exit \/ Start

Spec == Init /\ [][Next]_vars

(* Threads of a living process go on.  Nothing is assumed of the runs, of
   those who edit jobs, or of the process. *)
FairSpec ==
  /\ Spec
  /\ \A t \in Threads : WF_vars(Trigger(t))
  /\ \A r \in Runs : WF_vars(MarkRunning(r)) /\ WF_vars(Reconcile(r))

-----------------------------------------------------------------------------
(* Properties *)

(* A closed log tells what became of its run, as long as the manager can
   still be asked: the run's verdict never turns into the other one between
   the question and the write. *)
LogTellsVerdict ==
  \A r \in Runs : log[r] \in Closed =>
    outcome[r] = "forgotten" \/ (outcome[r] \in Manager!Verdicts /\ log[r] = Verdict(outcome[r]))

(* No scheduled worker is let past its gate before its log and its reconcile
   thread are there, unless creating the log failed or the log is gone. *)
WorkWaitsForLog ==
  \A r \in Runs : worker[r] \in {"open", "working"} =>
    log[r] = "lost" \/ (log[r] # "none" /\ reconciler[r] # "none")

(* APScheduler knows exactly the enabled jobs, whenever no endpoint is between
   its write and its resync and no chat tool has changed a job behind it. *)
SchedulerFollowsJobs ==
  phase # "down" /\ writers = 0 /\ ~bypassed => registered = EnabledJobs

(* A closed log goes with its job, and is opened again by nobody but the
   worker of its run, which may come late with its "running". *)
ClosedLogStays ==
  [][\A r \in Runs : log[r] \in Closed =>
       \/ log'[r] = log[r]
       \/ log'[r] = "lost" /\ job'[owner[r]] = Deleted
       \/ worker[r] = "open" /\ log'[r] = "running"]_vars

(* The log of a run that has ended is closed or goes with its job, whether the
   manager remembers the run or not.  Until the next start it may stay open
   when the process stops first, when the worker's late "running" comes after
   the reconcile thread, and when that thread, or a write, has failed. *)
LogCloses ==
  \A r \in Runs :
    log[r] \in Unclosed /\ outcome[r] # "pending" ~>
      \/ log[r] \notin Unclosed
      \/ phase # "up"
      \/ log[r] = "running" /\ reconciler[r] = "done"
      \/ reconciler[r] = "lost"

=============================================================================
