---------------------------- MODULE AnalysisService ----------------------------
(***************************************************************************)
(* web/runner.py on top of RunManager: each admitted run is a task of a    *)
(* thread pool, whose worker takes the run from begin_run through the      *)
(* analysis and the publication of its report to a verdict, while cancel   *)
(* requests, the watchdog, the lease and process deaths interfere.         *)
(*                                                                         *)
(* RunManager lets its callers call anything; here the callers are the     *)
(* worker's steps, one per stretch between two calls of the manager, and   *)
(* the endpoints of web/app.py.  Database writes do not fail here          *)
(* (MaxFaults = 0): RunManager itself covers those.                        *)
(***************************************************************************)
EXTENDS RunManager, Sequences, SequencesExt

CONSTANTS
  RootsAtLoad,   \* whether the constructor RunManager(...) is given its
                 \* report_root: always in the tests, never in web/app.py
  Watched        \* bound: runs whose artifacts are followed; no step reads them

ASSUME RootsAssumption == RootsAtLoad \subseteq BOOLEAN /\ RootsAtLoad # {}

VARIABLES
  pc,          \* where the worker of each run is
  queue,       \* runs submitted to an executor and not yet taken by a thread
  home,        \* the size of the executor a run was submitted to: executors
               \* only ever grow, so the size tells which one it is
  cancelled,   \* cancel_event of each run
  dir,         \* the files of each run's report
  artifacts,   \* watched runs with rows in the artifact repository
  checkpoint,  \* assets for which the graph has a saved LangGraph checkpoint
  rooted       \* the manager has its _report_root

svars == <<vars, pc, queue, home, cancelled, dir, artifacts, checkpoint, rooted>>

-----------------------------------------------------------------------------
(* Places of a worker. "analysing" is inside graph.propagate. *)
Publishing == {"writing", "committing", "renaming", "indexing", "finishing"}
Working    == {"setup", "analysing", "returned", "checked", "cancelling", "entering"}
              \cup Publishing
Busy       == {"taken"} \cup Working
Places     == {"none", "submitted", "done"} \cup Busy

(* Report files: a temporary directory, the same with its COMMITTED marker,
   the final directory, or the orphan area. *)
Reports == {"none", "temporary", "committed", "final", "orphaned"}

Status(r) == mem[r].status

(* The worker of r moves on. Of a worker that is through, nobody reads the
   cancellation flag or the executor again: they are reset. *)
Goto(r, place) ==
  /\ pc' = [pc EXCEPT ![r] = place]
  /\ cancelled' = [cancelled EXCEPT ![r] = @ /\ place # "done"]
  /\ home' = [home EXCEPT ![r] = IF place = "done" THEN 1 ELSE @]

ManagerIdle == UNCHANGED vars
FilesIdle   == UNCHANGED <<dir, artifacts, checkpoint, rooted>>
QueueIdle   == UNCHANGED queue

-----------------------------------------------------------------------------
(* Endpoints *)

(* A run and its task are created under one lock. *)
Submit(r) ==
  /\ queue' = Append(queue, r)
  /\ home' = [home EXCEPT ![r] = pool']
  /\ pc' = [pc EXCEPT ![r] = "submitted"]
  /\ UNCHANGED cancelled
  /\ FilesIdle

CreateRun(r, old) == StartRun(r, old, TRUE) /\ Submit(r)

CreateRetry(r, p, old) == RetryRun(r, p, old, TRUE) /\ Submit(r)

(* POST /api/runs/{id}/cancel: request_cancel raises the flag of a live run. *)
RequestCancel(r) ==
  /\ Status(r) \in Live
  /\ ~Due(r)
  /\ Touch(r)
  /\ cancelled' = [cancelled EXCEPT ![r] = TRUE]
  /\ UNCHANGED <<pc, home>> /\ QueueIdle /\ FilesIdle

(* What happens to runs without their workers: other endpoints, clocks, lease
   threads and the watchdog. *)
WorkersIdle == UNCHANGED <<pc, cancelled, home>> /\ QueueIdle /\ FilesIdle

DeadlinePasses(r) == PassDeadline(r) /\ WorkersIdle
WatchdogRound     == Watchdog /\ WorkersIdle

Environment ==
  \/ WatchdogRound
  \/ \E r \in Runs : DeadlinePasses(r)
  \/ /\ \/ \E old \in SUBSET Forgettable : Cleanup(old)
        \/ \E n \in 1..MaxCap : ConfigureCap(n)
        \/ \E r \in Runs : RenewLease(r) \/ Lapse(r) \/ CheckExpired(r, TRUE)
     /\ WorkersIdle

-----------------------------------------------------------------------------
(* The worker before publication *)

(* The threads of an executor take its tasks in order. A task whose record
   is gone dies with a KeyError; any other starts its lease. *)
TakeTask(r) ==
  /\ pc[r] = "submitted"
  /\ Cardinality({q \in Runs : pc[q] \in Busy /\ home[q] = home[r]}) < home[r]
  /\ \E i \in DOMAIN queue :
       /\ queue[i] = r
       /\ \A j \in 1..(i - 1) : home[queue[j]] # home[r]
       /\ queue' = RemoveAt(queue, i)
  /\ IF Status(r) \in Live THEN StartLease(r) ELSE ManagerIdle
  /\ Goto(r, IF Known(r) THEN "taken" ELSE "done")
  /\ FilesIdle

(* The steps below call methods that check for expiry first, so a due run is
   ended (CheckExpired) before its worker gets any further. *)
WorkerStep(r, place) ==
  /\ phase = "up"
  /\ pc[r] = place
  /\ ~Due(r)

(* begin_run; the worker only goes on with a run that is running. *)
Begin(r) ==
  /\ WorkerStep(r, "taken")
  /\ IF Status(r) = "queued"
       THEN BeginRun(r, TRUE) /\ Goto(r, "setup")
       ELSE ManagerIdle /\ Goto(r, "done")
  /\ QueueIdle /\ FilesIdle

(* RunManager.set_checkpoint_retained_until, which no status stops, and then
   the graph is built. The calls that follow raise when the record is gone. *)
Setup(r) ==
  /\ pc[r] = "setup"
  /\ IF Known(r) THEN SetCheckpoint(r, TRUE) /\ Goto(r, "analysing")
                 ELSE ManagerIdle /\ Goto(r, "done")
  /\ QueueIdle /\ FilesIdle

(* A node of the graph finishes: its checkpoint is saved, and on_chunk writes
   the node's artifact, which no verdict stops. A missing record raises. *)
Chunk(r) ==
  /\ WorkerStep(r, "analysing")
  /\ ~cancelled[r]
  /\ checkpoint' = checkpoint \cup {AssetOf[r]}
  /\ artifacts' = IF Known(r) THEN artifacts \cup ({r} \cap Watched) ELSE artifacts
  /\ Goto(r, IF Known(r) THEN "analysing" ELSE "done")
  /\ ManagerIdle
  /\ UNCHANGED <<dir, rooted>> /\ QueueIdle

(* should_cancel inside propagate, asked before the first node and after each
   (whose checkpoint is saved by then); and is_cancelled after propagate. *)
CancelDuring(r) ==
  /\ WorkerStep(r, "analysing")
  /\ Known(r) /\ cancelled[r]
  /\ checkpoint' \in {checkpoint, checkpoint \cup {AssetOf[r]}}
  /\ Goto(r, "cancelling")
  /\ ManagerIdle
  /\ UNCHANGED <<dir, artifacts, rooted>> /\ QueueIdle

CheckCancel(r) ==
  /\ WorkerStep(r, "checked")
  /\ Goto(r, CASE ~Known(r)    -> "done"
               [] cancelled[r] -> "cancelling"
               [] OTHER        -> "entering")
  /\ ManagerIdle
  /\ QueueIdle /\ FilesIdle

(* Wrong variant: the worker stops and leaves the verdict to others. *)
CancelSilently(r) ==
  /\ WorkerStep(r, "cancelling")
  /\ ManagerIdle
  /\ Goto(r, "done")
  /\ QueueIdle /\ FilesIdle

Cancel(r) ==
  /\ WorkerStep(r, "cancelling")
  /\ IF Status(r) \in Live THEN CancelRun(r, TRUE) ELSE ManagerIdle
  /\ Goto(r, "done")
  /\ QueueIdle /\ FilesIdle

(* propagate succeeds: it clears the checkpoint of its ticker and date. *)
AnalysisReturns(r) ==
  /\ WorkerStep(r, "analysing")
  /\ Known(r) /\ ~cancelled[r]
  /\ checkpoint' = checkpoint \ {AssetOf[r]}
  /\ Goto(r, "returned")
  /\ ManagerIdle
  /\ UNCHANGED <<dir, artifacts, rooted>> /\ QueueIdle

(* Building the graph or running it raises: the run fails unless it has a
   verdict already. *)
AnalysisRaises(r, reason) ==
  /\ WorkerStep(r, "analysing")
  /\ IF Status(r) \in Unfinished THEN FailRun(r, reason, TRUE) ELSE ManagerIdle
  /\ Goto(r, "done")
  /\ QueueIdle /\ FilesIdle

(* check_expired after propagate: a worker whose run has ended stops. *)
CheckStatus(r) ==
  /\ WorkerStep(r, "returned")
  /\ Goto(r, IF Status(r) = "running" THEN "checked" ELSE "done")
  /\ ManagerIdle
  /\ QueueIdle /\ FilesIdle

(* Wrong variant: the worker publishes whatever record it is given back. *)
EnterPublishingUnchecked(r) ==
  /\ WorkerStep(r, "entering")
  /\ IF Status(r) = "running" THEN BeginPublishing(r, TRUE) ELSE ManagerIdle
  /\ Goto(r, "writing")
  /\ QueueIdle /\ FilesIdle

(* begin_publishing raises unless the run is running; failing a run that has
   a verdict changes nothing. *)
EnterPublishing(r) ==
  /\ WorkerStep(r, "entering")
  /\ IF Status(r) = "running"
       THEN BeginPublishing(r, TRUE) /\ Goto(r, "writing")
       ELSE ManagerIdle /\ Goto(r, "done")
  /\ QueueIdle /\ FilesIdle

-----------------------------------------------------------------------------
(* Publication: the report is written to a temporary directory, marked
   COMMITTED, renamed to its final place and indexed. *)

PublishStep(r, from, files, to) ==
  /\ phase = "up"
  /\ pc[r] = from
  /\ dir' = [dir EXCEPT ![r] = files]
  /\ Goto(r, to)
  /\ ManagerIdle
  /\ UNCHANGED <<artifacts, checkpoint, rooted>> /\ QueueIdle

WriteReport(r)  == PublishStep(r, "writing", "temporary", "committing")
CommitReport(r) == PublishStep(r, "committing", "committed", "renaming")
RenameReport(r) == PublishStep(r, "renaming", "final", "indexing")
IndexReport(r)  == PublishStep(r, "indexing", dir[r], "finishing")

Finish(r) ==
  /\ pc[r] = "finishing"
  /\ CompletePublishing(r, dir[r] = "final", TRUE)
  /\ Goto(r, "done")
  /\ QueueIdle /\ FilesIdle

(* Wrong variant: a publication that raises leaves its run behind. *)
PublishRaisesSilently(r) ==
  /\ pc[r] \in Publishing \ {"finishing"}
  /\ ManagerIdle
  /\ Goto(r, "done")
  /\ QueueIdle /\ FilesIdle

(* Any step before complete_publishing may raise: the run fails, and the
   files stay as they are. *)
PublishRaises(r) ==
  /\ pc[r] \in Publishing \ {"finishing"}
  /\ FailRun(r, "publish_incomplete", TRUE)
  /\ Goto(r, "done")
  /\ QueueIdle /\ FilesIdle

Publish(r) ==
  WriteReport(r) \/ CommitReport(r) \/ RenameReport(r) \/ IndexReport(r) \/ Finish(r)
  \/ PublishRaises(r)

-----------------------------------------------------------------------------
(* Crash and restart: threads, queues and flags are gone, files are not. *)

ServiceCrash ==
  /\ Crash
  /\ pc' = [r \in Runs |-> "none"]
  /\ queue' = <<>>
  /\ home' = [r \in Runs |-> 1]
  /\ cancelled' = [r \in Runs |-> FALSE]
  /\ rooted' = FALSE
  /\ UNCHANGED <<dir, artifacts, checkpoint>>

(* _recover_publishing_locked. Without the report root it finds no report,
   and sets nothing aside. *)
Recover(r) ==
  LET found == rooted /\ dir[r] = "final"
  IN  /\ RecoverRun(r, found)
      /\ dir' = IF rooted /\ Status(r) = "publishing" /\ dir[r] \in {"temporary", "committed"}
                  THEN [dir EXCEPT ![r] = "orphaned"] ELSE dir
      /\ UNCHANGED <<pc, cancelled, home, artifacts, checkpoint, rooted>> /\ QueueIdle

(* The constructor loads the runs; web/app.py sets the report root after it. *)
LoadRuns ==
  /\ \/ Load /\ rooted' \in RootsAtLoad
     \/ FinishLoad /\ rooted' = TRUE
  /\ UNCHANGED <<pc, cancelled, home, dir, artifacts, checkpoint>> /\ QueueIdle

-----------------------------------------------------------------------------
ServiceInit ==
  /\ Init
  /\ pc = [r \in Runs |-> "none"]
  /\ queue = <<>>
  /\ home = [r \in Runs |-> 1]
  /\ cancelled = [r \in Runs |-> FALSE]
  /\ dir = [r \in Runs |-> "none"]
  /\ artifacts = {}
  /\ checkpoint = {}
  /\ rooted = TRUE

Work(r) ==
  \/ TakeTask(r) \/ Begin(r) \/ Setup(r) \/ Chunk(r) \/ CancelDuring(r) \/ AnalysisReturns(r)
  \/ \E reason \in {"model_timeout", "worker_error"} : AnalysisRaises(r, reason)
  \/ CheckStatus(r) \/ CheckCancel(r) \/ Cancel(r) \/ EnterPublishing(r)

Endpoints ==
  \/ \E r \in Runs \ issued, old \in SUBSET Forgettable :
       \/ CreateRun(r, old)
       \/ \E p \in issued : CreateRetry(r, p, old)
  \/ \E r \in Runs : RequestCancel(r)

ServiceNext ==
  \/ Endpoints
  \/ Environment
  \/ \E r \in Runs : Work(r) \/ Publish(r) \/ Recover(r)
  \/ ServiceCrash
  \/ LoadRuns

(* What the platform guarantees: clocks advance, the watchdog thread makes
   its rounds, the steps of a publication end (well or badly: they are file
   writes and one model call, which carries provider_timeout_seconds), and a
   service that died is started again. Nothing is assumed of the analysis
   itself, of the executor or of the lease. *)
Fairness ==
  /\ WF_svars(WatchdogRound)
  /\ WF_svars(LoadRuns)
  /\ \A r \in Runs : /\ WF_svars(DeadlinePasses(r))
                     /\ WF_svars(Publish(r))
                     /\ WF_svars(Recover(r))

ServiceSpec == ServiceInit /\ [][ServiceNext]_svars /\ Fairness

-----------------------------------------------------------------------------
(* Properties *)

ServiceTypeOK ==
  /\ TypeOK
  /\ pc \in [Runs -> Places]
  /\ queue \in Seq(Runs)
  /\ home \in [Runs -> 1..MaxCap]
  /\ cancelled \in [Runs -> BOOLEAN]
  /\ dir \in [Runs -> Reports]
  /\ artifacts \subseteq Runs
  /\ checkpoint \subseteq Assets
  /\ rooted \in BOOLEAN

(* Whatever a worker does after its run was timed out, interrupted, cancelled
   or failed in analysis, it leaves no report file behind: files exist only
   of runs that reached publication, and a complete publication is the only
   way to "completed". *)
VerdictMatchesReport ==
  phase = "up" =>
    \A r \in Runs :
      /\ dir[r] # "none" /\ Known(r) =>
           \/ Status(r) \in {"publishing", "completed"}
           \/ Status(r) = "failed" /\ mem[r].reason = "publish_incomplete"
      /\ Status(r) = "completed" => dir[r] = "final"

(* No clock ends a run that is publishing, so it must always have a worker
   that does: no interleaving leaves it behind. *)
PublishingHasWorker ==
  phase = "up" => \A r \in Runs : Status(r) = "publishing" <=> pc[r] \in Publishing

(* A worker that is through has left a verdict: on none of its ways out does
   it leave the run unfinished. *)
WorkerLeavesVerdict ==
  phase = "up" => \A r \in Runs : pc[r] = "done" => Status(r) \notin Unfinished

(* Every admitted run reaches a verdict, even if its analysis hangs for ever,
   no thread is free for it, or the service dies. *)
EveryRunEnds == \A r \in Runs : r \in issued ~> disk[r].status \notin Unfinished

(* Recovery design, state and concurrency: a model result that returns after
   the watchdog has ended the run writes no artifacts. *)
NoLateArtifacts ==
  [][\A r \in Runs : r \notin artifacts /\ r \in artifacts' => Status(r) \notin Terminal]_svars

(* Platform design, start-up recovery of a publishing run: when the final
   directory is complete the run becomes "completed". *)
RecoveryHonoursCommit ==
  [][\A r \in Runs :
       phase = "loading" /\ Status(r) = "publishing" /\ dir[r] = "final" /\ phase' = "loading"
         => Status(r)' \in {"publishing", "completed"}]_svars

(* Recovery design, retry step 3: a retry is only created after the service
   has verified that the checkpoint exists. *)
RetryFindsCheckpoint ==
  [][\A r \in Runs :
       r \notin issued /\ mem'[r].parent # NoRun => AssetOf[r] \in checkpoint]_svars
=============================================================================
