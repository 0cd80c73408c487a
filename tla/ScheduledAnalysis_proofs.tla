----------------------- MODULE ScheduledAnalysis_proofs -----------------------
(***************************************************************************)
(* What ScheduledAnalysis keeps for any jobs, requests, assets and numbers *)
(* of runs: a closed log tells its run's verdict and stays, a worker waits *)
(* for its log, and the scheduler follows the table.  Of the run manager   *)
(* the proofs use nothing but the steps of RunContract.                    *)
(***************************************************************************)
EXTENDS ScheduledAnalysis, TLAPS

-----------------------------------------------------------------------------
(* The inductive invariant *)

(* Places of a thread that has been given a run *)
Holding == {"log", "reconcile", "open"}

(* The run of a thread waits at its gate, and has what the thread made. *)
ThreadStage(t) ==
  /\ pc[t] \in Holding => /\ run[t] \in Runs
                          /\ outcome[run[t]] # "absent"
                          /\ worker[run[t]] = "gated"
  /\ pc[t] = "log" => log[run[t]] = "none" /\ reconciler[run[t]] = "none"
  /\ pc[t] = "reconcile" => log[run[t]] \in {"queued", "lost"} /\ reconciler[run[t]] = "none"
  /\ pc[t] = "open" => log[run[t]] # "none" /\ reconciler[run[t]] # "none"

RunsApart ==
  \A t, u \in Threads : pc[t] \in Holding /\ pc[u] \in Holding /\ run[t] = run[u] => t = u

(* What is there for a run has been admitted; a log that is still polled for
   is not closed; an owned log is there. *)
RunStage(r) ==
  /\ outcome[r] = "absent" => log[r] = "none" /\ worker[r] = "none" /\ reconciler[r] = "none"
  /\ reconciler[r] = "polling" => log[r] \notin Closed
  /\ owner[r] # None => log[r] # "none"

DownIsIdle ==
  phase = "down" => /\ \A t \in Threads : pc[t] = "idle"
                    /\ \A r \in Runs : worker[r] = "none" /\ reconciler[r] = "none"

Staged == /\ \A t \in Threads : ThreadStage(t)
          /\ \A r \in Runs : RunStage(r)
          /\ RunsApart
          /\ DownIsIdle
          /\ WorkWaitsForLog
          /\ LogTellsVerdict

SchedInv == SchedTypeOK /\ Staged /\ SchedulerFollowsJobs

LEMMA InitSchedInv == Init => SchedInv
<1> SUFFICES ASSUME Init PROVE SchedInv
  OBVIOUS
<1>1. SchedTypeOK
  <2>1. /\ phase \in {"up", "stopping", "down"} /\ enabled \in BOOLEAN /\ bypassed \in BOOLEAN
        /\ registered \subseteq Jobs
    BY DEF Init
  <2>2. writers \in 0..MaxWriters
    BY BoundsAssumption DEF Init
  <2>3. /\ job \in [Jobs -> Job \cup {None, Deleted}]
        /\ pc \in [Threads -> Places]
        /\ fires \in [Threads -> Jobs \cup {None}]
        /\ wants \in [Threads -> Assets \cup {None}]
        /\ run \in [Threads -> Runs \cup {None}]
    BY DEF Init, Places
  <2>4. outcome \in [Runs -> Manager!Outcomes]
    BY DEF Init, Manager!Init, Manager!Outcomes
  <2>5. /\ worker \in [Runs -> Workers]
        /\ log \in [Runs -> {"none", "lost"} \cup Unclosed \cup Closed]
        /\ owner \in [Runs -> Jobs \cup {None}]
        /\ reconciler \in [Runs -> Reconcilers]
    BY DEF Init, Workers, Reconcilers
  <2> QED
    BY <2>1, <2>2, <2>3, <2>4, <2>5 DEF SchedTypeOK
<1>2. Staged
  BY DEF Init, Manager!Init, Staged, ThreadStage, RunStage, RunsApart, DownIsIdle, WorkWaitsForLog,
     LogTellsVerdict, Holding, Closed
<1>3. EnabledJobs = {} /\ registered = {}
  BY NamesAssumption DEF Init, EnabledJobs, Exist, Job
<1> QED
  BY <1>1, <1>2, <1>3 DEF SchedInv, SchedulerFollowsJobs

-----------------------------------------------------------------------------
(* Editing jobs *)

(* A job is written, or removed together with its logs. *)
LEMMA EditKeepsStages ==
  ASSUME SchedInv, phase' = phase, UNCHANGED <<threads, outcome, worker, owner, reconciler>>,
         UNCHANGED log \/ \E j \in Jobs : RemoveJob(j)
  PROVE  Staged'
<1> USE DEF SchedInv, SchedTypeOK
<1>1. \A r \in Runs : log'[r] = log[r] \/ (log'[r] = "lost" /\ owner[r] # None)
  BY NamesAssumption DEF RemoveJob
<1>2. \A r \in Runs : RunStage(r)'
  BY <1>1 DEF Staged, RunStage, Closed
<1>3. ASSUME NEW t \in Threads PROVE ThreadStage(t)'
  <2>1. ThreadStage(t) /\ (run[t] \in Runs => RunStage(run[t]))
    BY DEF Staged
  <2> QED
    BY <1>1, <2>1 DEF ThreadStage, RunStage, threads, Holding
<1>4. WorkWaitsForLog' /\ LogTellsVerdict'
  BY <1>1 DEF Staged, WorkWaitsForLog, LogTellsVerdict, Closed
<1>5. RunsApart' /\ DownIsIdle'
  BY DEF Staged, RunsApart, DownIsIdle, threads
<1> QED
  BY <1>2, <1>3, <1>4, <1>5 DEF Staged

LEMMA EditKeeps ==
  ASSUME SchedInv, Edit
  PROVE  SchedInv'
<1> USE DEF SchedInv, Edit, CreateJob, UpdateJob, ToggleJob, DeleteJob, SwitchScheduler, ToolWritesJob,
       ToolDeletesJob
<1>1. /\ phase' = phase /\ UNCHANGED <<registered, threads, outcome, worker, owner, reconciler>>
      /\ Endpoint \/ Tool
  BY DEF Endpoint, Tool
<1>2. UNCHANGED log \/ \E j \in Jobs : RemoveJob(j)
  BY DEF WriteJob
<1>3. SchedulerFollowsJobs'
  BY <1>1 DEF Endpoint, Tool, SchedulerFollowsJobs, SchedTypeOK
<1>4. SchedTypeOK'
  <2>1. enabled' \in BOOLEAN
    BY DEF Tool, SchedTypeOK
  <2>2. bypassed' \in BOOLEAN
    BY <1>1 DEF Endpoint, Tool, SchedTypeOK
  <2>3. writers' \in 0..MaxWriters
    BY <1>1, BoundsAssumption DEF Endpoint, Tool, SchedTypeOK
  <2>4. log' \in [Runs -> {"none", "lost"} \cup Unclosed \cup Closed]
    BY <1>2 DEF SchedTypeOK, RemoveJob
  <2>5. \/ job' = job
        \/ \E j \in Jobs : RemoveJob(j)
        \/ \E j \in Jobs, row \in Job : WriteJob(j, row)
    <3>1. ASSUME NEW j \in Jobs, NEW asset \in Assets
          PROVE [asset |-> asset, enabled |-> TRUE] \in Job
      BY DEF Job
    <3>2. ASSUME NEW j \in Exist PROVE [job[j] EXCEPT !.enabled = ~@] \in Job /\ j \in Jobs
      BY DEF Job, Exist
    <3> QED
      BY <3>1, <3>2
  <2>6. job' \in [Jobs -> Job \cup {None, Deleted}]
    BY <2>5 DEF SchedTypeOK, WriteJob, RemoveJob
  <2> QED
    BY <1>1, <2>1, <2>2, <2>3, <2>4, <2>6 DEF SchedTypeOK, threads
<1>5. Staged'
  BY <1>1, <1>2, EditKeepsStages
<1> QED
  BY <1>3, <1>4, <1>5

(* Steps that leave jobs and APScheduler alone *)
LEMMA SchedulerStays ==
  ASSUME SchedulerFollowsJobs, UNCHANGED <<phase, tables, cron>>
  PROVE  SchedulerFollowsJobs'
  BY DEF SchedulerFollowsJobs, EnabledJobs, Exist, tables, cron

LEMMA ResyncKeeps ==
  ASSUME SchedInv, Resync
  PROVE  SchedInv'
<1> USE DEF SchedInv, Resync
<1>1. SchedTypeOK'
  <2>1. writers' \in 0..MaxWriters
    BY BoundsAssumption DEF SchedTypeOK
  <2>2. registered' \subseteq Jobs
    BY DEF EnabledJobs, Exist
  <2> QED
    BY <2>1, <2>2 DEF SchedTypeOK, tables, threads, runs, logs
<1>2. Staged'
  BY EditKeepsStages DEF runs, logs
<1>3. SchedulerFollowsJobs'
  BY DEF SchedulerFollowsJobs, EnabledJobs, Exist, tables
<1> QED
  BY <1>1, <1>2, <1>3

-----------------------------------------------------------------------------
(* Firing a job *)

(* A thread without a run moves, or returns. *)
LEMMA BareMoveKeepsStages ==
  ASSUME SchedInv, NEW t \in Threads, phase # "down", phase' = phase, UNCHANGED runs,
         pc'[t] \notin Holding,
         \A u \in Threads \ {t} : pc'[u] = pc[u] /\ run'[u] = run[u]
  PROVE  Staged'
<1> USE DEF SchedInv, runs, logs
<1>1. ASSUME NEW u \in Threads PROVE ThreadStage(u)'
  <2>1. CASE u = t
    BY <2>1 DEF ThreadStage, Holding
  <2>2. CASE u # t
    BY <2>2 DEF Staged, ThreadStage
  <2> QED
    BY <2>1, <2>2
<1>2. RunsApart'
  BY DEF Staged, RunsApart
<1>3. \A r \in Runs : RunStage(r)'
  BY DEF Staged, RunStage
<1>4. DownIsIdle' /\ WorkWaitsForLog' /\ LogTellsVerdict'
  BY DEF Staged, DownIsIdle, WorkWaitsForLog, LogTellsVerdict
<1> QED
  BY <1>1, <1>2, <1>3, <1>4 DEF Staged

LEMMA BareMoveKeeps ==
  ASSUME SchedInv, NEW t \in Threads,
         \/ \E j \in Jobs : (t = j /\ Fire(j)) \/ RunNow(t, j)
         \/ ReadJob(t) \/ Recheck(t) \/ GiveUp(t) \/ Refused(t)
  PROVE  SchedInv'
<1> USE DEF SchedInv, SchedTypeOK
<1>1. /\ UNCHANGED <<phase, tables, cron, runs>>
      /\ phase # "down"
  <2>1. UNCHANGED <<phase, tables, cron, runs>>
    BY DEF Fire, RunNow, ReadJob, Recheck, GiveUp, Refused
  <2>2. phase = "up" \/ pc[t] # "idle"
    BY DEF Fire, RunNow, ReadJob, Recheck, GiveUp, Refused
  <2> QED
    BY <2>1, <2>2 DEF Staged, DownIsIdle
<1>2. /\ \E p \in {"idle", "read", "recheck", "admit"} : Goto(t, p)
      /\ run' = run \/ run' = [run EXCEPT ![t] = None]
  BY DEF Fire, RunNow, ReadJob, Recheck, GiveUp, Refused, Return
<1>3. SchedTypeOK'
  <2>1. pc' \in [Threads -> Places] /\ run' \in [Threads -> Runs \cup {None}]
    BY <1>2 DEF Goto, Places
  <2>2. fires' \in [Threads -> Jobs \cup {None}]
    BY DEF Fire, RunNow, ReadJob, Recheck, GiveUp, Refused, Return
  <2>3. wants' \in [Threads -> Assets \cup {None}]
    BY DEF Fire, RunNow, ReadJob, Recheck, GiveUp, Refused, Return, Exist, Job
  <2> QED
    BY <1>1, <2>1, <2>2, <2>3 DEF tables, cron, runs, logs
<1>4. Staged'
  <2>1. /\ pc'[t] \notin Holding
        /\ \A u \in Threads \ {t} : pc'[u] = pc[u] /\ run'[u] = run[u]
    BY <1>2 DEF Goto, Holding
  <2> QED
    BY <1>1, <2>1, BareMoveKeepsStages
<1>5. SchedulerFollowsJobs'
  BY <1>1, SchedulerStays
<1> QED
  BY <1>3, <1>4, <1>5

(* A run that is admitted was absent: nothing was there for it, and no thread
   held it. *)
LEMMA AdmitKeeps ==
  ASSUME SchedInv, NEW t \in Threads, NEW r \in Runs, Admit(t, r)
  PROVE  SchedInv'
<1> USE DEF SchedInv, SchedTypeOK, Admit
<1>1. /\ outcome[r] = "absent" /\ log[r] = "none" /\ worker[r] = "none" /\ reconciler[r] = "none"
      /\ \A u \in Threads : pc[u] \in Holding => run[u] # r
      /\ phase # "down"
  BY DEF Staged, Manager!Admit, RunStage, ThreadStage, DownIsIdle
<1>2. /\ outcome' \in [Runs -> Manager!Outcomes] /\ outcome'[r] = "pending"
      /\ \A q \in Runs \ {r} : \/ outcome'[q] = outcome[q]
                               \/ outcome[q] \in Manager!Verdicts /\ outcome'[q] = "forgotten"
  BY DEF Manager!Admit, Manager!KeepsOrForgets, Manager!Ended
<1>3. /\ pc' = [pc EXCEPT ![t] = "log"] /\ run' = [run EXCEPT ![t] = r]
      /\ worker' = [worker EXCEPT ![r] = "gated"]
      /\ UNCHANGED <<phase, tables, cron, fires, wants, log, owner, reconciler>>
  BY DEF Goto, logs
<1>4. SchedTypeOK'
  <2>1. pc' \in [Threads -> Places] /\ run' \in [Threads -> Runs \cup {None}]
    BY <1>3 DEF Places
  <2>2. worker' \in [Runs -> Workers]
    BY <1>3 DEF Workers
  <2>3. UNCHANGED <<phase, enabled, job, registered, writers, bypassed, fires, wants, log, owner, reconciler>>
    BY <1>3 DEF tables, cron
  <2> QED
    BY <1>2, <2>1, <2>2, <2>3
<1>5. ASSUME NEW u \in Threads PROVE ThreadStage(u)'
  <2>1. CASE u = t
    BY <1>1, <1>2, <1>3, <2>1 DEF ThreadStage, Holding
  <2>2. CASE u # t
    <3>1. pc'[u] = pc[u] /\ run'[u] = run[u] /\ ThreadStage(u)
      BY <1>3, <2>2 DEF Staged
    <3>2. pc[u] \in Holding => outcome'[run[u]] # "absent" /\ worker'[run[u]] = worker[run[u]]
      BY <1>1, <1>2, <1>3, <3>1 DEF ThreadStage
    <3> QED
      BY <1>3, <3>1, <3>2 DEF ThreadStage, Holding
  <2> QED
    BY <2>1, <2>2
<1>6. RunsApart'
  BY <1>1, <1>3 DEF Staged, RunsApart
<1>7. \A q \in Runs : RunStage(q)'
  BY <1>1, <1>2, <1>3 DEF Staged, RunStage, Manager!Verdicts
<1>8. DownIsIdle' /\ WorkWaitsForLog'
  BY <1>1, <1>3 DEF Staged, DownIsIdle, WorkWaitsForLog
<1>9. LogTellsVerdict'
  BY <1>1, <1>2, <1>3 DEF Staged, LogTellsVerdict, Closed
<1>10. SchedulerFollowsJobs'
  BY <1>3, SchedulerStays
<1> QED
  BY <1>4, <1>5, <1>6, <1>7, <1>8, <1>9, <1>10 DEF Staged

(* The thread writes the log of its run, starts the reconcile thread and
   opens the gate: it touches nothing of another run. *)
LEMMA RunStepKeeps ==
  ASSUME SchedInv, NEW t \in Threads,
         CreateLog(t) \/ CreateLogFails(t) \/ StartReconciler(t) \/ OpenGate(t)
  PROVE  SchedInv'
<1> DEFINE r == run[t]
<1> USE DEF SchedInv, SchedTypeOK
<1>1. /\ pc[t] \in Holding /\ r \in Runs /\ outcome[r] # "absent" /\ worker[r] = "gated"
      /\ ThreadStage(t) /\ RunStage(r)
      /\ phase # "down"
  BY DEF Staged, ThreadStage, DownIsIdle, Holding, CreateLog, CreateLogFails, StartReconciler, OpenGate
<1>2. /\ UNCHANGED <<phase, tables, cron, outcome>>
      /\ \A q \in Runs \ {r} : /\ worker'[q] = worker[q] /\ log'[q] = log[q]
                               /\ owner'[q] = owner[q] /\ reconciler'[q] = reconciler[q]
      /\ \A u \in Threads \ {t} : pc'[u] = pc[u] /\ run'[u] = run[u]
  BY DEF CreateLog, CreateLogFails, StartReconciler, OpenGate, Return, Goto, logs
<1>3. /\ outcome'[r] = outcome[r]
      /\ \/ /\ pc[t] = "log" /\ pc'[t] = "reconcile" /\ run'[t] = r /\ worker'[r] = "gated"
            /\ log'[r] = "queued" /\ reconciler'[r] = "none"
         \/ /\ pc[t] = "log" /\ pc'[t] = "idle" /\ worker'[r] = "working"
            /\ \/ log'[r] = "lost" /\ owner'[r] = owner[r] /\ reconciler'[r] = "none"
               \/ log'[r] = "queued" /\ reconciler'[r] = "lost"
         \/ /\ pc[t] = "reconcile" /\ pc'[t] = "open" /\ run'[t] = r /\ worker'[r] = "gated"
            /\ log'[r] = log[r] /\ owner'[r] = owner[r]
            /\ reconciler'[r] \in {"polling", "done"}
         \/ /\ pc[t] = "open" /\ pc'[t] = "idle" /\ worker'[r] = "open"
            /\ log'[r] = log[r] /\ owner'[r] = owner[r] /\ reconciler'[r] = reconciler[r]
  BY <1>1 DEF CreateLog, CreateLogFails, StartReconciler, OpenGate, Return, Goto, logs, ThreadStage
<1>4. SchedTypeOK'
  <2>1. /\ pc' \in [Threads -> Places] /\ run' \in [Threads -> Runs \cup {None}]
        /\ fires' \in [Threads -> Jobs \cup {None}] /\ wants' \in [Threads -> Assets \cup {None}]
    BY DEF CreateLog, CreateLogFails, StartReconciler, OpenGate, Return, Goto, Places
  <2>2. worker' \in [Runs -> Workers] /\ reconciler' \in [Runs -> Reconcilers]
    BY DEF CreateLog, CreateLogFails, StartReconciler, OpenGate, Workers, Reconcilers
  <2>3. /\ log' \in [Runs -> {"none", "lost"} \cup Unclosed \cup Closed]
        /\ owner' \in [Runs -> Jobs \cup {None}]
    BY <1>1 DEF CreateLog, CreateLogFails, StartReconciler, OpenGate, Exist, logs, Unclosed
  <2> QED
    BY <1>2, <2>1, <2>2, <2>3 DEF tables, cron
<1>5. ASSUME NEW u \in Threads PROVE ThreadStage(u)'
  <2>1. CASE u = t
    BY <1>1, <1>3, <2>1 DEF ThreadStage, Holding
  <2>2. CASE u # t
    <3>1. pc'[u] = pc[u] /\ run'[u] = run[u] /\ ThreadStage(u)
      BY <1>2, <2>2 DEF Staged
    <3>2. pc[u] \in Holding => run[u] \in Runs \ {r}
      BY <1>1, <2>2, <3>1 DEF Staged, RunsApart, ThreadStage
    <3> QED
      BY <1>2, <3>1, <3>2 DEF ThreadStage, Holding
  <2> QED
    BY <2>1, <2>2
<1>6. RunsApart'
  BY <1>1, <1>2, <1>3 DEF Staged, RunsApart, Holding
<1>7. ASSUME NEW q \in Runs PROVE RunStage(q)'
  BY <1>1, <1>2, <1>3 DEF Staged, RunStage, ThreadStage, Closed
<1>8. DownIsIdle'
  BY <1>1, <1>2 DEF DownIsIdle
<1>9. WorkWaitsForLog'
  BY <1>1, <1>2, <1>3 DEF Staged, WorkWaitsForLog, ThreadStage
<1>10. LogTellsVerdict'
  BY <1>1, <1>2, <1>3 DEF Staged, LogTellsVerdict, Closed
<1>11. SchedulerFollowsJobs'
  BY <1>2, SchedulerStays
<1> QED
  BY <1>4, <1>5, <1>6, <1>7, <1>8, <1>9, <1>10, <1>11 DEF Staged

-----------------------------------------------------------------------------
(* Runs and their logs *)

(* A worker that has passed its gate belongs to no thread any more, and a run
   that is reconciled has its log. *)
LEMMA MarkRunningKeeps ==
  ASSUME SchedInv, NEW r \in Runs, MarkRunning(r)
  PROVE  SchedInv'
<1> USE DEF SchedInv, SchedTypeOK, MarkRunning
<1>1. \A u \in Threads : pc[u] \in Holding => run[u] \in Runs \ {r}
  BY DEF Staged, ThreadStage
<1>2. /\ UNCHANGED <<phase, tables, cron, threads, outcome, owner, reconciler>>
      /\ \A q \in Runs \ {r} : worker'[q] = worker[q] /\ log'[q] = log[q]
      /\ worker[r] = "open" /\ worker'[r] = "working"
      /\ log'[r] \in {"running", log[r]}
  OBVIOUS
<1>3. SchedTypeOK'
  BY <1>2 DEF tables, cron, threads, Workers, Unclosed
<1>4. \A u \in Threads : ThreadStage(u)'
  BY <1>1, <1>2 DEF Staged, ThreadStage, Holding, threads
<1>5. RunsApart' /\ DownIsIdle'
  BY <1>2 DEF Staged, RunsApart, DownIsIdle, threads
<1>6. ASSUME NEW q \in Runs PROVE RunStage(q)'
  BY <1>2 DEF Staged, RunStage, Closed
<1>7. WorkWaitsForLog' /\ LogTellsVerdict'
  BY <1>2 DEF Staged, WorkWaitsForLog, LogTellsVerdict, Closed
<1>8. SchedulerFollowsJobs'
  BY <1>2, SchedulerStays
<1> QED
  BY <1>3, <1>4, <1>5, <1>6, <1>7, <1>8 DEF Staged

LEMMA ReconcileKeeps ==
  ASSUME SchedInv, NEW r \in Runs, Reconcile(r)
  PROVE  SchedInv'
<1> USE DEF SchedInv, SchedTypeOK, Reconcile
<1>1. outcome[r] = "forgotten" \/ outcome[r] \in Manager!Verdicts
  BY DEF Staged, RunStage, Manager!Outcomes
<1>2. /\ UNCHANGED <<phase, tables, cron, threads, outcome, owner, worker>>
      /\ \A q \in Runs \ {r} : reconciler'[q] = reconciler[q] /\ log'[q] = log[q]
      /\ reconciler[r] = "polling" /\ reconciler'[r] = "done"
      /\ log'[r] \in {Verdict(outcome[r]), "lost"}
      /\ Verdict(outcome[r]) \in Closed
  BY DEF Verdict, Closed
<1>3. SchedTypeOK'
  BY <1>2 DEF tables, cron, threads, Closed, Reconcilers
<1>4. \A u \in Threads : ThreadStage(u)'
  BY <1>2 DEF Staged, ThreadStage, Holding, threads, Closed
<1>5. RunsApart' /\ DownIsIdle'
  BY <1>2 DEF Staged, RunsApart, DownIsIdle, threads
<1>6. ASSUME NEW q \in Runs PROVE RunStage(q)'
  BY <1>1, <1>2 DEF Staged, RunStage, Closed, Manager!Verdicts
<1>7. WorkWaitsForLog'
  BY <1>2 DEF Staged, WorkWaitsForLog, Closed
<1>8. LogTellsVerdict'
  BY <1>1, <1>2 DEF Staged, LogTellsVerdict, Closed, Verdict
<1>9. SchedulerFollowsJobs'
  BY <1>2, SchedulerStays
<1> QED
  BY <1>3, <1>4, <1>5, <1>6, <1>7, <1>8, <1>9 DEF Staged

LEMMA ReconcileFailsKeeps ==
  ASSUME SchedInv, NEW r \in Runs, ReconcileFails(r)
  PROVE  SchedInv'
<1> USE DEF SchedInv, SchedTypeOK, ReconcileFails
<1>1. /\ UNCHANGED <<phase, tables, cron, threads, outcome, logs, worker>>
      /\ \A q \in Runs \ {r} : reconciler'[q] = reconciler[q]
      /\ reconciler[r] = "polling" /\ reconciler'[r] = "lost"
  OBVIOUS
<1>2. SchedTypeOK'
  BY <1>1 DEF tables, cron, threads, logs, Reconcilers
<1>3. \A u \in Threads : ThreadStage(u)'
  BY <1>1 DEF Staged, ThreadStage, Holding, threads, logs
<1>4. RunsApart' /\ DownIsIdle'
  BY <1>1 DEF Staged, RunsApart, DownIsIdle, threads
<1>5. ASSUME NEW q \in Runs PROVE RunStage(q)'
  BY <1>1 DEF Staged, RunStage, logs
<1>6. WorkWaitsForLog' /\ LogTellsVerdict'
  BY <1>1 DEF Staged, WorkWaitsForLog, LogTellsVerdict, logs
<1>7. SchedulerFollowsJobs'
  BY <1>1, SchedulerStays
<1> QED
  BY <1>2, <1>3, <1>4, <1>5, <1>6, <1>7 DEF Staged

(* Steps of the manager alone: a run that was there stays, and a verdict
   stays until it is forgotten. *)
LEMMA ManagerStepKeeps ==
  ASSUME SchedInv, (\E r \in Runs : AdmitOther(r)) \/ RunsEnd \/ ForgetRuns
  PROVE  SchedInv'
<1> USE DEF SchedInv, SchedTypeOK
<1>1. UNCHANGED <<phase, tables, cron, threads, worker, logs, reconciler>>
  BY DEF AdmitOther, RunsEnd, ForgetRuns
<1>2. /\ outcome' \in [Runs -> Manager!Outcomes]
      /\ \A q \in Runs : \/ outcome'[q] = outcome[q]
                         \/ outcome[q] = "absent"
                         \/ outcome[q] = "pending" /\ outcome'[q] \in Manager!Verdicts
                         \/ outcome[q] \in Manager!Verdicts /\ outcome'[q] = "forgotten"
  BY DEF AdmitOther, RunsEnd, ForgetRuns, Manager!Admit, Manager!Resolve, Manager!Forget,
     Manager!KeepsOrForgets, Manager!Pending, Manager!Ended
<1>3. SchedTypeOK'
  BY <1>1, <1>2 DEF tables, cron, threads, logs
<1>4. ASSUME NEW u \in Threads PROVE ThreadStage(u)'
  BY <1>1, <1>2 DEF Staged, ThreadStage, threads, logs, Manager!Verdicts
<1>5. RunsApart' /\ DownIsIdle' /\ WorkWaitsForLog'
  BY <1>1 DEF Staged, RunsApart, DownIsIdle, WorkWaitsForLog, threads, logs
<1>6. ASSUME NEW q \in Runs PROVE RunStage(q)'
  BY <1>1, <1>2 DEF Staged, RunStage, logs, Manager!Verdicts
<1>7. LogTellsVerdict'
  BY <1>1, <1>2 DEF Staged, LogTellsVerdict, RunStage, logs, Closed, Manager!Verdicts
<1>8. SchedulerFollowsJobs'
  BY <1>1, SchedulerStays
<1> QED
  BY <1>3, <1>4, <1>5, <1>6, <1>7, <1>8 DEF Staged

-----------------------------------------------------------------------------
(* The process *)

LEMMA StopKeeps ==
  ASSUME SchedInv, Stop
  PROVE  SchedInv'
<1> USE DEF SchedInv, SchedTypeOK, Stop
<1>1. SchedTypeOK'
  BY DEF tables, cron, threads, logs, Reconcilers
<1>2. \A u \in Threads : ThreadStage(u)'
  BY DEF Staged, ThreadStage, threads, logs, Holding
<1>3. RunsApart' /\ DownIsIdle'
  BY DEF Staged, RunsApart, DownIsIdle, threads
<1>4. \A q \in Runs : RunStage(q)'
  BY DEF Staged, RunStage, logs
<1>5. WorkWaitsForLog' /\ LogTellsVerdict'
  BY DEF Staged, WorkWaitsForLog, LogTellsVerdict, logs
<1>6. SchedulerFollowsJobs'
  BY DEF SchedulerFollowsJobs, EnabledJobs, Exist, tables, cron
<1> QED
  BY <1>1, <1>2, <1>3, <1>4, <1>5, <1>6 DEF Staged

LEMMA ExitKeeps ==
  ASSUME SchedInv, Exit
  PROVE  SchedInv'
<1> USE DEF SchedInv, SchedTypeOK, Exit
<1>1. SchedTypeOK'
  <2>1. writers' \in 0..MaxWriters /\ registered' \subseteq Jobs
    BY BoundsAssumption
  <2>2. worker' \in [Runs -> Workers] /\ reconciler' \in [Runs -> Reconcilers]
    BY DEF Workers, Reconcilers
  <2>3. /\ pc' \in [Threads -> Places] /\ fires' \in [Threads -> Jobs \cup {None}]
        /\ wants' \in [Threads -> Assets \cup {None}] /\ run' \in [Threads -> Runs \cup {None}]
    BY DEF Places
  <2> QED
    BY <2>1, <2>2, <2>3 DEF tables, logs
<1>2. \A u \in Threads : pc'[u] = "idle"
  OBVIOUS
<1>3. /\ \A u \in Threads : ThreadStage(u)'
      /\ RunsApart' /\ DownIsIdle'
  BY <1>2 DEF ThreadStage, Holding, RunsApart, DownIsIdle
<1>4. \A q \in Runs : RunStage(q)'
  BY DEF Staged, RunStage, logs
<1>5. WorkWaitsForLog' /\ LogTellsVerdict' /\ SchedulerFollowsJobs'
  BY DEF Staged, WorkWaitsForLog, LogTellsVerdict, SchedulerFollowsJobs, logs
<1> QED
  BY <1>1, <1>3, <1>4, <1>5 DEF Staged

(* An open log belongs to a run that was admitted, and the manager has given
   every such run a verdict; a log that is left is open as before. *)
LEMMA StartKeeps ==
  ASSUME SchedInv, Start
  PROVE  SchedInv'
<1> USE DEF SchedInv, SchedTypeOK, Start
<1>1. /\ outcome' \in [Runs -> Manager!Outcomes]
      /\ \A q \in Runs : /\ outcome'[q] # "pending"
                         /\ \/ outcome'[q] = outcome[q]
                            \/ outcome[q] = "pending" /\ outcome'[q] \in Manager!Verdicts
  BY DEF Manager!Resolve, Manager!Pending
<1>2. PICK left \in SUBSET {q \in Runs : log[q] \in Unclosed} :
        /\ log' = [q \in Runs |-> IF log[q] \in Unclosed /\ q \notin left
                                 THEN Verdict(outcome'[q]) ELSE log[q]]
        /\ reconciler' = [q \in Runs |-> IF q \in left THEN "lost" ELSE reconciler[q]]
  OBVIOUS
<1>3. ASSUME NEW q \in Runs
      PROVE  \/ log'[q] = log[q]
             \/ log[q] \in Unclosed /\ log'[q] = Verdict(outcome'[q])
  <2>1. CASE log[q] \in Unclosed /\ q \notin left
    BY <1>2, <2>1
  <2>2. CASE ~(log[q] \in Unclosed /\ q \notin left)
    BY <1>2, <2>2
  <2> QED
    BY <2>1, <2>2
<1>4. \A q \in Runs : reconciler'[q] = reconciler[q] \/ (q \in left /\ reconciler'[q] = "lost")
  BY <1>2
<1>5. \A q \in Runs : Verdict(outcome'[q]) \in Closed
  BY DEF Verdict, Closed
<1>6. /\ \A u \in Threads : pc'[u] = "idle"
      /\ \A q \in Runs : worker'[q] = "none" /\ reconciler'[q] \in {"none", "lost"}
      /\ \A q \in Runs : reconciler'[q] = "lost" => log[q] \in Unclosed
  BY <1>4 DEF Staged, DownIsIdle, threads
<1>7. SchedTypeOK'
  <2>1. registered' \subseteq Jobs
    BY DEF EnabledJobs, Exist
  <2>2. log' \in [Runs -> {"none", "lost"} \cup Unclosed \cup Closed]
    BY <1>2, <1>5
  <2>3. reconciler' \in [Runs -> Reconcilers]
    BY <1>2 DEF Reconcilers
  <2> QED
    BY <1>1, <2>1, <2>2, <2>3 DEF tables, threads
<1>8. /\ \A u \in Threads : ThreadStage(u)'
      /\ RunsApart' /\ DownIsIdle' /\ WorkWaitsForLog'
  BY <1>6 DEF ThreadStage, Holding, RunsApart, DownIsIdle, WorkWaitsForLog
<1>9. ASSUME NEW q \in Runs PROVE RunStage(q)'
  BY <1>1, <1>3, <1>5, <1>6 DEF Staged, RunStage, Unclosed, Closed, Manager!Verdicts
<1>10. ASSUME NEW q \in Runs, log'[q] \in Closed
      PROVE  outcome'[q] = "forgotten"
               \/ (outcome'[q] \in Manager!Verdicts /\ log'[q] = Verdict(outcome'[q]))
  <2>1. CASE log'[q] = log[q]
    <3>1. outcome[q] = "forgotten" \/ (outcome[q] \in Manager!Verdicts /\ log[q] = Verdict(outcome[q]))
      BY <1>10, <2>1 DEF Staged, LogTellsVerdict
    <3>2. outcome'[q] = outcome[q]
      BY <1>1, <3>1 DEF Manager!Verdicts
    <3> QED
      BY <2>1, <3>1, <3>2
  <2>2. CASE log[q] \in Unclosed /\ log'[q] = Verdict(outcome'[q])
    <3>1. outcome[q] # "absent"
      BY <2>2 DEF Staged, RunStage, Unclosed
    <3>2. outcome'[q] \in {"forgotten"} \cup Manager!Verdicts
      BY <1>1, <3>1 DEF Manager!Outcomes, Manager!Verdicts
    <3> QED
      BY <2>2, <3>2
  <2> QED
    BY <1>3, <2>1, <2>2
<1>11. SchedulerFollowsJobs'
  BY DEF SchedulerFollowsJobs, EnabledJobs, Exist, tables
<1> QED
  BY <1>7, <1>8, <1>9, <1>10, <1>11 DEF Staged, LogTellsVerdict

-----------------------------------------------------------------------------
(* Theorems *)

LEMMA NextKeepsSchedInv == SchedInv /\ [Next]_vars => SchedInv'
<1> SUFFICES ASSUME SchedInv, [Next]_vars PROVE SchedInv'
  OBVIOUS
<1>1. CASE Edit
  BY <1>1, EditKeeps
<1>2. CASE Resync
  BY <1>2, ResyncKeeps
<1>3. ASSUME NEW j \in Jobs, Fire(j) PROVE SchedInv'
  BY <1>3, BareMoveKeeps DEF Threads
<1>4. ASSUME NEW t \in Requests, NEW j \in Jobs, RunNow(t, j) PROVE SchedInv'
  BY <1>4, BareMoveKeeps DEF Threads
<1>5. ASSUME NEW t \in Threads, Trigger(t) PROVE SchedInv'
  BY <1>5, BareMoveKeeps, AdmitKeeps, RunStepKeeps DEF Trigger
<1>6. ASSUME NEW r \in Runs, MarkRunning(r) \/ Reconcile(r) \/ ReconcileFails(r) \/ AdmitOther(r)
      PROVE  SchedInv'
  BY <1>6, MarkRunningKeeps, ReconcileKeeps, ReconcileFailsKeeps, ManagerStepKeeps
<1>7. CASE RunsEnd \/ ForgetRuns
  BY <1>7, ManagerStepKeeps
<1>8. CASE Stop \/ Exit \/ Start
  BY <1>8, StopKeeps, ExitKeeps, StartKeeps
<1>9. CASE UNCHANGED vars
  <2>1. UNCHANGED <<phase, tables, cron, threads, outcome, worker, logs, reconciler>>
    BY <1>9 DEF vars, runs
  <2> QED
    BY <2>1 DEF SchedInv, SchedTypeOK, Staged, ThreadStage, RunStage, RunsApart, DownIsIdle, WorkWaitsForLog,
       LogTellsVerdict, SchedulerFollowsJobs, EnabledJobs, Exist, tables, cron, threads, logs
<1> QED
  BY <1>1, <1>2, <1>3, <1>4, <1>5, <1>6, <1>7, <1>8, <1>9 DEF Next

LEMMA SchedInvHolds == Spec => []SchedInv
  BY InitSchedInv, NextKeepsSchedInv, PTL DEF Spec

(* Every variable keeps its type, for any number of jobs, requests and runs. *)
THEOREM TypeCorrect == Spec => []SchedTypeOK
<1>1. SchedInv => SchedTypeOK
  BY DEF SchedInv
<1> QED
  BY <1>1, SchedInvHolds, PTL

(* A log that _reconcile_run or the start has closed says what the run manager
   says of the run, whoever else has written it. *)
THEOREM LogsTellVerdicts == Spec => []LogTellsVerdict
<1>1. SchedInv => LogTellsVerdict
  BY DEF SchedInv, Staged
<1> QED
  BY <1>1, SchedInvHolds, PTL

(* The gates of trigger hold a scheduled worker back until its log and its
   reconcile thread are there, or no log will ever be. *)
THEOREM WorkersWaitForLogs == Spec => []WorkWaitsForLog
<1>1. SchedInv => WorkWaitsForLog
  BY DEF SchedInv, Staged
<1> QED
  BY <1>1, SchedInvHolds, PTL

(* resync and start leave APScheduler with the enabled jobs, and so it stays
   until somebody changes a job. *)
THEOREM SchedulerFollows == Spec => []SchedulerFollowsJobs
<1>1. SchedInv => SchedulerFollowsJobs
  BY DEF SchedInv
<1> QED
  BY <1>1, SchedInvHolds, PTL

(* No step but a worker's late "running" opens a closed log again, and none
   but the removal of its job takes it away. *)
THEOREM ClosedLogsStay == Spec => ClosedLogStays
<1> DEFINE Stays == \A r \in Runs : log[r] \in Closed =>
                      \/ log'[r] = log[r]
                      \/ log'[r] = "lost" /\ job'[owner[r]] = Deleted
                      \/ worker[r] = "open" /\ log'[r] = "running"
<1>1. SchedInv /\ [Next]_vars => [Stays]_vars
  <2> SUFFICES ASSUME SchedInv, Next, NEW r \in Runs, log[r] \in Closed, log'[r] # log[r]
               PROVE  \/ log'[r] = "lost" /\ job'[owner[r]] = Deleted
                      \/ worker[r] = "open" /\ log'[r] = "running"
    OBVIOUS
  <2> USE DEF SchedInv, SchedTypeOK
  <2>1. CASE Edit
    <3>1. \E j \in Jobs : RemoveJob(j)
      BY <2>1 DEF Edit, CreateJob, UpdateJob, ToggleJob, DeleteJob, SwitchScheduler, ToolWritesJob,
         ToolDeletesJob, WriteJob
    <3> QED
      BY <3>1 DEF RemoveJob
  <2>2. ASSUME NEW q \in Runs, MarkRunning(q) \/ Reconcile(q)
        PROVE  worker[r] = "open" /\ log'[r] = "running"
    <3>1. q = r
      BY <2>2 DEF MarkRunning, Reconcile
    <3>2. ~Reconcile(r)
      BY DEF Staged, RunStage, Reconcile
    <3> QED
      BY <2>2, <3>1, <3>2 DEF MarkRunning, Closed
  <2>3. ASSUME NEW t \in Threads, Trigger(t) PROVE FALSE
    <3>1. UNCHANGED log \/ (pc[t] = "log" /\ \A q \in Runs \ {run[t]} : log'[q] = log[q])
      BY <2>3 DEF Trigger, ReadJob, Recheck, GiveUp, Admit, Refused, CreateLog, CreateLogFails,
         StartReconciler, OpenGate, runs, logs
    <3> QED
      BY <3>1 DEF Staged, ThreadStage, Closed
  <2>4. ASSUME Start PROVE FALSE
    BY <2>4 DEF Start, Unclosed, Closed
  <2>5. ASSUME \/ Resync \/ RunsEnd \/ ForgetRuns \/ Stop \/ Exit
               \/ \E j \in Jobs : Fire(j) \/ (\E t \in Requests : RunNow(t, j))
               \/ \E q \in Runs : ReconcileFails(q) \/ AdmitOther(q)
        PROVE  FALSE
    BY <2>5 DEF Resync, RunsEnd, ForgetRuns, Stop, Exit, Fire, RunNow, ReconcileFails, AdmitOther, runs, logs
  <2> QED
    BY <2>1, <2>2, <2>3, <2>4, <2>5 DEF Next
<1>2. [][Stays]_vars => ClosedLogStays
  BY DEF ClosedLogStays
<1> QED
  BY <1>1, <1>2, SchedInvHolds, PTL DEF Spec

-----------------------------------------------------------------------------
(* What the scheduler asks of the run manager *)

(* Every step is one of RunContract or leaves the runs alone. *)
LEMMA StepKeepsContract == [Next]_vars => [Manager!Next]_outcome
<1> SUFFICES ASSUME [Next]_vars, outcome' # outcome PROVE Manager!Next
  OBVIOUS
<1>1. CASE Edit \/ Resync \/ (\E j \in Jobs : Fire(j)) \/ (\E t \in Requests, j \in Jobs : RunNow(t, j))
  BY <1>1 DEF Edit, CreateJob, UpdateJob, ToggleJob, DeleteJob, SwitchScheduler, ToolWritesJob,
     ToolDeletesJob, Endpoint, Tool, Resync, Fire, RunNow, runs
<1>2. ASSUME NEW t \in Threads, Trigger(t) PROVE \E r \in Runs : Manager!Admit(r)
  BY <1>2 DEF Trigger, ReadJob, Recheck, GiveUp, Admit, Refused, CreateLog, CreateLogFails,
     StartReconciler, OpenGate, runs
<1>3. ASSUME NEW r \in Runs, MarkRunning(r) \/ Reconcile(r) \/ ReconcileFails(r) \/ AdmitOther(r)
      PROVE  Manager!Admit(r)
  BY <1>3 DEF MarkRunning, Reconcile, ReconcileFails, AdmitOther
<1>4. CASE RunsEnd \/ Start
  BY <1>4 DEF RunsEnd, Start, Manager!Next
<1>5. CASE ForgetRuns
  BY <1>5 DEF ForgetRuns, Manager!Next
<1>6. CASE Stop \/ Exit \/ UNCHANGED vars
  BY <1>6 DEF Stop, Exit, vars, runs
<1> QED
  BY <1>1, <1>2, <1>3, <1>4, <1>5, <1>6 DEF Next, Manager!Next

(* Triggers, reconcile threads, shutdown and start drive the runs in no other
   way than RunContract allows, which RunManager implements: so scheduler and
   manager fit together. *)
THEOREM SchedulerKeepsContract == Spec => Manager!Spec
<1>1. Init => Manager!Init
  BY DEF Init
<1> QED
  BY <1>1, StepKeepsContract, PTL DEF Spec, Manager!Spec

=============================================================================
