------------------------- MODULE AnalysisService_proofs -------------------------
(***************************************************************************)
(* What the worker keeps on top of the manager, for every set of runs,     *)
(* every size of the executors and any number of crashes.  The service     *)
(* implements RunManager: each step of a worker, an endpoint, a clock or a *)
(* restart is a method of the manager or leaves its variables alone.  So   *)
(* the manager's invariant holds of the service, and what is left to prove *)
(* relates it to the places of the workers and to the report files.        *)
(***************************************************************************)
EXTENDS AnalysisService, RunContract_proofs, SequenceTheorems

-----------------------------------------------------------------------------
(* The inductive invariant *)

(* Where the worker of a run can be, given the status of the run. *)
Fits(place, status) ==
  /\ status = "queued" => place \in {"submitted", "taken"}
  /\ status = "running" => place \in Working \ Publishing
  /\ status = "publishing" <=> place \in Publishing

(* What a record can say of a run, given the files of its report. *)
Backed(files, record) ==
  /\ files # "none" /\ record.status # "none" =>
       \/ record.status \in {"publishing", "completed"}
       \/ record.status = "failed" /\ record.reason = "publish_incomplete"
  /\ record.status = "completed" => files = "final"

(* Workers are where the status of their run says, and die with the process. *)
WorkersPlaced ==
  /\ phase = "up" => \A r \in Runs : Fits(pc[r], mem[r].status)
  /\ phase # "up" => \A r \in Runs : pc[r] = "none"

(* Rows are backed by files at all times, over crashes and restarts. *)
RowsBacked ==
  \A r \in Runs : Backed(dir[r], disk[r]) /\ (dir[r] # "none" => r \in issued)

(* The report root is set once the service is up, and before that if it was
   given to the constructor. *)
RootIsSet ==
  /\ phase = "up" => rooted
  /\ phase = "loading" /\ RootsAtLoad = {TRUE} => rooted

ServiceInv ==
  /\ IInv
  /\ ServiceTypeOK
  /\ faults = 0
  /\ WorkersPlaced
  /\ RowsBacked
  /\ RootIsSet

-----------------------------------------------------------------------------
(* The service implements the manager *)

(* Each step of the service is a step of the manager or does not concern it. *)
LEMMA ServiceStepsManage ==
  ASSUME [ServiceNext]_svars
  PROVE  [Next]_vars
<1>0. TRUE \in Writes
  BY DEF Writes
<1>1. CASE UNCHANGED svars
  BY <1>1 DEF svars
<1>2. CASE Endpoints
  <2>1. ASSUME NEW r \in Runs \ issued, NEW old \in SUBSET Forgettable,
               CreateRun(r, old) \/ \E p \in issued : CreateRetry(r, p, old)
        PROVE  Admission
    BY <1>0, <2>1 DEF CreateRun, CreateRetry, Admission
  <2>2. ASSUME NEW r \in Runs, RequestCancel(r)
        PROVE  Lifecycle(r)
    BY <2>2 DEF RequestCancel, Lifecycle
  <2> QED
    BY <1>2, <2>1, <2>2 DEF Endpoints, Next
<1>3. CASE Environment
  BY <1>0, <1>3 DEF Environment, WatchdogRound, DeadlinePasses, Next, Admission, Lifecycle, Clock
<1>4. ASSUME NEW r \in Runs, Work(r)
      PROVE  [Next]_vars
  <2>1. ASSUME NEW reason \in {"model_timeout", "worker_error"}, FailRun(r, reason, TRUE)
        PROVE  Lifecycle(r)
    BY <1>0, <2>1 DEF Lifecycle, FailureReasons
  <2>2. Lifecycle(r) \/ Clock(r) \/ UNCHANGED vars
    BY <1>0, <1>4, <2>1
       DEF Work, TakeTask, Begin, Setup, Chunk, CancelDuring, AnalysisReturns, AnalysisRaises,
           CheckStatus, CheckCancel, Cancel, EnterPublishing, ManagerIdle, Lifecycle, Clock
  <2> QED
    BY <2>2 DEF Next
<1>5. ASSUME NEW r \in Runs, Publish(r)
      PROVE  [Next]_vars
  <2>1. ASSUME NEW gate \in BOOLEAN, CompletePublishing(r, gate, TRUE)
        PROVE  Lifecycle(r)
    BY <1>0, <2>1 DEF Lifecycle
  <2>2. FailRun(r, "publish_incomplete", TRUE) => Lifecycle(r)
    BY <1>0 DEF Lifecycle, FailureReasons
  <2>3. Lifecycle(r) \/ UNCHANGED vars
    BY <1>5, <2>1, <2>2 DEF Publish, WriteReport, CommitReport, RenameReport, IndexReport,
                            PublishStep, Finish, PublishRaises, ManagerIdle
  <2> QED
    BY <2>3 DEF Next
<1>6. ASSUME NEW r \in Runs, Recover(r)
      PROVE  Restart
  <2>1. (rooted /\ dir[r] = "final") \in BOOLEAN
    OBVIOUS
  <2> QED
    BY <1>6, <2>1 DEF Recover, Restart
<1>7. CASE ServiceCrash \/ LoadRuns
  BY <1>7 DEF ServiceCrash, LoadRuns, Next, Restart
<1> QED
  BY <1>1, <1>2, <1>3, <1>4, <1>5, <1>6, <1>7 DEF ServiceNext, Next

(* web/runner.py and the endpoints only do with runs what web/manager.py
   offers: whatever is proved of the manager is true of the whole service. *)
THEOREM ServiceImplementsManager == ServiceSpec => Spec
<1>1. ServiceInit => Init
  BY DEF ServiceInit
<1> QED
  BY <1>1, ServiceStepsManage, PTL DEF ServiceSpec, Spec

-----------------------------------------------------------------------------
(* Ways in which the service moves *)

(* Where no write fails, the table holds what the manager holds. *)
LEMMA RowsAreRecords ==
  ASSUME IInv, faults = 0, phase # "down"
  PROVE  mem = disk
BY DEF IInv, TypeOK, MemoryMatchesDisk, MemoryOfPhase

(* The same after a step. *)
LEMMA RowsAreRecordsAfter ==
  ASSUME IInv', faults' = 0, phase' # "down"
  PROVE  mem' = disk'
BY DEF IInv, TypeOK, MemoryMatchesDisk, MemoryOfPhase

(* While the service is up it is enough to look at records, places and files. *)
LEMMA UpIsSafe ==
  ASSUME ServiceInv, IInv', ServiceTypeOK', phase = "up", phase' = "up", faults' = 0,
         rooted' = rooted, issued \subseteq issued',
         \A q \in Runs : /\ Fits(pc'[q], mem'[q].status)
                         /\ Backed(dir'[q], mem'[q])
                         /\ dir'[q] # "none" => q \in issued'
  PROVE  ServiceInv'
<1>1. mem' = disk'
  BY RowsAreRecordsAfter
<1>2. WorkersPlaced'
  BY DEF WorkersPlaced
<1>3. RowsBacked'
  BY <1>1 DEF RowsBacked
<1>4. RootIsSet'
  BY DEF ServiceInv, RootIsSet
<1> QED
  BY <1>2, <1>3, <1>4 DEF ServiceInv

(* What is known of a run before a step, while the service is up. *)
LEMMA UpFacts ==
  ASSUME ServiceInv, phase = "up", NEW q \in Runs
  PROVE  /\ mem[q] \in Record
         /\ Fits(pc[q], mem[q].status)
         /\ Backed(dir[q], mem[q])
         /\ dir[q] # "none" => q \in issued
         /\ dir[q] \in Reports
         /\ pc[q] \in Places
         /\ AssetOf[q] \in Assets
BY RowsAreRecords, AssetAssumption
   DEF ServiceInv, WorkersPlaced, RowsBacked, ServiceTypeOK, TypeOK

(* The worker of r goes to another place; at most its own record and its own
   files change. *)
LEMMA WorkerMoves ==
  ASSUME ServiceInv, IInv', phase = "up",
         UNCHANGED <<phase, faults, issued, rooted>>,
         NEW r \in Runs, NEW place \in Places, Goto(r, place),
         queue' \in Seq(Runs), dir' \in [Runs -> Reports],
         artifacts' \subseteq Runs, checkpoint' \subseteq Assets,
         \A q \in Runs \ {r} : mem'[q] = mem[q] /\ dir'[q] = dir[q],
         Fits(place, mem'[r].status),
         Backed(dir'[r], mem'[r]),
         dir'[r] # "none" => r \in issued
  PROVE  ServiceInv'
<1>1. ServiceTypeOK'
  <2>1. 1 \in 1..MaxCap
    BY BoundsAssumption
  <2>2. /\ pc' \in [Runs -> Places]
        /\ cancelled' \in [Runs -> BOOLEAN]
        /\ home' \in [Runs -> 1..MaxCap]
    BY <2>1 DEF Goto, ServiceInv, ServiceTypeOK
  <2>3. TypeOK'
    BY DEF IInv
  <2> QED
    BY <2>2, <2>3 DEF ServiceInv, ServiceTypeOK
<1>2. faults' = 0
  BY DEF ServiceInv
<1>3. pc[r] \in Places /\ pc' = [pc EXCEPT ![r] = place]
  BY DEF Goto, ServiceInv, ServiceTypeOK
<1>4. ASSUME NEW q \in Runs
      PROVE  /\ Fits(pc'[q], mem'[q].status)
             /\ Backed(dir'[q], mem'[q])
             /\ dir'[q] # "none" => q \in issued'
  <2>1. CASE q = r
    BY <1>3, <2>1 DEF ServiceInv, ServiceTypeOK
  <2>2. CASE q # r
    <3>1. pc'[q] = pc[q]
      BY <1>3, <2>2 DEF ServiceInv, ServiceTypeOK
    <3> QED
      BY <2>2, <3>1, UpFacts
  <2> QED
    BY <2>1, <2>2
<1> QED
  BY <1>1, <1>2, <1>4, UpIsSafe

(* The worker alone moves: to a place that fits the status of its run. *)
LEMMA WorkerAlone ==
  ASSUME ServiceInv, phase = "up", ManagerIdle,
         NEW r \in Runs, NEW place \in Places, Goto(r, place),
         UNCHANGED <<queue, dir, rooted>>,
         artifacts' \subseteq Runs, checkpoint' \subseteq Assets,
         Fits(place, mem[r].status)
  PROVE  ServiceInv'
<1>1. [Next]_vars /\ UNCHANGED <<phase, faults, issued, mem>>
  BY DEF ManagerIdle, vars
<1>2. IInv'
  BY <1>1, StepIsSafe DEF ServiceInv
<1>3. queue' \in Seq(Runs) /\ dir' \in [Runs -> Reports]
  BY DEF ServiceInv, ServiceTypeOK
<1> QED
  BY <1>1, <1>2, <1>3, UpFacts, WorkerMoves

(* The worker moves and writes the record of its run. *)
LEMMA WorkerWrites ==
  ASSUME ServiceInv, phase = "up", [Next]_vars,
         UNCHANGED <<phase, faults, issued>>,
         NEW r \in Runs, NEW place \in Places, Goto(r, place),
         QueueIdle, FilesIdle,
         NEW record, mem' = [mem EXCEPT ![r] = record],
         Fits(place, record.status),
         Backed(dir[r], record)
  PROVE  ServiceInv'
<1>1. IInv'
  BY StepIsSafe DEF ServiceInv
<1>2. /\ queue' \in Seq(Runs) /\ dir' \in [Runs -> Reports]
      /\ artifacts' \subseteq Runs /\ checkpoint' \subseteq Assets
      /\ UNCHANGED <<dir, rooted>>
  BY DEF ServiceInv, ServiceTypeOK, QueueIdle, FilesIdle
<1>3. mem'[r] = record /\ \A q \in Runs \ {r} : mem'[q] = mem[q]
  BY DEF ServiceInv, IInv, TypeOK
<1> QED
  BY <1>1, <1>2, <1>3, UpFacts, WorkerMoves

(* A sequence without one of its elements is a sequence of the same kind. *)
LEMMA RemoveAtType ==
  ASSUME NEW S, NEW s \in Seq(S), NEW i \in 1..Len(s)
  PROVE  RemoveAt(s, i) \in Seq(S)
<1>1. SubSeq(s, 1, i - 1) \in Seq(S) /\ SubSeq(s, i + 1, Len(s)) \in Seq(S)
  <2>1. \A j \in 1..Len(s) : s[j] \in S
    BY ElementOfSeq
  <2>2. Len(s) \in Nat
    OBVIOUS
  <2> QED
    BY <2>1, <2>2, SubSeqProperties
<1> QED
  BY <1>1, ConcatProperties DEF RemoveAt

(* The worker ends its run and is through. *)
LEMMA WorkerEnds ==
  ASSUME ServiceInv, phase = "up", [Next]_vars,
         NEW r \in Runs, NEW status \in Terminal, NEW reason,
         EndRun(r, status, reason, TRUE),
         Goto(r, "done"), QueueIdle, FilesIdle,
         \/ dir[r] = "none" /\ status # "completed"
         \/ status = "failed" /\ reason = "publish_incomplete"
         \/ status = "completed" /\ dir[r] = "final"
  PROVE  ServiceInv'
<1> DEFINE record == [mem[r] EXCEPT !.status = status, !.reason = reason]
<1>1. mem' = [mem EXCEPT ![r] = record] /\ UNCHANGED <<phase, faults, issued>>
  BY DEF EndRun, Persist
<1>2. record.status = status /\ record.reason = reason
  BY UpFacts DEF Record
<1>3. Fits("done", status) /\ "done" \in Places
  BY DEF Fits, Terminal, Working, Publishing, Places
<1>4. Backed(dir[r], record)
  BY <1>2 DEF Backed
<1> HIDE DEF record
<1> QED
  BY <1>1, <1>2, <1>3, <1>4, WorkerWrites

-----------------------------------------------------------------------------
(* The worker's steps *)

(* A thread takes the task of a run, in whatever state the run is. *)
LEMMA TakeTaskIsSafe ==
  ASSUME ServiceInv, NEW r \in Runs, TakeTask(r), [Next]_vars
  PROVE  ServiceInv'
<1> USE DEF TakeTask
<1>1. pc[r] = "submitted" /\ phase = "up"
  BY DEF ServiceInv, WorkersPlaced
<1>2. queue' \in Seq(Runs)
  BY RemoveAtType DEF ServiceInv, ServiceTypeOK
<1>3. UNCHANGED <<phase, faults, issued, mem>>
  BY DEF StartLease, ManagerIdle, vars
<1>4. /\ dir' \in [Runs -> Reports] /\ artifacts' \subseteq Runs /\ checkpoint' \subseteq Assets
      /\ UNCHANGED <<dir, rooted>>
  BY DEF ServiceInv, ServiceTypeOK, FilesIdle
<1> DEFINE place == IF Known(r) THEN "taken" ELSE "done"
<1>5. place \in Places /\ Fits(place, mem[r].status) /\ Goto(r, place)
  BY <1>1, UpFacts DEF Fits, Known, Places, Busy, Working, Publishing
<1>6. IInv'
  BY StepIsSafe DEF ServiceInv
<1> HIDE DEF place
<1> QED
  BY <1>1, <1>2, <1>3, <1>4, <1>5, <1>6, UpFacts, WorkerMoves

(* begin_run, and the bookkeeping of the checkpoint. *)
LEMMA BeginIsSafe ==
  ASSUME ServiceInv, NEW r \in Runs, Begin(r) \/ Setup(r), [Next]_vars
  PROVE  ServiceInv'
<1> USE DEF Places, Busy, Working, Publishing, Fits
<1>1. CASE Begin(r)
  <2> USE <1>1 DEF Begin, WorkerStep, Status
  <2>1. CASE mem[r].status = "queued"
    <3> DEFINE record == [mem[r] EXCEPT !.status = "running"]
    <3>1. /\ mem' = [mem EXCEPT ![r] = record] /\ UNCHANGED <<phase, faults, issued>>
          /\ Goto(r, "setup")
      BY <2>1 DEF BeginRun, Persist
    <3>2. record.status = "running"
      BY UpFacts DEF Record
    <3>3. Backed(dir[r], record) /\ Fits("setup", record.status)
      BY <2>1, <3>2, UpFacts DEF Backed
    <3>4. phase = "up" /\ QueueIdle /\ FilesIdle /\ "setup" \in Places
      OBVIOUS
    <3> HIDE <1>1 DEF record, Places, Busy, Working, Publishing, Fits, Begin, WorkerStep, Status
    <3> QED
      BY <3>1, <3>3, <3>4, WorkerWrites
  <2>2. CASE mem[r].status # "queued"
    <3>1. ManagerIdle /\ Goto(r, "done") /\ UNCHANGED <<queue, dir, rooted, artifacts, checkpoint>>
      BY <2>2 DEF QueueIdle, FilesIdle
    <3>2. Fits("done", mem[r].status)
      BY <2>2, UpFacts
    <3> QED
      BY <3>1, <3>2, WorkerAlone DEF ServiceInv, ServiceTypeOK
  <2> QED
    BY <2>1, <2>2
<1>2. CASE Setup(r)
  <2>0. phase = "up"
    BY <1>2 DEF Setup, ServiceInv, WorkersPlaced
  <2>1. CASE Known(r)
    <3> DEFINE record == [mem[r] EXCEPT !.resume = TRUE]
    <3>1. /\ mem' = [mem EXCEPT ![r] = record] /\ UNCHANGED <<phase, faults, issued>>
          /\ Goto(r, "analysing") /\ QueueIdle /\ FilesIdle
      BY <1>2, <2>1 DEF Setup, SetCheckpoint, Persist
    <3>2. record.status = mem[r].status /\ record.reason = mem[r].reason
      BY <2>0, UpFacts DEF Record
    <3>3. Backed(dir[r], record) /\ Fits("analysing", record.status)
      BY <1>2, <2>0, <3>2, UpFacts DEF Setup, Backed
    <3> HIDE DEF record
    <3> QED
      BY <2>0, <3>1, <3>2, <3>3, WorkerWrites
  <2>2. CASE ~Known(r)
    <3>1. ManagerIdle /\ Goto(r, "done") /\ UNCHANGED <<queue, dir, rooted, artifacts, checkpoint>>
      BY <1>2, <2>2 DEF Setup, QueueIdle, FilesIdle
    <3>2. Fits("done", mem[r].status)
      BY <2>2 DEF Known
    <3> QED
      BY <2>0, <3>1, <3>2, WorkerAlone DEF ServiceInv, ServiceTypeOK
  <2> QED
    BY <2>1, <2>2
<1> QED
  BY <1>1, <1>2

(* What happens inside and after graph.propagate changes no record. *)
LEMMA AnalysisIsSafe ==
  ASSUME ServiceInv, NEW r \in Runs,
         Chunk(r) \/ CancelDuring(r) \/ AnalysisReturns(r) \/ CheckStatus(r) \/ CheckCancel(r)
  PROVE  ServiceInv'
<1> USE DEF Places, Busy, Working, Publishing, WorkerStep
<1>0. phase = "up" /\ ManagerIdle /\ UNCHANGED <<queue, dir, rooted>>
  BY DEF Chunk, CancelDuring, AnalysisReturns, CheckStatus, CheckCancel, QueueIdle, FilesIdle
<1>1. pc[r] \in {"analysing", "returned", "checked"}
  BY DEF Chunk, CancelDuring, AnalysisReturns, CheckStatus, CheckCancel
<1>2. mem[r].status \notin {"queued", "publishing"}
  BY <1>0, <1>1, UpFacts DEF Fits
<1>3. artifacts' \subseteq Runs /\ checkpoint' \subseteq Assets
  BY <1>0, UpFacts DEF Chunk, CancelDuring, AnalysisReturns, CheckStatus, CheckCancel, FilesIdle,
         ServiceInv, ServiceTypeOK
<1>4. \A place \in {"analysing", "returned", "checked", "cancelling", "entering"} :
        Fits(place, mem[r].status) /\ place \in Places
  BY <1>2 DEF Fits
<1>5. mem[r].status # "running" => Fits("done", mem[r].status)
  BY <1>2 DEF Fits
<1>6. PICK place \in {"analysing", "returned", "checked", "cancelling", "entering", "done"} :
        Goto(r, place) /\ (place = "done" => mem[r].status # "running")
  <2>1. CASE CheckCancel(r)
    <3>1. CASE ~Known(r)
      BY <2>1, <3>1 DEF CheckCancel, Known
    <3>2. CASE Known(r) /\ cancelled[r]
      BY <2>1, <3>2 DEF CheckCancel
    <3>3. CASE Known(r) /\ ~cancelled[r]
      BY <2>1, <3>3 DEF CheckCancel
    <3> QED
      BY <3>1, <3>2, <3>3
  <2>2. CASE Chunk(r) \/ CancelDuring(r) \/ AnalysisReturns(r) \/ CheckStatus(r)
    BY <2>2 DEF Chunk, CancelDuring, AnalysisReturns, CheckStatus, Known, Status
  <2> QED
    BY <2>1, <2>2
<1>7. place \in Places /\ Fits(place, mem[r].status)
  BY <1>4, <1>5, <1>6
<1> QED
  BY <1>0, <1>3, <1>6, <1>7, WorkerAlone

(* An acknowledged cancellation, or an analysis that raises: the run of a
   worker that has not entered publication has no files yet. *)
LEMMA StoppedIsSafe ==
  ASSUME ServiceInv, NEW r \in Runs, [Next]_vars,
         Cancel(r) \/ \E reason \in {"model_timeout", "worker_error"} : AnalysisRaises(r, reason)
  PROVE  ServiceInv'
<1>1. /\ phase = "up" /\ pc[r] \in {"cancelling", "analysing"}
      /\ Goto(r, "done") /\ QueueIdle /\ FilesIdle
  BY DEF Cancel, AnalysisRaises, WorkerStep
<1>2. Fits(pc[r], mem[r].status) /\ Backed(dir[r], mem[r]) /\ mem[r] \in Record
  BY <1>1, UpFacts
<1>3. mem[r].status \notin {"queued", "publishing"}
  BY <1>1, <1>2 DEF Fits, Publishing
<1>4. ASSUME NEW status \in Terminal \ {"completed"}, NEW reason, mem[r].status \in Unfinished,
             EndRun(r, status, reason, TRUE)
      PROVE  ServiceInv'
  <2>1. mem[r].status = "running"
    BY <1>3, <1>4 DEF Unfinished, Live
  <2>2. dir[r] = "none"
    BY <1>2, <2>1 DEF Backed
  <2> QED
    BY <1>1, <1>4, <2>2, WorkerEnds
<1>5. ASSUME mem[r].status \notin Live, ManagerIdle
      PROVE  ServiceInv'
  <2>1. Fits("done", mem[r].status) /\ "done" \in Places
    BY <1>3, <1>5 DEF Fits, Live, Places, Publishing, Working
  <2> QED
    BY <1>1, <1>5, <2>1, WorkerAlone DEF QueueIdle, FilesIdle, ServiceInv, ServiceTypeOK
<1>6. CASE Cancel(r)
  <2>1. "cancelled" \in Terminal \ {"completed"}
    BY DEF Terminal
  <2> QED
    BY <1>4, <1>5, <1>6, <2>1 DEF Cancel, CancelRun, Status, Unfinished
<1>7. ASSUME NEW reason \in {"model_timeout", "worker_error"}, AnalysisRaises(r, reason)
      PROVE  ServiceInv'
  <2>1. "failed" \in Terminal \ {"completed"}
    BY DEF Terminal
  <2> QED
    BY <1>4, <1>5, <1>7, <2>1 DEF AnalysisRaises, FailRun, Status, Unfinished
<1> QED
  BY <1>6, <1>7

(* begin_publishing: the run of a worker that enters has no files yet. *)
LEMMA EnterPublishingIsSafe ==
  ASSUME ServiceInv, NEW r \in Runs, EnterPublishing(r), [Next]_vars
  PROVE  ServiceInv'
<1>1. phase = "up" /\ pc[r] = "entering" /\ QueueIdle /\ FilesIdle
  BY DEF EnterPublishing, WorkerStep
<1>2. Fits(pc[r], mem[r].status) /\ Backed(dir[r], mem[r]) /\ mem[r] \in Record
  BY <1>1, UpFacts
<1>3. CASE mem[r].status = "running"
  <2> DEFINE record == [mem[r] EXCEPT !.status = "publishing"]
  <2>1. /\ mem' = [mem EXCEPT ![r] = record] /\ UNCHANGED <<phase, faults, issued>>
        /\ Goto(r, "writing")
    BY <1>3 DEF EnterPublishing, Status, BeginPublishing, Persist
  <2>2. record.status = "publishing"
    BY <1>2 DEF Record
  <2>3. Backed(dir[r], record) /\ Fits("writing", record.status) /\ "writing" \in Places
    BY <2>2, <1>2, <1>3 DEF Backed, Fits, Publishing, Places, Busy, Working
  <2> HIDE DEF record
  <2> QED
    BY <1>1, <2>1, <2>3, WorkerWrites
<1>4. CASE mem[r].status # "running"
  <2>1. ManagerIdle /\ Goto(r, "done")
    BY <1>4 DEF EnterPublishing, Status
  <2>2. Fits("done", mem[r].status) /\ "done" \in Places
    BY <1>1, <1>2, <1>4 DEF Fits, Publishing, Places, Working
  <2> QED
    BY <1>1, <2>1, <2>2, WorkerAlone DEF QueueIdle, FilesIdle, ServiceInv, ServiceTypeOK
<1> QED
  BY <1>3, <1>4

(* Every step of a publication: the files are behind the record until the
   verdict, and the verdict looks at the files. *)
LEMMA PublishIsSafe ==
  ASSUME ServiceInv, NEW r \in Runs, Publish(r), [Next]_vars
  PROVE  ServiceInv'
<1>1. pc[r] \in Publishing /\ phase = "up"
  BY DEF Publish, WriteReport, CommitReport, RenameReport, IndexReport, PublishStep, Finish,
         PublishRaises, Publishing, ServiceInv, WorkersPlaced
<1>2. mem[r].status = "publishing" /\ mem[r] \in Record /\ r \in issued
  <2>1. mem[r].status = "publishing" /\ mem[r] \in Record
    BY <1>1, UpFacts DEF Fits
  <2>2. mem[r] # NoRecord
    BY <2>1 DEF NoRecord
  <2> QED
    BY <2>1, <2>2 DEF ServiceInv, IInv, RecordsIssued
<1>3. ASSUME NEW from, NEW files \in Reports, NEW to \in Publishing, PublishStep(r, from, files, to)
      PROVE  ServiceInv'
  <2>1. /\ dir' = [dir EXCEPT ![r] = files] /\ Goto(r, to)
        /\ UNCHANGED <<phase, faults, issued, mem, rooted, queue, artifacts, checkpoint>>
    BY <1>3 DEF PublishStep, ManagerIdle, QueueIdle, vars
  <2>2. /\ dir' \in [Runs -> Reports] /\ queue' \in Seq(Runs)
        /\ artifacts' \subseteq Runs /\ checkpoint' \subseteq Assets
        /\ \A q \in Runs \ {r} : dir'[q] = dir[q]
    BY <2>1 DEF ServiceInv, ServiceTypeOK
  <2>3. to \in Places /\ Fits(to, mem'[r].status)
    BY <1>2, <2>1 DEF Places, Busy, Working, Publishing, Fits
  <2>4. Backed(dir'[r], mem'[r])
    BY <1>2, <2>1 DEF Backed
  <2>5. IInv'
    BY StepIsSafe DEF ServiceInv
  <2> QED
    BY <1>1, <1>2, <2>1, <2>2, <2>3, <2>4, <2>5, WorkerMoves
<1>4. CASE WriteReport(r) \/ CommitReport(r) \/ RenameReport(r) \/ IndexReport(r)
  <2>1. /\ {"temporary", "committed", "final", dir[r]} \subseteq Reports
        /\ {"committing", "renaming", "indexing", "finishing"} \subseteq Publishing
    BY <1>1, UpFacts DEF Reports, Publishing
  <2> QED
    BY <1>3, <1>4, <2>1 DEF WriteReport, CommitReport, RenameReport, IndexReport
<1>5. CASE Finish(r)
  <2>1. {"completed", "failed"} \subseteq Terminal
    BY DEF Terminal
  <2> QED
    BY <1>1, <1>5, <2>1, WorkerEnds DEF Finish, CompletePublishing
<1>6. CASE PublishRaises(r)
  <2>1. "failed" \in Terminal
    BY DEF Terminal
  <2> QED
    BY <1>1, <1>6, <2>1, WorkerEnds DEF PublishRaises, FailRun
<1> QED
  BY <1>4, <1>5, <1>6 DEF Publish

(* Every step of a worker before publication. *)
LEMMA WorkIsSafe ==
  ASSUME ServiceInv, NEW r \in Runs, Work(r), [Next]_vars
  PROVE  ServiceInv'
BY TakeTaskIsSafe, BeginIsSafe, AnalysisIsSafe, StoppedIsSafe, EnterPublishingIsSafe DEF Work

-----------------------------------------------------------------------------
(* Endpoints, clocks and the watchdog *)

(* A run is admitted together with its task; ended runs may be forgotten. *)
LEMMA CreateIsSafe ==
  ASSUME ServiceInv, NEW r \in Runs \ issued, NEW old, old \subseteq Forgettable,
         CreateRun(r, old) \/ \E p \in issued : CreateRetry(r, p, old),
         [Next]_vars
  PROVE  ServiceInv'
<1>1. PICK record : record.status = "queued" /\ AdmitRun(r, record, old, TRUE)
  BY DEF CreateRun, CreateRetry, StartRun, RetryRun, NewRecord
<1>2. Submit(r)
  BY DEF CreateRun, CreateRetry
<1>3. /\ phase = "up" /\ UNCHANGED <<phase, faults>> /\ issued' = issued \cup {r}
      /\ mem' = [Without(mem, old, NoRecord) EXCEPT ![r] = record]
  BY <1>1 DEF AdmitRun, Persist
<1>4. IInv'
  BY StepIsSafe DEF ServiceInv
<1>5. pc' = [pc EXCEPT ![r] = "submitted"] /\ UNCHANGED <<dir, rooted>>
  BY <1>2 DEF Submit, FilesIdle
<1>6. ServiceTypeOK'
  <2>1. TypeOK' /\ pool' \in 1..MaxCap
    BY <1>4 DEF IInv, TypeOK
  <2>2. queue' \in Seq(Runs)
    BY <1>2, AppendProperties DEF Submit, ServiceInv, ServiceTypeOK
  <2> QED
    BY <1>2, <2>1, <2>2 DEF Submit, FilesIdle, ServiceInv, ServiceTypeOK, Places
<1>7. ASSUME NEW q \in Runs
      PROVE  /\ Fits(pc'[q], mem'[q].status)
             /\ Backed(dir'[q], mem'[q])
             /\ dir'[q] # "none" => q \in issued'
  <2>1. CASE q = r
    <3>1. dir[r] = "none"
      BY <1>3, UpFacts
    <3>2. pc'[r] = "submitted" /\ mem'[r] = record
      BY <1>3, <1>5 DEF Without, ServiceInv, ServiceTypeOK
    <3>3. Fits("submitted", "queued") /\ Backed("none", record)
      BY <1>1 DEF Fits, Backed, Publishing
    <3> QED
      BY <1>1, <1>5, <2>1, <3>1, <3>2, <3>3
  <2>2. CASE q # r
    <3>1. pc'[q] = pc[q] /\ mem'[q] = IF q \in old THEN NoRecord ELSE mem[q]
      BY <1>3, <1>5, <2>2 DEF Without, ServiceInv, ServiceTypeOK
    <3>2. CASE q \in old
      <4>1. mem[q].status \in Terminal
        BY <3>2 DEF Forgettable
      <4>2. Fits(pc[q], "none") /\ Backed(dir[q], NoRecord)
        BY <1>3, <4>1, UpFacts DEF Fits, Backed, NoRecord, Terminal
      <4> QED
        BY <1>3, <1>5, <3>1, <3>2, <4>2, UpFacts DEF NoRecord
    <3>3. CASE q \notin old
      BY <1>3, <1>5, <3>1, <3>3, UpFacts
    <3> QED
      BY <3>2, <3>3
  <2> QED
    BY <2>1, <2>2
<1> QED
  BY <1>3, <1>4, <1>5, <1>6, <1>7, UpIsSafe DEF ServiceInv

(* Runs end without their workers or are forgotten: the workers find out. *)
LEMMA WorkersStay ==
  ASSUME ServiceInv, [Next]_vars, phase = "up",
         UNCHANGED <<phase, faults, issued>>,
         UNCHANGED <<pc, home, queue, dir, artifacts, checkpoint, rooted>>,
         cancelled' \in [Runs -> BOOLEAN],
         \A q \in Runs :
           \/ mem'[q] = mem[q]
           \/ mem[q].status \in Live /\ mem'[q].status \in {"timed_out", "interrupted"}
           \/ mem[q].status \in Terminal /\ mem'[q] = NoRecord
  PROVE  ServiceInv'
<1>1. IInv'
  BY StepIsSafe DEF ServiceInv
<1>2. ServiceTypeOK'
  BY <1>1 DEF ServiceInv, ServiceTypeOK, IInv
<1>3. ASSUME NEW q \in Runs
      PROVE  Fits(pc[q], mem'[q].status) /\ Backed(dir[q], mem'[q])
  <2>1. Fits(pc[q], mem[q].status) /\ Backed(dir[q], mem[q])
    BY UpFacts
  <2>2. CASE mem[q].status \in Live /\ mem'[q].status \in {"timed_out", "interrupted"}
    BY <2>1, <2>2 DEF Fits, Backed, Live
  <2>3. CASE mem[q].status \in Terminal /\ mem'[q] = NoRecord
    BY <2>1, <2>3 DEF Fits, Backed, Terminal, NoRecord
  <2> QED
    BY <2>1, <2>2, <2>3
<1>4. \A q \in Runs : dir'[q] # "none" => q \in issued'
  BY UpFacts
<1> QED
  BY <1>1, <1>2, <1>3, <1>4, UpIsSafe DEF ServiceInv

(* A clock passes a deadline or the heartbeat's; also while the service loads. *)
LEMMA ClockTicks ==
  ASSUME ServiceInv, NEW r \in Runs, PassDeadline(r) \/ Lapse(r), WorkersIdle, [Next]_vars
  PROVE  ServiceInv'
<1>1. UNCHANGED <<phase, mem, disk, issued, faults>>
  BY DEF PassDeadline, Lapse
<1>2. IInv'
  BY StepIsSafe DEF ServiceInv
<1> USE DEF WorkersIdle, QueueIdle, FilesIdle
<1>3. ServiceTypeOK'
  BY <1>2 DEF ServiceInv, ServiceTypeOK, IInv
<1> QED
  BY <1>1, <1>2, <1>3 DEF ServiceInv, WorkersPlaced, RowsBacked, RootIsSet

(* What happens to runs without their workers. *)
LEMMA EnvironmentIsSafe ==
  ASSUME ServiceInv, Environment \/ \E r \in Runs : RequestCancel(r), [Next]_vars
  PROVE  ServiceInv'
<1> USE DEF WorkersIdle, QueueIdle, FilesIdle
<1>0. /\ mem \in [Runs -> Record]
      /\ cancelled \in [Runs -> BOOLEAN]
  BY DEF ServiceInv, ServiceTypeOK, TypeOK
<1>1. ASSUME NEW r \in Runs, RequestCancel(r)
      PROVE  ServiceInv'
  BY <1>0, <1>1, WorkersStay DEF RequestCancel, Touch
<1>2. CASE WatchdogRound
  <2> DEFINE due == {r \in Runs : Due(r)}
  <2>1. /\ phase = "up" /\ UNCHANGED <<phase, issued, faults>>
        /\ mem' = [r \in Runs |-> IF r \in due
                     THEN [mem[r] EXCEPT !.status = ExpiryStatus(r), !.reason = ExpiryReason(r)]
                     ELSE mem[r]]
    BY <1>2 DEF WatchdogRound, Watchdog
  <2>2. \A q \in due : mem[q].status \in Live
    BY DEF Due
  <2>3. \A q \in due : mem'[q].status \in {"timed_out", "interrupted"}
    BY <1>0, <2>1 DEF Record, ExpiryStatus
  <2>4. \A q \in Runs : q \notin due => mem'[q] = mem[q]
    BY <2>1
  <2> HIDE DEF due
  <2> QED
    BY <1>0, <1>2, <2>1, <2>2, <2>3, <2>4, WorkersStay DEF WatchdogRound
<1>3. ASSUME NEW r \in Runs, CheckExpired(r, TRUE), WorkersIdle
      PROVE  ServiceInv'
  <2> DEFINE record == [mem[r] EXCEPT !.status = ExpiryStatus(r), !.reason = ExpiryReason(r)]
  <2>1. /\ phase = "up" /\ UNCHANGED <<phase, issued, faults>>
        /\ mem' = [mem EXCEPT ![r] = record]
    BY <1>3 DEF CheckExpired, EndRun, Persist
  <2>2. record.status \in {"timed_out", "interrupted"} /\ mem[r].status \in Live
    BY <1>0, <1>3 DEF Record, ExpiryStatus, CheckExpired, Due
  <2> HIDE DEF record
  <2> QED
    BY <1>0, <1>3, <2>1, <2>2, WorkersStay
<1>4. ASSUME NEW old \in SUBSET Forgettable, Cleanup(old), WorkersIdle
      PROVE  ServiceInv'
  <2>1. /\ phase = "up" /\ UNCHANGED <<phase, issued, faults>>
        /\ mem' = Without(mem, old, NoRecord)
    BY <1>4 DEF Cleanup, ForgetRuns
  <2>2. \A q \in Runs : mem'[q] = mem[q] \/ (mem[q].status \in Terminal /\ mem'[q] = NoRecord)
    BY <2>1 DEF Without, Forgettable
  <2> QED
    BY <1>0, <1>4, <2>1, <2>2, WorkersStay
<1>5. ASSUME NEW n \in 1..MaxCap, ConfigureCap(n), WorkersIdle
      PROVE  ServiceInv'
  BY <1>0, <1>5, WorkersStay DEF ConfigureCap
<1>6. ASSUME NEW r \in Runs, RenewLease(r), WorkersIdle
      PROVE  ServiceInv'
  BY <1>0, <1>6, WorkersStay DEF RenewLease, StartLease
<1>7. ASSUME NEW r \in Runs, DeadlinePasses(r) \/ (Lapse(r) /\ WorkersIdle)
      PROVE  ServiceInv'
  BY <1>7, ClockTicks DEF DeadlinePasses
<1> QED
  BY <1>1, <1>2, <1>3, <1>4, <1>5, <1>6, <1>7 DEF Environment

-----------------------------------------------------------------------------
(* Crash and restart *)

(* The process dies: rows and files stay as they are. *)
LEMMA ServiceCrashIsSafe ==
  ASSUME ServiceInv, ServiceCrash, [Next]_vars
  PROVE  ServiceInv'
<1> USE DEF ServiceCrash, Crash
<1>1. IInv'
  BY StepIsSafe DEF ServiceInv
<1>2. ServiceTypeOK'
  <2>1. 1 \in 1..MaxCap /\ "none" \in Places
    BY BoundsAssumption DEF Places
  <2>2. queue' \in Seq(Runs) /\ TypeOK'
    BY <1>1, EmptySeq DEF IInv
  <2> QED
    BY <2>1, <2>2 DEF ServiceInv, ServiceTypeOK
<1>3. WorkersPlaced' /\ RowsBacked' /\ RootIsSet'
  BY DEF ServiceInv, WorkersPlaced, RowsBacked, RootIsSet
<1> QED
  BY <1>1, <1>2, <1>3 DEF ServiceInv

(* The constructor reads the table and, when every run has a verdict, ends. *)
LEMMA LoadRunsIsSafe ==
  ASSUME ServiceInv, LoadRuns, [Next]_vars
  PROVE  ServiceInv'
<1> USE DEF QueueIdle
<1>1. IInv'
  BY StepIsSafe DEF ServiceInv
<1>2. UNCHANGED <<pc, queue, cancelled, home, dir, artifacts, checkpoint, faults, issued>>
  BY DEF LoadRuns, Load, FinishLoad
<1>3. ServiceTypeOK'
  BY <1>1, <1>2, RootsAssumption DEF LoadRuns, ServiceInv, ServiceTypeOK, IInv
<1>4. CASE Load
  <2>1. phase = "down" /\ phase' = "loading" /\ UNCHANGED disk /\ rooted' \in RootsAtLoad
    BY <1>4 DEF Load, LoadRuns, FinishLoad
  <2>2. RootIsSet'
    <3>1. RootsAtLoad = {TRUE} => rooted'
      BY <2>1
    <3> QED
      BY <2>1, <3>1 DEF RootIsSet
  <2>3. WorkersPlaced' /\ RowsBacked'
    BY <1>2, <2>1 DEF ServiceInv, WorkersPlaced, RowsBacked
  <2> QED
    BY <1>1, <1>2, <1>3, <2>2, <2>3 DEF ServiceInv
<1>5. CASE FinishLoad
  <2>1. /\ phase = "loading" /\ phase' = "up" /\ rooted'
        /\ \A r \in Runs : mem[r].status \notin Unfinished
        /\ mem' = [r \in Runs |-> Normalised(mem[r])] /\ disk' = mem'
    BY <1>5 DEF LoadRuns, Load, FinishLoad
  <2>2. mem = disk
    BY <2>1, RowsAreRecords DEF ServiceInv
  <2>3. ASSUME NEW q \in Runs
        PROVE  Fits(pc'[q], mem'[q].status) /\ Backed(dir'[q], mem'[q])
    <3>1. /\ mem[q] \in Record /\ mem[q].status \notin Unfinished
          /\ pc[q] = "none" /\ Backed(dir[q], mem[q])
      BY <2>1, <2>2 DEF ServiceInv, IInv, TypeOK, WorkersPlaced, RowsBacked
    <3>2. mem'[q] = Normalised(mem[q]) /\ mem'[q].status = mem[q].status
      BY <2>1, <3>1, NormalisedRecord
    <3>3. mem[q].status = "failed" => mem'[q].reason = mem[q].reason
      BY <3>1, <3>2 DEF Normalised, Record
    <3>4. Fits("none", mem[q].status)
      BY <3>1 DEF Fits, Publishing, Unfinished, Live
    <3> QED
      BY <1>2, <3>1, <3>2, <3>3, <3>4 DEF Backed
  <2> QED
    BY <1>1, <1>2, <1>3, <2>1, <2>3 DEF ServiceInv, WorkersPlaced, RowsBacked, RootIsSet
<1> QED
  BY <1>4, <1>5 DEF LoadRuns

(* Recovery ends an unfinished run as its files say; without a report root it
   finds none. *)
LEMMA RecoverIsSafe ==
  ASSUME ServiceInv, NEW r \in Runs, Recover(r), [Next]_vars
  PROVE  ServiceInv'
<1> USE DEF QueueIdle
<1> DEFINE found == rooted /\ dir[r] = "final"
<1>1. IInv'
  BY StepIsSafe DEF ServiceInv
<1>2. /\ phase = "loading" /\ UNCHANGED <<phase, faults, issued>>
      /\ UNCHANGED <<pc, queue, cancelled, home, artifacts, checkpoint, rooted>>
  BY DEF Recover, RecoverRun, EndRun, Persist
<1>3. /\ \A q \in Runs \ {r} : dir'[q] = dir[q]
      /\ dir' \in [Runs -> Reports]
      /\ dir'[r] # "none" => dir[r] # "none"
      /\ dir'[r] = dir[r] \/ (mem[r].status = "publishing" /\ ~found)
  BY DEF Recover, ServiceInv, ServiceTypeOK, Reports, Status
<1>4. ServiceTypeOK'
  BY <1>1, <1>2, <1>3 DEF ServiceInv, ServiceTypeOK, IInv
<1>5. mem = disk /\ mem' = disk'
  <2>1. phase # "down" /\ phase' # "down" /\ IInv /\ faults = 0 /\ faults' = 0
    BY <1>2 DEF ServiceInv
  <2> QED
    BY <1>1, <2>1, RowsAreRecords, RowsAreRecordsAfter
<1>6. mem[r] \in Record /\ Backed(dir[r], mem[r]) /\ mem \in [Runs -> Record]
  BY <1>5 DEF ServiceInv, RowsBacked, IInv, TypeOK
<1>7. /\ \A q \in Runs \ {r} : mem'[q] = mem[q]
      /\ \/ mem[r].status = "publishing" /\ found /\ mem'[r].status = "completed"
         \/ /\ mem[r].status = "publishing" /\ ~found
            /\ mem'[r].status = "failed" /\ mem'[r].reason = "publish_incomplete"
         \/ mem[r].status \in Live /\ mem'[r].status = "interrupted"
  <2>1. ASSUME NEW status, NEW reason, EndRun(r, status, reason, TRUE)
        PROVE  /\ \A q \in Runs \ {r} : mem'[q] = mem[q]
               /\ mem'[r].status = status /\ mem'[r].reason = reason
    BY <1>6, <2>1 DEF EndRun, Record
  <2> QED
    BY <2>1 DEF Recover, RecoverRun
<1>8. Backed(dir'[r], mem'[r])
  BY <1>3, <1>6, <1>7 DEF Backed, Live
<1>9. RowsBacked'
  BY <1>2, <1>3, <1>5, <1>7, <1>8 DEF ServiceInv, RowsBacked
<1> QED
  BY <1>1, <1>2, <1>4, <1>9 DEF ServiceInv, WorkersPlaced, RootIsSet

-----------------------------------------------------------------------------
(* The inductive invariant holds initially and is kept by every step. *)

(* A new service satisfies the invariant. *)
LEMMA InitServiceInv == ServiceInit => ServiceInv
<1> SUFFICES ASSUME ServiceInit PROVE ServiceInv
  OBVIOUS
<1> USE DEF ServiceInit
<1>1. IInv
  BY InitInv
<1>2. ServiceTypeOK
  <2>1. 1 \in 1..MaxCap /\ {"none"} \subseteq Places \cap Reports
    BY BoundsAssumption DEF Places, Reports
  <2>2. queue \in Seq(Runs) /\ TypeOK
    BY <1>1, EmptySeq DEF IInv
  <2> QED
    BY <2>1, <2>2 DEF ServiceTypeOK
<1>3. WorkersPlaced /\ RowsBacked
  <2>1. Fits("none", NoRecord.status) /\ Backed("none", NoRecord)
    BY DEF Fits, Backed, NoRecord, Publishing
  <2> QED
    BY <2>1 DEF Init, WorkersPlaced, RowsBacked
<1> QED
  BY <1>1, <1>2, <1>3 DEF Init, ServiceInv, RootIsSet

(* Every step of the service keeps the invariant. *)
LEMMA ServiceStepIsSafe ==
  ASSUME ServiceInv, [ServiceNext]_svars
  PROVE  ServiceInv'
<1>0. [Next]_vars
  BY ServiceStepsManage
<1>1. CASE UNCHANGED svars
  <2>1. IInv'
    BY <1>0, StepIsSafe DEF ServiceInv
  <2>2. UNCHANGED <<phase, mem, disk, issued, faults, crashes>>
    BY <1>1 DEF svars, vars
  <2>3. ServiceTypeOK'
    BY <1>1, <2>1 DEF svars, ServiceInv, ServiceTypeOK, IInv
  <2> QED
    BY <1>1, <2>1, <2>2, <2>3 DEF svars, ServiceInv, WorkersPlaced, RowsBacked, RootIsSet
<1>2. CASE Endpoints
  BY <1>0, <1>2, CreateIsSafe, EnvironmentIsSafe DEF Endpoints
<1>3. CASE ServiceNext /\ ~Endpoints
  BY <1>0, <1>3, EnvironmentIsSafe, WorkIsSafe, PublishIsSafe, RecoverIsSafe, ServiceCrashIsSafe,
     LoadRunsIsSafe DEF ServiceNext
<1> QED
  BY <1>1, <1>2, <1>3

(* The inductive invariant holds at all times. *)
LEMMA ServiceInvHolds == ServiceSpec => []ServiceInv
  BY InitServiceInv, ServiceStepIsSafe, PTL DEF ServiceSpec

-----------------------------------------------------------------------------
(* Theorems *)

(* Every variable of runner and executors keeps its type. *)
THEOREM ServiceTypeCorrect == ServiceSpec => []ServiceTypeOK
<1>1. ServiceInv => ServiceTypeOK
  BY DEF ServiceInv
<1> QED
  BY <1>1, ServiceInvHolds, PTL

(* What WebRunRunner.worker (late or not), the watchdog and recovery leave behind
   fits together: report files only of runs that reached publication, and
   "completed" only with the final directory in place. *)
THEOREM VerdictsMatchReports == ServiceSpec => []VerdictMatchesReport
<1>1. ServiceInv => VerdictMatchesReport
  BY RowsAreRecords DEF ServiceInv, RowsBacked, Backed, VerdictMatchesReport, Status, Known
<1> QED
  BY <1>1, ServiceInvHolds, PTL

(* A run is publishing exactly while its worker takes it through publication:
   none is left behind where no clock would ever end it. *)
THEOREM PublishingHasItsWorker == ServiceSpec => []PublishingHasWorker
<1>1. ServiceInv => PublishingHasWorker
  BY DEF ServiceInv, WorkersPlaced, Fits, PublishingHasWorker, Status
<1> QED
  BY <1>1, ServiceInvHolds, PTL

(* The worker leaves its run with a verdict on every way out of it. *)
THEOREM WorkersLeaveVerdicts == ServiceSpec => []WorkerLeavesVerdict
<1>1. ServiceInv => WorkerLeavesVerdict
  BY DEF ServiceInv, WorkersPlaced, Fits, WorkerLeavesVerdict, Status, Unfinished, Live, Working,
         Publishing
<1> QED
  BY <1>1, ServiceInvHolds, PTL

(* The worker, whatever it does late, changes no verdict of its run. *)
THEOREM ServiceVerdictsFinal == ServiceSpec => VerdictIsFinal
  BY ServiceImplementsManager, VerdictsAreFinal, PTL

(* To those who ask about runs the whole service keeps RunContract: one
   unfinished run per asset, places for all of them, one verdict for each. *)
THEOREM ServiceKeepsContract ==
  ASSUME MaxFaults = 0
  PROVE  ServiceSpec => KeepsContract
  BY ServiceImplementsManager, ImplementsContract, PTL

(* Where the constructor is given the report root, recovery honours every
   committed report; web/app.py, which sets it later, is the exception that
   the run "recovery" shows. *)
THEOREM RootedRecoveryHonoursCommit ==
  ASSUME RootsAtLoad = {TRUE}
  PROVE  ServiceSpec => RecoveryHonoursCommit
<1> DEFINE Honours(r) ==
      phase = "loading" /\ Status(r) = "publishing" /\ dir[r] = "final" /\ phase' = "loading"
        => Status(r)' \in {"publishing", "completed"}
<1>1. ServiceInv /\ [ServiceNext]_svars => [\A r \in Runs : Honours(r)]_svars
  <2> SUFFICES ASSUME ServiceInv, ServiceNext, NEW q \in Runs,
                      phase = "loading", mem[q].status = "publishing", dir[q] = "final",
                      phase' = "loading"
               PROVE  mem'[q].status \in {"publishing", "completed"}
    BY DEF Status
  <2>1. rooted /\ \A r \in Runs : pc[r] = "none"
    BY DEF ServiceInv, RootIsSet, WorkersPlaced
  <2>2. mem \in [Runs -> Record]
    BY DEF ServiceInv, IInv, TypeOK
  <2>3. ASSUME NEW r \in Runs, Recover(r)
        PROVE  mem'[q].status \in {"publishing", "completed"}
    <3>1. CASE r = q
      <4>1. EndRun(q, "completed", "completed", TRUE)
        BY <2>1, <2>3, <3>1 DEF Recover, RecoverRun, Live
      <4>2. mem[q] \in Record /\ mem' = [mem EXCEPT ![q] = [mem[q] EXCEPT !.status = "completed",
                                                                      !.reason = "completed"]]
        BY <2>2, <4>1 DEF EndRun
      <4> QED
        BY <2>2, <4>2 DEF Record
    <3>2. CASE r # q
      BY <2>2, <2>3, <3>2 DEF Recover, RecoverRun, EndRun
    <3> QED
      BY <3>1, <3>2
  <2>4. ASSUME NEW r \in Runs, Work(r) \/ Publish(r)
        PROVE  FALSE
    BY <2>1, <2>4 DEF Work, TakeTask, Begin, Setup, Chunk, CancelDuring, AnalysisReturns,
         AnalysisRaises, CheckStatus, CheckCancel, Cancel, EnterPublishing, WorkerStep, Publish,
         WriteReport, CommitReport, RenameReport, IndexReport, PublishStep, Finish, PublishRaises,
         Publishing
  <2>5. CASE Endpoints \/ Environment
    <3>1. UNCHANGED mem
      BY <2>5 DEF Endpoints, Environment, CreateRun, CreateRetry, StartRun, RetryRun, AdmitRun,
           RequestCancel, Touch, WatchdogRound, Watchdog, DeadlinePasses, PassDeadline, Lapse,
           Cleanup, ForgetRuns, ConfigureCap, RenewLease, StartLease, CheckExpired
    <3> QED
      BY <3>1
  <2>6. ~ServiceCrash /\ ~LoadRuns
    BY DEF ServiceCrash, Crash, LoadRuns, Load, FinishLoad
  <2> QED
    BY <2>3, <2>4, <2>5, <2>6 DEF ServiceNext
<1> QED
  BY <1>1, ServiceInvHolds, PTL DEF ServiceSpec, RecoveryHonoursCommit

=============================================================================
