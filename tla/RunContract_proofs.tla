--------------------------- MODULE RunContract_proofs ---------------------------
(***************************************************************************)
(* RunManager implements RunContract as long as no write fails: every step *)
(* of the manager is, to someone who reads the rows of web_runs, a step of *)
(* the contract.  There is one lemma for each action of RunContract, which *)
(* says what rows and identifiers must do for a step to be that action.    *)
(***************************************************************************)
EXTENDS RunManager_proofs

(* The refinement mapping. *)
outcomes == [r \in Runs |-> Outcome(r)]

(* What an outcome says of rows and identifiers. *)
OutcomesRead ==
  \A r \in Runs :
    /\ outcomes[r] \in Contract!Outcomes
    /\ outcomes[r] = "absent" <=> r \notin issued
    /\ outcomes[r] = "pending" <=> r \in issued /\ disk[r].status \in Unfinished
    /\ outcomes[r] \in Contract!Verdicts <=> r \in issued /\ disk[r].status \in Terminal
    /\ r \in issued /\ disk[r].status \in Terminal => outcomes[r] = disk[r].status
    /\ r \in issued /\ disk[r].status \notin Terminal \cup Unfinished
         => outcomes[r] = "forgotten"

(* It says so before and after every step. *)
LEMMA OutcomesAreRead == OutcomesRead /\ OutcomesRead'
<1>1. OutcomesRead
  BY DEF OutcomesRead, outcomes, Outcome, Contract!Outcomes, Contract!Verdicts, Terminal,
         Unfinished, Live
<1>2. OutcomesRead'
  BY DEF OutcomesRead, outcomes, Outcome, Contract!Outcomes, Contract!Verdicts, Terminal,
         Unfinished, Live
<1> QED
  BY <1>1, <1>2

(* outcomes' is a function to outcomes. *)
LEMMA OutcomesTyped == outcomes' \in [Runs -> Contract!Outcomes]
<1>1. \A r \in Runs : outcomes'[r] \in Contract!Outcomes
  BY OutcomesAreRead DEF OutcomesRead
<1> QED
  BY <1>1 DEF outcomes

(* Unfinished rows go on or get a verdict, all others stay: Resolve. *)
LEMMA RowsResolve ==
  ASSUME issued' = issued,
         \A q \in Runs : \/ disk'[q].status = disk[q].status
                         \/ /\ disk[q].status \in Unfinished
                            /\ disk'[q].status \in Unfinished \cup Terminal
  PROVE  Contract!Resolve
<1>1. ASSUME NEW q \in Runs
      PROVE  outcomes'[q] = outcomes[q]
             \/ (outcomes[q] = "pending" /\ outcomes'[q] \in Contract!Verdicts)
  BY OutcomesAreRead DEF OutcomesRead, Terminal, Unfinished, Live
<1> QED
  BY <1>1, OutcomesTyped DEF Contract!Resolve, Contract!Pending, outcomes

(* Rows with a verdict leave the table, all others stay: Forget. *)
LEMMA RowsForget ==
  ASSUME issued' = issued, RecordsIssued,
         \A q \in Runs : \/ disk'[q] = disk[q]
                         \/ disk[q].status \in Terminal /\ disk'[q] = NoRecord
  PROVE  Contract!Forget
<1>1. NoRecord.status \notin Terminal \cup Unfinished
  BY DEF NoRecord, Terminal, Unfinished, Live
<1>2. ASSUME NEW q \in Runs
      PROVE  outcomes'[q] = outcomes[q]
             \/ (outcomes[q] \in Contract!Verdicts /\ outcomes'[q] = "forgotten")
  <2>1. disk[q].status \in Terminal => q \in issued
    BY <1>1 DEF RecordsIssued
  <2> QED
    BY <1>1, <2>1, OutcomesAreRead DEF OutcomesRead
<1> QED
  BY <1>2, OutcomesTyped DEF Contract!Forget, Contract!KeepsOrForgets, Contract!Ended, outcomes

(* A new row of a free asset appears while there is a place: Admit. *)
LEMMA RowsAdmit ==
  ASSUME IInv, phase = "up", mem = disk,
         NEW r \in Runs, r \notin issued, issued' = issued \cup {r},
         Admissible(AssetOf[r]),
         disk'[r].status = "queued",
         \A q \in Runs \ {r} : \/ disk'[q] = disk[q]
                               \/ disk[q].status \in Terminal /\ disk'[q] = NoRecord
  PROVE  Contract!Admit(r)
<1> USE DEF IInv
<1>1. NoRecord.status \notin Terminal \cup Unfinished
  BY DEF NoRecord, Terminal, Unfinished, Live
<1>2. \A q \in Runs : disk[q].status \in Terminal \cup Unfinished => q \in issued
  BY <1>1 DEF RecordsIssued
<1>3. outcomes[r] = "absent" /\ outcomes'[r] = "pending"
  <2>1. r \in issued' /\ disk'[r].status \in Unfinished
    BY DEF Unfinished, Live
  <2> QED
    BY <2>1, OutcomesAreRead DEF OutcomesRead
<1>4. {q \in Runs : outcomes[q] = "pending"} = active
  <2>1. \A q \in Runs : outcomes[q] = "pending" <=> disk[q].status \in Unfinished
    BY <1>2, OutcomesAreRead DEF OutcomesRead
  <2> QED
    BY <2>1 DEF ActiveIsUnfinished
<1>5. Cardinality(active) < MaxCap /\ \A q \in active : AssetOf[q] # AssetOf[r]
  BY ActiveFinite, BoundsAssumption DEF Admissible, TypeOK
<1>6. ASSUME NEW q \in Runs \ {r}
      PROVE  outcomes'[q] = outcomes[q]
             \/ (outcomes[q] \in Contract!Verdicts /\ outcomes'[q] = "forgotten")
  <2>1. q \in issued' <=> q \in issued
    OBVIOUS
  <2> QED
    BY <1>1, <1>2, <2>1, OutcomesAreRead DEF OutcomesRead
<1>7. /\ Contract!Pending = active
      /\ \A q \in Runs \ {r} : Contract!KeepsOrForgets(q)
  BY <1>4, <1>6 DEF Contract!Pending, Contract!KeepsOrForgets, Contract!Ended, outcomes
<1>8. /\ [q \in Runs |-> Outcome(q)][r] = "absent"
      /\ [q \in Runs |-> Outcome(q)]'[r] = "pending"
      /\ [q \in Runs |-> Outcome(q)]' \in [Runs -> Contract!Outcomes]
  BY <1>3, OutcomesTyped DEF outcomes
<1>9. Contract!Cardinality(Contract!Pending) = Cardinality(Contract!Pending)
  BY Zenon DEF Cardinality, Contract!Cardinality
<1>10. Contract!Cardinality(Contract!Pending) < MaxCap
       /\ \A q \in Contract!Pending : AssetOf[q] # AssetOf[r]
  BY <1>5, <1>7, <1>9
<1> QED
  BY <1>7, <1>8, <1>10 DEF Contract!Admit

-----------------------------------------------------------------------------
(* Without write failures *)

(* No write fails, and the table is what the manager remembers. *)
LEMMA TableIsMemory ==
  ASSUME MaxFaults = 0, IInv
  PROVE  /\ faults = 0
         /\ Writes = {TRUE}
         /\ phase # "down" => mem = disk
<1>1. faults = 0
  BY DEF IInv, TypeOK
<1> QED
  BY <1>1 DEF IInv, TypeOK, Writes, MemoryMatchesDisk, MemoryOfPhase

(* The same after a step. *)
LEMMA TableIsMemoryAfter ==
  ASSUME MaxFaults = 0, IInv'
  PROVE  (phase # "down")' => mem' = disk'
<1>1. faults' = 0
  BY DEF IInv, TypeOK
<1> QED
  BY <1>1 DEF IInv, TypeOK, MemoryMatchesDisk, MemoryOfPhase

(* A step that leaves the identifiers alone, and the status of a record
   unless it is unfinished, is a Resolve. *)
LEMMA RecordsResolve ==
  ASSUME MaxFaults = 0, IInv, IInv', phase # "down", (phase # "down")',
         issued' = issued,
         \A q \in Runs : \/ mem'[q].status = mem[q].status
                         \/ /\ mem[q].status \in Unfinished
                            /\ mem'[q].status \in Unfinished \cup Terminal
  PROVE  Contract!Resolve
BY TableIsMemory, TableIsMemoryAfter, RowsResolve

(* Every run that ends, ends as Resolve allows. *)
LEMMA EndRunResolves ==
  ASSUME MaxFaults = 0, IInv, IInv', phase \in {"up", "loading"},
         NEW r \in Runs, NEW status \in Terminal, NEW reason, NEW ok,
         mem[r].status \in Unfinished,
         EndRun(r, status, reason, ok)
  PROVE  Contract!Resolve
<1>1. mem \in [Runs -> Record] /\ mem[r] \in Record
  BY DEF IInv, TypeOK
<1>2. mem'[r].status = status /\ \A q \in Runs \ {r} : mem'[q] = mem[q]
  BY <1>1 DEF EndRun, Record
<1>3. phase' = phase /\ issued' = issued
  BY DEF EndRun
<1> QED
  BY <1>2, <1>3, RecordsResolve

(* Starting, retrying or forgetting runs is an Admit, a Forget or a stutter. *)
LEMMA AdmissionContract ==
  ASSUME MaxFaults = 0, IInv, Admission
  PROVE  \/ \E r \in Runs : Contract!Admit(r)
         \/ Contract!Forget
         \/ Contract!Resolve
<1>0. /\ TypeOK /\ RecordsIssued
      /\ faults = 0 /\ Writes = {TRUE}
      /\ phase = "up" => mem = disk
  BY TableIsMemory DEF IInv
<1>1. ASSUME NEW old, NEW r \in Runs \ issued, NEW record \in Record, record.status = "queued",
             NEW ok \in Writes, AdmitRun(r, record, old, ok)
      PROVE  Contract!Admit(r)
  <2> DEFINE rows == Without(disk, old, NoRecord)
  <2>1. /\ phase = "up" /\ Admissible(AssetOf[r]) /\ issued' = issued \cup {r}
        /\ old \subseteq Forgettable
    BY <1>1 DEF AdmitRun
  <2>2. /\ rows \in [Runs -> Record]
        /\ \A q \in Runs : rows[q] = IF q \in old THEN NoRecord ELSE disk[q]
    BY <1>0, WithoutOld DEF TypeOK
  <2>3. mem'[r] = record
    <3>1. Without(mem, old, NoRecord) \in [Runs -> Record]
      BY <1>0, WithoutOld DEF TypeOK
    <3> QED
      BY <1>1, <3>1 DEF AdmitRun
  <2>4. disk' = [rows EXCEPT ![r] = record]
    BY <1>0, <1>1, <2>3 DEF AdmitRun, Persist
  <2> HIDE DEF rows
  <2>5. disk'[r] = record /\ \A q \in Runs \ {r} : disk'[q] = rows[q]
    BY <2>2, <2>4
  <2>6. \A q \in Runs \ {r} : \/ disk'[q] = disk[q]
                              \/ disk[q].status \in Terminal /\ disk'[q] = NoRecord
    BY <1>0, <2>1, <2>2, <2>5 DEF Forgettable
  <2> QED
    BY <1>0, <1>1, <2>1, <2>5, <2>6, RowsAdmit
<1>2. ASSUME NEW old, NEW r \in Runs \ issued, NEW ok \in Writes, StartRun(r, old, ok)
      PROVE  Contract!Admit(r)
  <2>1. NewRecord(NoRun, FALSE) \in Record /\ NewRecord(NoRun, FALSE).status = "queued"
    BY DEF NewRecord, Record, Reasons, Unfinished, Live
  <2> QED
    BY <1>1, <1>2, <2>1 DEF StartRun
<1>3. ASSUME NEW old, NEW r \in Runs \ issued, NEW ok \in Writes, NEW p \in issued,
             RetryRun(r, p, old, ok)
      PROVE  Contract!Admit(r)
  <2>1. mem[p] \in Record /\ p \in Runs
    BY <1>0 DEF TypeOK
  <2>2. /\ NewRecord(p, mem[p].resume) \in Record
        /\ NewRecord(p, mem[p].resume).status = "queued"
    BY <2>1 DEF NewRecord, Record, Reasons, Unfinished, Live
  <2> QED
    BY <1>1, <1>3, <2>2 DEF RetryRun
<1>4. ASSUME NEW old, ForgetRuns(old)
      PROVE  Contract!Forget
  <2>1. /\ phase = "up" /\ issued' = issued /\ old \subseteq Forgettable
        /\ \A q \in Runs : disk'[q] = IF q \in old THEN NoRecord ELSE disk[q]
    BY <1>4 DEF ForgetRuns, Without
  <2>2. \A q \in Runs : \/ disk'[q] = disk[q]
                        \/ disk[q].status \in Terminal /\ disk'[q] = NoRecord
    BY <1>0, <2>1 DEF Forgettable
  <2> QED
    BY <1>0, <2>1, <2>2, RowsForget
<1>5. ASSUME NEW n, ConfigureCap(n)
      PROVE  Contract!Resolve
  BY <1>5, RowsResolve DEF ConfigureCap
<1>6. ASSUME NEW r, CleanupFails(r)
      PROVE  FALSE
  BY <1>0, <1>6 DEF CleanupFails
<1> QED
  BY <1>2, <1>3, <1>4, <1>5, <1>6 DEF Admission, Cleanup, RefuseStart, RefuseRetry

(* A call about one run resolves that run, or is invisible. *)
LEMMA LifecycleContract ==
  ASSUME MaxFaults = 0, IInv, IInv', NEW r \in Runs, Lifecycle(r)
  PROVE  Contract!Resolve
<1>0. mem \in [Runs -> Record] /\ mem[r] \in Record
  BY DEF IInv, TypeOK
<1>1. ASSUME NEW ok, CheckExpired(r, ok)
      PROVE  Contract!Resolve
  <2>1. ExpiryStatus(r) \in Terminal
    BY DEF ExpiryStatus, Terminal
  <2> QED
    BY <1>1, <2>1, EndRunResolves DEF CheckExpired, Due, Unfinished
<1>2. ASSUME NEW ok, BeginRun(r, ok) \/ BeginPublishing(r, ok)
      PROVE  Contract!Resolve
  <2>1. mem[r].status \in Unfinished /\ mem'[r].status \in Unfinished
    BY <1>0, <1>2 DEF BeginRun, BeginPublishing, Record, Unfinished, Live
  <2>2. \A q \in Runs \ {r} : mem'[q] = mem[q]
    BY <1>0, <1>2 DEF BeginRun, BeginPublishing
  <2> QED
    BY <1>2, <2>1, <2>2, RecordsResolve DEF BeginRun, BeginPublishing
<1>3. ASSUME NEW ok, NEW gate, CompletePublishing(r, gate, ok)
      PROVE  Contract!Resolve
  BY <1>3, EndRunResolves DEF CompletePublishing, Terminal, Unfinished
<1>4. ASSUME NEW ok, NEW reason, CompleteRun(r, ok) \/ FailRun(r, reason, ok) \/ CancelRun(r, ok)
      PROVE  Contract!Resolve
  BY <1>4, EndRunResolves DEF CompleteRun, FailRun, CancelRun, Terminal, Unfinished
<1>5. ASSUME NEW ok, SetCheckpoint(r, ok)
      PROVE  Contract!Resolve
  <2>1. \A q \in Runs : mem'[q].status = mem[q].status
    BY <1>0, <1>5 DEF SetCheckpoint, Record
  <2> QED
    BY <1>5, <2>1, RecordsResolve DEF SetCheckpoint
<1>6. ASSUME Touch(r)
      PROVE  Contract!Resolve
  BY <1>6, RecordsResolve DEF Touch
<1> QED
  BY <1>1, <1>2, <1>3, <1>4, <1>5, <1>6 DEF Lifecycle

(* Lease renewals and passing time are invisible. *)
LEMMA ClockContract ==
  ASSUME MaxFaults = 0, IInv, IInv', NEW r \in Runs, Clock(r)
  PROVE  Contract!Resolve
<1>1. CASE StartLease(r) \/ RenewLease(r)
  BY <1>1, RecordsResolve DEF StartLease, RenewLease
<1>2. CASE PassDeadline(r) \/ Lapse(r)
  BY <1>2, RowsResolve DEF PassDeadline, Lapse
<1> QED
  BY <1>1, <1>2 DEF Clock

(* A round of the watchdog resolves every due run at once. *)
LEMMA WatchdogContract ==
  ASSUME MaxFaults = 0, IInv, IInv', Watchdog
  PROVE  Contract!Resolve
<1>0. mem \in [Runs -> Record]
  BY DEF IInv, TypeOK
<1>1. phase = "up" /\ phase' = "up" /\ issued' = issued
  BY DEF Watchdog
<1>2. ASSUME NEW q \in Runs
      PROVE  \/ mem'[q].status = mem[q].status
             \/ mem[q].status \in Unfinished /\ mem'[q].status \in Unfinished \cup Terminal
  <2>1. CASE Due(q)
    <3>1. mem'[q].status = ExpiryStatus(q)
      BY <1>0, <2>1 DEF Watchdog, Record
    <3> QED
      BY <2>1, <3>1 DEF Due, Unfinished, ExpiryStatus, Terminal
  <2>2. CASE ~Due(q)
    BY <2>2 DEF Watchdog
  <2> QED
    BY <2>1, <2>2
<1> QED
  BY <1>1, <1>2, RecordsResolve

(* A crash and loading are invisible; recovery resolves runs. *)
LEMMA RestartContract ==
  ASSUME MaxFaults = 0, IInv, IInv', Restart
  PROVE  Contract!Resolve
<1>1. CASE Crash \/ Load
  BY <1>1, RowsResolve DEF Crash, Load
<1>2. ASSUME NEW r \in Runs, NEW gate, RecoverRun(r, gate)
      PROVE  Contract!Resolve
  <2>1. mem[r].status \in Unfinished /\ phase = "loading"
    BY <1>2 DEF RecoverRun, Unfinished
  <2>2. {"completed", "failed", "interrupted"} \subseteq Terminal
    BY DEF Terminal
  <2> QED
    BY <1>2, <2>1, <2>2, EndRunResolves DEF RecoverRun
<1>3. CASE FinishLoad
  <2>1. \A q \in Runs : mem'[q].status = mem[q].status
    BY <1>3, NormalisedRecord DEF FinishLoad, IInv, TypeOK
  <2> QED
    BY <1>3, <2>1, RecordsResolve DEF FinishLoad
<1> QED
  BY <1>1, <1>2, <1>3 DEF Restart

(* Every step of the manager is a step of the contract. *)
LEMMA StepContract ==
  ASSUME MaxFaults = 0, IInv, [Next]_vars
  PROVE  [Contract!Next]_outcomes
<1>1. CASE UNCHANGED vars
  BY <1>1 DEF vars, outcomes, Outcome
<1>2. CASE Next
  <2>1. IInv'
    BY <1>2, StepIsSafe
  <2> QED
    BY <1>2, <2>1, AdmissionContract, LifecycleContract, ClockContract, WatchdogContract,
       RestartContract DEF Next, Contract!Next
<1> QED
  BY <1>1, <1>2

(* A new service has no runs. *)
LEMMA InitContract == Init => Contract!Init
BY DEF Init, Contract!Init, Outcome

(* Without write failures the manager keeps its promises to its callers: one
   unfinished run per asset, no more of them than the largest cap, and one
   verdict for each run, over crashes and restarts. *)
THEOREM ImplementsContract ==
  ASSUME MaxFaults = 0
  PROVE  Spec => KeepsContract
<1>1. IInv /\ [Next]_vars => [Contract!Next]_outcomes
  BY StepContract
<1> QED
  BY <1>1, InitContract, InvHolds, PTL DEF Spec, KeepsContract, Contract!Spec, outcomes
=============================================================================
