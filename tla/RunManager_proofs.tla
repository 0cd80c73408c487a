--------------------------- MODULE RunManager_proofs ---------------------------
(***************************************************************************)
(* What RunManager keeps for every set of runs, every cap and every number *)
(* of failed writes and crashes.  All invariants follow from one inductive *)
(* invariant, IInv.  The actions of RunManager change the state in a dozen *)
(* ways (one record ends, one is written again, expired ones leave, ...):  *)
(* there is one lemma for each of these ways, and under it one step for    *)
(* each conjunct of IInv.                                                  *)
(***************************************************************************)
EXTENDS RunManager, FiniteSetTheorems, TLAPS

-----------------------------------------------------------------------------
(* The inductive invariant *)

(* ActiveIndexAgrees, and what it leaves open while the process is not up. *)
ActiveIsUnfinished ==
  active = IF phase = "up" THEN {r \in Runs : mem[r].status \in Unfinished} ELSE {}

(* The runs in the index work on different assets. *)
ActiveApart == \A r, q \in active : r # q => AssetOf[r] # AssetOf[q]

(* Only identifiers that were handed out have records, rows or retries. *)
RecordsIssued ==
  \A r \in Runs :
    /\ mem[r] # NoRecord \/ disk[r] # NoRecord => r \in issued
    /\ mem[r].parent \in issued \cup {NoRun}
    /\ disk[r].parent \in issued \cup {NoRun}

(* A process that is down remembers nothing; one that loads has what the
   table has, and keeps the two equal while it recovers. *)
MemoryOfPhase ==
  /\ phase = "down" => mem = [r \in Runs |-> NoRecord]
  /\ phase = "loading" => mem = disk

IInv ==
  /\ TypeOK
  /\ ActiveIsUnfinished
  /\ ActiveApart
  /\ ActiveFitsPool
  /\ RecordsIssued
  /\ MemoryOfPhase
  /\ DiskNeverLeads
  /\ MemoryMatchesDisk
  /\ ParentHasEnded

-----------------------------------------------------------------------------
(* One lemma per way in which the state changes *)

(* A subset of the active runs is finite and no larger. *)
LEMMA ActiveFinite ==
  ASSUME TypeOK
  PROVE  /\ IsFiniteSet(active)
         /\ Cardinality(active) \in Nat
         /\ \A S : S \subseteq active => IsFiniteSet(S) /\ Cardinality(S) \in Nat
                                          /\ Cardinality(S) <= Cardinality(active)
<1>1. IsFiniteSet(active)
  BY RunsAssumption, FS_Subset DEF TypeOK
<1>2. ASSUME NEW S, S \subseteq active
      PROVE  IsFiniteSet(S) /\ Cardinality(S) <= Cardinality(active)
  BY <1>1, <1>2, FS_Subset
<1> QED
  BY <1>1, <1>2, FS_CardinalityType

(* What is known after a write, of the table and of the number of faults. *)
LEMMA PersistOutcome ==
  ASSUME TypeOK, NEW rows, NEW r \in Runs, NEW ok \in Writes, Persist(rows, r, ok)
  PROVE  /\ ok \in BOOLEAN
         /\ faults' \in 0..MaxFaults
         /\ ok => disk' = [rows EXCEPT ![r] = mem'[r]] /\ faults' = faults
         /\ ~ok => disk' = rows /\ faults' # 0
<1>1. ok \in BOOLEAN /\ (~ok => faults < MaxFaults)
  BY DEF Writes
<1>2. CASE ok
  BY <1>2 DEF Persist, TypeOK
<1>3. CASE ~ok
  <2>1. disk' = rows /\ faults' = faults + 1
    BY <1>3 DEF Persist
  <2> QED
    BY <1>1, <1>3, <2>1, BoundsAssumption DEF TypeOK
<1> QED
  BY <1>1, <1>2, <1>3

(* One run ends: the record, the index and (if the write succeeds) the row. *)
LEMMA EndRunIsSafe ==
  ASSUME IInv, NEW r \in Runs, NEW status \in Terminal, NEW reason \in Reasons,
         NEW ok \in Writes,
         phase \in {"up", "loading"}, phase = "loading" => ok,
         mem[r].status \in Unfinished,
         EndRun(r, status, reason, ok)
  PROVE  IInv' /\ KeepsVerdicts
<1> USE DEF IInv, EndRun
<1> DEFINE record == [mem[r] EXCEPT !.status = status, !.reason = reason]
<1>1. /\ record \in Record
      /\ record.status = status
      /\ record.parent = mem[r].parent
      /\ record # NoRecord
  BY DEF TypeOK, Record, NoRecord, Terminal
<1>2. mem' = [mem EXCEPT ![r] = record]
  OBVIOUS
<1>3. /\ ok \in BOOLEAN
      /\ faults' \in 0..MaxFaults
      /\ ok => disk' = [disk EXCEPT ![r] = record] /\ faults' = faults
      /\ ~ok => disk' = disk /\ faults' # 0
  BY <1>2, PersistOutcome DEF TypeOK
<1>4. status \notin Unfinished /\ status # "none"
  BY DEF Terminal, Unfinished, Live
<1> HIDE DEF record
<1>a. TypeOK'
  <2>1. NoControl \in Control
    BY DEF NoControl, Control
  <2> QED
    BY <1>1, <1>2, <1>3, <2>1 DEF TypeOK
<1>b. ActiveIsUnfinished'
  BY <1>1, <1>2, <1>4 DEF ActiveIsUnfinished, TypeOK
<1>c. ActiveApart'
  BY DEF ActiveApart
<1>d. ActiveFitsPool'
  BY ActiveFinite DEF ActiveFitsPool, TypeOK
<1>e. RecordsIssued'
  <2>1. mem[r] # NoRecord
    BY DEF NoRecord, Unfinished, Live
  <2>2. r \in issued
    BY <2>1 DEF RecordsIssued
  <2> QED
    BY <1>1, <1>2, <1>3, <2>2 DEF RecordsIssued, TypeOK
<1>f. MemoryOfPhase'
  BY <1>1, <1>2, <1>3 DEF MemoryOfPhase, TypeOK
<1>g. DiskNeverLeads'
  BY <1>1, <1>2, <1>3, <1>4 DEF DiskNeverLeads, Known, TypeOK, Terminal, Unfinished, Live
<1>h. MemoryMatchesDisk'
  BY <1>1, <1>2, <1>3 DEF MemoryMatchesDisk, TypeOK
<1>i. ParentHasEnded'
  <2> SUFFICES ASSUME (phase = "up")', NEW q \in Runs, (mem[q].parent # NoRun)'
               PROVE  (mem[mem[q].parent].status \notin Unfinished)'
    BY DEF ParentHasEnded
  <2>1. mem'[q].parent = mem[q].parent /\ mem[q].parent \in Runs
    BY <1>1, <1>2 DEF TypeOK, Record
  <2> QED
    BY <1>1, <1>2, <1>4, <2>1 DEF ParentHasEnded, TypeOK
<1>j. KeepsVerdicts
  <2>1. mem[r].status \notin Terminal /\ Known(r)
    BY DEF Terminal, Unfinished, Live, Known
  <2>2. disk[r].status \notin Terminal
    BY <2>1 DEF DiskNeverLeads, MemoryOfPhase
  <2> QED
    BY <1>1, <1>2, <1>3, <2>1, <2>2 DEF KeepsVerdicts, TypeOK
<1> QED
  BY <1>a, <1>b, <1>c, <1>d, <1>e, <1>f, <1>g, <1>h, <1>i, <1>j

(* A record changes on its way to a verdict, or beside it, and is written. *)
LEMMA RewriteIsSafe ==
  ASSUME IInv, NEW r \in Runs, NEW record \in Record, NEW ok \in Writes,
         phase = "up", Known(r),
         record.parent = mem[r].parent,
         \/ record.status = mem[r].status
         \/ record.status \in Unfinished /\ mem[r].status \in Unfinished,
         mem' = [mem EXCEPT ![r] = record],
         ctl' \in [Runs -> Control],
         Persist(disk, r, ok),
         UNCHANGED <<phase, issued, active, pool, cap, crashes>>
  PROVE  IInv' /\ KeepsVerdicts
<1> USE DEF IInv
<1>1. /\ ok \in BOOLEAN
      /\ faults' \in 0..MaxFaults
      /\ ok => disk' = [disk EXCEPT ![r] = record] /\ faults' = faults
      /\ ~ok => disk' = disk /\ faults' # 0
  BY PersistOutcome DEF TypeOK
<1>2. record.status # "none" /\ mem[r] # NoRecord
  BY DEF Known, Unfinished, Live, NoRecord
<1>a. TypeOK'
  BY <1>1 DEF TypeOK
<1>b. ActiveIsUnfinished'
  BY DEF ActiveIsUnfinished, TypeOK
<1>c. ActiveApart'
  BY DEF ActiveApart
<1>d. ActiveFitsPool'
  BY DEF ActiveFitsPool
<1>e. RecordsIssued'
  BY <1>1, <1>2 DEF RecordsIssued, TypeOK
<1>f. MemoryOfPhase'
  BY DEF MemoryOfPhase
<1>g. DiskNeverLeads'
  BY <1>1, <1>2 DEF DiskNeverLeads, Known, TypeOK, Terminal, Unfinished, Live
<1>h. MemoryMatchesDisk'
  BY <1>1 DEF MemoryMatchesDisk, TypeOK
<1>i. ParentHasEnded'
  <2> SUFFICES ASSUME (phase = "up")', NEW q \in Runs, (mem[q].parent # NoRun)'
               PROVE  (mem[mem[q].parent].status \notin Unfinished)'
    BY DEF ParentHasEnded
  <2>1. mem'[q].parent = mem[q].parent /\ mem[q].parent \in Runs
    BY DEF TypeOK, Record
  <2>2. mem[mem[q].parent].status \notin Unfinished
    BY <2>1 DEF ParentHasEnded
  <2> QED
    BY <2>1, <2>2 DEF TypeOK
<1>j. KeepsVerdicts
  <2>1. mem[r].status \in Terminal => record.status = mem[r].status
    BY DEF Terminal, Unfinished, Live
  <2>2. disk[r].status \in Terminal => record.status = disk[r].status
    BY <2>1 DEF DiskNeverLeads
  <2> QED
    BY <1>1, <2>1, <2>2 DEF KeepsVerdicts, TypeOK
<1> QED
  BY <1>a, <1>b, <1>c, <1>d, <1>e, <1>f, <1>g, <1>h, <1>i, <1>j

(* A record is written again as it is. *)
LEMMA SyncIsSafe ==
  ASSUME IInv, NEW r \in Runs, phase = "up", Known(r),
         ctl' \in [Runs -> Control],
         disk' = [disk EXCEPT ![r] = mem[r]],
         UNCHANGED <<phase, mem, issued, active, pool, cap, faults, crashes>>
  PROVE  IInv' /\ KeepsVerdicts
<1> USE DEF IInv
<1>a. TypeOK' /\ ActiveIsUnfinished' /\ ActiveApart' /\ ActiveFitsPool' /\ ParentHasEnded'
  BY DEF TypeOK, ActiveIsUnfinished, ActiveApart, ActiveFitsPool, ParentHasEnded
<1>b. RecordsIssued'
  BY DEF RecordsIssued, TypeOK, Known, NoRecord
<1>c. MemoryOfPhase' /\ MemoryMatchesDisk' /\ DiskNeverLeads'
  BY DEF MemoryOfPhase, MemoryMatchesDisk, DiskNeverLeads, Known, TypeOK
<1>d. KeepsVerdicts
  BY DEF KeepsVerdicts, DiskNeverLeads, TypeOK
<1> QED
  BY <1>a, <1>b, <1>c, <1>d

(* Clocks advance, or the cap is configured. *)
LEMMA SettingsAreSafe ==
  ASSUME IInv, ctl' \in [Runs -> Control], cap' \in 1..MaxCap,
         UNCHANGED <<phase, mem, disk, issued, active, pool, faults, crashes>>
  PROVE  IInv' /\ KeepsVerdicts
BY DEF IInv, TypeOK, ActiveIsUnfinished, ActiveApart, ActiveFitsPool, RecordsIssued,
       MemoryOfPhase, DiskNeverLeads, MemoryMatchesDisk, ParentHasEnded, Known, KeepsVerdicts

(* What is left of memory and table when `old` is forgotten. *)
LEMMA WithoutOld ==
  ASSUME NEW store \in [Runs -> Record], NEW old, NEW result,
         result = Without(store, old, NoRecord)
  PROVE  /\ result \in [Runs -> Record]
         /\ \A r \in Runs : result[r] = IF r \in old THEN NoRecord ELSE store[r]
         /\ \A r \in Runs : result[r] = NoRecord \/ result[r] = store[r]
<1>1. NoRecord \in Record
  BY DEF NoRecord, Record, Reasons
<1> QED
  BY <1>1 DEF Without

(* Ended runs leave memory, and the table too unless the delete fails. *)
LEMMA ForgetIsSafe ==
  ASSUME IInv, phase = "up", NEW old, old \subseteq Forgettable,
         mem' = Without(mem, old, NoRecord),
         ctl' = Without(ctl, old, NoControl),
         \/ disk' = Without(disk, old, NoRecord) /\ faults' = faults
         \/ disk' = disk /\ faults < MaxFaults /\ faults' = faults + 1,
         pool' \in 1..MaxCap, pool <= pool',
         UNCHANGED <<phase, issued, active, cap, crashes>>
  PROVE  IInv' /\ KeepsVerdicts
<1> USE DEF IInv
<1>0. mem \in [Runs -> Record] /\ disk \in [Runs -> Record]
  BY DEF TypeOK
<1>1. /\ mem' \in [Runs -> Record]
      /\ \A r \in Runs : mem'[r] = IF r \in old THEN NoRecord ELSE mem[r]
  BY <1>0, WithoutOld
<1>2. /\ disk' \in [Runs -> Record]
      /\ \A r \in Runs : disk'[r] = disk[r] \/ (disk'[r] = NoRecord /\ mem'[r] = NoRecord)
  BY <1>0, <1>1, WithoutOld
<1>3. \A r \in old : r \in Runs /\ mem[r].status \notin Unfinished
  BY DEF Forgettable, Terminal, Unfinished, Live
<1>4. NoRecord.status \notin Unfinished \cup Terminal /\ NoRecord.parent = NoRun
      /\ NoRecord.status = "none"
  BY DEF NoRecord, Unfinished, Live, Terminal
<1>a. TypeOK'
  <2>1. ctl' \in [Runs -> Control]
    BY DEF Without, TypeOK, NoControl, Control
  <2>2. faults' \in 0..MaxFaults
    BY BoundsAssumption DEF TypeOK
  <2> QED
    BY <1>1, <1>2, <2>1, <2>2 DEF TypeOK
<1>b. ActiveIsUnfinished'
  BY <1>1, <1>3, <1>4 DEF ActiveIsUnfinished, TypeOK
<1>c. ActiveApart'
  BY DEF ActiveApart
<1>d. ActiveFitsPool'
  BY ActiveFinite DEF ActiveFitsPool, TypeOK
<1>e. RecordsIssued'
  BY <1>1, <1>2, <1>4 DEF RecordsIssued
<1>f. MemoryOfPhase'
  BY DEF MemoryOfPhase
<1>g. DiskNeverLeads'
  <2> SUFFICES ASSUME NEW q \in Runs, disk'[q].status \in Terminal, mem'[q].status # "none"
               PROVE  mem'[q].status = disk'[q].status
    BY DEF DiskNeverLeads, Known
  <2>1. mem'[q] = mem[q] /\ disk'[q] = disk[q]
    BY <1>1, <1>2, <1>4
  <2> QED
    BY <2>1 DEF DiskNeverLeads, Known
<1>h. MemoryMatchesDisk'
  <2> SUFFICES ASSUME faults' = 0 PROVE mem' = disk'
    BY DEF MemoryMatchesDisk
  <2> QED
    BY DEF MemoryMatchesDisk, TypeOK, Without
<1>i. ParentHasEnded'
  <2> SUFFICES ASSUME NEW q \in Runs, (mem[q].parent # NoRun)'
               PROVE  (mem[mem[q].parent].status \notin Unfinished)'
    BY DEF ParentHasEnded
  <2>1. mem'[q] = mem[q] /\ mem[q].parent \in Runs
    BY <1>1, <1>4 DEF TypeOK, Record
  <2>2. mem[mem[q].parent].status \notin Unfinished
    BY <2>1 DEF ParentHasEnded
  <2> QED
    BY <1>1, <1>4, <2>1, <2>2
<1>j. KeepsVerdicts
  BY <1>1, <1>2 DEF KeepsVerdicts
<1> QED
  BY <1>a, <1>b, <1>c, <1>d, <1>e, <1>f, <1>g, <1>h, <1>i, <1>j

(* Every due run ends at once. *)
LEMMA WatchdogIsSafe ==
  ASSUME IInv, Watchdog
  PROVE  IInv' /\ KeepsVerdicts
<1> USE DEF IInv
<1> DEFINE due == {r \in Runs : Due(r)}
           verdict(r) == [mem[r] EXCEPT !.status = ExpiryStatus(r), !.reason = ExpiryReason(r)]
<1>1. /\ mem' = [r \in Runs |-> IF r \in due THEN verdict(r) ELSE mem[r]]
      /\ disk' = [r \in Runs |-> IF r \in due THEN mem'[r] ELSE disk[r]]
      /\ ctl' = [r \in Runs |-> IF r \in due THEN NoControl ELSE ctl[r]]
      /\ active' = active \ due
      /\ phase = "up"
      /\ UNCHANGED <<phase, issued, pool, cap, faults, crashes>>
  BY DEF Watchdog
<1>2. \A r \in due : /\ r \in Runs
                     /\ mem[r].status \in Unfinished
                     /\ mem[r] # NoRecord
  BY DEF Due, Live, Unfinished, NoRecord
<1>3. \A r \in due : /\ verdict(r) \in Record
                     /\ verdict(r).parent = mem[r].parent
                     /\ verdict(r).status \notin Unfinished \cup {"none"}
  <2> SUFFICES ASSUME NEW r \in due
               PROVE  /\ verdict(r) \in Record
                      /\ verdict(r).parent = mem[r].parent
                      /\ verdict(r).status \notin Unfinished \cup {"none"}
    OBVIOUS
  <2>1. ExpiryStatus(r) \in Terminal /\ ExpiryReason(r) \in Reasons
    BY DEF ExpiryStatus, ExpiryReason, Terminal, Reasons, RetryableReasons
  <2>2. mem[r] \in Record
    BY <1>2 DEF TypeOK
  <2>3. Terminal \cap (Unfinished \cup {"none"}) = {}
    BY DEF Terminal, Unfinished, Live
  <2> QED
    BY <2>1, <2>2, <2>3 DEF Record
<1> HIDE DEF due, verdict
<1>4. due \subseteq Runs
  BY DEF due
<1>a. TypeOK'
  BY <1>1, <1>3 DEF TypeOK, NoControl, Control
<1>b. ActiveIsUnfinished'
  BY <1>1, <1>2, <1>3 DEF ActiveIsUnfinished, TypeOK
<1>c. ActiveApart'
  BY <1>1 DEF ActiveApart
<1>d. ActiveFitsPool'
  BY <1>1, ActiveFinite DEF ActiveFitsPool, TypeOK
<1>e. RecordsIssued'
  BY <1>1, <1>2, <1>3 DEF RecordsIssued
<1>f. MemoryOfPhase'
  BY <1>1 DEF MemoryOfPhase
<1>g. DiskNeverLeads'
  BY <1>1 DEF DiskNeverLeads, Known
<1>h. MemoryMatchesDisk'
  BY <1>1 DEF MemoryMatchesDisk, TypeOK
<1>i. ParentHasEnded'
  <2> SUFFICES ASSUME NEW q \in Runs, (mem[q].parent # NoRun)'
               PROVE  (mem[mem[q].parent].status \notin Unfinished)'
    BY DEF ParentHasEnded
  <2>1. mem'[q].parent = mem[q].parent /\ mem[q].parent \in Runs
    BY <1>1, <1>3 DEF TypeOK, Record
  <2>2. mem[mem[q].parent].status \notin Unfinished
    BY <1>1, <2>1 DEF ParentHasEnded
  <2> QED
    BY <1>1, <1>3, <2>1, <2>2
<1>j. KeepsVerdicts
  <2> SUFFICES ASSUME NEW r \in due
               PROVE  mem[r].status \notin Terminal /\ disk[r].status \notin Terminal
    BY <1>1 DEF KeepsVerdicts
  <2>1. mem[r].status \notin Terminal /\ Known(r)
    BY <1>2 DEF Terminal, Unfinished, Live, Known
  <2> QED
    BY <1>1, <1>4, <2>1 DEF DiskNeverLeads
<1> QED
  BY <1>a, <1>b, <1>c, <1>d, <1>e, <1>f, <1>g, <1>h, <1>i, <1>j

(* A new run: ended ones leave, the run gets a place its asset is free for. *)
LEMMA AdmitIsSafe ==
  ASSUME IInv, NEW r \in Runs, NEW record \in Record, NEW old, NEW ok \in Writes,
         record.status = "queued",
         record.parent = NoRun \/ (record.parent \in issued /\ Retryable(record.parent)),
         AdmitRun(r, record, old, ok)
  PROVE  IInv' /\ KeepsVerdicts
<1> USE DEF IInv
<1> DEFINE rows == Without(disk, old, NoRecord)
           kept == Without(mem, old, NoRecord)
<1>0. /\ phase = "up" /\ r \notin issued /\ old \subseteq Forgettable
      /\ Admissible(AssetOf[r])
      /\ mem' = [kept EXCEPT ![r] = record]
      /\ issued' = issued \cup {r}
      /\ active' = active \cup {r}
      /\ pool' = IF cap > pool THEN cap ELSE pool
      /\ Persist(rows, r, ok)
      /\ UNCHANGED <<phase, cap, crashes>>
  BY DEF AdmitRun, GrowPool
<1>1. /\ rows \in [Runs -> Record]
      /\ \A q \in Runs : rows[q] = IF q \in old THEN NoRecord ELSE disk[q]
  BY WithoutOld DEF TypeOK
<1>2. /\ kept \in [Runs -> Record]
      /\ \A q \in Runs : kept[q] = IF q \in old THEN NoRecord ELSE mem[q]
  BY WithoutOld DEF TypeOK
<1>3. /\ mem[r] = NoRecord /\ disk[r] = NoRecord
      /\ \A q \in Runs : mem[q].parent # r /\ disk[q].parent # r
  BY <1>0, RunsAssumption DEF RecordsIssued
<1> HIDE DEF rows, kept
<1>4. /\ ok \in BOOLEAN
      /\ faults' \in 0..MaxFaults
      /\ ok => disk' = [rows EXCEPT ![r] = mem'[r]] /\ faults' = faults
      /\ ~ok => disk' = rows /\ faults' # 0
  <2>1. TypeOK /\ Persist(rows, r, ok)
    BY <1>0
  <2> QED
    BY <2>1, PersistOutcome
<1>5. NoRecord.status \notin Unfinished \cup Terminal /\ NoRecord.parent = NoRun
      /\ NoRecord.status = "none"
  BY DEF NoRecord, Unfinished, Live, Terminal
<1>6. \A q \in old : q \in Runs /\ mem[q].status \notin Unfinished
  BY <1>0 DEF Forgettable, Terminal, Unfinished, Live
<1>7. /\ mem'[r] = record
      /\ \A q \in Runs \ {r} : mem'[q] = kept[q] /\ disk'[q] = rows[q]
      /\ disk'[r] \in {record, NoRecord}
      /\ mem' \in [Runs -> Record] /\ disk' \in [Runs -> Record]
  BY <1>0, <1>1, <1>2, <1>3, <1>4
<1>8. "queued" \in Unfinished /\ "queued" \notin Terminal
  BY DEF Unfinished, Live, Terminal
<1>a. TypeOK'
  <2>1. ctl' \in [Runs -> Control]
    BY DEF AdmitRun, Without, TypeOK, NoControl, Control
  <2>2. pool' \in 1..MaxCap
    BY <1>0 DEF TypeOK
  <2> QED
    BY <1>0, <1>4, <1>7, <2>1, <2>2 DEF TypeOK
<1>b. ActiveIsUnfinished'
  <2>1. \A q \in Runs : q \in active' <=> mem'[q].status \in Unfinished
    BY <1>0, <1>2, <1>3, <1>5, <1>6, <1>7, <1>8 DEF ActiveIsUnfinished
  <2>2. active' \subseteq Runs
    BY <1>0 DEF TypeOK
  <2> QED
    BY <1>0, <2>1, <2>2 DEF ActiveIsUnfinished
<1>c. ActiveApart'
  <2>1. \A q \in active : AssetOf[q] # AssetOf[r]
    BY <1>0 DEF Admissible
  <2> SUFFICES ASSUME NEW p \in active \cup {r}, NEW q \in active \cup {r}, p # q
               PROVE  AssetOf[p] # AssetOf[q]
    BY <1>0 DEF ActiveApart
  <2> QED
    BY <2>1 DEF ActiveApart
<1>d. ActiveFitsPool'
  <2>0. IsFiniteSet(active) /\ Cardinality(active) \in Nat
    BY ActiveFinite
  <2>1. Cardinality(active \cup {r}) \in {Cardinality(active), Cardinality(active) + 1}
    BY <2>0, FS_AddElement
  <2>2. Cardinality(active') \in Nat /\ Cardinality(active') <= Cardinality(active) + 1
    BY <1>0, <2>0, <2>1
  <2>3. Cardinality(active) < cap
    BY <1>0 DEF Admissible
  <2> QED
    BY <1>0, <2>0, <2>2, <2>3 DEF ActiveFitsPool, TypeOK
<1>e. RecordsIssued'
  <2>1. record.parent \in issued \cup {NoRun}
    OBVIOUS
  <2>2. \A q \in Runs \ {r} : /\ mem'[q] \in {mem[q], NoRecord}
                              /\ disk'[q] \in {disk[q], NoRecord}
    BY <1>1, <1>2, <1>7
  <2> QED
    BY <1>0, <1>5, <1>7, <2>1, <2>2 DEF RecordsIssued
<1>f. MemoryOfPhase'
  BY <1>0 DEF MemoryOfPhase
<1>g. DiskNeverLeads'
  <2> SUFFICES ASSUME NEW q \in Runs, disk'[q].status \in Terminal, mem'[q].status # "none"
               PROVE  mem'[q].status = disk'[q].status
    BY DEF DiskNeverLeads, Known
  <2>1. q # r
    BY <1>5, <1>7, <1>8
  <2>2. mem'[q] = mem[q] /\ disk'[q] = disk[q]
    BY <1>1, <1>2, <1>5, <1>7, <2>1
  <2> QED
    BY <1>0, <2>2 DEF DiskNeverLeads, Known
<1>h. MemoryMatchesDisk'
  <2> SUFFICES ASSUME faults' = 0 PROVE mem' = disk'
    BY DEF MemoryMatchesDisk
  <2>1. ok /\ faults = 0
    BY <1>4
  <2>2. kept = rows
    BY <1>0, <2>1 DEF MemoryMatchesDisk, kept, rows
  <2> QED
    BY <1>0, <1>4, <1>7, <2>1, <2>2
<1>i. ParentHasEnded'
  <2> SUFFICES ASSUME NEW q \in Runs, mem'[q].parent # NoRun
               PROVE  mem'[mem'[q].parent].status \notin Unfinished
    BY DEF ParentHasEnded
  <2> DEFINE p == mem'[q].parent
  <2>1. p \in Runs /\ p # r /\ mem[p].status \notin Unfinished
    <3>1. CASE q = r
      <4>1. p \in issued /\ Retryable(p)
        BY <1>7, <3>1
      <4> QED
        BY <1>0, <4>1 DEF TypeOK, Retryable, Unfinished, Live
    <3>2. CASE q # r
      <4>1. mem'[q] = mem[q]
        BY <1>2, <1>5, <1>7, <3>2
      <4>2. p \in Runs
        BY <4>1 DEF TypeOK, Record
      <4> QED
        BY <1>0, <1>3, <4>1, <4>2 DEF ParentHasEnded
    <3> QED
      BY <3>1, <3>2
  <2>2. mem'[p] = mem[p] \/ mem'[p] = NoRecord
    BY <1>2, <1>7, <2>1
  <2> QED
    BY <1>5, <2>1, <2>2
<1>j. KeepsVerdicts
  BY <1>1, <1>2, <1>3, <1>5, <1>7 DEF KeepsVerdicts
<1> QED
  BY <1>a, <1>b, <1>c, <1>d, <1>e, <1>f, <1>g, <1>h, <1>i, <1>j

(* The process dies. *)
LEMMA CrashIsSafe ==
  ASSUME IInv, Crash
  PROVE  IInv' /\ KeepsVerdicts
<1> USE DEF IInv, Crash
<1>1. NoRecord \in Record /\ NoControl \in Control /\ NoRecord.parent = NoRun
  BY DEF NoRecord, Record, Reasons, NoControl, Control
<1>2. phase' = "down" /\ mem' = [r \in Runs |-> NoRecord] /\ UNCHANGED <<disk, issued>>
  OBVIOUS
<1>a. TypeOK'
  <2>1. crashes' \in 0..MaxCrashes
    BY BoundsAssumption DEF TypeOK
  <2>2. pool' \in 1..MaxCap
    BY BoundsAssumption
  <2> QED
    BY <1>1, <2>1, <2>2 DEF TypeOK
<1>b. ActiveIsUnfinished' /\ ActiveApart'
  BY DEF ActiveIsUnfinished, ActiveApart
<1>c. ActiveFitsPool'
  BY FS_EmptySet DEF ActiveFitsPool
<1>d. RecordsIssued'
  BY <1>1, <1>2 DEF RecordsIssued
<1>e. MemoryOfPhase' /\ DiskNeverLeads' /\ MemoryMatchesDisk' /\ ParentHasEnded'
  BY <1>2 DEF MemoryOfPhase, DiskNeverLeads, MemoryMatchesDisk, ParentHasEnded
<1>f. KeepsVerdicts
  BY <1>2 DEF KeepsVerdicts
<1> QED
  BY <1>a, <1>b, <1>c, <1>d, <1>e, <1>f

(* A new process reads the table. *)
LEMMA LoadIsSafe ==
  ASSUME IInv, Load
  PROVE  IInv' /\ KeepsVerdicts
<1> USE DEF IInv, Load
<1>1. phase' = "loading" /\ mem' = disk /\ UNCHANGED <<disk, issued, active, pool>>
  OBVIOUS
<1>a. TypeOK'
  BY DEF TypeOK
<1>b. ActiveIsUnfinished' /\ ActiveApart' /\ ActiveFitsPool'
  BY DEF ActiveIsUnfinished, ActiveApart, ActiveFitsPool
<1>c. RecordsIssued'
  BY <1>1 DEF RecordsIssued
<1>d. MemoryOfPhase' /\ DiskNeverLeads' /\ MemoryMatchesDisk' /\ ParentHasEnded'
  BY <1>1 DEF MemoryOfPhase, DiskNeverLeads, MemoryMatchesDisk, ParentHasEnded
<1>e. KeepsVerdicts
  <2>1. \A r \in Runs : mem[r].status \notin Terminal
    BY DEF MemoryOfPhase, NoRecord, Terminal
  <2> QED
    BY <1>1, <2>1 DEF KeepsVerdicts
<1> QED
  BY <1>a, <1>b, <1>c, <1>d, <1>e

(* Normalising a record changes nothing but its reason. *)
LEMMA NormalisedRecord ==
  ASSUME NEW record \in Record
  PROVE  /\ Normalised(record) \in Record
         /\ Normalised(record).status = record.status
         /\ Normalised(record).parent = record.parent
         /\ record = NoRecord => Normalised(record) = NoRecord
<1> DEFINE reason == Normalised(record).reason
<1>1. /\ Normalised(record) = [record EXCEPT !.reason = reason]
      /\ reason \in Reasons
  BY DEF Normalised, Record, Reasons, RetryableReasons
<1>2. record = NoRecord => reason = "none"
  BY DEF Normalised, NoRecord
<1> QED
  BY <1>1, <1>2 DEF Record, NoRecord, Normalised

(* Every record is normalised and written, and the service is up. *)
LEMMA FinishLoadIsSafe ==
  ASSUME IInv, FinishLoad
  PROVE  IInv' /\ KeepsVerdicts
<1> USE DEF IInv
<1>1. /\ phase = "loading" /\ phase' = "up"
      /\ \A r \in Runs : mem[r].status \notin Unfinished
      /\ mem' = [r \in Runs |-> Normalised(mem[r])]
      /\ disk' = mem'
      /\ UNCHANGED <<ctl, issued, active, pool, cap, faults, crashes>>
  BY DEF FinishLoad
<1>2. \A r \in Runs : /\ mem'[r] \in Record
                      /\ mem'[r].status = mem[r].status
                      /\ mem'[r].parent = mem[r].parent
                      /\ mem[r] = NoRecord => mem'[r] = NoRecord
  BY <1>1, NormalisedRecord DEF TypeOK
<1>a. TypeOK'
  BY <1>1, <1>2 DEF TypeOK
<1>b. ActiveIsUnfinished' /\ ActiveApart' /\ ActiveFitsPool'
  BY <1>1, <1>2 DEF ActiveIsUnfinished, ActiveApart, ActiveFitsPool
<1>c. RecordsIssued'
  BY <1>1, <1>2 DEF RecordsIssued
<1>d. MemoryOfPhase' /\ DiskNeverLeads' /\ MemoryMatchesDisk'
  BY <1>1 DEF MemoryOfPhase, DiskNeverLeads, MemoryMatchesDisk
<1>e. ParentHasEnded'
  <2> SUFFICES ASSUME NEW q \in Runs, mem'[q].parent # NoRun
               PROVE  mem'[mem'[q].parent].status \notin Unfinished
    BY DEF ParentHasEnded
  <2>1. mem'[q].parent \in Runs
    BY <1>2 DEF Record
  <2> QED
    BY <1>1, <1>2, <2>1
<1>f. KeepsVerdicts
  BY <1>1, <1>2 DEF KeepsVerdicts, MemoryOfPhase
<1> QED
  BY <1>a, <1>b, <1>c, <1>d, <1>e, <1>f

-----------------------------------------------------------------------------
(* The inductive invariant holds initially and is kept by every step. *)

(* A new service satisfies the invariant. *)
LEMMA InitInv == Init => IInv
<1> SUFFICES ASSUME Init PROVE IInv
  OBVIOUS
<1>1. NoRecord \in Record /\ NoControl \in Control /\ NoRecord.parent = NoRun
  BY DEF NoRecord, Record, Reasons, NoControl, Control
<1>2. NoRecord.status = "none" /\ "none" \notin Unfinished \cup Terminal
  BY DEF NoRecord, Unfinished, Live, Terminal
<1>a. TypeOK
  BY <1>1, BoundsAssumption DEF Init, TypeOK
<1>b. ActiveIsUnfinished /\ ActiveApart
  BY <1>2 DEF Init, ActiveIsUnfinished, ActiveApart
<1>c. ActiveFitsPool
  BY FS_EmptySet DEF Init, ActiveFitsPool
<1>d. RecordsIssued /\ MemoryOfPhase /\ DiskNeverLeads /\ MemoryMatchesDisk /\ ParentHasEnded
  BY <1>1, <1>2 DEF Init, RecordsIssued, MemoryOfPhase, DiskNeverLeads, MemoryMatchesDisk,
                    ParentHasEnded, Known
<1> QED
  BY <1>a, <1>b, <1>c, <1>d DEF IInv

(* New runs, retries and what they clean up on the way. *)
LEMMA AdmissionIsSafe ==
  ASSUME IInv, Admission
  PROVE  IInv' /\ KeepsVerdicts
<1>0. TypeOK
  BY DEF IInv
<1>1. ASSUME NEW old, NEW r \in Runs \ issued, NEW ok \in Writes, StartRun(r, old, ok)
      PROVE  IInv' /\ KeepsVerdicts
  <2>1. NewRecord(NoRun, FALSE) \in Record
    BY DEF NewRecord, Record, Reasons, Unfinished, Live
  <2> QED
    BY <1>1, <2>1, AdmitIsSafe DEF StartRun, NewRecord
<1>2. ASSUME NEW old, NEW r \in Runs \ issued, NEW ok \in Writes, NEW p \in issued,
             RetryRun(r, p, old, ok)
      PROVE  IInv' /\ KeepsVerdicts
  <2>1. mem[p] \in Record /\ p \in Runs
    BY <1>0 DEF TypeOK
  <2>2. NewRecord(p, mem[p].resume) \in Record
    BY <2>1 DEF NewRecord, Record, Reasons, Unfinished, Live
  <2>3. /\ NewRecord(p, mem[p].resume).status = "queued"
        /\ NewRecord(p, mem[p].resume).parent = p
    BY DEF NewRecord
  <2> QED
    BY <1>2, <2>2, <2>3, AdmitIsSafe DEF RetryRun
<1>3. GrowPool => pool' \in 1..MaxCap /\ pool <= pool'
  BY <1>0 DEF GrowPool, TypeOK
<1>4. ASSUME NEW old, ForgetRuns(old), pool' \in 1..MaxCap, pool <= pool'
      PROVE  IInv' /\ KeepsVerdicts
  BY <1>4, ForgetIsSafe DEF ForgetRuns
<1>5. ASSUME NEW old, NEW asset, RefuseStart(asset, old)
      PROVE  IInv' /\ KeepsVerdicts
  BY <1>3, <1>4, <1>5 DEF RefuseStart
<1>6. ASSUME NEW old, NEW p, RefuseRetry(p, old)
      PROVE  IInv' /\ KeepsVerdicts
  BY <1>3, <1>4, <1>6 DEF RefuseRetry
<1>7. ASSUME NEW old, Cleanup(old)
      PROVE  IInv' /\ KeepsVerdicts
  <2>1. pool' \in 1..MaxCap /\ pool <= pool'
    BY <1>0, <1>7 DEF Cleanup, TypeOK
  <2> QED
    BY <1>4, <1>7, <2>1 DEF Cleanup
<1>8. ASSUME NEW r \in Forgettable, CleanupFails(r)
      PROVE  IInv' /\ KeepsVerdicts
  <2>1. pool' \in 1..MaxCap /\ pool <= pool'
    BY <1>0, <1>8 DEF CleanupFails, TypeOK
  <2>2. {r} \subseteq Forgettable
    OBVIOUS
  <2> QED
    BY <1>8, <2>1, <2>2, ForgetIsSafe DEF CleanupFails
<1>9. ASSUME NEW n \in 1..MaxCap, ConfigureCap(n)
      PROVE  IInv' /\ KeepsVerdicts
  BY <1>0, <1>9, SettingsAreSafe DEF ConfigureCap, TypeOK
<1> QED
  BY <1>1, <1>2, <1>5, <1>6, <1>7, <1>8, <1>9 DEF Admission

(* The methods that a worker, an endpoint or the watchdog call for one run. *)
LEMMA LifecycleIsSafe ==
  ASSUME IInv, NEW r \in Runs, Lifecycle(r)
  PROVE  IInv' /\ KeepsVerdicts
<1>0. TypeOK /\ mem[r] \in Record
  BY DEF IInv, TypeOK
<1>1. ASSUME NEW ok \in Writes, CheckExpired(r, ok)
      PROVE  IInv' /\ KeepsVerdicts
  <2>1. ExpiryStatus(r) \in Terminal /\ ExpiryReason(r) \in Reasons
    BY DEF ExpiryStatus, ExpiryReason, Terminal, Reasons, RetryableReasons
  <2> QED
    BY <1>1, <2>1, EndRunIsSafe DEF CheckExpired, Due, Unfinished
<1>2. ASSUME NEW ok \in Writes, BeginRun(r, ok)
      PROVE  IInv' /\ KeepsVerdicts
  <2> DEFINE record == [mem[r] EXCEPT !.status = "running"]
  <2>1. record \in Record /\ record.parent = mem[r].parent /\ record.status \in Unfinished
    BY <1>0 DEF Record, Unfinished, Live
  <2>2. Known(r) /\ mem[r].status \in Unfinished /\ mem' = [mem EXCEPT ![r] = record]
    BY <1>2 DEF BeginRun, Known, Unfinished, Live
  <2> HIDE DEF record
  <2> QED
    BY <1>0, <1>2, <2>1, <2>2, RewriteIsSafe DEF BeginRun, TypeOK
<1>3. ASSUME NEW ok \in Writes, BeginPublishing(r, ok)
      PROVE  IInv' /\ KeepsVerdicts
  <2> DEFINE record == [mem[r] EXCEPT !.status = "publishing"]
  <2>1. record \in Record /\ record.parent = mem[r].parent /\ record.status \in Unfinished
    BY <1>0 DEF Record, Unfinished
  <2>2. Known(r) /\ mem[r].status \in Unfinished /\ mem' = [mem EXCEPT ![r] = record]
    BY <1>3 DEF BeginPublishing, Known, Unfinished, Live
  <2>3. ctl' \in [Runs -> Control]
    BY <1>0, <1>3 DEF BeginPublishing, TypeOK, NoControl, Control
  <2> HIDE DEF record
  <2> QED
    BY <1>3, <2>1, <2>2, <2>3, RewriteIsSafe DEF BeginPublishing
<1>4. ASSUME NEW ok \in Writes, NEW gate, CompletePublishing(r, gate, ok)
      PROVE  IInv' /\ KeepsVerdicts
  BY <1>4, EndRunIsSafe
     DEF CompletePublishing, Terminal, Unfinished, Reasons, FailureReasons
<1>5. ASSUME NEW ok \in Writes, CompleteRun(r, ok)
      PROVE  IInv' /\ KeepsVerdicts
  BY <1>5, EndRunIsSafe DEF CompleteRun, Terminal, Reasons
<1>6. ASSUME NEW ok \in Writes, NEW reason \in FailureReasons, FailRun(r, reason, ok)
      PROVE  IInv' /\ KeepsVerdicts
  BY <1>6, EndRunIsSafe DEF FailRun, Terminal, Reasons
<1>7. ASSUME NEW ok \in Writes, CancelRun(r, ok)
      PROVE  IInv' /\ KeepsVerdicts
  BY <1>7, EndRunIsSafe DEF CancelRun, Terminal, Unfinished, Reasons
<1>8. ASSUME NEW ok \in Writes, SetCheckpoint(r, ok)
      PROVE  IInv' /\ KeepsVerdicts
  <2> DEFINE record == [mem[r] EXCEPT !.resume = TRUE]
  <2>1. record \in Record /\ record.parent = mem[r].parent /\ record.status = mem[r].status
    BY <1>0 DEF Record
  <2>2. Known(r) /\ mem' = [mem EXCEPT ![r] = record]
    BY <1>8 DEF SetCheckpoint
  <2> HIDE DEF record
  <2> QED
    BY <1>0, <1>8, <2>1, <2>2, RewriteIsSafe DEF SetCheckpoint, TypeOK
<1>9. ASSUME Touch(r)
      PROVE  IInv' /\ KeepsVerdicts
  BY <1>0, <1>9, SyncIsSafe DEF Touch, TypeOK
<1> QED
  BY <1>1, <1>2, <1>3, <1>4, <1>5, <1>6, <1>7, <1>8, <1>9 DEF Lifecycle

(* Leases and the clock. *)
LEMMA ClockIsSafe ==
  ASSUME IInv, NEW r \in Runs, Clock(r)
  PROVE  IInv' /\ KeepsVerdicts
<1>0. TypeOK /\ ctl[r] \in Control
  BY DEF IInv, TypeOK
<1>1. ASSUME StartLease(r) PROVE IInv' /\ KeepsVerdicts
  <2>1. Renewed(ctl[r]) \in Control
    BY <1>0 DEF Renewed, Control
  <2>2. ctl' \in [Runs -> Control]
    BY <1>0, <1>1, <2>1 DEF StartLease, TypeOK
  <2>3. Known(r)
    BY <1>1 DEF StartLease, Known, Live
  <2> QED
    BY <1>1, <2>2, <2>3, SyncIsSafe DEF StartLease
<1>2. ASSUME PassDeadline(r) \/ Lapse(r) PROVE IInv' /\ KeepsVerdicts
  <2>1. ctl' \in [Runs -> Control]
    BY <1>0, <1>2 DEF PassDeadline, Lapse, TypeOK, Control
  <2> QED
    BY <1>0, <1>2, <2>1, SettingsAreSafe DEF PassDeadline, Lapse, TypeOK
<1> QED
  BY <1>1, <1>2 DEF Clock, RenewLease

(* Crash and restart. *)
LEMMA RestartIsSafe ==
  ASSUME IInv, Restart
  PROVE  IInv' /\ KeepsVerdicts
<1>1. ASSUME NEW r \in Runs, NEW gate \in BOOLEAN, RecoverRun(r, gate)
      PROVE  IInv' /\ KeepsVerdicts
  <2>1. TRUE \in Writes
    BY DEF Writes
  <2>2. {"completed", "failed", "interrupted"} \subseteq Terminal
    BY DEF Terminal
  <2>3. {"completed", "publish_incomplete", "service_restarted"} \subseteq Reasons
    BY DEF Reasons, FailureReasons, RetryableReasons
  <2>4. mem[r].status \in Unfinished /\ phase = "loading"
    BY <1>1 DEF RecoverRun, Unfinished
  <2> QED
    BY <1>1, <2>1, <2>2, <2>3, <2>4, EndRunIsSafe DEF RecoverRun
<1> QED
  BY <1>1, CrashIsSafe, LoadIsSafe, FinishLoadIsSafe DEF Restart

(* Every step of the manager, and every stutter, keeps the invariant. *)
LEMMA StepIsSafe ==
  ASSUME IInv, [Next]_vars
  PROVE  IInv' /\ [KeepsVerdicts]_vars
<1>1. CASE UNCHANGED vars
  BY <1>1 DEF vars, IInv, TypeOK, ActiveIsUnfinished, ActiveApart, ActiveFitsPool,
              RecordsIssued, MemoryOfPhase, DiskNeverLeads, MemoryMatchesDisk,
              ParentHasEnded, Known
<1>2. CASE Next
  BY <1>2, AdmissionIsSafe, LifecycleIsSafe, ClockIsSafe, WatchdogIsSafe, RestartIsSafe DEF Next
<1> QED
  BY <1>1, <1>2

(* The inductive invariant holds at all times. *)
LEMMA InvHolds == Spec => []IInv
  BY InitInv, StepIsSafe, PTL DEF Spec

-----------------------------------------------------------------------------
(* The theorems *)

(* Type correctness: in particular, the pool never outgrows the largest cap
   and no status but those of RunStatus is ever recorded. *)
THEOREM TypeCorrect == Spec => []TypeOK
<1>1. IInv => TypeOK
  BY DEF IInv
<1> QED
  BY <1>1, InvHolds, PTL

(* _active_run_ids, which is all that admission looks at, always holds
   exactly the unfinished runs, also after writes that failed. *)
THEOREM ActiveIndexCorrect == Spec => []ActiveIndexAgrees
<1>1. IInv => ActiveIndexAgrees
  BY DEF IInv, ActiveIsUnfinished, ActiveIndexAgrees
<1> QED
  BY <1>1, InvHolds, PTL

(* Two unfinished runs never work on one asset. *)
THEOREM AssetsExclusive == Spec => []AssetExclusive
<1>1. IInv => AssetExclusive
  BY DEF IInv, ActiveIsUnfinished, ActiveApart, AssetExclusive
<1> QED
  BY <1>1, InvHolds, PTL

(* The current executor has as many threads as there are unfinished runs. *)
THEOREM PoolSuffices == Spec => []ActiveFitsPool
<1>1. IInv => ActiveFitsPool
  BY DEF IInv
<1> QED
  BY <1>1, InvHolds, PTL

(* Without failed writes a crash loses nothing: the table holds the records. *)
THEOREM NothingToLose == Spec => []MemoryMatchesDisk
<1>1. IInv => MemoryMatchesDisk
  BY DEF IInv
<1> QED
  BY <1>1, InvHolds, PTL

(* However many writes fail, no row says a verdict its record does not have. *)
THEOREM TableNeverLeads == Spec => []DiskNeverLeads
<1>1. IInv => DiskNeverLeads
  BY DEF IInv
<1> QED
  BY <1>1, InvHolds, PTL

(* The run a retry continues has ended and stays so. *)
THEOREM ParentsHaveEnded == Spec => []ParentHasEnded
<1>1. IInv => ParentHasEnded
  BY DEF IInv
<1> QED
  BY <1>1, InvHolds, PTL

(* A verdict never changes, in memory while the process lives, in the table
   for ever: late workers, cancellations, the watchdog and restarts included. *)
THEOREM VerdictsAreFinal == Spec => VerdictIsFinal
<1>1. IInv /\ [Next]_vars => [KeepsVerdicts]_vars
  BY StepIsSafe
<1> QED
  BY <1>1, InvHolds, PTL DEF Spec, VerdictIsFinal
=============================================================================
