------------------------- MODULE WriteApprovals_proofs -------------------------
(***************************************************************************)
(* What WriteApprovals keeps for any number of confirm requests, chat      *)
(* calls, restarts and failing statements: an audit row is decided once    *)
(* and tells what was done, no tool passes its gate without consent, and   *)
(* an approval is left over only for a reason.                             *)
(***************************************************************************)
EXTENDS WriteApprovals, TLAPS

-----------------------------------------------------------------------------
(* The inductive invariant *)

Active == Open \cup Holding

(* The status a row has while the request that decided it is under way *)
Decision(c) == IF req[c].approve THEN "confirmed" ELSE "rejected"

(* Where a request is tells what it has decided and what its call did. *)
RequestStage(c) ==
  /\ at[c] = "none" => audit[<<"posted", c>>] = "none"
  /\ at[c] \in {"none", "lost"} => ~req[c].won /\ thread[c] = "none"
  /\ at[c] \notin {"none", "lost"} => req[c].won /\ req[c].row \in Rows
  /\ at[c] \in Active => up /\ audit[req[c].row] = Decision(c)
  /\ at[c] \in (Active \ {"decided"}) \cup {"marked", "unmarked", "failed"} => req[c].approve
  /\ at[c] \in {"decided", "rejected", "granting", "granted"} => thread[c] = "none"
  /\ at[c] \in {"answered", "spending", "marking", "marked"} => thread[c] \in Returned
  /\ ~req[c].approve => thread[c] = "none"

RequestsStaged == \A c \in Confirms : RequestStage(c)

(* A call leaves a row when it returns the offer to confirm, and has passed
   no gate before. *)
CallsStaged ==
  \A w \in Calls :
    /\ audit[<<"asked", w>>] # "none" => thread[w] = "needs_confirmation"
    /\ thread[w] \in {"none", "queued", "read", "prime", "ask"} => how[w] = "none"

NothingQueuedDown == ~up => failed = {}

AuditInv ==
  ApprovalsTypeOK /\ RequestsStaged /\ CallsStaged /\ NothingQueuedDown /\ AuditTellsWinner

(* AuditTellsWinner, of one row *)
RowTells(r) ==
  /\ \A c, d \in Winners(r) : c = d
  /\ audit[r] \in {"none", "pending"} => Winners(r) = {}
  /\ audit[r] \in {"rejected", "confirmed", "executed", "failed"}
       => \E c \in Winners(r) : Did(c, audit[r])

LEMMA InitAuditInv == Init => AuditInv
<1> SUFFICES ASSUME Init PROVE AuditInv
  OBVIOUS
<1>1. ApprovalsTypeOK
  <2>1. {approved, loaded, grantAll, up} \subseteq BOOLEAN
    BY DEF Init
  <2>2. upsets \in 0..MaxUpsets
    BY BoundsAssumption DEF Init
  <2>3. /\ audit \in [Rows -> Statuses] /\ at \in [Confirms -> Places]
        /\ thread \in [Calls -> Threads]
    BY DEF Init, Statuses, Places, Threads
  <2>4. /\ kind \in Kinds /\ stored \in {"absent", "open", "consumed"} /\ failed = {}
        /\ how \in [Calls -> {"none", "cache", "database", "grant_all"}]
    BY DEF Init
  <2>5. req \in [Confirms -> [row : Rows \cup {NoRow}, approve : BOOLEAN, won : BOOLEAN]]
    BY DEF Init
  <2> QED
    BY <2>1, <2>2, <2>3, <2>4, <2>5 DEF ApprovalsTypeOK
<1>2. RequestsStaged /\ CallsStaged /\ NothingQueuedDown
  BY DEF Init, RequestsStaged, RequestStage, CallsStaged, NothingQueuedDown, Rows, Calls,
     Active, Open, Holding, Returned
<1>3. AuditTellsWinner
  BY DEF Init, AuditTellsWinner, Winners
<1> QED
  BY <1>1, <1>2, <1>3 DEF AuditInv

-----------------------------------------------------------------------------
(* How rows may change *)

(* Rows stay, begin to be pending, or expire; requests that have ended and
   calls that have returned stay what they are. *)
LEMMA RowsKept ==
  ASSUME AuditTellsWinner, req' = req,
         \A r \in Rows : \/ audit'[r] = audit[r]
                         \/ audit[r] = "none" /\ audit'[r] = "pending"
                         \/ audit'[r] = "expired",
         \A c \in Confirms : /\ at[c] \in {"marked", "failed"} => at'[c] = at[c]
                             /\ ~req[c].approve /\ thread[c] = "none" => thread'[c] = "none"
                             /\ thread[c] \in Returned => thread'[c] = thread[c]
  PROVE  AuditTellsWinner'
<1>1. ASSUME NEW r \in Rows PROVE RowTells(r)'
  <2>1. RowTells(r)
    BY DEF AuditTellsWinner, RowTells
  <2>2. Winners(r)' = Winners(r) /\ Winners(r) \subseteq Confirms
    BY DEF Winners
  <2>3. CASE audit'[r] = audit[r]
    <3>1. ASSUME NEW c \in Confirms, Did(c, audit[r]) PROVE Did(c, audit[r])'
      BY <2>3, <3>1 DEF Did
    <3> QED
      BY <2>1, <2>2, <2>3, <3>1 DEF RowTells
  <2>4. CASE audit[r] = "none" /\ audit'[r] = "pending"
    BY <2>1, <2>2, <2>4 DEF RowTells
  <2>5. CASE audit'[r] = "expired"
    BY <2>1, <2>2, <2>5 DEF RowTells
  <2> QED
    BY <2>3, <2>4, <2>5
<1> QED
  BY <1>1 DEF AuditTellsWinner, RowTells

(* A row is decided by a request that had decided none. *)
LEMMA RowDecided ==
  ASSUME AuditInv, NEW c \in Confirms, at[c] = "none", NEW r \in Rows,
         audit[r] \in {"none", "pending"}, NEW approve \in BOOLEAN,
         audit' = [audit EXCEPT ![r] = IF approve THEN "confirmed" ELSE "rejected"],
         req' = [req EXCEPT ![c] = [row |-> r, approve |-> approve, won |-> TRUE]],
         at' = [at EXCEPT ![c] = "decided"], thread' = thread
  PROVE  AuditTellsWinner'
<1> USE DEF AuditInv, ApprovalsTypeOK
<1>1. ~req[c].won /\ thread[c] = "none"
  BY DEF RequestsStaged, RequestStage
<1>2. Winners(r) = {}
  BY DEF AuditTellsWinner
<1>3. /\ req'[c].row = r /\ req'[c].approve = approve /\ req'[c].won
      /\ \A d \in Confirms \ {c} : req'[d] = req[d] /\ at'[d] = at[d]
  OBVIOUS
<1>4. Winners(r)' = {c}
  BY <1>2, <1>3 DEF Winners
<1>5. \A q \in Rows \ {r} : Winners(q)' = Winners(q) /\ c \notin Winners(q) /\ audit'[q] = audit[q]
  BY <1>1, <1>3 DEF Winners
<1>6. audit'[r] = IF approve THEN "confirmed" ELSE "rejected"
  OBVIOUS
<1>7. Did(c, audit[r])'
  <2>1. thread'[c] = "none" /\ (approve => audit'[r] = "confirmed") /\ (~approve => audit'[r] = "rejected")
    BY <1>1, <1>6
  <2> QED
    BY <1>3, <2>1 DEF Did
<1>8. ASSUME NEW q \in Rows \ {r}, NEW d \in Confirms \ {c}, Did(d, audit[q]) PROVE Did(d, audit[q])'
  BY <1>3, <1>5, <1>8 DEF Did
<1>9. ASSUME NEW q \in Rows
      PROVE  RowTells(q)'
  <2>1. CASE q = r
    BY <1>4, <1>6, <1>7, <2>1 DEF RowTells
  <2>2. CASE q # r
    <3>1. Winners(q)' = Winners(q) /\ Winners(q) \subseteq Confirms \ {c} /\ audit'[q] = audit[q]
      BY <1>5, <2>2 DEF Winners
    <3> QED
      BY <1>8, <2>2, <3>1 DEF AuditTellsWinner, RowTells
  <2> QED
    BY <2>1, <2>2
<1> QED
  BY <1>9 DEF AuditTellsWinner, RowTells

(* A row is marked by the request that decided it. *)
LEMMA RowMarked ==
  ASSUME AuditInv, NEW c \in Confirms, at[c] \in {"marking", "failing"},
         NEW status \in {"executed", "failed"},
         audit' = [audit EXCEPT ![req[c].row] = status], UNCHANGED <<req, thread>>,
         at' = [at EXCEPT ![c] = IF status = "executed" THEN "marked" ELSE "failed"],
         status = "executed" => thread[c] \in Returned
  PROVE  AuditTellsWinner'
<1> DEFINE r == req[c].row
<1> USE DEF AuditInv, ApprovalsTypeOK
<1>1. req[c].won /\ r \in Rows /\ c \in Winners(r)
  BY DEF RequestsStaged, RequestStage, Winners
<1>2. \A q \in Rows : Winners(q)' = Winners(q) /\ Winners(q) \subseteq Confirms
  BY DEF Winners
<1>3. Did(c, audit[r])'
  <2>1. audit'[r] = status /\ req'[c].row = r /\ at'[c] = IF status = "executed" THEN "marked" ELSE "failed"
    BY <1>1
  <2> QED
    BY <2>1 DEF Did
<1>4. ASSUME NEW q \in Rows \ {r}, NEW d \in Confirms \ {c}, Did(d, audit[q]) PROVE Did(d, audit[q])'
  BY <1>4 DEF Did
<1>5. ASSUME NEW q \in Rows
      PROVE  RowTells(q)'
  <2>1. CASE q = r
    <3>1. audit'[r] = status
      BY <1>1
    <3>2. (Winners(r) = {c})'
      BY <1>1, <1>2 DEF AuditTellsWinner
    <3> QED
      BY <1>3, <2>1, <3>1, <3>2 DEF RowTells
  <2>2. CASE q # r
    <3>1. audit'[q] = audit[q] /\ c \notin Winners(q)
      BY <2>2 DEF Winners
    <3> QED
      BY <1>2, <1>4, <2>2, <3>1 DEF AuditTellsWinner, RowTells
  <2> QED
    BY <2>1, <2>2
<1> QED
  BY <1>5 DEF AuditTellsWinner, RowTells

-----------------------------------------------------------------------------
(* Where requests and calls may go *)

(* A call that runs has been made by a request that waits or has gone. *)
LEMMA CallsGoOn ==
  ASSUME AuditInv, NEW w \in Calls, thread[w] \in Running,
         NEW to \in Running \cup Returned \cup {"dropped"}, thread' = [thread EXCEPT ![w] = to],
         UNCHANGED <<req, at, up>>,
         \A c \in Confirms : audit'[<<"posted", c>>] = audit[<<"posted", c>>],
         \A r \in Rows : audit[r] # "none" => audit'[r] = audit[r]
  PROVE  RequestsStaged'
<1> SUFFICES ASSUME NEW c \in Confirms PROVE RequestStage(c)'
  BY DEF RequestsStaged
<1> USE DEF AuditInv, ApprovalsTypeOK
<1>1. RequestStage(c)
  BY DEF RequestsStaged
<1>2. thread'[c] = thread[c] \/ thread[c] \in Running
  BY DEF Calls
<1>3. thread[c] \in Running => thread[c] \notin Returned \cup {"none"}
  BY DEF Running, Returned
<1>4. thread[c] \in Returned => thread'[c] = thread[c]
  BY <1>2, <1>3
<1>5. thread[c] = "none" => thread'[c] = thread[c]
  BY <1>2, <1>3
<1>6. at[c] \in Active => audit'[req[c].row] = audit[req[c].row]
  BY <1>1 DEF RequestStage, Decision, Active, Open, Holding
<1> QED
  BY <1>1, <1>4, <1>5, <1>6 DEF RequestStage, Decision

(* A request moves on, and leaves the rows as they are. *)
LEMMA RequestGoesOn ==
  ASSUME AuditInv, NEW c \in Confirms, NEW place \in Places, at' = [at EXCEPT ![c] = place],
         UNCHANGED <<req, audit, up>>, RequestStage(c)',
         thread' = thread \/ \E to : thread' = [thread EXCEPT ![c] = to]
  PROVE  RequestsStaged'
<1> USE DEF AuditInv, ApprovalsTypeOK
<1>1. ASSUME NEW d \in Confirms, d # c PROVE RequestStage(d)'
  <2>1. at'[d] = at[d] /\ thread'[d] = thread[d] /\ RequestStage(d)
    BY <1>1 DEF RequestsStaged, Calls
  <2> QED
    BY <2>1 DEF RequestStage, Decision
<1> QED
  BY <1>1 DEF RequestsStaged

(* The row of an active request belongs to it. *)
LEMMA RowIsOwn ==
  ASSUME AuditInv, NEW c \in Confirms, NEW d \in Confirms,
         at[c] \in Active, at[d] \in Active, req[c].row = req[d].row
  PROVE  c = d
<1>1. c \in Winners(req[c].row) /\ d \in Winners(req[c].row) /\ req[c].row \in Rows
  BY DEF AuditInv, RequestsStaged, RequestStage, Winners, Active, Open, Holding
<1> QED
  BY <1>1 DEF AuditInv, AuditTellsWinner

(* A request marks the row it has decided. *)
LEMMA RequestMarks ==
  ASSUME AuditInv, NEW c \in Confirms, at[c] \in Active, NEW status,
         NEW place \in {"marked", "failed"},
         place = "marked" => at[c] = "marking", req[c].approve,
         at' = [at EXCEPT ![c] = place], audit' = [audit EXCEPT ![req[c].row] = status],
         UNCHANGED <<req, thread, up>>
  PROVE  RequestsStaged'
<1> USE DEF AuditInv, ApprovalsTypeOK
<1>1. req[c].row \in Rows /\ req[c].won /\ audit[req[c].row] = "confirmed"
  BY DEF RequestsStaged, RequestStage, Decision, Active, Open, Holding
<1>2. ASSUME NEW d \in Confirms, d # c PROVE RequestStage(d)'
  <2>1. at'[d] = at[d] /\ RequestStage(d)
    BY <1>2 DEF RequestsStaged
  <2>2. at[d] \in Active => audit'[req[d].row] = audit[req[d].row]
    <3>1. ASSUME at[d] \in Active PROVE req[d].row # req[c].row
      BY <1>2, <3>1, RowIsOwn
    <3> QED
      BY <3>1
  <2>3. at[d] = "none" => audit'[<<"posted", d>>] = "none"
    <3>1. ASSUME at[d] = "none" PROVE <<"posted", d>> # req[c].row
      BY <1>1, <2>1, <3>1 DEF RequestStage
    <3> QED
      BY <2>1, <3>1 DEF RequestStage
  <2> QED
    BY <2>1, <2>2, <2>3 DEF RequestStage, Decision
<1>3. RequestStage(c)'
  BY <1>1 DEF RequestsStaged, RequestStage, Active, Open, Holding
<1> QED
  BY <1>2, <1>3 DEF RequestsStaged

(* A request claims a row that nobody has decided. *)
LEMMA RequestClaims ==
  ASSUME AuditInv, NEW c \in Confirms, at[c] = "none", up, NEW r \in Rows,
         audit[r] = "pending" \/ r = <<"posted", c>>, NEW approve \in BOOLEAN,
         audit' = [audit EXCEPT ![r] = IF approve THEN "confirmed" ELSE "rejected"],
         req' = [req EXCEPT ![c] = [row |-> r, approve |-> approve, won |-> TRUE]],
         at' = [at EXCEPT ![c] = "decided"], UNCHANGED <<thread, up>>
  PROVE  RequestsStaged'
<1> USE DEF AuditInv, ApprovalsTypeOK
<1>1. /\ audit[r] \in {"none", "pending"} /\ thread[c] = "none"
      /\ audit'[r] = IF approve THEN "confirmed" ELSE "rejected"
      /\ req'[c] = [row |-> r, approve |-> approve, won |-> TRUE] /\ at'[c] = "decided"
  BY DEF RequestsStaged, RequestStage
<1>2. ASSUME NEW d \in Confirms, d # c PROVE RequestStage(d)'
  <2>1. at'[d] = at[d] /\ req'[d] = req[d] /\ RequestStage(d)
    BY <1>2 DEF RequestsStaged
  <2>2. at[d] \in Active => audit'[req[d].row] = audit[req[d].row]
    BY <1>1, <2>1 DEF RequestStage, Decision
  <2>3. at[d] = "none" => audit'[<<"posted", d>>] = "none"
    <3>1. ASSUME at[d] = "none" PROVE <<"posted", d>> # r
      <4>1. audit[<<"posted", d>>] = "none"
        BY <2>1, <3>1 DEF RequestStage
      <4>2. <<"posted", d>> # <<"posted", c>>
        BY <1>2
      <4> QED
        BY <4>1, <4>2
    <3> QED
      BY <2>1, <3>1 DEF RequestStage
  <2> QED
    BY <2>1, <2>2, <2>3 DEF RequestStage, Decision
<1>3. RequestStage(c)'
  BY <1>1 DEF RequestStage, Decision, Active, Open, Holding
<1> QED
  BY <1>2, <1>3 DEF RequestsStaged

-----------------------------------------------------------------------------
(* Calls of the tool *)

Gated == {"queued", "read", "prime", "ask"}

(* What the registry may be after a step *)
RegistryTyped ==
  /\ {approved, loaded, grantAll} \subseteq BOOLEAN
  /\ stored \in {"absent", "open", "consumed"}
  /\ upsets \in 0..MaxUpsets

LEMMA StatementTypes ==
  ASSUME ApprovalsTypeOK, DbWorks \/ DbFails
  PROVE  upsets' \in 0..MaxUpsets
  BY BoundsAssumption DEF ApprovalsTypeOK, DbWorks, DbFails

(* A step of a call that leaves the rows as they are, or makes its own *)
LEMMA CallKeeps ==
  ASSUME AuditInv, NEW w \in Calls, thread[w] \in Running,
         NEW to \in Running \cup Returned, thread' = [thread EXCEPT ![w] = to],
         UNCHANGED <<req, at, up, kind, failed>>, RegistryTyped',
         \/ audit' = audit
         \/ /\ audit' = [audit EXCEPT ![<<"asked", w>>] = "pending"]
            /\ thread[w] = "ask" /\ to = "needs_confirmation",
         \/ how' = how /\ (to \in Gated => thread[w] \in Gated)
         \/ /\ \E g \in {"cache", "database", "grant_all"} : how' = [how EXCEPT ![w] = g]
            /\ to = "write"
  PROVE  AuditInv'
<1> USE DEF AuditInv
<1>1. thread[w] \notin Returned \cup {"none", "dropped"} /\ <<"asked", w>> \in Rows
  BY DEF Running, Returned, Rows
<1>2. audit[<<"asked", w>>] = "none"
  BY <1>1 DEF CallsStaged, Returned, ApprovalsTypeOK
<1>3. /\ \A c \in Confirms : audit'[<<"posted", c>>] = audit[<<"posted", c>>]
      /\ \A r \in Rows : audit'[r] = audit[r] \/ (audit[r] = "none" /\ audit'[r] = "pending")
  BY <1>1, <1>2 DEF ApprovalsTypeOK, Rows
<1>4. RequestsStaged'
  BY <1>3, CallsGoOn
<1>5. AuditTellsWinner'
  <2>1. \A c \in Confirms : /\ thread[c] \in Returned \cup {"none"} => thread'[c] = thread[c]
                            /\ at'[c] = at[c]
    BY <1>1 DEF ApprovalsTypeOK, Calls
  <2> QED
    BY <1>3, <2>1, RowsKept
<1>6. ApprovalsTypeOK'
  <2>1. audit' \in [Rows -> Statuses]
    BY DEF ApprovalsTypeOK, Statuses
  <2>2. thread' \in [Calls -> Threads] /\ how' \in [Calls -> {"none", "cache", "database", "grant_all"}]
    BY DEF ApprovalsTypeOK, Threads
  <2>3. {approved', loaded', grantAll', up'} \subseteq BOOLEAN
    BY DEF ApprovalsTypeOK, RegistryTyped
  <2> QED
    BY <2>1, <2>2, <2>3 DEF ApprovalsTypeOK, RegistryTyped
<1>7. CallsStaged'
  <2>1. ASSUME NEW v \in Calls
        PROVE  /\ audit'[<<"asked", v>>] # "none" => thread'[v] = "needs_confirmation"
               /\ thread'[v] \in {"none", "queued", "read", "prime", "ask"} => how'[v] = "none"
    <3>1. CASE v = w
      BY <1>1, <1>2, <3>1 DEF CallsStaged, ApprovalsTypeOK, Gated, Running, Returned
    <3>2. CASE v # w
      <4>1. thread'[v] = thread[v]
        BY <3>2 DEF ApprovalsTypeOK
      <4>2. how'[v] = how[v]
        BY <3>2 DEF ApprovalsTypeOK
      <4>3. audit'[<<"asked", v>>] = audit[<<"asked", v>>]
        BY <3>2 DEF ApprovalsTypeOK, Rows
      <4> QED
        BY <4>1, <4>2, <4>3 DEF CallsStaged
    <3> QED
      BY <3>1, <3>2
  <2> QED
    BY <2>1 DEF CallsStaged
<1> QED
  BY <1>4, <1>5, <1>6, <1>7 DEF NothingQueuedDown

LEMMA LoadTypes ==
  ASSUME ApprovalsTypeOK, Load
  PROVE  approved' \in BOOLEAN /\ loaded' \in BOOLEAN /\ upsets' \in 0..MaxUpsets
<1>1. approved' \in BOOLEAN /\ loaded' \in BOOLEAN
  BY DEF Load, ApprovalsTypeOK
<1>2. upsets' \in 0..MaxUpsets
  BY StatementTypes DEF Load
<1> QED
  BY <1>1, <1>2

LEMMA ToolKeeps ==
  ASSUME AuditInv, NEW w \in Calls, Tool(w)
  PROVE  AuditInv'
<1>1. ApprovalsTypeOK /\ RegistryTyped
  BY DEF AuditInv, ApprovalsTypeOK, RegistryTyped
<1> USE DEF memory, database, requests, calls, bounds, Running, Returned, Gated, RegistryTyped
<1>2. CASE Gate(w)
  <2>1. RegistryTyped'
    BY <1>1, <1>2, LoadTypes DEF Gate
  <2>2. CASE approved'
    BY <1>2, <2>1, <2>2, CallKeeps DEF Gate
  <2>3. CASE ~approved'
    BY <1>2, <2>1, <2>3, CallKeeps DEF Gate
  <2> QED
    BY <2>2, <2>3
<1>3. CASE ReadApproval(w)
  <2>1. RegistryTyped'
    BY <1>1, <1>3, StatementTypes DEF ReadApproval
  <2>2. \E to \in {"prime", "ask"} : thread' = [thread EXCEPT ![w] = to]
    BY <1>3 DEF ReadApproval
  <2> QED
    BY <1>3, <2>1, <2>2, CallKeeps DEF ReadApproval
<1>4. CASE PrimeCache(w)
  <2>1. RegistryTyped'
    BY <1>1, <1>4 DEF PrimeCache, Grant
  <2> QED
    BY <1>4, <2>1, CallKeeps DEF PrimeCache
<1>5. CASE AskUser(w)
  <2>1. RegistryTyped'
    BY <1>1, <1>5, StatementTypes DEF AskUser, DbWorks
  <2>2. \/ thread' = [thread EXCEPT ![w] = "write"] /\ how' = [how EXCEPT ![w] = "grant_all"] /\ audit' = audit
        \/ /\ thread' = [thread EXCEPT ![w] = "needs_confirmation"] /\ how' = how
           /\ audit' = audit \/ audit' = [audit EXCEPT ![<<"asked", w>>] = "pending"]
    BY <1>5 DEF AskUser
  <2> QED
    BY <1>5, <2>1, <2>2, CallKeeps DEF AskUser
<1>6. CASE Write(w)
  <2>1. \E to \in {"spend", "ok", "error"} : thread' = [thread EXCEPT ![w] = to]
    BY <1>6 DEF Write
  <2> QED
    BY <1>1, <1>6, <2>1, CallKeeps DEF Write
<1>7. CASE ToolSpends(w)
  <2>1. RegistryTyped'
    BY <1>1, <1>7 DEF ToolSpends, Spend
  <2> QED
    BY <1>7, <2>1, CallKeeps DEF ToolSpends
<1>8. CASE ToolReturns(w)
  <2>1. RegistryTyped'
    BY <1>1, <1>8, StatementTypes DEF ToolReturns, StoreSpent
  <2> QED
    BY <1>8, <2>1, CallKeeps DEF ToolReturns
<1> QED
  BY <1>2, <1>3, <1>4, <1>5, <1>6, <1>7, <1>8 DEF Tool

-----------------------------------------------------------------------------
(* The endpoint *)

(* The call of a request changes its place. *)
LEMMA OwnCallStaged ==
  ASSUME AuditInv, NEW c \in Confirms, thread[c] \in {"none", "queued"},
         NEW to \in {"queued", "dropped"}, thread' = [thread EXCEPT ![c] = to],
         UNCHANGED <<audit, how>>
  PROVE  CallsStaged'
<1>1. c \in Calls /\ thread[c] # "needs_confirmation"
  BY DEF Calls
<1>2. how[c] = "none" /\ audit[<<"asked", c>>] = "none"
  BY <1>1 DEF AuditInv, CallsStaged
<1>3. thread \in [Calls -> Threads]
  BY DEF AuditInv, ApprovalsTypeOK
<1> QED
  BY <1>1, <1>2, <1>3 DEF AuditInv, CallsStaged

(* A step of a request under way that leaves the rows as they are *)
LEMMA EndpointKeeps ==
  ASSUME AuditInv, NEW c \in Confirms, at[c] \in Active, NEW place \in Places,
         at' = [at EXCEPT ![c] = place], RequestStage(c)',
         UNCHANGED <<req, audit, how, up, kind>>, RegistryTyped',
         failed' \subseteq Rows \X {"executed", "failed"},
         \/ thread' = thread
         \/ thread[c] = "none" /\ thread' = [thread EXCEPT ![c] = "queued"] /\ req[c].approve
         \/ thread[c] = "queued" /\ thread' = [thread EXCEPT ![c] = "dropped"]
  PROVE  AuditInv'
<1> USE DEF AuditInv
<1>1. up /\ c \in Calls
  BY DEF RequestsStaged, RequestStage, Calls
<1>2. RequestsStaged'
  BY RequestGoesOn
<1>3. ApprovalsTypeOK'
  <2>1. thread' \in [Calls -> Threads] /\ at' \in [Confirms -> Places]
    BY <1>1 DEF ApprovalsTypeOK, Threads, Running
  <2>2. {approved', loaded', grantAll', up'} \subseteq BOOLEAN
    BY DEF ApprovalsTypeOK, RegistryTyped
  <2> QED
    BY <2>1, <2>2 DEF ApprovalsTypeOK, RegistryTyped
<1>4. CallsStaged'
  <2>1. CASE thread' = thread
    BY <2>1 DEF CallsStaged
  <2> QED
    BY <2>1, OwnCallStaged
<1>5. NothingQueuedDown'
  BY <1>1 DEF NothingQueuedDown
<1>6. AuditTellsWinner'
  <2>1. ASSUME NEW d \in Confirms
        PROVE  /\ at[d] \in {"marked", "failed"} => at'[d] = at[d]
               /\ ~req[d].approve /\ thread[d] = "none" => thread'[d] = "none"
               /\ thread[d] \in Returned => thread'[d] = thread[d]
    <3>1. CASE d = c
      BY <3>1 DEF Active, Open, Holding, Returned, ApprovalsTypeOK
    <3>2. CASE d # c
      BY <3>2 DEF ApprovalsTypeOK, Calls
    <3> QED
      BY <3>1, <3>2
  <2> QED
    BY <2>1, RowsKept
<1> QED
  BY <1>2, <1>3, <1>4, <1>5, <1>6

(* A step of a request under way that marks its row *)
LEMMA MarkKeeps ==
  ASSUME AuditInv, NEW c \in Confirms, MarkExecuted(c) \/ MarkFailed(c)
  PROVE  AuditInv'
<1> USE DEF AuditInv
<1>1. /\ at[c] \in Active /\ at[c] \in {"marking", "failing"} /\ UNCHANGED <<req, thread, how, up, kind>>
      /\ UNCHANGED <<approved, loaded, grantAll, stored>>
  BY DEF MarkExecuted, MarkFailed, Active, Open, Holding, calls, bounds
<1>2. /\ RequestStage(c) /\ req[c].approve /\ req[c].row \in Rows /\ up
      /\ audit[req[c].row] = "confirmed" /\ (at[c] = "marking" => thread[c] \in Returned)
  BY <1>1 DEF RequestsStaged, RequestStage, Decision, Active, Open, Holding
<1>3. RegistryTyped'
  <2>1. DbWorks \/ DbFails
    BY DEF MarkExecuted, MarkFailed, Mark
  <2> QED
    BY <1>1, <2>1, StatementTypes DEF RegistryTyped, ApprovalsTypeOK
<1>4. PICK status \in {"executed", "failed"}, place \in {"marked", "failed"} :
        /\ Mark(c, status, place)
        /\ place = IF status = "executed" THEN "marked" ELSE "failed"
        /\ status = "executed" => at[c] = "marking"
  BY DEF MarkExecuted, MarkFailed
<1>5. CASE /\ audit' = [audit EXCEPT ![req[c].row] = status]
           /\ GoTo(c, place) /\ UNCHANGED failed
  <2>1. RequestsStaged'
    BY <1>1, <1>2, <1>4, <1>5, RequestMarks DEF GoTo
  <2>2. AuditTellsWinner'
    BY <1>1, <1>2, <1>4, <1>5, RowMarked DEF GoTo
  <2>3. ApprovalsTypeOK'
    <3>1. audit' \in [Rows -> Statuses] /\ at' \in [Confirms -> Places]
      BY <1>5 DEF ApprovalsTypeOK, GoTo, Statuses, Places, Ends
    <3>2. {approved', loaded', grantAll', up'} \subseteq BOOLEAN
      BY <1>1 DEF ApprovalsTypeOK
    <3> QED
      BY <1>1, <1>3, <1>5, <3>1, <3>2 DEF ApprovalsTypeOK, RegistryTyped
  <2>4. CallsStaged'
    <3>1. \A w \in Calls : <<"asked", w>> # req[c].row => audit'[<<"asked", w>>] = audit[<<"asked", w>>]
      BY <1>5 DEF ApprovalsTypeOK, Rows
    <3> QED
      BY <1>1, <1>2, <3>1 DEF CallsStaged
  <2> QED
    BY <1>2, <2>1, <2>2, <2>3, <2>4, <1>1 DEF NothingQueuedDown
<1>6. CASE /\ failed' = failed \cup {<<req[c].row, status>>}
           /\ GoTo(c, "unmarked") /\ UNCHANGED audit
  <2>1. RequestStage(c)'
    <3>1. at'[c] = "unmarked"
      BY <1>6 DEF GoTo, ApprovalsTypeOK
    <3> QED
      BY <1>1, <1>2, <3>1 DEF RequestStage, Active, Open, Holding
  <2>2. failed' \subseteq Rows \X {"executed", "failed"} /\ "unmarked" \in Places
    BY <1>2, <1>6 DEF ApprovalsTypeOK, Places, Ends
  <2> QED
    BY <1>1, <1>3, <1>6, <2>1, <2>2, EndpointKeeps DEF GoTo
<1> QED
  BY <1>4, <1>5, <1>6 DEF Mark

(* A request arrives. *)
LEMMA ConfirmKeeps ==
  ASSUME AuditInv, NEW c \in Confirms, Confirm(c)
  PROVE  AuditInv'
<1> USE DEF AuditInv
<1>1. /\ at[c] = "none" /\ up /\ UNCHANGED <<approved, loaded, grantAll, failed, stored, thread, how, up, kind>>
  BY DEF Confirm, OnLoop, memory, calls, bounds
<1>2. RequestStage(c) /\ <<"posted", c>> \in Rows /\ audit[<<"posted", c>>] = "none"
      /\ ~req[c].won /\ thread[c] = "none"
  BY <1>1 DEF RequestsStaged, RequestStage, Rows
<1>3. RegistryTyped'
  <2>1. DbWorks \/ DbFails
    BY DEF Confirm, ClaimFails
  <2> QED
    BY <1>1, <2>1, StatementTypes DEF RegistryTyped, ApprovalsTypeOK
<1>4. ASSUME audit' \in [Rows -> Statuses], at' \in [Confirms -> Places],
             req' \in [Confirms -> [row : Rows \cup {NoRow}, approve : BOOLEAN, won : BOOLEAN]],
             \A w \in Calls : audit[<<"asked", w>>] = "none" => audit'[<<"asked", w>>] = "none",
             RequestsStaged', AuditTellsWinner'
      PROVE  AuditInv'
  <2>1. {approved', loaded', grantAll', up'} \subseteq BOOLEAN
    BY <1>1 DEF ApprovalsTypeOK
  <2>2. ApprovalsTypeOK'
    BY <1>1, <1>3, <1>4, <2>1 DEF ApprovalsTypeOK, RegistryTyped
  <2>3. CallsStaged'
    BY <1>1, <1>4 DEF CallsStaged
  <2> QED
    BY <1>1, <1>4, <2>2, <2>3 DEF NothingQueuedDown
<1>5. ASSUME NEW r \in Rows, NEW approve \in BOOLEAN, audit[r] = "pending" \/ r = <<"posted", c>>,
             audit' = [audit EXCEPT ![r] = IF approve THEN "confirmed" ELSE "rejected"],
             req' = [req EXCEPT ![c] = [row |-> r, approve |-> approve, won |-> TRUE]],
             GoTo(c, "decided")
      PROVE  AuditInv'
  <2>1. RequestsStaged'
    BY <1>1, <1>5, RequestClaims DEF GoTo
  <2>2. AuditTellsWinner'
    BY <1>1, <1>2, <1>5, RowDecided DEF GoTo
  <2>3. audit' \in [Rows -> Statuses] /\ at' \in [Confirms -> Places]
    BY <1>5 DEF ApprovalsTypeOK, GoTo, Statuses, Places, Open
  <2>4. req' \in [Confirms -> [row : Rows \cup {NoRow}, approve : BOOLEAN, won : BOOLEAN]]
    BY <1>5 DEF ApprovalsTypeOK
  <2>5. ASSUME NEW w \in Calls, audit[<<"asked", w>>] = "none" PROVE audit'[<<"asked", w>>] = "none"
    <3>1. <<"asked", w>> # <<"posted", c>> /\ <<"asked", w>> \in Rows
      BY DEF Rows
    <3>2. <<"asked", w>> # r
      BY <1>5, <2>5, <3>1
    <3> QED
      BY <1>5, <2>5, <3>1, <3>2 DEF ApprovalsTypeOK
  <2> QED
    BY <1>4, <2>1, <2>2, <2>3, <2>4, <2>5
<1>6. ASSUME req' = req, GoTo(c, "lost"),
             audit' \in {audit, [audit EXCEPT ![<<"posted", c>>] = "pending"]}
      PROVE  AuditInv'
  <2>1. /\ \A r \in Rows \ {<<"posted", c>>} : audit'[r] = audit[r]
        /\ audit'[<<"posted", c>>] \in {"none", "pending"}
    BY <1>2, <1>6 DEF ApprovalsTypeOK
  <2>2. at'[c] = "lost" /\ \A d \in Confirms \ {c} : at'[d] = at[d]
    BY <1>6 DEF GoTo, ApprovalsTypeOK
  <2>3. ASSUME NEW d \in Confirms PROVE RequestStage(d)'
    <3>1. CASE d = c
      BY <1>1, <1>2, <1>6, <2>2, <3>1 DEF RequestStage, Active, Open, Holding
    <3>2. CASE d # c
      <4>1. at'[d] = at[d] /\ RequestStage(d)
        BY <2>2, <3>2 DEF RequestsStaged
      <4>2. at[d] = "none" => audit'[<<"posted", d>>] = "none"
        BY <2>1, <3>2, <4>1 DEF RequestStage, Rows
      <4>3. at[d] \in Active => audit'[req[d].row] = audit[req[d].row]
        BY <1>2, <2>1, <4>1 DEF RequestStage, Decision, Active, Open, Holding
      <4> QED
        BY <1>1, <1>6, <4>1, <4>2, <4>3 DEF RequestStage, Decision
    <3> QED
      BY <3>1, <3>2
  <2>4. AuditTellsWinner'
    <3>1. \A r \in Rows : audit'[r] = audit[r] \/ (audit[r] = "none" /\ audit'[r] = "pending")
      BY <1>2, <2>1
    <3>2. \A d \in Confirms : at[d] \in {"marked", "failed"} => at'[d] = at[d]
      BY <1>1, <2>2
    <3> QED
      BY <1>1, <1>6, <3>1, <3>2, RowsKept
  <2>5. audit' \in [Rows -> Statuses] /\ at' \in [Confirms -> Places]
    BY <1>6 DEF ApprovalsTypeOK, GoTo, Statuses, Places, Ends
  <2>6. \A w \in Calls : audit[<<"asked", w>>] = "none" => audit'[<<"asked", w>>] = "none"
    BY <2>1 DEF Rows
  <2> QED
    BY <1>4, <1>6, <2>3, <2>4, <2>5, <2>6 DEF RequestsStaged, ApprovalsTypeOK
<1>7. CASE \E approve \in BOOLEAN, r \in Rows : audit[r] # "none" /\ Claim(c, r, approve)
  BY <1>5, <1>6, <1>7 DEF Claim
<1>8. CASE \E approve \in BOOLEAN : ClaimNew(c, approve)
  BY <1>2, <1>5, <1>8 DEF ClaimNew
<1>9. CASE ClaimFails(c)
  BY <1>6, <1>9 DEF ClaimFails
<1> QED
  BY <1>7, <1>8, <1>9 DEF Confirm

(* The other steps of a request under way *)
LEMMA EndpointStepKeeps ==
  ASSUME AuditInv, NEW c \in Confirms, Endpoint(c)
  PROVE  AuditInv'
<1> USE DEF AuditInv, RegistryTyped, GoTo, memory, database, calls, bounds, Active, Open, Holding
<1>1. ApprovalsTypeOK /\ RequestStage(c) /\ RegistryTyped /\ failed \subseteq Rows \X {"executed", "failed"}
  BY DEF RequestsStaged, ApprovalsTypeOK
<1>2. /\ \A place \in Places : at' = [at EXCEPT ![c] = place] => at'[c] = place
      /\ \A to : thread' = [thread EXCEPT ![c] = to] => thread'[c] = to
  BY DEF ApprovalsTypeOK, Calls
<1>3. Open \cup Holding \cup Ends \subseteq Places /\ Running \cap (Returned \cup {"none"}) = {}
  BY DEF Places, Running, Returned
<1>4. CASE Rejected(c)
  <2>1. RequestStage(c)'
    BY <1>1, <1>2, <1>3, <1>4 DEF Rejected, RequestStage, Ends
  <2> QED
    BY <1>1, <1>3, <1>4, <2>1, EndpointKeeps DEF Rejected, Ends
<1>5. CASE GrantApproval(c)
  <2>1. RequestStage(c)'
    BY <1>1, <1>2, <1>3, <1>5 DEF GrantApproval, RequestStage, Decision
  <2>2. RegistryTyped'
    BY <1>1, <1>5 DEF GrantApproval, Grant
  <2> QED
    BY <1>1, <1>3, <1>5, <2>1, <2>2, EndpointKeeps DEF GrantApproval
<1>6. CASE PersistApproval(c)
  <2>1. RequestStage(c)'
    BY <1>1, <1>2, <1>3, <1>6 DEF PersistApproval, RequestStage, Decision
  <2>2. RegistryTyped'
    BY <1>1, <1>6, StatementTypes DEF PersistApproval, StoreGrant
  <2> QED
    BY <1>1, <1>3, <1>6, <2>1, <2>2, EndpointKeeps DEF PersistApproval
<1>7. CASE InvokeFails(c)
  <2>1. RequestStage(c)'
    BY <1>1, <1>2, <1>3, <1>7 DEF InvokeFails, RequestStage, Decision
  <2> QED
    BY <1>1, <1>3, <1>7, <2>1, EndpointKeeps DEF InvokeFails
<1>8. CASE Invoke(c)
  <2>1. RequestStage(c)' /\ thread[c] = "none" /\ req[c].approve
    BY <1>1, <1>2, <1>3, <1>8 DEF Invoke, RequestStage, Decision
  <2> QED
    BY <1>1, <1>3, <1>8, <2>1, EndpointKeeps DEF Invoke
<1>9. CASE ToolAnswers(c)
  <2>1. RequestStage(c)'
    BY <1>1, <1>2, <1>3, <1>9 DEF ToolAnswers, RequestStage, Decision
  <2> QED
    BY <1>1, <1>3, <1>9, <2>1, EndpointKeeps DEF ToolAnswers
<1>10. CASE ToolTimesOut(c)
  <2>1. RequestStage(c)'
    BY <1>1, <1>2, <1>3, <1>10 DEF ToolTimesOut, RequestStage, Decision
  <2> QED
    BY <1>1, <1>3, <1>10, <2>1, EndpointKeeps DEF ToolTimesOut
<1>11. CASE SpendApproval(c)
  <2>1. RequestStage(c)'
    BY <1>1, <1>2, <1>3, <1>11 DEF SpendApproval, RequestStage, Decision
  <2>2. RegistryTyped'
    BY <1>1, <1>11 DEF SpendApproval, Spend
  <2> QED
    BY <1>1, <1>3, <1>11, <2>1, <2>2, EndpointKeeps DEF SpendApproval
<1>12. CASE PersistSpent(c)
  <2>1. RequestStage(c)'
    BY <1>1, <1>2, <1>3, <1>12 DEF PersistSpent, RequestStage, Decision
  <2>2. RegistryTyped'
    BY <1>1, <1>12, StatementTypes DEF PersistSpent, StoreSpent
  <2> QED
    BY <1>1, <1>3, <1>12, <2>1, <2>2, EndpointKeeps DEF PersistSpent
<1>13. CASE Disconnect(c)
  <2>1. RequestStage(c)'
    BY <1>1, <1>2, <1>3, <1>13 DEF Disconnect, RequestStage, Ends
  <2> QED
    BY <1>1, <1>3, <1>13, <2>1, EndpointKeeps DEF Disconnect, Ends
<1> QED
  BY <1>4, <1>5, <1>6, <1>7, <1>8, <1>9, <1>10, <1>11, <1>12, <1>13, ConfirmKeeps, MarkKeeps
     DEF Endpoint

-----------------------------------------------------------------------------
(* Chat turns, the switch and the process *)

LEMMA ChatCallKeeps ==
  ASSUME AuditInv, NEW w \in Chats, ChatCall(w)
  PROVE  AuditInv'
<1> USE DEF AuditInv
<1>1. /\ thread[w] = "none" /\ thread' = [thread EXCEPT ![w] = "queued"] /\ w \in Calls
      /\ UNCHANGED <<approved, loaded, grantAll, failed, stored, audit, req, at, how, up, kind, upsets>>
  BY DEF ChatCall, memory, database, requests, bounds, Calls
<1>2. \A c \in Confirms : thread'[c] = thread[c]
  BY <1>1, CallsAssumption DEF ApprovalsTypeOK
<1>3. ApprovalsTypeOK'
  <2>1. thread' \in [Calls -> Threads]
    BY <1>1 DEF ApprovalsTypeOK, Threads, Running
  <2> QED
    BY <1>1, <2>1 DEF ApprovalsTypeOK
<1>4. RequestsStaged'
  <2>1. ASSUME NEW c \in Confirms PROVE RequestStage(c)'
    <3>1. RequestStage(c) /\ thread'[c] = thread[c]
      BY <1>2 DEF RequestsStaged
    <3> QED
      BY <1>1, <3>1 DEF RequestStage, Decision
  <2> QED
    BY <2>1 DEF RequestsStaged
<1>5. CallsStaged'
  BY <1>1 DEF CallsStaged, ApprovalsTypeOK
<1>6. AuditTellsWinner'
  BY <1>1, <1>2, RowsKept
<1> QED
  BY <1>1, <1>3, <1>4, <1>5, <1>6 DEF NothingQueuedDown

LEMMA DieKeeps ==
  ASSUME AuditInv, Die
  PROVE  AuditInv'
<1> USE DEF AuditInv
<1>1. /\ ~up' /\ upsets' \in 0..MaxUpsets /\ failed' = {} /\ UNCHANGED <<stored, audit, req, how, kind>>
      /\ ~approved' /\ ~loaded' /\ ~grantAll'
  BY BoundsAssumption DEF Die, database, ApprovalsTypeOK
<1>2. {approved', loaded', grantAll', up'} \subseteq BOOLEAN
  BY DEF Die
<1>3. \A c \in Confirms : at'[c] = IF at[c] \in Active THEN "cut" ELSE at[c]
  BY DEF Die, Active
<1>4. \A w \in Calls : thread'[w] = IF thread[w] \in Running THEN "dropped" ELSE thread[w]
  BY DEF Die
<1>5. ApprovalsTypeOK'
  <2>1. thread' \in [Calls -> Threads] /\ at' \in [Confirms -> Places]
    BY DEF Die, ApprovalsTypeOK, Threads, Places, Ends
  <2> QED
    BY <1>1, <1>2, <2>1 DEF ApprovalsTypeOK
<1>6. RequestsStaged'
  <2>1. ASSUME NEW c \in Confirms PROVE RequestStage(c)'
    <3>1. RequestStage(c) /\ c \in Calls
      BY DEF RequestsStaged, Calls
    <3>2. thread[c] \in Returned \cup {"none"} => thread'[c] = thread[c]
      BY <1>4, <3>1 DEF Running, Returned
    <3>3. at'[c] \notin Active
      BY <1>3 DEF Active, Open, Holding
    <3>4. CASE at[c] \in Active
      BY <1>1, <1>3, <3>1, <3>2, <3>4 DEF RequestStage, Active, Open, Holding
    <3>5. CASE at[c] \notin Active
      BY <1>1, <1>3, <3>1, <3>2, <3>5 DEF RequestStage, Active, Open, Holding
    <3> QED
      BY <3>4, <3>5
  <2> QED
    BY <2>1 DEF RequestsStaged
<1>7. CallsStaged'
  BY <1>1, <1>4 DEF CallsStaged, Running
<1>8. AuditTellsWinner'
  <2>1. \A c \in Confirms : c \in Calls /\ (at[c] \in {"marked", "failed"} => at'[c] = at[c])
    BY <1>3 DEF Active, Open, Holding, Calls
  <2>2. \A c \in Confirms : thread[c] \in Returned \cup {"none"} => thread'[c] = thread[c]
    BY <1>4, <2>1 DEF Running, Returned
  <2> QED
    BY <1>1, <2>1, <2>2, RowsKept
<1> QED
  BY <1>1, <1>5, <1>6, <1>7, <1>8 DEF NothingQueuedDown

(* Nothing runs and nothing is queued when the sweep starts. *)
LEMMA StartUpKeeps ==
  ASSUME AuditInv, StartUp
  PROVE  AuditInv'
<1> USE DEF AuditInv
<1>1. /\ ~up /\ up' /\ failed = {} /\ failed' = {}
      /\ UNCHANGED <<approved, loaded, grantAll, stored, req, at, thread, how, kind, upsets>>
  BY DEF StartUp, NothingQueuedDown, requests, calls
<1>2. \A r \in Rows : \/ audit'[r] = audit[r]
                      \/ audit'[r] = "expired" /\ audit[r] \in {"pending", "confirmed"}
  BY <1>1 DEF StartUp
<1>3. ApprovalsTypeOK'
  <2>1. audit' \in [Rows -> Statuses]
    <3>1. \A r \in Rows : audit'[r] \in Statuses
      BY <1>2 DEF ApprovalsTypeOK, Statuses
    <3>2. DOMAIN audit' = Rows /\ audit' = [r \in Rows |-> audit'[r]]
      BY DEF StartUp
    <3> QED
      BY <3>1, <3>2
  <2>2. {approved', loaded', grantAll', up'} \subseteq BOOLEAN
    <3>1. up' \in BOOLEAN
      BY DEF StartUp
    <3> QED
      BY <1>1, <3>1 DEF ApprovalsTypeOK
  <2> QED
    BY <1>1, <2>1, <2>2 DEF ApprovalsTypeOK
<1>4. RequestsStaged'
  <2>1. ASSUME NEW c \in Confirms PROVE RequestStage(c)'
    <3>1. RequestStage(c) /\ at[c] \notin Active
      BY <1>1 DEF RequestsStaged, RequestStage
    <3>2. at[c] = "none" => audit'[<<"posted", c>>] = "none"
      BY <1>2, <3>1 DEF RequestStage, Rows
    <3> QED
      BY <1>1, <3>1, <3>2 DEF RequestStage
  <2> QED
    BY <2>1 DEF RequestsStaged
<1>5. CallsStaged'
  <2>1. \A w \in Calls : audit[<<"asked", w>>] = "none" => audit'[<<"asked", w>>] = "none"
    BY <1>2 DEF Rows
  <2> QED
    BY <1>1, <2>1 DEF CallsStaged
<1>6. AuditTellsWinner'
  BY <1>1, <1>2, RowsKept
<1> QED
  BY <1>1, <1>3, <1>4, <1>5, <1>6 DEF NothingQueuedDown

LEMMA NextAuditInv == AuditInv /\ [Next]_vars => AuditInv'
<1> SUFFICES ASSUME AuditInv, [Next]_vars PROVE AuditInv'
  OBVIOUS
<1>1. CASE GrantAll
  <2>1. /\ grantAll' \in BOOLEAN /\ upsets' \in 0..MaxUpsets
        /\ UNCHANGED <<approved, loaded, failed, stored, audit, req, at, thread, how, up, kind>>
    BY <1>1, BoundsAssumption DEF GrantAll, AuditInv, ApprovalsTypeOK, database, requests, calls, bounds
  <2>2. ApprovalsTypeOK'
    BY <2>1 DEF AuditInv, ApprovalsTypeOK
  <2>3. AuditTellsWinner'
    BY <2>1, RowsKept DEF AuditInv
  <2> QED
    BY <2>1, <2>2, <2>3 DEF AuditInv, RequestsStaged, RequestStage, Decision, CallsStaged,
       NothingQueuedDown
<1>2. CASE UNCHANGED vars
  <2>1. UNCHANGED <<memory, stored, audit, req, at, thread, how, up, kind, upsets>>
    BY <1>2 DEF vars, database, requests, calls, bounds
  <2>2. AuditTellsWinner'
    BY <2>1, RowsKept DEF AuditInv
  <2> QED
    BY <2>1, <2>2 DEF AuditInv, ApprovalsTypeOK, RequestsStaged, RequestStage, Decision,
       CallsStaged, NothingQueuedDown, memory
<1> QED
  BY <1>1, <1>2, EndpointStepKeeps, ToolKeeps, ChatCallKeeps, DieKeeps, StartUpKeeps DEF Next

(* Every variable keeps its type, whatever requests, tools and restarts do. *)
THEOREM TypeCorrect == Spec => []ApprovalsTypeOK
  BY InitAuditInv, NextAuditInv, PTL DEF Spec, AuditInv

(* A row is decided once, by one request, and its status tells what that
   request did. *)
THEOREM AuditTellsWinners == Spec => []AuditTellsWinner
  BY InitAuditInv, NextAuditInv, PTL DEF Spec, AuditInv

-----------------------------------------------------------------------------
(* What rows have become *)

Final == {"rejected", "executed", "failed", "expired"}

FinalKept == \A r \in Rows : audit[r] \in Final => audit'[r] = audit[r]

LEMMA StepKeepsFinal == AuditInv /\ [Next]_vars => FinalKept
<1> SUFFICES ASSUME AuditInv, [Next]_vars PROVE FinalKept
  OBVIOUS
<1> USE DEF AuditInv, ApprovalsTypeOK, FinalKept
<1>1. CASE UNCHANGED audit
  BY <1>1
<1>2. ASSUME NEW w \in Calls, Tool(w) PROVE FinalKept
  <2>1. CASE AskUser(w)
    <3>1. thread[w] = "ask"
      BY <2>1 DEF AskUser
    <3>2. audit[<<"asked", w>>] = "none"
      BY <3>1 DEF CallsStaged
    <3>3. audit' = audit \/ audit' = [audit EXCEPT ![<<"asked", w>>] = "pending"]
      BY <2>1 DEF AskUser
    <3> QED
      BY <3>2, <3>3 DEF Final
  <2> QED
    BY <1>1, <1>2, <2>1 DEF Tool, Gate, ReadApproval, PrimeCache, Write, ToolSpends, ToolReturns, database
<1>3. ASSUME NEW c \in Confirms, Endpoint(c) PROVE FinalKept
  <2>1. RequestStage(c)
    BY DEF RequestsStaged
  <2>2. CASE Confirm(c)
    <3>1. audit[<<"posted", c>>] = "none"
      BY <2>1, <2>2 DEF Confirm, RequestStage
    <3>2. \/ \E r \in Rows, s \in Statuses :
                audit[r] \in {"none", "pending"} /\ audit' = [audit EXCEPT ![r] = s]
          \/ audit' = audit
      <4>1. <<"posted", c>> \in Rows
        BY DEF Rows
      <4> QED
        BY <2>2, <3>1, <4>1 DEF Confirm, Claim, ClaimNew, ClaimFails, Statuses
    <3> QED
      BY <3>2 DEF Final
  <2>3. CASE MarkExecuted(c) \/ MarkFailed(c)
    <3>1. at[c] \in Active \ {"decided"}
      BY <2>3 DEF MarkExecuted, MarkFailed, Active, Open, Holding
    <3>2. audit[req[c].row] = "confirmed"
      BY <2>1, <3>1 DEF RequestStage, Decision
    <3>3. audit' = audit \/ \E s \in Statuses : audit' = [audit EXCEPT ![req[c].row] = s]
      BY <2>3 DEF MarkExecuted, MarkFailed, Mark, Statuses
    <3> QED
      BY <3>2, <3>3 DEF Final
  <2> QED
    BY <1>1, <1>3, <2>2, <2>3 DEF Endpoint, Rejected, GrantApproval, PersistApproval, InvokeFails,
       Invoke, ToolAnswers, ToolTimesOut, SpendApproval, PersistSpent, Disconnect, database
<1>4. CASE StartUp
  <2>1. failed = {}
    BY <1>4 DEF StartUp, NothingQueuedDown
  <2> QED
    BY <1>4, <2>1 DEF StartUp, Final
<1> QED
  BY <1>1, <1>2, <1>3, <1>4 DEF Next, ChatCall, GrantAll, Die, vars, database

(* A row that is rejected, executed, failed or expired stays so. *)
THEOREM DecidedRowsStay == Spec => DecidedRowStays
<1>1. AuditInv /\ [Next]_vars
        => [\A r \in Rows : audit[r] \in {"rejected", "executed", "failed", "expired"}
                                => audit'[r] = audit[r]]_vars
  BY StepKeepsFinal DEF FinalKept, Final
<1> QED
  BY <1>1, InitAuditInv, NextAuditInv, PTL DEF Spec, DecidedRowStays

-----------------------------------------------------------------------------
(* Consent *)

Consent == \E c \in Confirms : req[c].won /\ req[c].approve

(* Every copy of an approval, and every call on its way through the gate with
   one, has consent behind it. *)
CopiesHaveConsent ==
  (approved \/ stored = "open" \/ \E w \in Calls : thread[w] = "prime") => Consent

ConsentInv == AuditInv /\ CopiesHaveConsent /\ WriteHasConsent

LEMMA InitConsentInv == Init => ConsentInv
  BY InitAuditInv DEF Init, ConsentInv, CopiesHaveConsent, WriteHasConsent

(* A request never takes its decision back. *)
LEMMA ConsentStays ==
  ASSUME AuditInv, [Next]_vars, Consent
  PROVE  Consent'
<1>1. PICK c \in Confirms : req[c].won /\ req[c].approve
  BY DEF Consent
<1>2. at[c] # "none"
  BY <1>1 DEF AuditInv, RequestsStaged, RequestStage
<1>3. req'[c] = req[c]
  <2>1. ASSUME NEW d \in Confirms, Confirm(d) PROVE req'[c] = req[c]
    <3>1. d # c
      BY <1>2, <2>1 DEF Confirm
    <3>2. req' = req \/ \E x : req' = [req EXCEPT ![d] = x]
      BY <2>1 DEF Confirm, Claim, ClaimNew, ClaimFails
    <3> QED
      BY <3>1, <3>2 DEF AuditInv, ApprovalsTypeOK
  <2>2. req' = req \/ \E d \in Confirms : Confirm(d)
    BY DEF Next, Endpoint, Rejected, GrantApproval, PersistApproval, InvokeFails, Invoke, ToolAnswers,
       ToolTimesOut, SpendApproval, PersistSpent, MarkExecuted, MarkFailed, Disconnect, ChatCall,
       Tool, Gate, ReadApproval, PrimeCache, AskUser, Write, ToolSpends, ToolReturns, GrantAll, Die,
       StartUp, vars, requests
  <2> QED
    BY <2>1, <2>2
<1> QED
  BY <1>1, <1>3 DEF Consent

(* A copy is only made of another copy, or by a request that has consent. *)
LEMMA CopiesComeFromCopies ==
  ASSUME ConsentInv, [Next]_vars
  PROVE  \/ Consent
         \/ /\ ~approved' /\ stored' # "open" /\ \A w \in Calls : thread'[w] # "prime"
            /\ \A w \in Calls : how'[w] \in {"cache", "database"} => how[w] = how'[w]
<1> SUFFICES ASSUME ~Consent PROVE /\ ~approved' /\ stored' # "open" /\ \A w \in Calls : thread'[w] # "prime"
                                   /\ \A w \in Calls : how'[w] \in {"cache", "database"} => how[w] = how'[w]
  OBVIOUS
<1> USE DEF ConsentInv, AuditInv, ApprovalsTypeOK
<1>1. ~approved /\ stored # "open" /\ \A w \in Calls : thread[w] # "prime"
  BY DEF CopiesHaveConsent
<1>2. ASSUME NEW c \in Confirms PROVE ~GrantApproval(c) /\ ~PersistApproval(c)
  <2>1. RequestStage(c) /\ ~(req[c].won /\ req[c].approve)
    BY DEF RequestsStaged, Consent
  <2> QED
    BY <2>1 DEF GrantApproval, PersistApproval, RequestStage, Active, Holding
<1>3. ASSUME NEW c \in Confirms, Endpoint(c)
      PROVE  /\ ~approved' /\ stored' # "open" /\ how' = how
             /\ \A w \in Calls : thread'[w] # "prime"
  <2>1. /\ ~approved' /\ stored' # "open" /\ how' = how
        /\ thread' = thread \/ \E to \in {"queued", "dropped"} : thread' = [thread EXCEPT ![c] = to]
    BY <1>1, <1>2, <1>3 DEF Endpoint, Confirm, Rejected, InvokeFails, Invoke, ToolAnswers, ToolTimesOut,
       SpendApproval, Spend, PersistSpent, StoreSpent, MarkExecuted, MarkFailed, Disconnect,
       memory, database, calls
  <2> QED
    BY <1>1, <2>1
<1>4. ASSUME NEW w \in Calls, Tool(w)
      PROVE  /\ ~approved' /\ stored' # "open"
             /\ \A v \in Calls : thread'[v] # "prime"
             /\ \A v \in Calls : how'[v] \in {"cache", "database"} => how[v] = how'[v]
  <2>1. ~approved' /\ stored' # "open"
    BY <1>1, <1>4 DEF Tool, Gate, Load, ReadApproval, PrimeCache, AskUser, Write, ToolSpends, Spend,
       ToolReturns, StoreSpent, memory, database
  <2>2. \E to \in Threads \ {"prime"} : thread' = [thread EXCEPT ![w] = to]
    BY <1>1, <1>4, <2>1 DEF Tool, Gate, ReadApproval, PrimeCache, AskUser, Write, ToolSpends,
       ToolReturns, Threads, Running, Returned
  <2>3. how' = how \/ how' = [how EXCEPT ![w] = "grant_all"]
    BY <1>1, <1>4, <2>1 DEF Tool, Gate, ReadApproval, PrimeCache, AskUser, Write, ToolSpends,
       ToolReturns, calls
  <2> QED
    BY <1>1, <2>1, <2>2, <2>3
<1>5. CASE (\E w \in Chats : ChatCall(w)) \/ GrantAll \/ Die \/ StartUp \/ UNCHANGED vars
  <2>1. ~approved' /\ stored' # "open" /\ how' = how
    BY <1>1, <1>5 DEF ChatCall, GrantAll, Die, StartUp, vars, memory, database, calls
  <2>2. \A w \in Calls : thread'[w] # "prime"
    BY <1>1, <1>5 DEF ChatCall, GrantAll, Die, StartUp, vars, calls, Calls
  <2> QED
    BY <2>1, <2>2
<1> QED
  BY <1>3, <1>4, <1>5 DEF Next

LEMMA NextConsentInv == ConsentInv /\ [Next]_vars => ConsentInv'
<1> SUFFICES ASSUME ConsentInv, [Next]_vars PROVE ConsentInv'
  OBVIOUS
<1>1. AuditInv'
  BY NextAuditInv DEF ConsentInv
<1>2. CASE Consent
  <2>1. Consent'
    BY <1>2, ConsentStays DEF ConsentInv
  <2> QED
    BY <1>1, <2>1 DEF ConsentInv, CopiesHaveConsent, WriteHasConsent, Consent
<1>3. CASE ~Consent
  <2>1. /\ ~approved' /\ stored' # "open" /\ \A w \in Calls : thread'[w] # "prime"
        /\ \A w \in Calls : how'[w] \in {"cache", "database"} => how[w] = how'[w]
    BY <1>3, CopiesComeFromCopies
  <2>2. \A w \in Calls : how[w] \notin {"cache", "database"}
    BY <1>3 DEF ConsentInv, WriteHasConsent, Consent
  <2> QED
    BY <1>1, <2>1, <2>2 DEF ConsentInv, CopiesHaveConsent, WriteHasConsent
<1> QED
  BY <1>2, <1>3

(* No tool passes its gate by an approval unless a confirm that claimed its
   row has approved it. *)
THEOREM WritesHaveConsent == Spec => []WriteHasConsent
  BY InitConsentInv, NextConsentInv, PTL DEF Spec, ConsentInv

-----------------------------------------------------------------------------
(* What is left over *)

(* Places of a request whose approval may still be in the cache *)
Carrying == {"granting", "granted", "calling", "answered", "failing", "cut", "failed", "unmarked"}

Carried == \E c \in Confirms : req[c].approve /\ at[c] \in Carrying
Reread  == \E w \in Calls : how[w] = "database"

CacheHasCause == approved => Carried \/ Reread

CauseInv == AuditInv /\ CacheHasCause

LEMMA InitCauseInv == Init => CauseInv
  BY InitAuditInv DEF Init, CauseInv, CacheHasCause

(* What the table has put back was put back. *)
LEMMA RereadStays ==
  ASSUME AuditInv, [Next]_vars, Reread
  PROVE  Reread'
<1>1. PICK w \in Calls : how[w] = "database"
  BY DEF Reread
<1>2. thread[w] \notin {"none", "queued", "read", "prime", "ask"}
  BY <1>1 DEF AuditInv, CallsStaged
<1>3. how'[w] = how[w]
  <2>1. ASSUME NEW v \in Calls, Tool(v) PROVE how'[w] = how[w]
    <3>1. how' = how \/ (v # w /\ \E g : how' = [how EXCEPT ![v] = g])
      BY <1>2, <2>1 DEF Tool, Gate, ReadApproval, PrimeCache, AskUser, Write, ToolSpends, ToolReturns
    <3> QED
      BY <3>1 DEF AuditInv, ApprovalsTypeOK
  <2>2. how' = how \/ \E v \in Calls : Tool(v)
    BY DEF Next, Endpoint, Confirm, Rejected, GrantApproval, PersistApproval, InvokeFails, Invoke,
       ToolAnswers, ToolTimesOut, SpendApproval, PersistSpent, MarkExecuted, MarkFailed, Disconnect,
       ChatCall, GrantAll, Die, StartUp, vars, calls
  <2> QED
    BY <2>1, <2>2
<1> QED
  BY <1>1, <1>3 DEF Reread

(* A request that carries an approval goes on to carry it, is cut or fails,
   or takes it back. *)
LEMMA CarriedStays ==
  ASSUME AuditInv, [Next]_vars, Carried
  PROVE  Carried' \/ ~approved'
<1>1. PICK c \in Confirms : req[c].approve /\ at[c] \in Carrying
  BY DEF Carried
<1>2. at[c] # "none"
  BY <1>1 DEF Carrying
<1>3. ASSUME NEW d \in Confirms, Endpoint(d) PROVE Carried' \/ ~approved'
  <2>1. CASE d = c
    <3>1. \/ UNCHANGED req /\ \E place \in Carrying : at' = [at EXCEPT ![c] = place]
          \/ ~approved'
      BY <1>1, <1>2, <1>3, <2>1 DEF Endpoint, Confirm, Rejected, GrantApproval, PersistApproval,
         InvokeFails, Invoke, ToolAnswers, ToolTimesOut, SpendApproval, Spend, PersistSpent,
         MarkExecuted, MarkFailed, Mark, Disconnect, Carrying, Open, GoTo
    <3> QED
      BY <1>1, <3>1 DEF Carried, AuditInv, ApprovalsTypeOK
  <2>2. CASE d # c
    <3>1. /\ \E place : at' = [at EXCEPT ![d] = place]
          /\ UNCHANGED req \/ \E x : req' = [req EXCEPT ![d] = x]
      BY <1>3 DEF Endpoint, Confirm, Claim, ClaimNew, ClaimFails, Rejected, GrantApproval,
         PersistApproval, InvokeFails, Invoke, ToolAnswers, ToolTimesOut, SpendApproval, PersistSpent,
         MarkExecuted, MarkFailed, Mark, Disconnect, GoTo
    <3> QED
      BY <1>1, <2>2, <3>1 DEF Carried, AuditInv, ApprovalsTypeOK
  <2> QED
    BY <2>1, <2>2
<1>4. CASE Die
  BY <1>4 DEF Die
<1>5. CASE /\ UNCHANGED requests
  BY <1>1, <1>5 DEF Carried, requests
<1> QED
  BY <1>3, <1>4, <1>5 DEF Next, ChatCall, Tool, Gate, ReadApproval, PrimeCache, AskUser, Write,
     ToolSpends, ToolReturns, GrantAll, StartUp, vars

(* An approval comes into the cache with a cause. *)
LEMMA CauseComes ==
  ASSUME AuditInv, [Next]_vars, ~approved, approved'
  PROVE  Carried' \/ Reread'
<1> USE DEF AuditInv, ApprovalsTypeOK
<1>1. ASSUME NEW c \in Confirms, Endpoint(c) PROVE Carried'
  <2>1. GrantApproval(c)
    BY <1>1 DEF Endpoint, Confirm, Rejected, PersistApproval, InvokeFails, Invoke, ToolAnswers,
       ToolTimesOut, SpendApproval, Spend, PersistSpent, MarkExecuted, MarkFailed, Disconnect, memory
  <2>2. req'[c].approve /\ at'[c] = "granting"
    BY <2>1 DEF GrantApproval, GoTo
  <2> QED
    BY <2>2 DEF Carried, Carrying
<1>2. ASSUME NEW w \in Calls, Tool(w) PROVE Reread'
  <2>1. Gate(w) \/ PrimeCache(w)
    BY <1>2 DEF Tool, ReadApproval, AskUser, Write, ToolSpends, Spend, ToolReturns, memory
  <2>2. how'[w] = "database"
    BY <2>1 DEF Gate, PrimeCache
  <2> QED
    BY <2>2 DEF Reread
<1> QED
  BY <1>1, <1>2 DEF Next, ChatCall, GrantAll, Die, StartUp, vars, memory

LEMMA NextCauseInv == CauseInv /\ [Next]_vars => CauseInv'
<1> SUFFICES ASSUME CauseInv, [Next]_vars PROVE CauseInv'
  OBVIOUS
<1>1. AuditInv'
  BY NextAuditInv DEF CauseInv
<1>2. CASE approved
  BY <1>1, <1>2, RereadStays, CarriedStays DEF CauseInv, CacheHasCause
<1>3. CASE ~approved
  BY <1>1, <1>3, CauseComes DEF CauseInv, CacheHasCause
<1> QED
  BY <1>2, <1>3

(* When nothing is under way, an approval is left in the cache only by a
   confirm that was cut or failed, or by the table. *)
THEOREM LeftoversHaveCauses == Spec => []LeftoverHasCause
<1>1. CauseInv => LeftoverHasCause
  BY DEF CauseInv, CacheHasCause, Carried, Reread, LeftoverHasCause, Carrying, Open, Holding
<1> QED
  BY <1>1, InitCauseInv, NextCauseInv, PTL DEF Spec
=============================================================================
