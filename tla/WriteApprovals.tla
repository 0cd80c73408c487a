---------------------------- MODULE WriteApprovals ----------------------------
(***************************************************************************)
(* How the chat agent's write tools ask the user (agent_harness/hitl.py,   *)
(* audit.py, audit_sweeper.py, the gate of tools/impl.py and the confirm   *)
(* endpoint of web/app.py).  A write tool that is not approved leaves a    *)
(* pending audit row and an offer to confirm; a POST to /confirm claims a  *)
(* row, grants the approval, calls the tool itself and takes the approval  *)
(* back.                                                                   *)
(*                                                                         *)
(* The module follows one session and one pair of a tool and arguments:    *)
(* approvals of other pairs are other entries of the same tables.  A call  *)
(* is one run of the tool in a thread: of a confirm request, which has the *)
(* id of that request, or of a chat turn.  Confirm requests are coroutines *)
(* of the one event loop; between two awaits only tool threads run beside  *)
(* them.  The minute in which a chat turn repeats a cached answer instead  *)
(* of calling the tool again, the thirty seconds of a tool and the ten     *)
(* minutes of a stale row may have passed at any moment.                   *)
(***************************************************************************)
EXTENDS Naturals

CONSTANTS MaxConfirms, \* bound: confirm requests
          Chats,       \* tool calls of chat turns
          MaxUpsets    \* bound: restarts, statements the database fails and
                       \* changes of grant-all, together

Confirms == 1..MaxConfirms   \* confirm requests, in the order they arrive

ASSUME CallsAssumption  == Confirms \cap Chats = {}
ASSUME BoundsAssumption == {MaxConfirms, MaxUpsets} \subseteq Nat

VARIABLES
  kind,      \* what tool it is: never changes
  approved,  \* the pair is in _approved
  loaded,    \* the session is in _cache_loaded
  grantAll,  \* _session_grant_all
  stored,    \* the row of tool_approvals
  audit,     \* status of each row of write_audit_log
  failed,    \* _failed_updates: rows and the status they should have had
  req,       \* what each confirm request is about and whether it won its row
  at,        \* where it is
  thread,    \* where each call of the tool is
  how,       \* history: what let a call pass the gate
  up,        \* the process runs
  upsets

memory   == <<approved, loaded, grantAll, failed>>
database == <<stored, audit>>
requests == <<req, at>>
calls    == <<thread, how>>
bounds   == <<kind, up>>
vars     == <<memory, database, requests, calls, bounds, upsets>>

-----------------------------------------------------------------------------
(* Data *)

(* The write tools differ in two ways.  DangerousToolGuard stops those     *)
(* named delete_* in a chat turn, before they reach their own gate; a bulk *)
(* delete takes back an approval under other arguments than it was given   *)
(* for, which is no approval at all.                                       *)
Kinds == {[guarded |-> FALSE, spends |-> TRUE],     \* create_note, update_alert, ...
          [guarded |-> TRUE,  spends |-> TRUE],     \* delete_note, ...
          [guarded |-> TRUE,  spends |-> FALSE]}    \* delete_notes_for_symbol, ...

Calls    == Confirms \cup Chats
Rows     == ({"asked"} \X Calls) \cup ({"posted"} \X Confirms)
NoRow    == <<"none">>
Statuses == {"none", "pending", "confirmed", "rejected", "executed", "failed", "expired"}

(* Places of a confirm request.  It stands at a yield or at the await of   *)
(* the tool in Open, holds the event loop in Holding.                      *)
Open    == {"decided", "granted", "calling", "answered", "failing"}
Holding == {"granting", "spending", "marking"}
Ends    == {"lost", "rejected", "marked", "unmarked", "failed", "cut"}
Places  == {"none"} \cup Open \cup Holding \cup Ends

Running  == {"queued", "read", "prime", "ask", "write", "spend", "spent"}
Returned == {"ok", "error", "needs_confirmation"}
Threads  == {"none", "dropped"} \cup Running \cup Returned

ApprovalsTypeOK ==
  /\ kind \in Kinds
  /\ {approved, loaded, grantAll, up} \subseteq BOOLEAN
  /\ stored \in {"absent", "open", "consumed"}
  /\ audit \in [Rows -> Statuses]
  /\ failed \subseteq Rows \X {"executed", "failed"}
  /\ req \in [Confirms -> [row : Rows \cup {NoRow}, approve : BOOLEAN, won : BOOLEAN]]
  /\ at \in [Confirms -> Places]
  /\ thread \in [Calls -> Threads]
  /\ how \in [Calls -> {"none", "cache", "database", "grant_all"}]
  /\ upsets \in 0..MaxUpsets

Init ==
  /\ kind \in Kinds
  /\ approved = FALSE
  /\ loaded = FALSE
  /\ grantAll = FALSE
  /\ stored = "absent"
  /\ audit = [r \in Rows |-> "none"]
  /\ failed = {}
  /\ req = [c \in Confirms |-> [row |-> NoRow, approve |-> FALSE, won |-> FALSE]]
  /\ at = [c \in Confirms |-> "none"]
  /\ thread = [w \in Calls |-> "none"]
  /\ how = [w \in Calls |-> "none"]
  /\ up = TRUE
  /\ upsets = 0

(* A coroutine may step when no other one holds the event loop. *)
OnLoop(c) == up /\ \A d \in Confirms \ {c} : at[d] \notin Holding

GoTo(c, place) == at' = [at EXCEPT ![c] = place]

(* A statement is executed, or the database fails it. *)
DbWorks == UNCHANGED upsets
DbFails == upsets < MaxUpsets /\ upsets' = upsets + 1

-----------------------------------------------------------------------------
(* The approval registry: hitl.py *)

(* grant_approval, consume_approval: first the cache under _lock, then one *)
(* statement; a failing statement is passed over.                          *)
Grant == approved' = TRUE /\ loaded' = TRUE
Spend == approved' = FALSE

(* INSERT OR IGNORE: a row that is there stays as it is, consumed or not. *)
StoreGrant == \/ DbWorks /\ stored' = IF stored = "absent" THEN "open" ELSE stored
              \/ DbFails /\ UNCHANGED stored
StoreSpent == \/ DbWorks /\ stored' = IF stored = "open" THEN "consumed" ELSE stored
              \/ DbFails /\ UNCHANGED stored

(* _load_session_into_cache, once per process; a failing read counts too. *)
Load == /\ \/ loaded /\ DbWorks /\ UNCHANGED approved
           \/ ~loaded /\ DbWorks /\ approved' = (approved \/ stored = "open")
           \/ ~loaded /\ DbFails /\ UNCHANGED approved
        /\ loaded' = TRUE

-----------------------------------------------------------------------------
(* A call of the tool, in its thread *)

(* A chat turn calls the tool; one that times out is called again, which   *)
(* is another call.                                                        *)
ChatCall(w) ==
  /\ ~kind.guarded
  /\ up /\ \A c \in Confirms : at[c] \notin Holding
  /\ thread[w] = "none"
  /\ thread' = [thread EXCEPT ![w] = "queued"]
  /\ UNCHANGED <<memory, database, requests, how, bounds, upsets>>

(* is_approved in three steps: the cache, the table, the cache again. *)
Gate(w) ==
  /\ thread[w] = "queued"
  /\ Load
  /\ thread' = [thread EXCEPT ![w] = IF approved' THEN "write" ELSE "read"]
  /\ how' = IF approved' THEN [how EXCEPT ![w] = IF approved THEN "cache" ELSE "database"]
                         ELSE how
  /\ UNCHANGED <<grantAll, failed, database, requests, bounds>>

ReadApproval(w) ==
  /\ thread[w] = "read"
  /\ \/ DbWorks /\ thread' = [thread EXCEPT ![w] = IF stored = "open" THEN "prime" ELSE "ask"]
     \/ DbFails /\ thread' = [thread EXCEPT ![w] = "ask"]
  /\ UNCHANGED <<memory, database, requests, how, bounds>>

PrimeCache(w) ==
  /\ thread[w] = "prime"
  /\ Grant
  /\ thread' = [thread EXCEPT ![w] = "write"]
  /\ how' = [how EXCEPT ![w] = "database"]
  /\ UNCHANGED <<grantAll, failed, database, requests, bounds, upsets>>

(* Mutant: the row is written with a status of its own. *)
AskUserOtherwise(w) ==
  /\ thread[w] = "ask" /\ ~grantAll
  /\ DbWorks
  /\ thread' = [thread EXCEPT ![w] = "needs_confirmation"]
  /\ audit' = [audit EXCEPT ![<<"asked", w>>] = "awaiting"]
  /\ UNCHANGED <<memory, stored, requests, how, bounds>>

(* The rest of _check_write_approval: the session's grant-all, or a        *)
(* pending row, which may fail to be written, and the offer to confirm.    *)
AskUser(w) ==
  /\ thread[w] = "ask"
  /\ \/ /\ grantAll
        /\ thread' = [thread EXCEPT ![w] = "write"]
        /\ how' = [how EXCEPT ![w] = "grant_all"]
        /\ UNCHANGED <<audit, upsets>>
     \/ /\ ~grantAll
        /\ thread' = [thread EXCEPT ![w] = "needs_confirmation"]
        /\ \/ DbWorks /\ audit' = [audit EXCEPT ![<<"asked", w>>] = "pending"]
           \/ DbFails /\ UNCHANGED audit
        /\ UNCHANGED how
  /\ UNCHANGED <<memory, stored, requests, bounds>>

(* The repository's write.  An error is returned as a text. *)
Write(w) ==
  /\ thread[w] = "write"
  /\ \/ thread' = [thread EXCEPT ![w] = IF kind.spends THEN "spend" ELSE "ok"]
     \/ thread' = [thread EXCEPT ![w] = "error"]
  /\ UNCHANGED <<memory, database, requests, how, bounds, upsets>>

(* _after_execute, which is never given an audit row. *)
ToolSpends(w) ==
  /\ thread[w] = "spend"
  /\ Spend
  /\ thread' = [thread EXCEPT ![w] = "spent"]
  /\ UNCHANGED <<loaded, grantAll, failed, database, requests, how, bounds, upsets>>

ToolReturns(w) ==
  /\ thread[w] = "spent"
  /\ StoreSpent
  /\ thread' = [thread EXCEPT ![w] = "ok"]
  /\ UNCHANGED <<memory, audit, requests, how, bounds>>

Tool(w) == \/ Gate(w) \/ ReadApproval(w) \/ PrimeCache(w) \/ AskUser(w)
           \/ Write(w) \/ ToolSpends(w) \/ ToolReturns(w)

-----------------------------------------------------------------------------
(* The confirm endpoint *)

(* Mutant: the claim does not look at the status. *)
ClaimAnyway(c, r, approve) ==
  /\ audit' = [audit EXCEPT ![r] = IF approve THEN "confirmed" ELSE "rejected"]
  /\ req' = [req EXCEPT ![c] = [row |-> r, approve |-> approve, won |-> TRUE]]
  /\ GoTo(c, "decided")

(* claim_write_audit on a row: one statement with the status as its guard. *)
Claim(c, r, approve) ==
  IF audit[r] = "pending"
    THEN /\ audit' = [audit EXCEPT ![r] = IF approve THEN "confirmed" ELSE "rejected"]
         /\ req' = [req EXCEPT ![c] = [row |-> r, approve |-> approve, won |-> TRUE]]
         /\ GoTo(c, "decided")
    ELSE GoTo(c, "lost") /\ UNCHANGED <<audit, req>>

(* A request that names no row makes one and claims it at once. *)
ClaimNew(c, approve) ==
  LET r == <<"posted", c>>
  IN /\ audit' = [audit EXCEPT ![r] = IF approve THEN "confirmed" ELSE "rejected"]
     /\ req' = [req EXCEPT ![c] = [row |-> r, approve |-> approve, won |-> TRUE]]
     /\ GoTo(c, "decided")

(* The database fails the claim, or the row a request makes itself. *)
ClaimFails(c) ==
  /\ DbFails
  /\ audit' \in {audit, [audit EXCEPT ![<<"posted", c>>] = "pending"]}
  /\ GoTo(c, "lost")
  /\ UNCHANGED req

(* POST /confirm up to its first event. *)
Confirm(c) ==
  /\ at[c] = "none" /\ OnLoop(c)
  /\ \A d \in 1..c-1 : at[d] # "none"
  /\ \/ \E approve \in BOOLEAN :
          /\ \/ \E r \in Rows : audit[r] # "none" /\ Claim(c, r, approve)
             \/ ClaimNew(c, approve)
          /\ DbWorks
     \/ ClaimFails(c)
  /\ UNCHANGED <<memory, stored, calls, bounds>>

Rejected(c) ==
  /\ at[c] = "decided" /\ OnLoop(c)
  /\ ~req[c].approve
  /\ GoTo(c, "rejected")
  /\ UNCHANGED <<memory, database, req, calls, bounds, upsets>>

(* Mutant: the approval is granted before the answer is looked at. *)
GrantFirst(c) ==
  /\ at[c] = "decided" /\ OnLoop(c)
  /\ Grant
  /\ GoTo(c, IF req[c].approve THEN "granting" ELSE "rejected")
  /\ UNCHANGED <<grantAll, failed, database, req, calls, bounds, upsets>>

GrantApproval(c) ==
  /\ at[c] = "decided" /\ OnLoop(c)
  /\ req[c].approve
  /\ Grant
  /\ GoTo(c, "granting")
  /\ UNCHANGED <<grantAll, failed, database, req, calls, bounds, upsets>>

PersistApproval(c) ==
  /\ at[c] = "granting"
  /\ StoreGrant
  /\ GoTo(c, "granted")
  /\ UNCHANGED <<memory, audit, req, calls, bounds>>

(* The registry does not know the tool, or its arguments are not valid. *)
InvokeFails(c) ==
  /\ at[c] = "granted" /\ OnLoop(c)
  /\ GoTo(c, "failing")
  /\ UNCHANGED <<memory, database, req, calls, bounds, upsets>>

Invoke(c) ==
  /\ at[c] = "granted" /\ OnLoop(c)
  /\ GoTo(c, "calling")
  /\ thread' = [thread EXCEPT ![c] = "queued"]
  /\ UNCHANGED <<memory, database, req, how, bounds, upsets>>

(* Whatever the tool returns, an error or another offer, is a result. *)
ToolAnswers(c) ==
  /\ at[c] = "calling" /\ OnLoop(c)
  /\ thread[c] \in Returned
  /\ GoTo(c, "answered")
  /\ UNCHANGED <<memory, database, req, calls, bounds, upsets>>

(* TimeoutEnforcer: a thread that has begun goes on. *)
ToolTimesOut(c) ==
  /\ at[c] = "calling" /\ OnLoop(c)
  /\ thread[c] \in Running
  /\ GoTo(c, "failing")
  /\ \/ UNCHANGED thread
     \/ thread[c] = "queued" /\ thread' = [thread EXCEPT ![c] = "dropped"]
  /\ UNCHANGED <<memory, database, req, how, bounds, upsets>>

(* Mutant: the endpoint leaves it to the tool to take the approval back. *)
SpendNothing(c) ==
  /\ at[c] = "answered" /\ OnLoop(c)
  /\ GoTo(c, "marking")
  /\ UNCHANGED <<memory, database, req, calls, bounds, upsets>>

SpendApproval(c) ==
  /\ at[c] = "answered" /\ OnLoop(c)
  /\ Spend
  /\ GoTo(c, "spending")
  /\ UNCHANGED <<loaded, grantAll, failed, database, req, calls, bounds, upsets>>

PersistSpent(c) ==
  /\ at[c] = "spending"
  /\ StoreSpent
  /\ GoTo(c, "marking")
  /\ UNCHANGED <<memory, audit, req, calls, bounds>>

(* update_write_status, without a look at the status there; one that fails *)
(* is queued.                                                              *)
Mark(c, status, place) ==
  \/ /\ DbWorks
     /\ audit' = [audit EXCEPT ![req[c].row] = status]
     /\ GoTo(c, place)
     /\ UNCHANGED failed
  \/ /\ DbFails
     /\ failed' = failed \cup {<<req[c].row, status>>}
     /\ GoTo(c, "unmarked")
     /\ UNCHANGED audit

MarkExecuted(c) ==
  /\ at[c] = "marking"
  /\ Mark(c, "executed", "marked")
  /\ UNCHANGED <<approved, loaded, grantAll, stored, req, calls, bounds>>

MarkFailed(c) ==
  /\ at[c] = "failing" /\ OnLoop(c)
  /\ Mark(c, "failed", "failed")
  /\ UNCHANGED <<approved, loaded, grantAll, stored, req, calls, bounds>>

(* The client goes away: the generator ends at the yield or the await it   *)
(* stands at, and a tool it waits for goes on.                             *)
Disconnect(c) ==
  /\ at[c] \in Open /\ OnLoop(c)
  /\ GoTo(c, "cut")
  /\ \/ UNCHANGED thread
     \/ thread[c] = "queued" /\ thread' = [thread EXCEPT ![c] = "dropped"]
  /\ UNCHANGED <<memory, database, req, how, bounds, upsets>>

-----------------------------------------------------------------------------
(* The session's switch, and the process *)

GrantAll ==
  /\ up /\ upsets < MaxUpsets
  /\ upsets' = upsets + 1
  /\ grantAll' \in BOOLEAN
  /\ UNCHANGED <<approved, loaded, failed, database, requests, calls, bounds>>

(* The process ends: what is in memory and what runs is gone. *)
Die ==
  /\ up /\ upsets < MaxUpsets
  /\ up' = FALSE
  /\ upsets' = upsets + 1
  /\ approved' = FALSE /\ loaded' = FALSE /\ grantAll' = FALSE /\ failed' = {}
  /\ at' = [c \in Confirms |-> IF at[c] \in Open \cup Holding THEN "cut" ELSE at[c]]
  /\ thread' = [w \in Calls |-> IF thread[w] \in Running THEN "dropped" ELSE thread[w]]
  /\ UNCHANGED <<database, req, how, kind>>

(* Mutant: the sweep also runs beside the requests, as a scheduled job. *)
SweepAnyTime ==
  /\ up' = TRUE
  /\ \E old \in SUBSET {r \in Rows : audit[r] \in {"pending", "confirmed"}} :
       audit' = [r \in Rows |-> IF r \in old THEN "expired" ELSE audit[r]]
  /\ UNCHANGED <<memory, stored, requests, calls, kind, upsets>>

(* run_sweep, which only the start of the application calls: rows that are *)
(* old enough expire, then the queued updates are tried again.             *)
StartUp ==
  /\ ~up
  /\ up' = TRUE
  /\ \E old \in SUBSET {r \in Rows : audit[r] \in {"pending", "confirmed"}},
        done \in SUBSET failed :
       /\ audit' = [r \in Rows |->
                      IF \E s \in Statuses : <<r, s>> \in done
                        THEN CHOOSE s \in Statuses : <<r, s>> \in done
                        ELSE IF r \in old THEN "expired" ELSE audit[r]]
       /\ failed' = failed \ done
  /\ UNCHANGED <<approved, loaded, grantAll, stored, requests, calls, kind, upsets>>

-----------------------------------------------------------------------------

Endpoint(c) == \/ Confirm(c) \/ Rejected(c) \/ GrantApproval(c) \/ PersistApproval(c)
               \/ Invoke(c) \/ InvokeFails(c) \/ ToolAnswers(c) \/ ToolTimesOut(c)
               \/ SpendApproval(c) \/ PersistSpent(c) \/ MarkExecuted(c) \/ MarkFailed(c)
               \/ Disconnect(c)

Next ==
  \/ \E c \in Confirms : Endpoint(c)
  \/ \E w \in Chats : ChatCall(w)
  \/ \E w \in Calls : Tool(w)
  \/ GrantAll \/ Die \/ StartUp

Spec == Init /\ [][Next]_vars

-----------------------------------------------------------------------------
(* Properties *)

Winners(r) == {c \in Confirms : req[c].won /\ req[c].row = r}

(* What a request that decided a row did, for the row to have a status. *)
Did(c, status) ==
  \/ status = "rejected"  /\ ~req[c].approve /\ thread[c] = "none"
  \/ status = "confirmed" /\ req[c].approve
  \/ status = "executed"  /\ at[c] = "marked" /\ thread[c] \in Returned
  \/ status = "failed"    /\ at[c] = "failed"

(* An audit row is decided once, by one request, whatever doubles, retries *)
(* and restarts there are, and its status tells what that request did: a   *)
(* rejected row's request called nothing, an executed row's request had an *)
(* answer from the tool, a failed row's request gave up (claim_write_audit *)
(* in audit.py, the confirm endpoint in web/app.py).                       *)
AuditTellsWinner ==
  \A r \in Rows :
    /\ \A c, d \in Winners(r) : c = d
    /\ audit[r] \in {"none", "pending"} => Winners(r) = {}
    /\ audit[r] \in {"rejected", "confirmed", "executed", "failed"}
         => \E c \in Winners(r) : Did(c, audit[r])

(* A tool passes its gate only when the user has switched the session to   *)
(* grant all, or has approved this tool and these arguments in a confirm   *)
(* that claimed its row -- also after a restart, and through every copy of *)
(* the approval in the cache and the table (hitl.py, _check_write_approval).*)
WriteHasConsent ==
  \A w \in Calls :
    how[w] \in {"cache", "database"} => \E c \in Confirms : req[c].won /\ req[c].approve

(* Once no confirm and no tool is under way, an approval is still in the   *)
(* cache only because a confirm was cut or failed, or because the table    *)
(* put it back: a confirm that ended well takes its approval back even for *)
(* the tools that take back another one (SpendApproval against the bulk    *)
(* deletes of tools/impl.py).                                              *)
LeftoverHasCause ==
  (/\ \A c \in Confirms : at[c] \notin Open \cup Holding
   /\ \A w \in Calls : thread[w] \notin Running
   /\ approved) =>
     \/ \E c \in Confirms : at[c] \in {"cut", "failed", "unmarked"} /\ req[c].approve
     \/ \E w \in Calls : how[w] = "database"

(* What a row has become it stays: nothing that is still under way when a *)
(* row is rejected, executed, failed or expired writes it again, although  *)
(* update_write_status and the sweep's retries look at no status.  It      *)
(* holds because the sweep runs at no other time than the start            *)
(* (audit_sweeper.run_sweep, the lifespan of web/app.py).                  *)
DecidedRowStays ==
  [][\A r \in Rows : audit[r] \in {"rejected", "executed", "failed", "expired"}
                        => audit'[r] = audit[r]]_vars
=============================================================================
