------------------------------- MODULE RunEvents -------------------------------
(***************************************************************************)
(* The event log of one run (web/manager.py), the stream that serves it    *)
(* (web/app.py) and a page that follows it (web/static/app.js).            *)
(*                                                                         *)
(* The manager keeps the newest Limit events in memory and every event in  *)
(* the table web_run_events; it appends under its lock, so each method is  *)
(* one action.  The stream and the page run beside it: the connection may  *)
(* break at any moment and the process may die, and the page comes back    *)
(* with whatever cursor it has.  Pages do not disturb the log or each      *)
(* other, so there is one.                                                 *)
(*                                                                         *)
(* The ids of events are a history variable: they count what was published *)
(* even where a sequence number is lost or used again.                     *)
(***************************************************************************)
EXTENDS Naturals, FiniteSets, Sequences, SequencesExt

CONSTANTS Limit,       \* event_limit, the length of the deque
          MaxEvents,   \* bound: events published before the run ends
          MaxFaults,   \* bound: database writes that fail
          MaxCrashes   \* bound: process deaths

ASSUME LimitAssumption  == Limit \in Nat \ {0}
ASSUME BoundsAssumption == MaxEvents \in Nat /\ MaxFaults \in Nat /\ MaxCrashes \in Nat

VARIABLES
  phase,     \* of the process: "up" or "down"
  ended,     \* whether the status in memory is terminal
  row,       \* whether the row of web_runs says so
  log,       \* _ManagedRun.events
  nextSeq,   \* _ManagedRun.next_seq
  stored,    \* rows of web_run_events
  count,     \* history: events published so far
  conn,      \* the page's connection
  cursor,    \* the cursor of the stream that serves it
  pending,   \* events of the last batch, on their way to the page
  page,      \* what the page keeps
  faults,    \* database writes that failed so far
  crashes    \* process deaths so far

manager == <<phase, ended, row, log, nextSeq, stored, count, faults, crashes>>
reader  == <<conn, cursor, pending, page>>
vars    == <<manager, reader>>

-----------------------------------------------------------------------------
(* Data *)

Events    == [id : 1..(MaxEvents + 1), seq : 1..(MaxEvents + 1), end : BOOLEAN]
Snapshots == [id : 0..(MaxEvents + 1), seq : 0..(MaxEvents + 1), snapshot : {TRUE}]

(* run_snapshot, an SSE event of a name of its own and without an id *)
IsSnapshot(e) == "snapshot" \in DOMAIN e

(* "off": not connected; "open": the stream waits or sends; "closing": it
   sends its last batch; "over": it has returned; "closed": the page has
   closed the source for good. *)
Connections == {"off", "open", "closing", "over", "closed"}

Pages == [lastId  : 0..(MaxEvents + 1),   \* the browser's Last-Event-ID, 0 for none
          url     : 0..(MaxEvents + 1),   \* after_seq in the URL of the source
          lastSeq : 0..(MaxEvents + 1),   \* state.lastSeq
          seen    : SUBSET (1..(MaxEvents + 1)),
          told    : 0..(MaxEvents + 1),   \* history: id of the newest event it was sent,
                                          \* as such or in a snapshot
          ended   : BOOLEAN,              \* it shows that the run has ended
          asking  : BOOLEAN]              \* reconnectStatus waits for an answer

EventOf(end, seq) == [id |-> count + 1, seq |-> seq, end |-> end]

(* Wrong variant: nothing is ever evicted. *)
NewestOfAll(events) == events

(* What a deque of Limit events keeps. *)
Newest(events) == {e \in events : Cardinality({f \in events : f.seq > e.seq}) < Limit}

(* Events in the order of their numbers: the i-th is the first that has i
   events up to its number. *)
Place(e, events) == Cardinality({f \in events : f.seq <= e.seq})
FirstAt(i, e, events) ==
  Place(e, events) >= i /\ \A f \in events : Place(f, events) >= i => e.seq <= f.seq
BySeq(events) == [i \in 1..Cardinality(events) |-> CHOOSE e \in events : FirstAt(i, e, events)]

Oldest == CHOOSE s \in {e.seq : e \in log} : \A e \in log : s <= e.seq

-----------------------------------------------------------------------------
(* The manager *)

Keep(e) ==
  /\ log' = Newest(log \cup {e})
  /\ nextSeq' = nextSeq + 1
  /\ count' = count + 1

(* _publish_locked, of an event that is not terminal: nothing once the run
   has ended.  The log has the event before the table: when _persist_event
   fails the method raises and the event stays in memory only.  (When the
   write of the record fails nothing has happened yet.) *)
Publish ==
  /\ phase = "up" /\ ~ended /\ count < MaxEvents
  /\ Keep(EventOf(FALSE, nextSeq))
  /\ \/ stored' = stored \cup {EventOf(FALSE, nextSeq)} /\ UNCHANGED faults
     \/ faults < MaxFaults /\ faults' = faults + 1 /\ UNCHANGED stored
  /\ UNCHANGED <<phase, ended, row, crashes, reader>>

(* _transition_terminal_locked: row and terminal event in one transaction. *)
End ==
  /\ phase = "up" /\ ~ended
  /\ ended' = TRUE
  /\ row' = "ended"
  /\ stored' = stored \cup {EventOf(TRUE, nextSeq)}
  /\ Keep(EventOf(TRUE, nextSeq))
  /\ UNCHANGED <<phase, faults, crashes, reader>>

(* ... which fails after the status in memory was changed. *)
EndUnstored ==
  /\ phase = "up" /\ ~ended /\ faults < MaxFaults
  /\ ended' = TRUE
  /\ faults' = faults + 1
  /\ UNCHANGED <<phase, row, log, nextSeq, stored, count, crashes, reader>>

(* set_checkpoint_retained_until and set_data_metadata write the record of
   an ended run too, and so may store a verdict without its event. *)
RewriteRow ==
  /\ phase = "up" /\ ended /\ row = "live"
  /\ row' = "ended"
  /\ UNCHANGED <<phase, ended, log, nextSeq, stored, count, faults, crashes, reader>>

Crash ==
  /\ phase = "up" /\ crashes < MaxCrashes
  /\ phase' = "down"
  /\ ended' = FALSE
  /\ log' = {} /\ nextSeq' = 1
  /\ conn' = IF conn = "closed" THEN conn ELSE "off"
  /\ page' = IF conn \in {"closed", "off"} THEN page ELSE [page EXCEPT !.asking = TRUE]
  /\ pending' = <<>> /\ cursor' = 0
  /\ crashes' = crashes + 1
  /\ UNCHANGED <<row, stored, count, faults>>

(* Wrong variant: numbering goes on from the length of the log. *)
SeqAfterByLength(events) == 1 + Cardinality(Newest(events))

(* Numbering goes on after the highest number in the table. *)
SeqAfter(events) == IF events = {} THEN 1
                    ELSE 1 + CHOOSE s \in {e.seq : e \in events} : \A e \in events : e.seq <= s

(* Wrong variants: an ended row is believed to have its event; every restart
   announces the end. *)
NeedsEndIfLive == row = "live"
AlwaysNeedsEnd == TRUE

(* Whether recovery appends a terminal event: _transition_terminal_locked for
   a run that was not ended, _repair_terminal_event_locked for one whose
   event is missing. *)
NeedsEnd == row = "live" \/ ~\E e \in Newest(stored) : e.end

(* _load_persisted_runs.  A write that fails in it makes the constructor
   raise: the service is not up and nothing is lost. *)
Load ==
  LET seq     == SeqAfter(stored)
      lacking == IF NeedsEnd THEN {EventOf(TRUE, seq)} ELSE {}
  IN
  /\ phase = "down"
  /\ phase' = "up"
  /\ ended' = TRUE /\ row' = "ended"
  /\ stored' = stored \cup lacking
  /\ log' = Newest(Newest(stored) \cup lacking)
  /\ nextSeq' = seq + Cardinality(lacking)
  /\ count' = count + Cardinality(lacking)
  /\ UNCHANGED <<faults, crashes, reader>>

-----------------------------------------------------------------------------
(* The stream *)

Snapshot == [id |-> count, seq |-> nextSeq - 1, snapshot |-> TRUE]

After(c) == BySeq({e \in log : e.seq > c})

(* _read_locked: a cursor that is older than the log is answered with a
   snapshot and what comes after it. *)
Batch(c) ==
  IF log # {} /\ c < Oldest - 1 THEN <<Snapshot>> \o After(nextSeq - 1) ELSE After(c)

(* Wrong variant: wait_for_events waits for events only. *)
ReadEventsOnly ==
  /\ phase = "up" /\ conn = "open" /\ pending = <<>>
  /\ Batch(cursor) # <<>>
  /\ pending' = Batch(cursor)
  /\ cursor' = Last(Batch(cursor)).seq
  /\ conn' = IF ended THEN "closing" ELSE "open"
  /\ UNCHANGED <<manager, page>>

(* One round of stream() in run_events: wait_for_events answers with events
   or because the run has ended, and the round after an ended run is the
   last.  A batch is read when the one before is delivered: a stream that
   reads earlier only has more on its way. *)
Read ==
  /\ phase = "up" /\ conn = "open" /\ pending = <<>>
  /\ Batch(cursor) # <<>> \/ ended
  /\ pending' = Batch(cursor)
  /\ cursor' = IF Batch(cursor) = <<>> THEN cursor ELSE Last(Batch(cursor)).seq
  /\ conn' = IF ~ended THEN "open" ELSE IF Batch(cursor) = <<>> THEN "over" ELSE "closing"
  /\ UNCHANGED <<manager, page>>

-----------------------------------------------------------------------------
(* The page *)

(* What the page makes of an event, after the browser has noted the id.
   connectEvents listens to the registered events, of which run_snapshot is
   none: the browser drops it, and the branch of processEvent that would take
   it is never reached. *)
Shown(p, e) ==
  IF IsSnapshot(e) THEN [p EXCEPT !.told = e.id]
  ELSE IF e.seq \in p.seen THEN [p EXCEPT !.lastId = e.seq]
  ELSE [p EXCEPT !.lastId = e.seq, !.lastSeq = IF @ < e.seq THEN e.seq ELSE @,
                 !.seen = @ \cup {e.seq}, !.told = e.id, !.ended = @ \/ e.end]

Deliver ==
  /\ conn \in {"open", "closing"} /\ pending # <<>>
  /\ page' = Shown(page, Head(pending))
  /\ pending' = Tail(pending)
  /\ conn' = IF conn = "closing" /\ Tail(pending) = <<>> THEN "over" ELSE conn
  /\ UNCHANGED <<manager, cursor>>

(* onerror: the browser will reconnect and the page asks for the status. *)
Broken ==
  /\ conn' = "off" /\ pending' = <<>> /\ cursor' = 0
  /\ page' = [page EXCEPT !.asking = TRUE]
  /\ UNCHANGED manager

(* The network breaks the connection; the stream has returned. *)
ConnectionLost == conn \in {"open", "closing"} /\ Broken
StreamReturned == conn = "over" /\ Broken

(* The browser's own reconnect: Last-Event-ID wins over the URL (_cursor). *)
Reconnect ==
  /\ conn = "off" /\ phase = "up"
  /\ conn' = "open"
  /\ cursor' = IF page.lastId # 0 THEN page.lastId ELSE page.url
  /\ UNCHANGED <<manager, pending, page>>

(* connectEvents, when the browser has given up: a new source. *)
ConnectAnew ==
  /\ conn = "off" /\ phase = "up" /\ ~page.asking
  /\ conn' = "open"
  /\ cursor' = page.lastSeq
  /\ page' = [page EXCEPT !.url = page.lastSeq, !.lastId = 0]
  /\ UNCHANGED <<manager, pending>>

(* reconnectStatus is answered; of an ended run, the page closes the source. *)
StatusAnswered ==
  /\ page.asking /\ phase = "up"
  /\ page' = [page EXCEPT !.asking = FALSE, !.ended = @ \/ ended]
  /\ IF ended THEN conn' = "closed" /\ pending' = <<>> /\ cursor' = 0
              ELSE UNCHANGED <<conn, pending, cursor>>
  /\ UNCHANGED manager

(* ... or the request fails, which it must while the service is down. *)
StatusFailed ==
  /\ page.asking
  /\ page' = [page EXCEPT !.asking = FALSE]
  /\ UNCHANGED <<manager, conn, pending, cursor>>

-----------------------------------------------------------------------------
(* Specification *)

Init ==
  /\ phase = "up" /\ ended = FALSE /\ row = "live"
  /\ log = {} /\ nextSeq = 1 /\ stored = {} /\ count = 0
  /\ conn = "off" /\ cursor = 0 /\ pending = <<>>
  /\ page = [lastId |-> 0, url |-> 0, lastSeq |-> 0, seen |-> {}, told |-> 0,
             ended |-> FALSE, asking |-> FALSE]
  /\ faults = 0 /\ crashes = 0

ManagerNext == Publish \/ End \/ EndUnstored \/ RewriteRow \/ Crash \/ Load
ReaderNext  == \/ Read \/ Deliver \/ ConnectionLost \/ StreamReturned \/ Reconnect
               \/ ConnectAnew \/ StatusAnswered \/ StatusFailed
Next == ManagerNext \/ ReaderNext

(* A dead service is started again; threads and the page go on; the browser
   reconnects when it can; not every status request fails.  The connection
   may break for ever, and the run need not end. *)
Fairness ==
  /\ WF_vars(Load) /\ WF_vars(Read) /\ WF_vars(Deliver) /\ WF_vars(StreamReturned)
  /\ WF_vars(Reconnect) /\ SF_vars(StatusAnswered)

Spec == Init /\ [][Next]_vars /\ Fairness

-----------------------------------------------------------------------------
(* Properties *)

(* Every variable has its type; the log is no longer than the deque. *)
EventsTypeOK ==
  /\ phase \in {"up", "down"} /\ ended \in BOOLEAN /\ row \in {"live", "ended"}
  /\ log \subseteq Events /\ Cardinality(log) <= Limit /\ stored \subseteq Events
  /\ nextSeq \in 1..(MaxEvents + 2) /\ count \in 0..(MaxEvents + 1)
  /\ conn \in Connections /\ cursor \in 0..(MaxEvents + 1) /\ page \in Pages
  /\ \A i \in DOMAIN pending : pending[i] \in Events \cup Snapshots
  /\ faults \in 0..MaxFaults /\ crashes \in 0..MaxCrashes

(* In memory and in the table a run has at most one terminal event and it is
   the last of all, whichever writes fail: neither a late callback of the
   worker nor the repair of a restart adds anything to a finished story. *)
EndIsLast ==
  \A events \in {log, stored} : \A e \in events : e.end => \A f \in events \ {e} : f.seq < e.seq

(* A service that comes up has the terminal event of the run in its log and
   in the table, though the process may have died before, in or after the
   end of the run, with its row stored and its event not. *)
RestartTellsTheEnd ==
  [][phase = "down" /\ phase' = "up" => \E e \in log' \cap stored' : e.end]_vars

(* No event can have been lost by a failed write and a restart. *)
NothingLost == faults = 0 \/ crashes = 0

(* Unless a write has failed and the process has died since, a page is sent
   every event as the next of those it was told of, or a snapshot, of which it
   keeps nothing, stands for what it skips; and a stream that has returned has
   told everything: when no write has failed, the page shows the end or a
   snapshot stood for it.  Through disconnects, reconnects by either cursor,
   eviction and restarts. *)
ToldInOrder ==
  [][/\ NothingLost =>
          \/ page'.told >= page.told /\ page'.seen = page.seen
          \/ page'.told = page.told + 1 /\ page'.seen = page.seen \cup {page'.told}
     /\ conn' = "over" => /\ NothingLost' => page'.told = count'
                          /\ faults' = 0 => page'.ended \/ count' \notin page'.seen]_vars

(* The page of a run that has ended comes to show it, even where the terminal
   event was never appended, was lost with a failed write, has a number the
   page has seen before, or was in a snapshot, which the page drops. *)
EndIsLearned == ended ~> page.ended

(* What the designs say of a page that gets a snapshot (lastSeq becomes its
   snapshot_seq): the page's own cursor is at the newest event that it was
   told of.  The code drops the snapshot, and the page goes on asking for
   events that it can only be answered with another one. *)
CursorFollowsSnapshots == NothingLost => page.lastSeq = page.told
=============================================================================
