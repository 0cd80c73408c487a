---------------------------- MODULE RunEvents_proofs ----------------------------
(***************************************************************************)
(* What the event log of RunEvents keeps for every length of the deque and *)
(* any number of events, failed writes and crashes: a terminal event is    *)
(* the last one, and a service that comes up has it.  The reader does not  *)
(* change the log, so the inductive invariant is about the manager alone.  *)
(***************************************************************************)
EXTENDS RunEvents, FiniteSetTheorems, WellFoundedInduction, TLAPS

-----------------------------------------------------------------------------
(* Newest *)

(* A bounded set of numbers that is not empty has a greatest element. *)
LEMMA Greatest ==
  ASSUME NEW S, S \subseteq Nat, S # {}, NEW B \in Nat, \A s \in S : s <= B
  PROVE  \E m \in S : \A s \in S : s <= m
<1> DEFINE T == {B - s : s \in S}
<1>0. \A s \in S : s \in Nat /\ B - s \in Nat
  OBVIOUS
<1>1. T \subseteq Nat /\ T # {}
  BY <1>0
<1>2. PICK x \in T : \A y \in T : <<y, x>> \notin OpToRel(<, Nat)
  BY <1>1, NatLessThanWellFounded, WFMin
<1>3. \A y \in T : ~ (y < x)
  BY <1>1, <1>2 DEF OpToRel
<1>4. PICK m \in S : x = B - m
  OBVIOUS
<1>5. \A s \in S : s <= m
  BY <1>0, <1>3, <1>4
<1> QED
  BY <1>5

(* The number with which a restart goes on is beyond every number in use. *)
LEMMA SeqAfterBeyond ==
  ASSUME NEW events, NEW B \in Nat, \A e \in events : e.seq \in 1..B
  PROVE  /\ SeqAfter(events) \in 1..(B + 1)
         /\ \A e \in events : e.seq < SeqAfter(events)
<1>1. CASE events = {}
  BY <1>1 DEF SeqAfter
<1>2. CASE events # {}
  <2> DEFINE S == {e.seq : e \in events}
             m == CHOOSE s \in S : \A e \in events : e.seq <= s
  <2>1. S \subseteq Nat /\ S # {} /\ \A s \in S : s <= B
    BY <1>2
  <2>2. \E s \in S : \A t \in S : t <= s
    <3> HIDE DEF S
    <3> QED
      BY <2>1, Greatest
  <2>3. \E s \in S : \A e \in events : e.seq <= s
    BY <2>2
  <2>4. m \in S /\ \A e \in events : e.seq <= m
    BY <2>3
  <2>5. m \in 1..B
    BY <2>4
  <2>6. SeqAfter(events) = 1 + m
    BY <1>2 DEF SeqAfter
  <2> HIDE DEF m
  <2> QED
    BY <2>4, <2>5, <2>6
<1> QED
  BY <1>1, <1>2

(* The deque keeps some of the events, and always the last one. *)
LEMMA NewestKeepsLast ==
  ASSUME NEW events
  PROVE  /\ Newest(events) \subseteq events
         /\ \A e \in events : (\A f \in events : ~ (f.seq > e.seq)) => e \in Newest(events)
<1>1. Newest(events) \subseteq events
  BY DEF Newest
<1>2. ASSUME NEW e \in events, \A f \in events : ~ (f.seq > e.seq)
      PROVE  e \in Newest(events)
  <2>1. {f \in events : f.seq > e.seq} = {}
    BY <1>2
  <2>2. Cardinality({f \in events : f.seq > e.seq}) < Limit
    BY <2>1, FS_EmptySet, LimitAssumption
  <2> QED
    BY <2>2 DEF Newest
<1> QED
  BY <1>1, <1>2

-----------------------------------------------------------------------------
(* The inductive invariant *)

(* Numbers are positive and no larger than the number of events published;
   while the service is up, the next one is beyond them all. *)
Numbering ==
  /\ count \in Nat
  /\ nextSeq \in 1..(count + 1)
  /\ \A e \in log \cup stored : e.seq \in 1..count
  /\ phase = "up" => \A e \in log \cup stored : e.seq < nextSeq

(* A run that has not ended, in the table or in memory, has no terminal event
   there; a process that is down has no log. *)
EndsAgree ==
  /\ phase \in {"up", "down"}
  /\ row = "live" => \A e \in stored : ~e.end
  /\ phase = "up" /\ ~ended => row = "live" /\ \A e \in log : ~e.end
  /\ phase = "down" => log = {}

LogInv == Numbering /\ EndsAgree /\ EndIsLast

(* The initial state has an empty log. *)
LEMMA InitLogInv == Init => LogInv
  BY DEF Init, LogInv, Numbering, EndsAgree, EndIsLast

(* An event that is appended has a number beyond all others, and is the only
   one that can be terminal. *)
LEMMA AppendKeeps ==
  ASSUME LogInv, phase = "up", ~ended,
         NEW end \in BOOLEAN, Keep(EventOf(end, nextSeq)),
         stored' \in {stored, stored \cup {EventOf(end, nextSeq)}},
         phase' = "up", ended' = end, row' = IF end THEN "ended" ELSE row
  PROVE  LogInv'
<1> DEFINE new == EventOf(end, nextSeq)
<1>1. new.seq = nextSeq /\ new.end = end
  BY DEF EventOf
<1>2. log' \subseteq log \cup {new} /\ stored' \subseteq stored \cup {new}
  BY NewestKeepsLast DEF Keep
<1>3. nextSeq' = nextSeq + 1 /\ count' = count + 1
  BY DEF Keep
<1>4. \A e \in log \cup stored : ~e.end /\ e.seq < nextSeq
  BY DEF LogInv, Numbering, EndsAgree
<1> HIDE DEF new
<1>5. Numbering'
  BY <1>1, <1>2, <1>3 DEF LogInv, Numbering
<1>6. EndsAgree'
  BY <1>1, <1>2, <1>4 DEF LogInv, EndsAgree
<1>7. EndIsLast'
  BY <1>1, <1>2, <1>4 DEF EndIsLast
<1> QED
  BY <1>5, <1>6, <1>7 DEF LogInv

(* Recovery adds the terminal event if and only if the table lacks it. *)
LEMMA NeedsEndIffMissing ==
  ASSUME LogInv
  PROVE  NeedsEnd <=> \A e \in stored : ~e.end
<1>1. ASSUME NEW e \in stored, e.end
      PROVE  e \in Newest(stored)
  <2>1. \A f \in stored : ~ (f.seq > e.seq)
    BY <1>1 DEF LogInv, Numbering, EndIsLast
  <2> QED
    BY <2>1, NewestKeepsLast
<1>2. Newest(stored) \subseteq stored
  BY NewestKeepsLast
<1> QED
  BY <1>1, <1>2 DEF NeedsEnd, LogInv, EndsAgree

(* A restart leaves one terminal event, in the log and in the table. *)
LEMMA LoadTellsTheEnd ==
  ASSUME LogInv, Load
  PROVE  LogInv' /\ \E e \in log' \cap stored' : e.end
<1> DEFINE seq     == SeqAfter(stored)
           new     == EventOf(TRUE, seq)
           lacking == IF NeedsEnd THEN {new} ELSE {}
<1>1. seq \in 1..(count + 1) /\ \A e \in stored : e.seq < seq
  BY SeqAfterBeyond DEF LogInv, Numbering
<1>2. new.seq = seq /\ new.end = TRUE
  BY DEF EventOf
<1>3. /\ phase' = "up" /\ ended' = TRUE /\ row' = "ended"
      /\ stored' = stored \cup lacking
      /\ log' = Newest(Newest(stored) \cup lacking)
      /\ nextSeq' = seq + Cardinality(lacking)
      /\ count' = count + Cardinality(lacking)
  BY DEF Load
<1>4. log' \subseteq stored'
  BY <1>3, NewestKeepsLast
<1>5. Cardinality(lacking) = IF NeedsEnd THEN 1 ELSE 0
  BY FS_EmptySet, FS_Singleton
<1> HIDE DEF new, seq
<1>6. \A e \in stored' : e.seq \in 1..count' /\ e.seq < nextSeq'
  BY <1>1, <1>2, <1>3, <1>5 DEF LogInv, Numbering
<1>7. \A e \in stored' : e.end => \A f \in stored' \ {e} : f.seq < e.seq
  BY <1>1, <1>2, <1>3, NeedsEndIffMissing DEF LogInv, EndIsLast
<1>8. \E e \in stored' : e.end /\ e \in Newest(stored) \cup lacking
  <2>1. CASE NeedsEnd
    BY <1>2, <1>3, <2>1
  <2>2. CASE ~NeedsEnd
    BY <1>3, <2>2, NewestKeepsLast DEF NeedsEnd
  <2> QED
    BY <2>1, <2>2
<1>9. \E e \in log' \cap stored' : e.end
  <2>1. PICK e \in stored' : e.end /\ e \in Newest(stored) \cup lacking
    BY <1>8
  <2>2. Newest(stored) \cup lacking \subseteq stored'
    BY <1>3, NewestKeepsLast
  <2>3. \A f \in Newest(stored) \cup lacking : ~ (f.seq > e.seq)
    BY <1>6, <1>7, <2>1, <2>2
  <2>4. e \in log'
    BY <1>3, <2>1, <2>3, NewestKeepsLast
  <2> QED
    BY <2>1, <2>4
<1>10. LogInv'
  <2>1. Numbering'
    <3>1. count' \in Nat /\ nextSeq' \in 1..(count' + 1)
      BY <1>1, <1>3, <1>5 DEF LogInv, Numbering
    <3> QED
      BY <1>4, <1>6, <3>1 DEF Numbering
  <2>2. EndsAgree'
    BY <1>3 DEF EndsAgree
  <2>3. EndIsLast'
    BY <1>4, <1>7 DEF EndIsLast
  <2> QED
    BY <2>1, <2>2, <2>3 DEF LogInv
<1> QED
  BY <1>9, <1>10

(* Every step keeps the invariant. *)
LEMMA StepKeeps ==
  ASSUME LogInv, [Next]_vars
  PROVE  LogInv'
<1> USE DEF LogInv
<1>1. CASE Publish
  <2>1. phase' = "up" /\ ended' = FALSE /\ row' = row
    BY <1>1 DEF Publish
  <2>2. phase = "up" /\ ~ended /\ Keep(EventOf(FALSE, nextSeq))
    BY <1>1 DEF Publish
  <2>3. stored' \in {stored, stored \cup {EventOf(FALSE, nextSeq)}}
    BY <1>1 DEF Publish
  <2> QED
    BY <2>1, <2>2, <2>3, AppendKeeps
<1>2. CASE End
  <2>1. /\ phase' = "up" /\ ended' = TRUE /\ row' = "ended"
        /\ phase = "up" /\ ~ended /\ Keep(EventOf(TRUE, nextSeq))
        /\ stored' \in {stored, stored \cup {EventOf(TRUE, nextSeq)}}
    BY <1>2 DEF End
  <2> QED
    BY <2>1, AppendKeeps
<1>3. CASE EndUnstored
  BY <1>3 DEF EndUnstored, Numbering, EndsAgree, EndIsLast
<1>4. CASE RewriteRow
  BY <1>4 DEF RewriteRow, Numbering, EndsAgree, EndIsLast
<1>5. CASE Crash
  BY <1>5 DEF Crash, Numbering, EndsAgree, EndIsLast
<1>6. CASE Load
  BY <1>6, LoadTellsTheEnd
<1>7. CASE ReaderNext \/ UNCHANGED vars
  <2>1. UNCHANGED manager
    BY <1>7 DEF ReaderNext, Read, Deliver, ConnectionLost, StreamReturned, Broken, Reconnect,
                ConnectAnew, StatusAnswered, StatusFailed, vars
  <2> QED
    BY <2>1 DEF manager, Numbering, EndsAgree, EndIsLast
<1> QED
  BY <1>1, <1>2, <1>3, <1>4, <1>5, <1>6, <1>7 DEF Next, ManagerNext

-----------------------------------------------------------------------------
(* Theorems *)

(* web/manager.py numbers and keeps events as LogInv says, always. *)
THEOREM LogInvAlways == Spec => []LogInv
<1>1. LogInv /\ [Next]_vars => LogInv'
  BY StepKeeps
<1> QED
  BY InitLogInv, <1>1, PTL DEF Spec

(* In memory and in the table, a run's terminal event is unique and the last,
   for any deque, any number of failed writes and restarts. *)
THEOREM EndStaysLast == Spec => []EndIsLast
<1>1. LogInv => EndIsLast
  BY DEF LogInv
<1> QED
  BY LogInvAlways, <1>1, PTL

(* A service that comes up has the terminal event of the run in memory and in
   the table, whenever the process died and whichever write had failed. *)
THEOREM RestartsTellTheEnd == Spec => RestartTellsTheEnd
<1>1. LogInv /\ [Next]_vars =>
        [phase = "down" /\ phase' = "up" => \E e \in log' \cap stored' : e.end]_vars
  <2> SUFFICES ASSUME LogInv, Next, phase = "down", phase' = "up"
               PROVE  \E e \in log' \cap stored' : e.end
    OBVIOUS
  <2>1. Load
    BY DEF Next, ManagerNext, Publish, End, EndUnstored, RewriteRow, Crash, ReaderNext, Read,
           Deliver, ConnectionLost, StreamReturned, Broken, Reconnect, ConnectAnew,
           StatusAnswered, StatusFailed, manager
  <2> QED
    BY <2>1, LoadTellsTheEnd
<1> QED
  BY LogInvAlways, <1>1, PTL DEF Spec, RestartTellsTheEnd
=============================================================================
