-------------------------- MODULE RunEventsPage_proofs --------------------------
(***************************************************************************)
(* What a page of RunEvents is told, for every length of the deque and any *)
(* number of events, failed writes, crashes and disconnections.  The first *)
(* part is about sets of events with distinct numbers: how many Newest     *)
(* keeps, and that BySeq sorts them.  The second gives every variable its  *)
(* type, whatever fails.  The third follows the story from the log through *)
(* the stream to the page as long as no event can have been lost.          *)
(***************************************************************************)
EXTENDS RunEvents_proofs, SequenceTheorems

-----------------------------------------------------------------------------
(* Sets of events *)

(* No two events have the same number. *)
Apart(events) == \A e, f \in events : e.seq = f.seq => e = f

(* The numbers of the events are exactly those after lo up to hi. *)
Filled(events, lo, hi) ==
  /\ Apart(events)
  /\ \A e \in events : e.seq \in (lo + 1)..hi
  /\ \A s \in (lo + 1)..hi : \E e \in events : e.seq = s

(* Numbered events are finitely many. *)
LEMMA NumberedFinite ==
  ASSUME NEW events, Apart(events), NEW B \in Nat, \A e \in events : e.seq \in 1..B
  PROVE  IsFiniteSet(events) /\ Cardinality(events) \in Nat
<1> DEFINE number == [e \in events |-> e.seq]
<1>1. number \in Injection(events, 1..B)
  BY DEF Injection, IsInjective, Apart
<1>2. IsFiniteSet(1..B)
  BY FS_Interval
<1> HIDE DEF number
<1> QED
  BY <1>1, <1>2, FS_Injection, FS_CardinalityType

(* As many events as numbers. *)
LEMMA FilledCount ==
  ASSUME NEW lo \in Nat, NEW hi \in Nat, lo <= hi, NEW events, Filled(events, lo, hi)
  PROVE  Cardinality(events) = hi - lo
<1> DEFINE eventOf == [s \in (lo + 1)..hi |-> CHOOSE e \in events : e.seq = s]
<1>1. \A s \in (lo + 1)..hi : eventOf[s] \in events /\ eventOf[s].seq = s
  BY DEF Filled
<1>2. \A e \in events : e.seq \in (lo + 1)..hi /\ eventOf[e.seq] = e
  BY <1>1 DEF Filled, Apart
<1>3. eventOf \in [(lo + 1)..hi -> events]
  BY <1>1
<1> HIDE DEF eventOf
<1>4. eventOf \in Bijection((lo + 1)..hi, events)
  BY <1>1, <1>2, <1>3 DEF Bijection, Injection, Surjection, IsInjective
<1>5. ExistsBijection((lo + 1)..hi, events)
  BY <1>4 DEF ExistsBijection
<1>6. IsFiniteSet((lo + 1)..hi) /\ Cardinality((lo + 1)..hi) = hi - lo
  <2>1. lo + 1 \in Int /\ hi \in Int
    OBVIOUS
  <2>2. Cardinality((lo + 1)..hi) = IF lo + 1 > hi THEN 0 ELSE hi - (lo + 1) + 1
    BY <2>1, FS_Interval
  <2>3. Cardinality((lo + 1)..hi) = hi - lo
    BY <2>2
  <2> QED
    BY <2>1, <2>3, FS_Interval
<1> QED
  BY <1>5, <1>6, FS_Bijection

(* Of two numbered events, the later has more events up to its number, and
   fewer beyond it. *)
LEMMA LaterCounts ==
  ASSUME NEW events, Apart(events), NEW B \in Nat, \A e \in events : e.seq \in 1..B,
         NEW e \in events, NEW f \in events, e.seq < f.seq
  PROVE  /\ Place(e, events) < Place(f, events)
         /\ Cardinality({g \in events : g.seq > f.seq}) < Cardinality({g \in events : g.seq > e.seq})
<1>0. IsFiniteSet(events)
  BY NumberedFinite
<1>1. ASSUME NEW S \in SUBSET events, NEW T \in SUBSET S, T # S
      PROVE  Cardinality(T) < Cardinality(S)
  <2>1. IsFiniteSet(S) /\ Cardinality(S) \in Nat
    BY <1>0, FS_Subset, FS_CardinalityType
  <2>2. IsFiniteSet(T) /\ Cardinality(T) \in Nat /\ Cardinality(T) <= Cardinality(S)
        /\ Cardinality(S) # Cardinality(T)
    BY <1>1, <2>1, FS_Subset, FS_CardinalityType
  <2> QED
    BY <2>1, <2>2
<1>2. /\ {g \in events : g.seq <= e.seq} \subseteq {g \in events : g.seq <= f.seq}
      /\ f \in {g \in events : g.seq <= f.seq} \ {g \in events : g.seq <= e.seq}
  OBVIOUS
<1>3. /\ {g \in events : g.seq > f.seq} \subseteq {g \in events : g.seq > e.seq}
      /\ f \in {g \in events : g.seq > e.seq} \ {g \in events : g.seq > f.seq}
  OBVIOUS
<1> QED
  BY <1>1, <1>2, <1>3 DEF Place

(* The deque is never longer than Limit. *)
LEMMA NewestFits ==
  ASSUME NEW events, Apart(events), NEW B \in Nat, \A e \in events : e.seq \in 1..B
  PROVE  Cardinality(Newest(events)) <= Limit
<1> DEFINE Beyond(e) == {f \in events : f.seq > e.seq}
           rank == [e \in Newest(events) |-> Cardinality(Beyond(e))]
<1>0. Newest(events) \subseteq events /\ \A e \in Newest(events) : Cardinality(Beyond(e)) < Limit
  BY DEF Newest
<1>1. \A e \in Newest(events) : Cardinality(Beyond(e)) \in 0..(Limit - 1)
  <2>1. ASSUME NEW e \in events PROVE Cardinality(Beyond(e)) \in Nat
    BY NumberedFinite, FS_Subset, FS_CardinalityType
  <2> QED
    BY <1>0, <2>1, LimitAssumption
<1>2. ASSUME NEW e \in Newest(events), NEW f \in Newest(events), rank[e] = rank[f]
      PROVE  e = f
  <2>1. e.seq \in Nat /\ f.seq \in Nat
    BY <1>0
  <2>2. ~ (e.seq < f.seq) /\ ~ (f.seq < e.seq)
    <3>1. Cardinality(Beyond(e)) = Cardinality(Beyond(f))
      BY <1>2
    <3>2. Cardinality(Beyond(e)) \in Nat
      BY <1>1
    <3>3. e.seq < f.seq => Cardinality(Beyond(f)) < Cardinality(Beyond(e))
      BY <1>0, LaterCounts
    <3>4. f.seq < e.seq => Cardinality(Beyond(e)) < Cardinality(Beyond(f))
      BY <1>0, LaterCounts
    <3> HIDE DEF Beyond
    <3> QED
      BY <3>1, <3>2, <3>3, <3>4
  <2> QED
    BY <1>0, <2>1, <2>2 DEF Apart
<1>3. rank \in Injection(Newest(events), 0..(Limit - 1))
  <2>1. rank \in [Newest(events) -> 0..(Limit - 1)]
    BY <1>1
  <2> HIDE DEF rank
  <2> QED
    BY <1>2, <2>1 DEF Injection, IsInjective
<1>4. IsFiniteSet(0..(Limit - 1)) /\ Cardinality(0..(Limit - 1)) = Limit
  <2>1. 0 \in Int /\ Limit - 1 \in Int /\ ~ (0 > Limit - 1)
    BY LimitAssumption
  <2> QED
    BY <2>1, FS_Interval, LimitAssumption
<1> HIDE DEF rank
<1> QED
  BY <1>3, <1>4, FS_Injection

(* Of numbers without a gap, the deque keeps the last ones. *)
LEMMA NewestOfFilled ==
  ASSUME NEW lo \in Nat, NEW hi \in Nat, lo <= hi, NEW events, Filled(events, lo, hi)
  PROVE  Newest(events) = {e \in events : e.seq + Limit > hi}
<1>1. ASSUME NEW e \in events
      PROVE  Cardinality({f \in events : f.seq > e.seq}) = hi - e.seq
  <2>1. e.seq \in Nat /\ e.seq <= hi
    BY DEF Filled
  <2>2. Filled({f \in events : f.seq > e.seq}, e.seq, hi)
    BY <2>1 DEF Filled, Apart
  <2> QED
    BY <2>1, <2>2, FilledCount
<1>2. \A e \in events : e.seq \in Nat
  BY DEF Filled
<1> QED
  BY <1>1, <1>2, LimitAssumption DEF Newest

(* BySeq lists every event once, and events only. *)
LEMMA BySeqLists ==
  ASSUME NEW events, Apart(events), NEW B \in Nat, \A e \in events : e.seq \in 1..B
  PROVE  /\ BySeq(events) \in Seq(events)
         /\ Len(BySeq(events)) = Cardinality(events)
         /\ \A i \in 1..Cardinality(events) :
              BySeq(events)[i] \in events /\ Place(BySeq(events)[i], events) = i
<1> DEFINE n == Cardinality(events)
           place == [e \in events |-> Place(e, events)]
<1>0. IsFiniteSet(events) /\ n \in Nat
  BY NumberedFinite
<1>1. \A e \in events : Place(e, events) \in 1..n
  <2> SUFFICES ASSUME NEW e \in events PROVE Place(e, events) \in 1..n
    OBVIOUS
  <2> DEFINE S == {f \in events : f.seq <= e.seq}
  <2>1. S \subseteq events /\ e \in S
    OBVIOUS
  <2>2. IsFiniteSet(S) /\ Cardinality(S) \in Nat /\ Cardinality(S) <= n
    BY <1>0, <2>1, FS_Subset, FS_CardinalityType
  <2>3. Cardinality(S) # 0
    BY <2>1, <2>2, FS_EmptySet
  <2> QED
    BY <1>0, <2>2, <2>3 DEF Place
<1>2. \A e, f \in events : place[e] = place[f] => e = f
  <2> SUFFICES ASSUME NEW e \in events, NEW f \in events, Place(e, events) = Place(f, events)
               PROVE  e = f
    OBVIOUS
  <2>1. e.seq \in Nat /\ f.seq \in Nat /\ Place(e, events) \in Nat
    BY <1>0, <1>1
  <2>2. ~ (e.seq < f.seq) /\ ~ (f.seq < e.seq)
    <3>1. e.seq < f.seq => Place(e, events) < Place(f, events)
      BY LaterCounts
    <3>2. f.seq < e.seq => Place(f, events) < Place(e, events)
      BY LaterCounts
    <3> QED
      BY <2>1, <3>1, <3>2
  <2> QED
    BY <2>1, <2>2 DEF Apart
<1>3. place \in Injection(events, 1..n)
  <2>1. place \in [events -> 1..n]
    BY <1>1
  <2> HIDE DEF place
  <2> QED
    BY <1>2, <2>1 DEF Injection, IsInjective
<1>4. place \in Surjection(events, 1..n)
  <2>1. IsFiniteSet(1..n) /\ Cardinality(1..n) = n
    <3>1. 1 \in Int /\ n \in Int
      BY <1>0
    <3>2. Cardinality(1..n) = IF 1 > n THEN 0 ELSE n - 1 + 1
      BY <3>1, FS_Interval
    <3> HIDE DEF n
    <3> QED
      BY <1>0, <3>1, <3>2, FS_Interval
  <2> HIDE DEF place
  <2> QED
    BY <1>3, <2>1, FS_Injection
<1>5. \A i \in 1..n : \E e \in events : Place(e, events) = i
  BY <1>4 DEF Surjection
<1>6. \A i \in 1..n : BySeq(events)[i] \in events /\ Place(BySeq(events)[i], events) = i
  <2> SUFFICES ASSUME NEW i \in 1..n
               PROVE  BySeq(events)[i] \in events /\ Place(BySeq(events)[i], events) = i
    OBVIOUS
  <2>1. PICK at \in events : Place(at, events) = i
    BY <1>5
  <2>2. /\ \A e \in events : Place(e, events) \in Nat /\ e.seq \in Nat
        /\ i \in Nat
    BY <1>0, <1>1
  <2>3. \A e, f \in events : e.seq < f.seq => Place(e, events) < Place(f, events)
    BY LaterCounts
  <2>4. FirstAt(i, at, events)
    <3> SUFFICES ASSUME NEW f \in events, Place(f, events) >= i PROVE at.seq <= f.seq
      BY <2>1, <2>2 DEF FirstAt
    <3>1. ~ (f.seq < at.seq)
      BY <2>1, <2>2, <2>3
    <3> QED
      BY <2>2, <3>1
  <2>5. ASSUME NEW e \in events, FirstAt(i, e, events) PROVE Place(e, events) = i
    <3>1. e.seq <= at.seq /\ Place(e, events) >= i
      BY <2>1, <2>2, <2>5 DEF FirstAt
    <3>2. ~ (at.seq < e.seq) /\ ~ (e.seq < at.seq)
      BY <2>1, <2>2, <2>3, <3>1
    <3>3. e = at
      BY <2>2, <3>2 DEF Apart
    <3> QED
      BY <2>1, <3>3
  <2>6. BySeq(events)[i] = CHOOSE e \in events : FirstAt(i, e, events)
    BY DEF BySeq
  <2> QED
    BY <2>4, <2>5, <2>6
<1>7. BySeq(events) \in [1..n -> events]
  BY <1>6 DEF BySeq
<1> HIDE DEF n
<1> QED
  BY <1>0, <1>6, <1>7 DEF n

(* Numbers without a gap come out in order. *)
LEMMA BySeqOfFilled ==
  ASSUME NEW lo \in Nat, NEW hi \in Nat, lo <= hi, NEW events, Filled(events, lo, hi)
  PROVE  /\ BySeq(events) \in Seq(events)
         /\ Len(BySeq(events)) = hi - lo
         /\ \A i \in 1..(hi - lo) : BySeq(events)[i] \in events /\ BySeq(events)[i].seq = lo + i
<1>1. \A e \in events : e.seq \in 1..hi
  BY DEF Filled
<1>2. /\ BySeq(events) \in Seq(events)
      /\ Len(BySeq(events)) = hi - lo
      /\ \A i \in 1..(hi - lo) : /\ BySeq(events)[i] \in events
                                 /\ Place(BySeq(events)[i], events) = i
  BY <1>1, FilledCount, BySeqLists DEF Filled
<1>3. ASSUME NEW e \in events
      PROVE  Place(e, events) = e.seq - lo
  <2>1. e.seq \in Nat /\ lo <= e.seq
    BY DEF Filled
  <2>2. Filled({f \in events : f.seq <= e.seq}, lo, e.seq)
    BY <2>1 DEF Filled, Apart
  <2> QED
    BY <2>1, <2>2, FilledCount DEF Place
<1>4. ASSUME NEW i \in 1..(hi - lo)
      PROVE  BySeq(events)[i].seq = lo + i
  <2>1. BySeq(events)[i].seq \in Nat
    BY <1>1, <1>2
  <2> QED
    BY <1>2, <1>3, <2>1
<1> QED
  BY <1>2, <1>4
-----------------------------------------------------------------------------
(* Types, whatever fails *)

(* The last event that the bounds admit is a terminal one and in the table;
   so nothing is published after it. *)
ManagerTyped ==
  /\ phase \in {"up", "down"} /\ ended \in BOOLEAN /\ row \in {"live", "ended"}
  /\ log \subseteq Events /\ Apart(log) /\ Cardinality(log) <= Limit
  /\ stored \subseteq Events /\ Apart(stored)
  /\ nextSeq \in 1..(MaxEvents + 2) /\ count \in 0..(MaxEvents + 1)
  /\ faults \in 0..MaxFaults /\ crashes \in 0..MaxCrashes
  /\ count = MaxEvents + 1 => \E e \in stored : e.end

ReaderTyped ==
  /\ conn \in Connections /\ cursor \in 0..(MaxEvents + 1) /\ page \in Pages
  /\ pending \in Seq(Events \cup Snapshots)

TypeInv == ManagerTyped /\ ReaderTyped

(* What the next event must be for the log and the table to keep their types. *)
LEMMA EventTyped ==
  ASSUME count \in 0..MaxEvents, NEW end \in BOOLEAN, NEW seq \in 1..(count + 1)
  PROVE  EventOf(end, seq) \in Events
  BY BoundsAssumption DEF EventOf, Events

(* An event with a number beyond all others leaves the numbers distinct. *)
LEMMA ApartBeyond ==
  ASSUME NEW events, Apart(events), NEW e, \A f \in events : f.seq # e.seq
  PROVE  Apart(events \cup {e}) /\ Apart(Newest(events \cup {e}))
  BY NewestKeepsLast DEF Apart

(* The initial state is typed. *)
LEMMA InitTyped == Init => TypeInv
<1> SUFFICES ASSUME Init PROVE TypeInv
  OBVIOUS
<1>1. Cardinality({}) <= Limit
  BY FS_EmptySet, LimitAssumption
<1>2. ManagerTyped
  <2>1. log = {} /\ stored = {} /\ count = 0 /\ nextSeq = 1 /\ count # MaxEvents + 1
    BY BoundsAssumption DEF Init
  <2>2. Cardinality(log) <= Limit
    BY <1>1, <2>1
  <2>3. Apart(log) /\ Apart(stored)
    BY <2>1 DEF Apart
  <2>4. nextSeq \in 1..(MaxEvents + 2) /\ count \in 0..(MaxEvents + 1)
    BY <2>1, BoundsAssumption
  <2>5. faults \in 0..MaxFaults /\ crashes \in 0..MaxCrashes
    BY BoundsAssumption DEF Init
  <2>6. phase \in {"up", "down"} /\ ended \in BOOLEAN /\ row \in {"live", "ended"}
    BY DEF Init
  <2> QED
    BY <2>1, <2>2, <2>3, <2>4, <2>5, <2>6 DEF ManagerTyped
<1>3. ReaderTyped
  BY BoundsAssumption DEF Init, ReaderTyped, Connections, Pages
<1> QED
  BY <1>2, <1>3 DEF TypeInv

(* Appending an event to the log and perhaps to the table. *)
LEMMA AppendTyped ==
  ASSUME LogInv, ManagerTyped, phase = "up", ~ended,
         NEW end \in BOOLEAN, Keep(EventOf(end, nextSeq)), end \/ count < MaxEvents,
         stored' \in {stored, stored \cup {EventOf(end, nextSeq)}},
         end => EventOf(end, nextSeq) \in stored'
  PROVE  /\ log' \subseteq Events /\ Apart(log') /\ Cardinality(log') <= Limit
         /\ stored' \subseteq Events /\ Apart(stored')
         /\ nextSeq' \in 1..(MaxEvents + 2) /\ count' \in 0..(MaxEvents + 1)
         /\ count' = MaxEvents + 1 => \E e \in stored' : e.end
<1> DEFINE new == EventOf(end, nextSeq)
<1>1. count \in 0..MaxEvents
  BY BoundsAssumption DEF LogInv, EndsAgree, ManagerTyped
<1>2. new \in Events /\ new.seq = nextSeq /\ new.end = end
  BY <1>1, EventTyped DEF LogInv, Numbering, EventOf
<1>3. \A f \in log \cup stored : f.seq < nextSeq /\ f.seq # nextSeq
  BY DEF LogInv, Numbering
<1>4. /\ log' = Newest(log \cup {new})
      /\ nextSeq' = nextSeq + 1 /\ count' = count + 1
  BY DEF Keep
<1>5. nextSeq \in 1..(count + 1)
  BY DEF LogInv, Numbering
<1> HIDE DEF new
<1>6. Apart(log \cup {new}) /\ Apart(log')
  BY <1>2, <1>3, <1>4, ApartBeyond DEF ManagerTyped
<1>7. Apart(stored')
  <2>1. Apart(stored \cup {new})
    BY <1>2, <1>3, ApartBeyond DEF ManagerTyped
  <2> QED
    BY <2>1 DEF ManagerTyped, new
<1>8. log' \subseteq Events /\ stored' \subseteq Events
  BY <1>2, <1>4, NewestKeepsLast DEF ManagerTyped, new
<1>9. Cardinality(log') <= Limit
  <2>1. \A e \in log \cup {new} : e.seq \in 1..(count + 1)
    BY <1>1, <1>2, <1>5 DEF LogInv, Numbering
  <2> QED
    BY <1>1, <1>4, <1>6, <2>1, NewestFits
<1>10. nextSeq' \in 1..(MaxEvents + 2) /\ count' \in 0..(MaxEvents + 1)
  BY <1>1, <1>4, <1>5, BoundsAssumption
<1>11. count' = MaxEvents + 1 => \E e \in stored' : e.end
  BY <1>1, <1>2, <1>4, BoundsAssumption DEF new
<1> QED
  BY <1>6, <1>7, <1>8, <1>9, <1>10, <1>11

(* A restart leaves the log and the table typed. *)
LEMMA LoadTyped ==
  ASSUME LogInv, ManagerTyped, Load
  PROVE  ManagerTyped'
<1> DEFINE seq     == SeqAfter(stored)
           new     == EventOf(TRUE, seq)
           lacking == IF NeedsEnd THEN {new} ELSE {}
<1>1. seq \in 1..(count + 1) /\ \A e \in stored : e.seq < seq /\ e.seq \in Nat
  BY SeqAfterBeyond DEF LogInv, Numbering
<1>2. /\ phase' = "up" /\ ended' = TRUE /\ row' = "ended"
      /\ stored' = stored \cup lacking
      /\ log' = Newest(Newest(stored) \cup lacking)
      /\ nextSeq' = seq + Cardinality(lacking)
      /\ count' = count + Cardinality(lacking)
      /\ faults' = faults /\ crashes' = crashes
  BY DEF Load
<1>3. new.seq = seq /\ new.end = TRUE
  BY DEF EventOf
<1>4. Cardinality(lacking) = IF NeedsEnd THEN 1 ELSE 0
  BY FS_EmptySet, FS_Singleton
<1>5. NeedsEnd => count \in 0..MaxEvents /\ new \in Events
  <2>1. NeedsEnd => count \in 0..MaxEvents
    BY NeedsEndIffMissing, BoundsAssumption DEF ManagerTyped
  <2> QED
    BY <1>1, <2>1, EventTyped
<1> HIDE DEF new, seq
<1>6. stored' \subseteq Events /\ Apart(stored') /\ \A e \in stored' : e.seq \in 1..(count + 1)
  <2>1. Apart(stored \cup {new})
    <3>1. \A e \in stored : e.seq # new.seq
      BY <1>1, <1>3
    <3> QED
      BY <3>1, ApartBeyond DEF ManagerTyped
  <2>2. Apart(stored')
    BY <1>2, <2>1 DEF ManagerTyped
  <2> QED
    BY <1>1, <1>2, <1>3, <1>5, <2>2 DEF ManagerTyped, LogInv, Numbering
<1>7. Newest(stored) \cup lacking \subseteq stored' /\ log' \subseteq Newest(stored) \cup lacking
  BY <1>2, NewestKeepsLast
<1>8. log' \subseteq Events /\ Apart(log')
  BY <1>6, <1>7 DEF Apart
<1>9. Cardinality(log') <= Limit
  <2>1. /\ Apart(Newest(stored) \cup lacking)
        /\ \A e \in Newest(stored) \cup lacking : e.seq \in 1..(count + 1)
    BY <1>6, <1>7 DEF Apart
  <2>2. count + 1 \in Nat
    BY DEF LogInv, Numbering
  <2> HIDE DEF lacking
  <2> QED
    BY <1>2, <2>1, <2>2, NewestFits
<1>10. /\ nextSeq' \in 1..(MaxEvents + 2) /\ count' \in 0..(MaxEvents + 1)
       /\ count' = MaxEvents + 1 => \E e \in stored' : e.end
  <2>1. CASE NeedsEnd
    <3>1. nextSeq' = seq + 1 /\ count' = count + 1 /\ new \in stored'
      BY <1>2, <1>4, <2>1
    <3> QED
      BY <1>1, <1>3, <1>5, <2>1, <3>1, BoundsAssumption
  <2>2. CASE ~NeedsEnd
    <3>1. Cardinality(lacking) = 0 /\ stored' = stored
      BY <1>2, <1>4, <2>2
    <3>2. nextSeq' = seq /\ count' = count
      BY <1>1, <1>2, <3>1 DEF ManagerTyped
    <3> QED
      BY <1>1, <3>1, <3>2, BoundsAssumption DEF ManagerTyped
  <2> QED
    BY <2>1, <2>2
<1> QED
  BY <1>2, <1>6, <1>8, <1>9, <1>10 DEF ManagerTyped

(* What wait_for_events answers is a list of retained events, or of one
   snapshot: nothing comes after the last number. *)
LEMMA BatchCases ==
  ASSUME LogInv, ManagerTyped, phase = "up", NEW c \in Nat
  PROVE  /\ After(c) \in Seq(log)
         /\ Batch(c) = IF log # {} /\ c < Oldest - 1 THEN <<Snapshot>> ELSE After(c)
<1>1. ASSUME NEW d \in Nat
      PROVE  After(d) \in Seq(log) /\ Len(After(d)) = Cardinality({e \in log : e.seq > d})
  <2> DEFINE beyond == {e \in log : e.seq > d}
  <2>1. Apart(beyond) /\ count \in Nat /\ \A e \in beyond : e.seq \in 1..count
    BY DEF ManagerTyped, Apart, LogInv, Numbering
  <2>2. beyond \subseteq log
    OBVIOUS
  <2> HIDE DEF beyond
  <2>3. BySeq(beyond) \in Seq(beyond) /\ Len(BySeq(beyond)) = Cardinality(beyond)
    BY <2>1, BySeqLists
  <2>4. BySeq(beyond) \in Seq(log)
    BY <2>2, <2>3
  <2> QED
    BY <2>3, <2>4 DEF After, beyond
<1>2. After(nextSeq - 1) = <<>>
  <2>1. nextSeq - 1 \in Nat /\ {e \in log : e.seq > nextSeq - 1} = {}
    BY DEF LogInv, Numbering
  <2>2. Len(After(nextSeq - 1)) = 0
    BY <1>1, <2>1, FS_EmptySet
  <2> QED
    BY <1>1, <2>1, <2>2
<1>3. <<Snapshot>> \o <<>> = <<Snapshot>>
  OBVIOUS
<1> QED
  BY <1>1, <1>2, <1>3 DEF Batch

(* A batch and the cursor after it have their types. *)
LEMMA BatchTyped ==
  ASSUME LogInv, TypeInv, phase = "up"
  PROVE  /\ Batch(cursor) \in Seq(Events \cup Snapshots)
         /\ Batch(cursor) # <<>> => Last(Batch(cursor)).seq \in 0..(MaxEvents + 1)
<1>1. cursor \in Nat /\ log \subseteq Events
  BY BoundsAssumption DEF TypeInv, ManagerTyped, ReaderTyped
<1>2. Snapshot \in Snapshots
  <2>1. nextSeq - 1 \in 0..(MaxEvents + 1) /\ count \in 0..(MaxEvents + 1) /\ ended \in BOOLEAN
    BY BoundsAssumption DEF TypeInv, ManagerTyped
  <2> QED
    BY <2>1 DEF Snapshot, Snapshots
<1>3. After(cursor) \in Seq(Events \cup Snapshots) /\ <<Snapshot>> \in Seq(Events \cup Snapshots)
  <2>1. After(cursor) \in Seq(log)
    BY <1>1, BatchCases DEF TypeInv
  <2> QED
    BY <1>1, <1>2, <2>1
<1>4. Batch(cursor) \in Seq(Events \cup Snapshots)
  BY <1>1, <1>3, BatchCases DEF TypeInv
<1>5. ASSUME NEW b \in Seq(Events \cup Snapshots), b # <<>>
      PROVE  Last(b).seq \in 0..(MaxEvents + 1)
  <2>1. Last(b) \in Events \cup Snapshots
    BY <1>5 DEF Last
  <2>2. CASE Last(b) \in Events
    BY <2>2, BoundsAssumption DEF Events
  <2>3. CASE Last(b) \in Snapshots
    BY <2>3 DEF Snapshots
  <2> QED
    BY <2>1, <2>2, <2>3
<1> QED
  BY <1>4, <1>5

(* What the page makes of an event is a page. *)
LEMMA ShownTyped ==
  ASSUME NEW p \in Pages, NEW e \in Events \cup Snapshots
  PROVE  Shown(p, e) \in Pages
<1>1. CASE IsSnapshot(e)
  <2>1. e \in Snapshots
    BY <1>1 DEF IsSnapshot, Events
  <2> QED
    BY <1>1, <2>1 DEF Shown, Pages, Snapshots
<1>2. CASE ~IsSnapshot(e)
  <2>1. e \in Events
    BY <1>2 DEF IsSnapshot, Snapshots
  <2>2. e.seq \in 1..(MaxEvents + 1) /\ e.seq \in 0..(MaxEvents + 1) /\ e.id \in 0..(MaxEvents + 1)
        /\ e.end \in BOOLEAN
    BY <2>1, BoundsAssumption DEF Events
  <2> QED
    BY <1>2, <2>2 DEF Shown, Pages
<1> QED
  BY <1>1, <1>2

(* Every step keeps the types. *)
LEMMA StepTyped ==
  ASSUME LogInv, TypeInv, [Next]_vars
  PROVE  TypeInv'
<1> USE DEF TypeInv
<1>1. ASSUME UNCHANGED reader PROVE ReaderTyped'
  BY <1>1 DEF reader, ReaderTyped
<1>2. ASSUME UNCHANGED manager PROVE ManagerTyped'
  BY <1>2 DEF manager, ManagerTyped
<1>3. CASE Publish
  <2>1. /\ phase = "up" /\ ~ended /\ count < MaxEvents /\ Keep(EventOf(FALSE, nextSeq))
        /\ stored' \in {stored, stored \cup {EventOf(FALSE, nextSeq)}}
        /\ phase' = phase /\ ended' = ended /\ row' = row /\ crashes' = crashes
        /\ UNCHANGED reader
    BY <1>3 DEF Publish
  <2>2. faults' \in 0..MaxFaults
    <3>1. faults' = faults \/ (faults < MaxFaults /\ faults' = faults + 1)
      BY <1>3, Zenon DEF Publish
    <3> QED
      BY <3>1, BoundsAssumption DEF ManagerTyped
  <2>3. /\ log' \subseteq Events /\ Apart(log') /\ Cardinality(log') <= Limit
        /\ stored' \subseteq Events /\ Apart(stored')
        /\ nextSeq' \in 1..(MaxEvents + 2) /\ count' \in 0..(MaxEvents + 1)
        /\ count' = MaxEvents + 1 => \E e \in stored' : e.end
    BY <2>1, AppendTyped
  <2> QED
    BY <1>1, <2>1, <2>2, <2>3 DEF ManagerTyped
<1>4. CASE End
  <2>1. /\ phase = "up" /\ ~ended /\ Keep(EventOf(TRUE, nextSeq))
        /\ stored' = stored \cup {EventOf(TRUE, nextSeq)}
        /\ phase' = phase /\ ended' = TRUE /\ row' = "ended"
        /\ faults' = faults /\ crashes' = crashes /\ UNCHANGED reader
    BY <1>4 DEF End
  <2>2. /\ log' \subseteq Events /\ Apart(log') /\ Cardinality(log') <= Limit
        /\ stored' \subseteq Events /\ Apart(stored')
        /\ nextSeq' \in 1..(MaxEvents + 2) /\ count' \in 0..(MaxEvents + 1)
        /\ count' = MaxEvents + 1 => \E e \in stored' : e.end
    BY <2>1, AppendTyped
  <2> QED
    BY <1>1, <2>1, <2>2 DEF ManagerTyped
<1>5. CASE EndUnstored
  <2>1. faults' \in 0..MaxFaults
    BY <1>5, BoundsAssumption DEF EndUnstored, ManagerTyped
  <2> QED
    BY <1>1, <1>5, <2>1 DEF EndUnstored, ManagerTyped
<1>6. CASE RewriteRow
  BY <1>1, <1>6 DEF RewriteRow, ManagerTyped
<1>7. CASE Crash
  <2>1. crashes' \in 0..MaxCrashes
    BY <1>7, BoundsAssumption DEF Crash, ManagerTyped
  <2>2. log' = {} /\ Cardinality(log') <= Limit /\ Apart(log')
    BY <1>7, FS_EmptySet, LimitAssumption DEF Crash, Apart
  <2>3. ManagerTyped'
    <3>1. /\ phase' = "down" /\ ended' = FALSE /\ nextSeq' = 1
          /\ row' = row /\ stored' = stored /\ count' = count /\ faults' = faults
      BY <1>7 DEF Crash
    <3>2. nextSeq' \in 1..(MaxEvents + 2)
      BY <3>1, BoundsAssumption
    <3> QED
      BY <2>1, <2>2, <3>1, <3>2 DEF ManagerTyped
  <2>4. page' \in Pages
    BY <1>7 DEF Crash, ReaderTyped, Pages
  <2>5. conn' \in Connections /\ cursor' \in 0..(MaxEvents + 1) /\ pending' = <<>>
    BY <1>7, BoundsAssumption DEF Crash, ReaderTyped, Connections
  <2> QED
    BY <2>3, <2>4, <2>5 DEF ReaderTyped
<1>8. CASE Load
  BY <1>1, <1>8, LoadTyped DEF Load
<1>9. CASE Read
  <2>1. /\ page' = page /\ pending' = Batch(cursor) /\ UNCHANGED manager
        /\ conn' \in {"open", "over", "closing"}
        /\ cursor' = IF Batch(cursor) = <<>> THEN cursor ELSE Last(Batch(cursor)).seq
    BY <1>9 DEF Read
  <2>2. phase = "up"
    BY <1>9 DEF Read
  <2>3. /\ Batch(cursor) \in Seq(Events \cup Snapshots)
        /\ Batch(cursor) # <<>> => Last(Batch(cursor)).seq \in 0..(MaxEvents + 1)
    BY <2>2, BatchTyped
  <2>4. cursor' \in 0..(MaxEvents + 1)
    BY <2>1, <2>3 DEF ReaderTyped
  <2> QED
    BY <1>2, <2>1, <2>3, <2>4 DEF ReaderTyped, Connections
<1>10. CASE Deliver
  <2>1. /\ pending # <<>> /\ page' = Shown(page, Head(pending)) /\ pending' = Tail(pending)
        /\ conn' \in {"over", conn} /\ cursor' = cursor /\ UNCHANGED manager
    BY <1>10 DEF Deliver
  <2>2. Head(pending) \in Events \cup Snapshots /\ Tail(pending) \in Seq(Events \cup Snapshots)
    BY <2>1 DEF ReaderTyped
  <2>3. page' \in Pages
    BY <2>1, <2>2, ShownTyped DEF ReaderTyped
  <2> QED
    BY <1>2, <2>1, <2>2, <2>3 DEF ReaderTyped, Connections
<1>11. CASE ConnectionLost \/ StreamReturned
  <2>1. Broken
    BY <1>11 DEF ConnectionLost, StreamReturned
  <2>2. page' \in Pages
    BY <2>1 DEF Broken, ReaderTyped, Pages
  <2> QED
    BY <1>2, <2>1, <2>2, BoundsAssumption DEF Broken, ReaderTyped, Connections
<1>12. CASE Reconnect
  <2>1. cursor' \in 0..(MaxEvents + 1)
    BY <1>12 DEF Reconnect, ReaderTyped, Pages
  <2> QED
    BY <1>2, <1>12, <2>1 DEF Reconnect, ReaderTyped, Connections
<1>13. CASE ConnectAnew
  <2>1. /\ page \in Pages /\ page.lastSeq \in 0..(MaxEvents + 1) /\ 0 \in 0..(MaxEvents + 1)
        /\ page' = [page EXCEPT !.url = page.lastSeq, !.lastId = 0] /\ cursor' = page.lastSeq
    BY <1>13, BoundsAssumption DEF ConnectAnew, ReaderTyped, Pages
  <2>2. page' \in Pages
    BY <2>1 DEF Pages
  <2> QED
    BY <1>2, <1>13, <2>1, <2>2 DEF ConnectAnew, ReaderTyped, Connections
<1>14. CASE StatusAnswered
  <2>1. page' \in Pages
    <3>1. page' = [page EXCEPT !.asking = FALSE, !.ended = @ \/ ended] /\ page \in Pages
      BY <1>14 DEF StatusAnswered, ReaderTyped
    <3> QED
      BY <3>1 DEF Pages
  <2>2. conn' \in Connections /\ cursor' \in 0..(MaxEvents + 1)
        /\ pending' \in Seq(Events \cup Snapshots)
    <3>1. \/ conn' = "closed" /\ pending' = <<>> /\ cursor' = 0
          \/ conn' = conn /\ pending' = pending /\ cursor' = cursor
      BY <1>14 DEF StatusAnswered
    <3>2. <<>> \in Seq(Events \cup Snapshots) /\ 0 \in 0..(MaxEvents + 1)
      BY BoundsAssumption
    <3> QED
      BY <3>1, <3>2 DEF ReaderTyped, Connections
  <2> QED
    BY <1>2, <1>14, <2>1, <2>2 DEF StatusAnswered, ReaderTyped
<1>15. CASE StatusFailed
  <2>1. page' \in Pages
    BY <1>15 DEF StatusFailed, ReaderTyped, Pages
  <2> QED
    BY <1>2, <1>15, <2>1 DEF StatusFailed, ReaderTyped
<1>16. CASE UNCHANGED vars
  BY <1>1, <1>2, <1>16 DEF vars
<1> QED
  BY <1>3, <1>4, <1>5, <1>6, <1>7, <1>8, <1>9, <1>10, <1>11, <1>12, <1>13, <1>14, <1>15, <1>16
     DEF Next, ManagerNext, ReaderNext

(* Every variable of the log, the stream and the page has its type, and the
   log is never longer than the deque, for any Limit and any failures. *)
THEOREM EventsTypeCorrect == Spec => []EventsTypeOK
<1>1. Init => LogInv /\ TypeInv
  BY InitLogInv, InitTyped
<1>2. LogInv /\ TypeInv /\ [Next]_vars => (LogInv /\ TypeInv)'
  BY StepKeeps, StepTyped
<1>3. TypeInv => EventsTypeOK
  BY DEF TypeInv, ManagerTyped, ReaderTyped, EventsTypeOK
<1> QED
  BY <1>1, <1>2, <1>3, PTL DEF Spec
-----------------------------------------------------------------------------
(* The story, as long as no event can have been lost *)

(* How many of n events are no longer in the deque. *)
EvictedOf(n) == IF n > Limit THEN n - Limit ELSE 0
Evicted == EvictedOf(count)

(* The table has every event unless a write has failed; the log has all that
   were not evicted; an event's number says how many were published. *)
LogComplete ==
  /\ crashes = 0 => phase = "up"
  /\ \A e \in log \cup stored : e.id = e.seq
  /\ phase = "up" => nextSeq = count + 1 /\ Filled(log, Evicted, count)
  /\ faults = 0 => /\ Filled(stored, 0, count)
                   /\ phase = "up" => log \subseteq stored
                   /\ phase = "up" /\ ended => \E e \in stored : e.end

(* What the browser reconnects with. *)
BrowserCursor == IF page.lastId # 0 THEN page.lastId ELSE page.url

(* The page's two cursors are one: what it has seen goes up to it.  It is at
   what the page was told, or a snapshot is missing from it and the log has
   gone on, so that it will be answered with another one. *)
PageInv ==
  /\ page.told <= count /\ page.seen \subseteq 1..page.lastSeq
  /\ page.lastSeq = BrowserCursor
  /\ page.lastSeq = page.told \/ (page.lastSeq < page.told /\ page.lastSeq < Evicted)

(* The number before the first event on its way. *)
Base == cursor - Len(pending)

(* On its way is a snapshot, ... *)
SnapshotSent ==
  /\ Len(pending) = 1 /\ IsSnapshot(pending[1])
  /\ pending[1].id = cursor /\ pending[1].seq = cursor
  /\ page.told <= cursor /\ page.lastSeq < Evicted

(* ... or are the events after those that the page was told of; or it has
   connected with a cursor that asks for a snapshot. *)
EventsSent ==
  /\ \A i \in 1..Len(pending) :
        ~IsSnapshot(pending[i]) /\ pending[i].seq = Base + i /\ pending[i].id = Base + i
  /\ Base = page.told \/ (pending = <<>> /\ cursor = page.lastSeq /\ cursor < Evicted)

StreamInv ==
  /\ conn \notin {"open", "closing"} => pending = <<>>
  /\ conn \in {"open", "closing"} => phase = "up" /\ cursor <= count /\ (SnapshotSent \/ EventsSent)
  /\ conn = "closing" => ended /\ cursor = count /\ pending # <<>>
  /\ conn = "over" => phase = "up" /\ ended /\ page.told = count

(* A page that has seen the number of the terminal event shows the end, and
   what carries that number to it says so. *)
Telling ==
  faults = 0 => \A e \in stored : e.end =>
    /\ e.seq \in page.seen => page.ended
    /\ \A i \in 1..Len(pending) : ~IsSnapshot(pending[i]) /\ pending[i].seq = e.seq => pending[i].end

StoryInv == NothingLost => LogComplete /\ PageInv /\ StreamInv /\ Telling

(* Initially nothing has been published and nothing shown. *)
LEMMA InitStory == Init => StoryInv
<1> SUFFICES ASSUME Init PROVE LogComplete /\ PageInv /\ StreamInv /\ Telling
  BY DEF StoryInv
<1>1. Evicted = 0 /\ count = 0
  BY LimitAssumption DEF Init, Evicted, EvictedOf
<1>2. LogComplete
  BY <1>1 DEF Init, LogComplete, Filled, Apart
<1>3. page.told = 0 /\ page.seen = {} /\ page.lastId = 0 /\ page.url = 0 /\ page.lastSeq = 0
  BY DEF Init
<1>4. BrowserCursor = 0
  BY <1>3 DEF BrowserCursor
<1>5. PageInv
  BY <1>1, <1>3, <1>4 DEF PageInv
<1>6. StreamInv
  BY DEF Init, StreamInv
<1>7. Telling
  BY DEF Init, Telling
<1> QED
  BY <1>2, <1>5, <1>6, <1>7

(* No more is evicted than was published. *)
LEMMA EvictedType ==
  ASSUME count \in Nat
  PROVE  Evicted \in 0..count
  BY LimitAssumption DEF Evicted, EvictedOf

(* The deque of events without a gap has no gap either. *)
LEMMA NewestFilled ==
  ASSUME NEW lo \in Nat, NEW hi \in Nat, lo <= hi, NEW events, Filled(events, lo, hi),
         lo <= EvictedOf(hi)
  PROVE  Filled(Newest(events), EvictedOf(hi), hi)
<1> DEFINE kept == EvictedOf(hi)
<1>1. Newest(events) = {e \in events : e.seq + Limit > hi}
  BY NewestOfFilled
<1>2. kept \in Nat /\ lo <= kept
  BY LimitAssumption DEF EvictedOf
<1>3. \A s \in (lo + 1)..hi : s + Limit > hi <=> s \in (kept + 1)..hi
  BY LimitAssumption DEF EvictedOf
<1>4. \A s \in (kept + 1)..hi : s \in (lo + 1)..hi
  BY <1>2
<1> HIDE DEF kept
<1>5. Apart(Newest(events))
  BY <1>1 DEF Filled, Apart
<1>6. \A e \in Newest(events) : e.seq \in (kept + 1)..hi
  BY <1>1, <1>3 DEF Filled
<1>7. \A s \in (kept + 1)..hi : \E e \in Newest(events) : e.seq = s
  BY <1>1, <1>3, <1>4 DEF Filled
<1> QED
  BY <1>5, <1>6, <1>7 DEF Filled, kept

(* One more number at the end. *)
LEMMA FilledGrows ==
  ASSUME NEW lo \in Nat, NEW hi \in Nat, lo <= hi, NEW events, Filled(events, lo, hi),
         NEW e, e.seq = hi + 1
  PROVE  Filled(events \cup {e}, lo, hi + 1)
  BY DEF Filled, Apart

(* Publishing keeps the log complete, also when the table misses the event. *)
LEMMA AppendComplete ==
  ASSUME LogInv, ManagerTyped, LogComplete, phase = "up", ~ended,
         NEW end \in BOOLEAN, Keep(EventOf(end, nextSeq)),
         stored' \in {stored, stored \cup {EventOf(end, nextSeq)}},
         phase' = "up", ended' = end,
         faults' = 0 => faults = 0 /\ stored' = stored \cup {EventOf(end, nextSeq)}
  PROVE  LogComplete'
<1> DEFINE new == EventOf(end, nextSeq)
<1>1. count \in Nat /\ nextSeq = count + 1 /\ Evicted \in 0..count
  BY EvictedType DEF LogInv, Numbering, LogComplete
<1>2. new.id = count + 1 /\ new.seq = count + 1 /\ new.end = end
  BY <1>1 DEF EventOf
<1>3. log' = Newest(log \cup {new}) /\ nextSeq' = nextSeq + 1 /\ count' = count + 1
  BY DEF Keep
<1> HIDE DEF new
<1>4. log' \subseteq log \cup {new}
  BY <1>3, NewestKeepsLast
<1>5. Filled(log', Evicted', count')
  <2>1. Filled(log \cup {new}, Evicted, count + 1)
    BY <1>1, <1>2, FilledGrows DEF LogComplete
  <2>2. Evicted <= EvictedOf(count + 1)
    BY <1>1, LimitAssumption DEF Evicted, EvictedOf
  <2>3. Filled(Newest(log \cup {new}), EvictedOf(count + 1), count + 1)
    BY <1>1, <2>1, <2>2, NewestFilled
  <2> QED
    BY <1>3, <2>3 DEF Evicted
<1>6. \A e \in log' \cup stored' : e.id = e.seq
  BY <1>2, <1>4 DEF LogComplete, new
<1>7. faults' = 0 => /\ Filled(stored', 0, count')
                     /\ log' \subseteq stored'
                     /\ ended' => \E e \in stored' : e.end
  <2> SUFFICES ASSUME faults' = 0
               PROVE  /\ Filled(stored', 0, count')
                      /\ log' \subseteq stored'
                      /\ ended' => \E e \in stored' : e.end
    OBVIOUS
  <2>1. faults = 0 /\ stored' = stored \cup {new}
    BY DEF new
  <2>2. Filled(stored', 0, count')
    BY <1>1, <1>2, <1>3, <2>1, FilledGrows DEF LogComplete
  <2> QED
    BY <1>2, <1>4, <2>1, <2>2 DEF LogComplete
<1> QED
  BY <1>1, <1>3, <1>5, <1>6, <1>7 DEF LogComplete

(* A restart goes on numbering where the table ends. *)
LEMMA SeqAfterFilled ==
  ASSUME NEW hi \in Nat, NEW events, Filled(events, 0, hi)
  PROVE  SeqAfter(events) = hi + 1
<1>1. \A e \in events : e.seq \in 1..hi
  BY DEF Filled
<1>2. SeqAfter(events) \in 1..(hi + 1) /\ \A e \in events : e.seq < SeqAfter(events)
  BY <1>1, SeqAfterBeyond
<1>3. CASE hi = 0
  BY <1>2, <1>3
<1>4. CASE hi > 0
  <2>1. PICK e \in events : e.seq = hi
    <3>1. hi \in (0 + 1)..hi
      BY <1>4
    <3> QED
      BY <3>1 DEF Filled
  <2> QED
    BY <1>2, <2>1
<1> QED
  BY <1>3, <1>4

(* A restart finds every event in the table and keeps the newest. *)
LEMMA LoadComplete ==
  ASSUME LogInv, ManagerTyped, LogComplete, Load, faults = 0
  PROVE  LogComplete'
<1> DEFINE new     == EventOf(TRUE, count + 1)
           lacking == IF NeedsEnd THEN {new} ELSE {}
           n       == Cardinality(lacking)
<1>1. count \in Nat /\ Filled(stored, 0, count) /\ SeqAfter(stored) = count + 1
  BY SeqAfterFilled DEF LogInv, Numbering, LogComplete
<1>2. /\ phase' = "up" /\ ended' = TRUE
      /\ stored' = stored \cup lacking
      /\ log' = Newest(Newest(stored) \cup lacking)
      /\ nextSeq' = count + 1 + n /\ count' = count + n
  BY <1>1 DEF Load
<1>3. new.id = count + 1 /\ new.seq = count + 1 /\ new.end = TRUE
  BY DEF EventOf
<1>4. n = IF NeedsEnd THEN 1 ELSE 0
  BY FS_EmptySet, FS_Singleton
<1> HIDE DEF new, n
<1>5. EvictedOf(count) \in 0..count /\ 0 <= EvictedOf(count)
  BY <1>1, LimitAssumption DEF EvictedOf
<1>6. Filled(Newest(stored), EvictedOf(count), count)
  BY <1>1, <1>5, NewestFilled
<1>7. /\ Filled(stored', 0, count')
      /\ Filled(Newest(stored) \cup lacking, EvictedOf(count), count')
      /\ EvictedOf(count) <= count' /\ count' \in Nat /\ EvictedOf(count) <= EvictedOf(count')
      /\ nextSeq' = count' + 1
  <2>1. CASE NeedsEnd
    <3>1. count' = count + 1
      BY <1>2, <1>4, <2>1
    <3>2. Filled(stored \cup {new}, 0, count + 1)
      BY <1>1, <1>3, FilledGrows
    <3>3. Filled(Newest(stored) \cup {new}, EvictedOf(count), count + 1)
      BY <1>1, <1>3, <1>5, <1>6, FilledGrows
    <3>4. EvictedOf(count) <= EvictedOf(count + 1)
      BY <1>1, LimitAssumption DEF EvictedOf
    <3>5. nextSeq' = count + 2
      BY <1>1, <1>2, <1>4, <2>1
    <3> QED
      BY <1>1, <1>2, <1>5, <2>1, <3>1, <3>2, <3>3, <3>4, <3>5
  <2>2. CASE ~NeedsEnd
    <3>1. lacking = {} /\ n = 0
      BY <1>4, <2>2
    <3>2. count' = count /\ nextSeq' = count + 1
      BY <1>1, <1>2, <3>1
    <3>3. stored' = stored /\ Newest(stored) \cup lacking = Newest(stored)
      BY <1>2, <3>1
    <3> QED
      BY <1>1, <1>5, <1>6, <3>2, <3>3
  <2> QED
    BY <2>1, <2>2
<1>8. Filled(log', Evicted', count')
  BY <1>2, <1>5, <1>7, NewestFilled DEF Evicted
<1>9. log' \subseteq stored' /\ \A e \in log' \cup stored' : e.id = e.seq
  <2>1. log' \subseteq Newest(stored) \cup lacking /\ Newest(stored) \subseteq stored
    BY <1>2, NewestKeepsLast
  <2> QED
    BY <1>2, <1>3, <2>1 DEF LogComplete
<1>10. \E e \in stored' : e.end
  BY LoadTellsTheEnd
<1> QED
  BY <1>2, <1>7, <1>8, <1>9, <1>10 DEF LogComplete

(* The manager keeps the log complete. *)
LEMMA ManagerComplete ==
  ASSUME LogInv, ManagerTyped, LogComplete, ManagerNext, NothingLost'
  PROVE  LogComplete'
<1>1. CASE Publish
  <2>1. /\ phase = "up" /\ ~ended /\ Keep(EventOf(FALSE, nextSeq))
        /\ phase' = "up" /\ ended' = FALSE
    BY <1>1 DEF Publish, ManagerTyped
  <2>2. stored' \in {stored, stored \cup {EventOf(FALSE, nextSeq)}}
    BY <1>1 DEF Publish
  <2>3. ASSUME faults' = 0 PROVE faults = 0 /\ stored' = stored \cup {EventOf(FALSE, nextSeq)}
    <3>1. faults' # faults + 1
      BY <2>3 DEF ManagerTyped
    <3>2. stored' = stored \cup {EventOf(FALSE, nextSeq)} /\ faults' = faults
      BY <1>1, <3>1, Zenon DEF Publish
    <3> QED
      BY <2>3, <3>2
  <2> QED
    BY <2>1, <2>2, <2>3, AppendComplete
<1>2. CASE End
  <2>1. /\ phase = "up" /\ ~ended /\ Keep(EventOf(TRUE, nextSeq))
        /\ stored' = stored \cup {EventOf(TRUE, nextSeq)}
        /\ phase' = "up" /\ ended' = TRUE /\ faults' = faults
    BY <1>2 DEF End
  <2> QED
    BY <2>1, AppendComplete
<1>3. CASE EndUnstored
  <2>1. faults' # 0
    BY <1>3 DEF EndUnstored, ManagerTyped
  <2> QED
    BY <1>3, <2>1 DEF EndUnstored, LogComplete, Evicted
<1>4. CASE RewriteRow
  BY <1>4 DEF RewriteRow, LogComplete, Evicted
<1>5. CASE Crash
  <2>1. crashes' # 0
    BY <1>5 DEF Crash, ManagerTyped
  <2> QED
    BY <1>5, <2>1 DEF Crash, LogComplete
<1>6. CASE Load
  <2>1. crashes # 0
    BY <1>6 DEF Load, LogComplete
  <2>2. faults = 0
    BY <1>6, <2>1 DEF Load, NothingLost
  <2> QED
    BY <1>6, <2>2, LoadComplete
<1> QED
  BY <1>1, <1>2, <1>3, <1>4, <1>5, <1>6 DEF ManagerNext

(* What a manager's step may do while a stream runs. *)
LEMMA ManagerGrows ==
  ASSUME LogInv, ManagerTyped, ManagerNext, ~Crash
  PROVE  /\ UNCHANGED reader
         /\ count' \in {count, count + 1} /\ faults' \in {faults, faults + 1}
         /\ crashes' = crashes
         /\ phase = "up" => phase' = "up" /\ (ended => ended' /\ count' = count)
         /\ stored \subseteq stored'
         /\ \A e \in stored' \ stored : e.id = count + 1
<1>1. CASE Publish
  BY <1>1 DEF Publish, Keep, EventOf
<1>2. CASE End
  BY <1>2 DEF End, Keep, EventOf
<1>3. CASE EndUnstored
  BY <1>3 DEF EndUnstored
<1>4. CASE RewriteRow
  BY <1>4 DEF RewriteRow
<1>5. CASE Load
  <2> DEFINE lacking == IF NeedsEnd THEN {EventOf(TRUE, SeqAfter(stored))} ELSE {}
  <2>1. phase = "down" /\ UNCHANGED reader /\ stored' = stored \cup lacking /\ faults' = faults
        /\ crashes' = crashes /\ count' = count + Cardinality(lacking)
    BY <1>5 DEF Load
  <2>2. Cardinality(lacking) = IF NeedsEnd THEN 1 ELSE 0
    BY FS_EmptySet, FS_Singleton
  <2>3. NeedsEnd => count' = count + 1
    BY <2>1, <2>2
  <2>4. ~NeedsEnd => count' = count /\ stored' = stored
    BY <2>1, <2>2 DEF ManagerTyped
  <2>5. \A e \in lacking : e.id = count + 1
    BY DEF EventOf
  <2> QED
    BY <2>1, <2>3, <2>4, <2>5
<1> QED
  BY <1>1, <1>2, <1>3, <1>4, <1>5 DEF ManagerNext

(* Events that are appended evict some. *)
LEMMA EvictedGrows ==
  ASSUME count \in Nat, count' \in {count, count + 1}
  PROVE  Evicted <= Evicted' /\ Evicted \in Nat /\ Evicted' \in Nat
<1>1. CASE count' = count
  BY <1>1, LimitAssumption DEF Evicted, EvictedOf
<1>2. CASE count' = count + 1
  BY <1>2, LimitAssumption DEF Evicted, EvictedOf
<1> QED
  BY <1>1, <1>2

(* Everything on its way has been published. *)
LEMMA PendingBelow ==
  ASSUME TypeInv, StreamInv, NEW i \in 1..Len(pending)
  PROVE  pending[i].seq \in 0..count
<1>0. cursor \in Nat /\ count \in Nat /\ pending \in Seq(Events \cup Snapshots)
  BY DEF TypeInv, ManagerTyped, ReaderTyped
<1>1. Len(pending) \in Nat /\ pending # <<>>
  BY <1>0
<1>2. cursor <= count /\ (SnapshotSent \/ EventsSent)
  BY <1>1 DEF StreamInv
<1>3. CASE SnapshotSent
  BY <1>0, <1>2, <1>3 DEF SnapshotSent
<1>4. CASE EventsSent
  <2>1. Base \in Nat
    BY <1>0, <1>1, <1>4 DEF EventsSent, TypeInv, ReaderTyped, Pages
  <2>2. pending[i].seq = Base + i /\ i <= Len(pending) /\ Base + Len(pending) = cursor
    BY <1>0, <1>1, <1>4, <2>1 DEF EventsSent, Base
  <2> QED
    BY <1>0, <1>1, <1>2, <2>1, <2>2
<1> QED
  BY <1>2, <1>3, <1>4

(* While the manager works, page and stream wait. *)
LEMMA ReaderWaits ==
  ASSUME LogInv, TypeInv, LogComplete, PageInv, StreamInv, Telling, ManagerNext, ~Crash,
         LogComplete'
  PROVE  PageInv' /\ StreamInv' /\ Telling'
<1> USE DEF TypeInv
<1>1. /\ page' = page /\ conn' = conn /\ cursor' = cursor /\ pending' = pending
      /\ count' \in {count, count + 1} /\ faults' \in {faults, faults + 1}
      /\ phase = "up" => phase' = "up" /\ (ended => ended' /\ count' = count)
      /\ stored \subseteq stored'
      /\ \A e \in stored' \ stored : e.id = count + 1
  BY ManagerGrows DEF reader
<1>2. count \in Nat /\ cursor \in Nat /\ page.told \in Nat
      /\ page.lastSeq \in Nat /\ BrowserCursor \in Nat
  BY DEF ManagerTyped, ReaderTyped, Pages, BrowserCursor
<1>3. BrowserCursor' = BrowserCursor /\ Base' = Base
  BY <1>1 DEF BrowserCursor, Base
<1>4. Evicted <= Evicted' /\ Evicted \in Nat /\ Evicted' \in Nat
  BY <1>1, <1>2, EvictedGrows
<1>5. PageInv'
  BY <1>1, <1>2, <1>3, <1>4 DEF PageInv
<1>6. SnapshotSent => SnapshotSent'
  BY <1>1, <1>2, <1>4 DEF SnapshotSent
<1>7. EventsSent => EventsSent'
  BY <1>1, <1>2, <1>3, <1>4 DEF EventsSent
<1>8. StreamInv'
  BY <1>1, <1>2, <1>6, <1>7 DEF StreamInv
<1>9. Telling'
  <2> SUFFICES ASSUME faults' = 0, NEW e \in stored', e.end
               PROVE  /\ e.seq \in page.seen => page.ended
                      /\ \A i \in 1..Len(pending) :
                            ~IsSnapshot(pending[i]) /\ pending[i].seq = e.seq => pending[i].end
    BY <1>1 DEF Telling
  <2>1. faults = 0
    BY <1>1 DEF ManagerTyped
  <2>2. CASE e \in stored
    BY <2>1, <2>2 DEF Telling
  <2>3. CASE e \notin stored
    <3>1. e.seq = count + 1
      BY <1>1, <2>3 DEF LogComplete
    <3>2. \A i \in 1..Len(pending) : pending[i].seq \in 0..count
      BY PendingBelow
    <3>3. \A n \in page.seen : n <= count /\ n \in Nat
      BY <1>2 DEF PageInv
    <3> QED
      BY <1>2, <3>1, <3>2, <3>3
  <2> QED
    BY <2>2, <2>3
<1> QED
  BY <1>5, <1>8, <1>9

(* A log without a gap is answered in order; a log that begins later than the
   cursor, with a snapshot. *)
LEMMA BatchTells ==
  ASSUME LogInv, ManagerTyped, LogComplete, phase = "up", NEW c \in 0..count
  PROVE  /\ c < Evicted => Batch(c) = <<Snapshot>>
         /\ Evicted <= c => /\ Batch(c) \in Seq(log)
                            /\ Len(Batch(c)) = count - c
                            /\ \A i \in 1..(count - c) : Batch(c)[i].seq = c + i
<1>1. count \in Nat /\ Evicted \in 0..count /\ Filled(log, Evicted, count)
  BY EvictedType DEF LogInv, Numbering, LogComplete
<1>2. log = {} => Evicted = 0 /\ count = 0
  <2>1. ASSUME log = {} PROVE Evicted = count
    <3>1. \A s \in (Evicted + 1)..count : FALSE
      BY <1>1, <2>1 DEF Filled
    <3>2. Evicted < count => count \in (Evicted + 1)..count
      BY <1>1
    <3> QED
      BY <1>1, <3>1, <3>2
  <2> QED
    BY <1>1, <2>1, LimitAssumption DEF Evicted, EvictedOf
<1>3. log # {} => Oldest = Evicted + 1
  <2> SUFFICES ASSUME log # {} PROVE Oldest = Evicted + 1
    OBVIOUS
  <2> DEFINE numbers == {e.seq : e \in log}
  <2>1. \A s \in numbers : s \in (Evicted + 1)..count
    BY <1>1 DEF Filled
  <2>2. Evicted + 1 \in (Evicted + 1)..count
    BY <1>1, <2>1
  <2>3. Evicted + 1 \in numbers
    BY <1>1, <2>2 DEF Filled
  <2>4. \E s \in numbers : \A e \in log : s <= e.seq
    BY <1>1, <2>1, <2>3
  <2>5. Oldest \in numbers /\ \A e \in log : Oldest <= e.seq
    BY <2>4 DEF Oldest
  <2>6. Oldest <= Evicted + 1 /\ Oldest \in (Evicted + 1)..count
    BY <2>1, <2>3, <2>5
  <2> QED
    BY <1>1, <2>6
<1>4. After(c) \in Seq(log) /\ (c < Evicted => Batch(c) = <<Snapshot>>)
      /\ (Evicted <= c => Batch(c) = After(c))
  <2>1. After(c) \in Seq(log)
        /\ Batch(c) = IF log # {} /\ c < Oldest - 1 THEN <<Snapshot>> ELSE After(c)
    <3>1. c \in Nat
      BY <1>1
    <3> QED
      BY <3>1, BatchCases, Zenon
  <2>2. log # {} /\ c < Oldest - 1 <=> c < Evicted
    <3>1. CASE log = {}
      BY <1>1, <1>2, <3>1
    <3>2. CASE log # {}
      BY <1>1, <1>3, <3>2
    <3> QED
      BY <3>1, <3>2
  <2>3. ~ (c < Evicted /\ Evicted <= c)
    BY <1>1
  <2> QED
    BY <2>1, <2>2, <2>3
<1>5. ASSUME Evicted <= c
      PROVE  /\ Len(After(c)) = count - c
             /\ \A i \in 1..(count - c) : After(c)[i].seq = c + i
  <2>1. Filled({e \in log : e.seq > c}, c, count)
    <3>1. \A s \in (c + 1)..count : s \in (Evicted + 1)..count /\ s > c
      BY <1>1, <1>5
    <3>2. \A e \in log : e.seq > c => e.seq \in (c + 1)..count
      BY <1>1 DEF Filled
    <3> QED
      BY <1>1, <3>1, <3>2 DEF Filled, Apart
  <2> DEFINE beyond == {e \in log : e.seq > c}
  <2>2. c \in Nat /\ c <= count /\ Filled(beyond, c, count)
    BY <1>1, <2>1
  <2> HIDE DEF beyond
  <2>3. /\ Len(BySeq(beyond)) = count - c
        /\ \A i \in 1..(count - c) : BySeq(beyond)[i].seq = c + i
    BY <1>1, <2>2, BySeqOfFilled
  <2> QED
    BY <2>3 DEF After, beyond
<1> QED
  BY <1>4, <1>5

(* What is terminal in the table has the highest number. *)
LEMMA EndHasCount ==
  ASSUME LogInv, LogComplete, faults = 0, NEW e \in stored, e.end
  PROVE  e.seq = count
<1>1. count \in Nat /\ Filled(stored, 0, count) /\ e.seq \in 1..count
  BY DEF LogInv, Numbering, LogComplete
<1>2. PICK f \in stored : f.seq = count
  BY <1>1 DEF Filled
<1> QED
  BY <1>1, <1>2 DEF LogInv, EndIsLast

(* One round of the stream sends a snapshot or what the page has not seen. *)
LEMMA ReadTells ==
  ASSUME LogInv, TypeInv, LogComplete, PageInv, StreamInv, Telling, Read
  PROVE  PageInv' /\ StreamInv' /\ Telling'
<1> USE DEF TypeInv
<1>1. /\ phase = "up" /\ conn = "open" /\ pending = <<>>
      /\ pending' = Batch(cursor)
      /\ cursor' = IF Batch(cursor) = <<>> THEN cursor ELSE Last(Batch(cursor)).seq
      /\ conn' = IF ~ended THEN "open" ELSE IF Batch(cursor) = <<>> THEN "over" ELSE "closing"
      /\ Batch(cursor) # <<>> \/ ended
      /\ page' = page
      /\ phase' = phase /\ ended' = ended /\ log' = log /\ stored' = stored /\ count' = count
      /\ faults' = faults
  BY DEF Read, manager
<1>2. count \in Nat /\ cursor \in 0..count /\ Evicted \in 0..count /\ ended \in BOOLEAN
      /\ page.told \in 0..count /\ page.lastSeq \in Nat
  BY <1>1, EvictedType DEF StreamInv, PageInv, ManagerTyped, ReaderTyped, Pages
<1>3. Evicted' = Evicted /\ BrowserCursor' = BrowserCursor
  BY <1>1 DEF Evicted, BrowserCursor
<1>4. PageInv'
  BY <1>1, <1>3 DEF PageInv
<1>5. Len(pending) = 0
  BY <1>1
<1>6. EventsSent /\ Base = cursor
  BY <1>1, <1>2, <1>5 DEF StreamInv, SnapshotSent, Base
<1>7. cursor = page.told \/ (cursor = page.lastSeq /\ cursor < Evicted)
  BY <1>6 DEF EventsSent
<1>8. CASE cursor < Evicted
  <2>1. Batch(cursor) = <<Snapshot>> /\ Snapshot.id = count /\ Snapshot.seq = count
        /\ IsSnapshot(Snapshot)
    BY <1>1, <1>2, <1>8, BatchTells DEF Snapshot, LogComplete, IsSnapshot
  <2> HIDE DEF Snapshot, IsSnapshot
  <2>2. pending' = <<Snapshot>> /\ Len(pending') = 1 /\ pending'[1] = Snapshot /\ pending' # <<>>
    BY <1>1, <2>1
  <2>3. cursor' = count
    <3>1. Last(<<Snapshot>>) = Snapshot /\ <<Snapshot>> # <<>>
      BY DEF Last
    <3> QED
      BY <1>1, <2>1, <3>1
  <2>4. SnapshotSent'
    <3>1. page.lastSeq < Evicted
      BY <1>2, <1>7, <1>8 DEF PageInv
    <3> QED
      BY <1>1, <1>2, <1>3, <2>1, <2>2, <2>3, <3>1 DEF SnapshotSent
  <2>5. StreamInv'
    BY <1>1, <1>2, <2>1, <2>2, <2>3, <2>4 DEF StreamInv
  <2>6. Telling'
    BY <1>1, <2>1, <2>2 DEF Telling
  <2> QED
    BY <1>4, <2>5, <2>6
<1>9. CASE Evicted <= cursor
  <2> DEFINE b == Batch(cursor)
             n == count - cursor
  <2>1. b \in Seq(log) /\ Len(b) = n /\ n \in Nat /\ \A i \in 1..n : b[i] \in log /\ b[i].seq = cursor + i
    <3>1. b \in Seq(log) /\ Len(b) = n /\ \A i \in 1..n : b[i].seq = cursor + i
      <4>1. phase = "up" /\ cursor \in 0..count /\ Evicted <= cursor /\ ManagerTyped
        BY <1>1, <1>2, <1>9
      <4> QED
        BY <4>1, BatchTells
    <3>2. n \in Nat
      BY <1>2
    <3> HIDE DEF b, n
    <3> QED
      BY <3>1, <3>2
  <2>2. pending' = b
    BY <1>1
  <2> HIDE DEF b
  <2>3. cursor' = count /\ (b = <<>> <=> n = 0)
    <3>1. CASE n = 0
      <4>1. b = <<>>
        BY <2>1, <3>1
      <4> QED
        BY <1>1, <1>2, <3>1, <4>1 DEF b
    <3>2. CASE n > 0
      <4>1. b # <<>> /\ Last(b) = b[n] /\ n \in 1..n
        BY <2>1, <3>2 DEF Last
      <4>2. Last(b).seq = count
        BY <1>2, <2>1, <4>1
      <4> QED
        BY <1>1, <3>2, <4>1, <4>2 DEF b
    <3> QED
      BY <2>1, <3>1, <3>2
  <2>4. Base' = cursor
    BY <1>2, <2>1, <2>2, <2>3 DEF Base
  <2>5. \A i \in 1..n : ~IsSnapshot(b[i]) /\ b[i].id = cursor + i
    BY <2>1 DEF LogComplete, ManagerTyped, Events, IsSnapshot
  <2>6. cursor = page.told
    BY <1>2, <1>7, <1>9
  <2>7. EventsSent'
    BY <1>1, <2>1, <2>2, <2>4, <2>5, <2>6 DEF EventsSent
  <2>8. StreamInv'
    <3>1. conn' = "over" => page.told = count
      <4>1. ASSUME conn' = "over" PROVE cursor = count
        BY <1>1, <1>2, <2>3, <4>1 DEF b
      <4> QED
        BY <2>6, <4>1
    <3>2. conn' \in {"open", "closing", "over"} /\ (conn' = "closing" => ended /\ b # <<>>)
          /\ (conn' = "over" => ended /\ b = <<>>)
      BY <1>1 DEF b
    <3> QED
      BY <1>1, <1>2, <2>2, <2>3, <2>7, <3>1, <3>2 DEF StreamInv
  <2>9. Telling'
    <3> SUFFICES ASSUME faults = 0, NEW e \in stored, e.end, NEW i \in 1..n, b[i].seq = e.seq
                 PROVE  b[i].end
      BY <1>1, <2>1, <2>2 DEF Telling
    <3>1. b[i] \in stored
      BY <1>1, <2>1 DEF LogComplete
    <3>2. b[i] = e
      BY <3>1 DEF ManagerTyped, Apart
    <3> QED
      BY <3>2
  <2> QED
    BY <1>4, <2>8, <2>9
<1> QED
  BY <1>2, <1>8, <1>9
(* What the page makes of a snapshot and of an event. *)
LEMMA ShownFields ==
  ASSUME NEW p \in Pages, NEW e \in Events \cup Snapshots
  PROVE  /\ Shown(p, e).url = p.url
         /\ IsSnapshot(e) => /\ Shown(p, e).lastId = p.lastId /\ Shown(p, e).lastSeq = p.lastSeq
                             /\ Shown(p, e).seen = p.seen /\ Shown(p, e).told = e.id
         /\ ~IsSnapshot(e) /\ e.seq \notin p.seen =>
              /\ Shown(p, e).lastId = e.seq
              /\ Shown(p, e).lastSeq = IF p.lastSeq < e.seq THEN e.seq ELSE p.lastSeq
              /\ Shown(p, e).seen = p.seen \cup {e.seq} /\ Shown(p, e).told = e.id
              /\ e.end => Shown(p, e).ended
         /\ p.ended => Shown(p, e).ended
<1>1. CASE IsSnapshot(e)
  BY <1>1 DEF Shown, Pages
<1>2. CASE ~IsSnapshot(e) /\ e.seq \in p.seen
  BY <1>2 DEF Shown, Pages
<1>3. CASE ~IsSnapshot(e) /\ e.seq \notin p.seen
  BY <1>3 DEF Shown, Pages
<1> QED
  BY <1>1, <1>2, <1>3

(* A snapshot that arrives stands for everything before it; of what the page
   keeps, nothing changes. *)
LEMMA SnapshotTells ==
  ASSUME TypeInv, PageInv, StreamInv, SnapshotSent, Deliver
  PROVE  /\ page'.told >= page.told /\ page'.seen = page.seen
         /\ PageInv' /\ StreamInv'
<1> USE DEF TypeInv
<1>1. /\ conn \in {"open", "closing"} /\ page' = Shown(page, Head(pending))
      /\ pending' = Tail(pending) /\ cursor' = cursor
      /\ conn' = IF conn = "closing" /\ Tail(pending) = <<>> THEN "over" ELSE conn
      /\ phase' = phase /\ ended' = ended /\ count' = count
  BY DEF Deliver, manager
<1>2. /\ pending \in Seq(Events \cup Snapshots) /\ page \in Pages /\ count \in Nat
      /\ cursor \in 0..count /\ phase = "up"
  BY <1>1 DEF ReaderTyped, ManagerTyped, StreamInv
<1>3. /\ Head(pending) = pending[1] /\ Tail(pending) = <<>>
      /\ Head(pending) \in Events \cup Snapshots
  <2>1. Len(pending) = 1
    BY DEF SnapshotSent
  <2>2. pending # <<>>
    BY <1>2, <2>1
  <2>3. Tail(pending) \in Seq(Events \cup Snapshots) /\ Len(Tail(pending)) = 0
    BY <1>2, <2>1, <2>2, HeadTailProperties
  <2>4. Tail(pending) = <<>>
    BY <2>3, EmptySeq
  <2>5. Head(pending) = pending[1] /\ Head(pending) \in Events \cup Snapshots
    BY <1>2, <2>2, HeadTailProperties
  <2> QED
    BY <2>4, <2>5
<1>4. /\ page'.lastId = page.lastId /\ page'.url = page.url /\ page'.lastSeq = page.lastSeq
      /\ page'.seen = page.seen /\ page'.told = cursor
  BY <1>1, <1>2, <1>3, ShownFields DEF SnapshotSent
<1>5. BrowserCursor' = BrowserCursor /\ Evicted' = Evicted /\ pending' = <<>>
  BY <1>1, <1>3, <1>4 DEF BrowserCursor, Evicted
<1>6. page.told \in 0..cursor /\ page.lastSeq \in 0..page.told /\ page.lastSeq < Evicted
  BY <1>2 DEF SnapshotSent, PageInv, Pages
<1>7. PageInv'
  <2>1. page.lastSeq = cursor \/ page.lastSeq < cursor
    BY <1>2, <1>6
  <2> QED
    BY <1>1, <1>2, <1>4, <1>5, <1>6, <2>1 DEF PageInv
<1>8. EventsSent'
  <2>1. Len(pending') = 0
    BY <1>5
  <2>2. Base' = cursor
    BY <1>1, <1>2, <2>1 DEF Base
  <2> QED
    BY <1>4, <2>1, <2>2 DEF EventsSent
<1>9. StreamInv'
  <2>1. conn' \in {"open", "over"}
    BY <1>1, <1>3
  <2>2. conn' = "over" => ended /\ cursor = count
    BY <1>1 DEF StreamInv
  <2> QED
    BY <1>1, <1>2, <1>4, <1>5, <1>8, <2>1, <2>2 DEF StreamInv
<1> QED
  BY <1>2, <1>4, <1>6, <1>7, <1>9

(* An event that arrives is the next one. *)
LEMMA EventTells ==
  ASSUME TypeInv, PageInv, StreamInv, EventsSent, Deliver
  PROVE  /\ page'.told = page.told + 1 /\ page'.seen = page.seen \cup {page'.told}
         /\ pending[1].seq = page'.told /\ pending[1].seq \notin page.seen
         /\ ~IsSnapshot(pending[1])
         /\ PageInv' /\ StreamInv'
<1> USE DEF TypeInv
<1> DEFINE head == pending[1]
           s    == page.told + 1
<1>1. /\ conn \in {"open", "closing"} /\ pending # <<>> /\ page' = Shown(page, Head(pending))
      /\ pending' = Tail(pending) /\ cursor' = cursor
      /\ conn' = IF conn = "closing" /\ Tail(pending) = <<>> THEN "over" ELSE conn
      /\ phase' = phase /\ ended' = ended /\ count' = count
  BY DEF Deliver, manager
<1>2. /\ pending \in Seq(Events \cup Snapshots) /\ page \in Pages /\ count \in Nat
      /\ cursor \in 0..count /\ phase = "up"
  BY <1>1 DEF ReaderTyped, ManagerTyped, StreamInv
<1>3. /\ Head(pending) = head /\ head \in Events \cup Snapshots /\ Len(pending) \in Nat \ {0}
      /\ Tail(pending) \in Seq(Events \cup Snapshots)
      /\ Len(Tail(pending)) = Len(pending) - 1
      /\ \A i \in 1..(Len(pending) - 1) : Tail(pending)[i] = pending[i + 1]
  BY <1>1, <1>2
<1>4. /\ page.told \in 0..count /\ page.lastSeq \in 0..page.told
      /\ page.seen \subseteq 1..page.lastSeq
      /\ Base = page.told /\ Base = cursor - Len(pending)
  <2>1. page.told \in Nat /\ page.lastSeq \in Nat
    BY <1>2 DEF Pages
  <2>2. page.lastSeq = page.told \/ page.lastSeq < page.told
    BY DEF PageInv
  <2> QED
    BY <1>1, <1>2, <2>1, <2>2 DEF PageInv, EventsSent, Base
<1>5. ~IsSnapshot(head) /\ head.seq = s /\ head.id = s /\ s \in Nat \ {0} /\ s <= count
  <2>1. s \in Nat \ {0} /\ s <= count
    <3>1. /\ Len(pending) \in Nat /\ Len(pending) > 0 /\ count \in Nat /\ cursor \in 0..count
          /\ page.told \in 0..count /\ page.told = cursor - Len(pending)
      BY <1>2, <1>3, <1>4
    <3> QED
      BY <3>1
  <2> QED
    BY <1>3, <1>4, <2>1 DEF EventsSent
<1>6. s \notin page.seen /\ page.lastSeq < s
  BY <1>2, <1>4
<1>7. /\ page'.lastId = s /\ page'.lastSeq = s /\ page'.seen = page.seen \cup {s}
      /\ page'.told = s
  <2> HIDE DEF head, s
  <2> QED
    BY <1>1, <1>2, <1>3, <1>5, <1>6, ShownFields
<1>8. Evicted' = Evicted /\ BrowserCursor' = s /\ Base' = s
  <2>1. BrowserCursor' = s
    BY <1>5, <1>7 DEF BrowserCursor
  <2>2. Len(pending') = Len(pending) - 1 /\ cursor' = cursor
    BY <1>1, <1>3
  <2>3. Base' = s
    BY <1>2, <1>3, <1>4, <2>2 DEF Base
  <2> QED
    BY <1>1, <2>1, <2>3 DEF Evicted
<1>9. PageInv'
  <2>1. page'.seen \subseteq 1..s
    <3>1. \A t \in 1..page.lastSeq : t \in 1..s
      BY <1>4, <1>5, <1>6
    <3>2. s \in 1..s
      BY <1>5
    <3> HIDE DEF s
    <3> QED
      BY <1>4, <1>7, <3>1, <3>2
  <2> HIDE DEF s
  <2> QED
    BY <1>1, <1>5, <1>7, <1>8, <2>1 DEF PageInv
<1>10. EventsSent'
  <2>1. ASSUME NEW i \in 1..Len(pending')
        PROVE  ~IsSnapshot(pending'[i]) /\ pending'[i].seq = s + i /\ pending'[i].id = s + i
    <3>1. i + 1 \in 1..Len(pending) /\ pending'[i] = pending[i + 1] /\ i \in Nat
      BY <1>1, <1>3
    <3>2. ~IsSnapshot(pending[i + 1]) /\ pending[i + 1].seq = Base + (i + 1)
          /\ pending[i + 1].id = Base + (i + 1)
      BY <3>1 DEF EventsSent
    <3>3. Base + (i + 1) = s + i
      BY <1>4, <3>1
    <3> QED
      BY <3>1, <3>2, <3>3
  <2> HIDE DEF s
  <2> QED
    BY <1>7, <1>8, <2>1 DEF EventsSent
<1> HIDE DEF head, s
<1>11. StreamInv'
  <2>1. conn' = "over" => pending' = <<>> /\ ended /\ cursor = count
    BY <1>1 DEF StreamInv
  <2>2. conn' = "over" => page'.told = count
    <3>1. ASSUME conn' = "over" PROVE Base' = cursor
      <4>1. Len(pending') = 0
        BY <2>1, <3>1
      <4> QED
        BY <1>1, <1>2, <4>1 DEF Base
    <3> QED
      BY <1>7, <1>8, <2>1, <3>1
  <2>3. conn' \in {"open", "closing", "over"}
        /\ (conn' = "closing" => ended /\ cursor = count /\ pending' # <<>>)
    BY <1>1 DEF StreamInv
  <2> QED
    BY <1>1, <1>2, <1>10, <2>1, <2>2, <2>3 DEF StreamInv
<1> QED
  BY <1>5, <1>6, <1>7, <1>9, <1>11 DEF head, s

(* What arrives at the page tells it the end, if it carries its number. *)
LEMMA DeliverTells ==
  ASSUME LogInv, TypeInv, LogComplete, PageInv, StreamInv, Telling, Deliver
  PROVE  PageInv' /\ StreamInv' /\ Telling'
<1> USE DEF TypeInv
<1>1. /\ conn \in {"open", "closing"} /\ pending # <<>> /\ page' = Shown(page, Head(pending))
      /\ pending' = Tail(pending) /\ stored' = stored /\ faults' = faults
  BY DEF Deliver, manager
<1>2. pending \in Seq(Events \cup Snapshots) /\ page \in Pages /\ (SnapshotSent \/ EventsSent)
  BY <1>1 DEF ReaderTyped, StreamInv
<1>3. PageInv' /\ StreamInv'
  BY <1>2, SnapshotTells, EventTells
<1>4. Head(pending) = pending[1] /\ pending[1] \in Events \cup Snapshots /\ 1 \in 1..Len(pending)
  BY <1>1, <1>2
<1>5. Telling'
  <2> SUFFICES ASSUME faults = 0, NEW e \in stored, e.end
               PROVE  /\ e.seq \in page'.seen => page'.ended
                      /\ \A i \in 1..Len(pending') :
                            ~IsSnapshot(pending'[i]) /\ pending'[i].seq = e.seq => pending'[i].end
    BY <1>1 DEF Telling
  <2>1. /\ e.seq \in page.seen => page.ended
        /\ \A i \in 1..Len(pending) : ~IsSnapshot(pending[i]) /\ pending[i].seq = e.seq => pending[i].end
    BY DEF Telling
  <2>2. \A i \in 1..Len(pending') :
           ~IsSnapshot(pending'[i]) /\ pending'[i].seq = e.seq => pending'[i].end
    <3>1. \A i \in 1..Len(pending') : i + 1 \in 1..Len(pending) /\ pending'[i] = pending[i + 1]
      BY <1>1, <1>2
    <3> QED
      BY <2>1, <3>1
  <2>3. page.ended => page'.ended
    BY <1>1, <1>2, <1>4, ShownFields
  <2>4. ASSUME e.seq \in page'.seen, e.seq \notin page.seen
        PROVE  page'.ended
    <3>1. EventsSent
      BY <1>2, <2>4, SnapshotTells
    <3>2. ~IsSnapshot(pending[1]) /\ pending[1].seq = e.seq /\ pending[1].seq \notin page.seen
      BY <2>4, <3>1, EventTells
    <3>3. pending[1].end
      BY <1>4, <2>1, <3>2
    <3> QED
      BY <1>1, <1>2, <1>4, <3>2, <3>3, ShownFields
  <2> QED
    BY <2>1, <2>2, <2>3, <2>4
<1> QED
  BY <1>3, <1>5

(* A crash, a broken connection and the answers about the status leave what
   the page has been told; the stream goes on or is gone. *)
LEMMA AskingTells ==
  ASSUME TypeInv, PageInv, StreamInv, Telling,
         UNCHANGED <<count, stored, faults>>,
         page' \in {page, [page EXCEPT !.asking = TRUE], [page EXCEPT !.asking = FALSE],
                    [page EXCEPT !.asking = FALSE, !.ended = @ \/ ended]},
         \/ conn' \notin {"open", "closing", "over"} /\ pending' = <<>>
         \/ UNCHANGED <<conn, pending, cursor, phase, ended>>
  PROVE  PageInv' /\ StreamInv' /\ Telling'
<1>1. page \in Pages
  BY DEF TypeInv, ReaderTyped
<1>2. /\ page'.lastId = page.lastId /\ page'.url = page.url /\ page'.lastSeq = page.lastSeq
      /\ page'.seen = page.seen /\ page'.told = page.told /\ (page.ended => page'.ended)
  BY <1>1 DEF Pages
<1>3. BrowserCursor' = BrowserCursor /\ Evicted' = Evicted
  BY <1>2 DEF BrowserCursor, Evicted
<1>4. PageInv'
  BY <1>2, <1>3 DEF PageInv
<1>5. CASE conn' \notin {"open", "closing", "over"} /\ pending' = <<>>
  <2>1. StreamInv'
    BY <1>5 DEF StreamInv
  <2>2. Len(pending') = 0
    BY <1>5
  <2>3. Telling'
    BY <1>2, <2>2 DEF Telling
  <2> QED
    BY <1>4, <2>1, <2>3
<1>6. CASE UNCHANGED <<conn, pending, cursor, phase, ended>>
  <2>1. conn' = conn /\ pending' = pending /\ cursor' = cursor /\ phase' = phase /\ ended' = ended
    BY <1>6
  <2>2. Base' = Base
    BY <2>1 DEF Base
  <2>3. SnapshotSent => SnapshotSent'
    BY <1>2, <1>3, <2>1 DEF SnapshotSent
  <2>4. EventsSent => EventsSent'
    BY <1>2, <1>3, <2>1, <2>2 DEF EventsSent
  <2>5. StreamInv'
    BY <1>2, <2>1, <2>3, <2>4 DEF StreamInv
  <2>6. Telling'
    BY <1>2, <2>1 DEF Telling
  <2> QED
    BY <1>4, <2>5, <2>6
<1> QED
  BY <1>5, <1>6

(* A connection is opened with a cursor from which the page can go on. *)
LEMMA ConnectTells ==
  ASSUME TypeInv, PageInv, StreamInv, Telling, UNCHANGED manager,
         phase = "up", conn = "off", conn' = "open", pending' = pending,
         cursor' = page.lastSeq, BrowserCursor' = page.lastSeq,
         page'.told = page.told, page'.seen = page.seen, page'.lastSeq = page.lastSeq,
         page'.ended = page.ended
  PROVE  PageInv' /\ StreamInv' /\ Telling'
<1>1. /\ count \in Nat /\ page.told \in 0..count /\ page.lastSeq \in Nat
      /\ phase' = phase /\ count' = count /\ faults' = faults /\ stored' = stored /\ Evicted' = Evicted
  BY DEF TypeInv, ManagerTyped, ReaderTyped, Pages, PageInv, manager, Evicted
<1>2. PageInv'
  BY <1>1 DEF PageInv
<1>3. pending' = <<>> /\ Len(pending') = 0
  BY DEF StreamInv
<1>4. cursor' \in 0..count /\ Base' = cursor'
  <2>1. cursor' \in 0..count
    BY <1>1 DEF PageInv
  <2> QED
    BY <1>1, <1>3, <2>1 DEF Base
<1>5. EventsSent'
  BY <1>1, <1>3, <1>4 DEF EventsSent, PageInv
<1>6. StreamInv'
  BY <1>1, <1>3, <1>4, <1>5 DEF StreamInv
<1>7. Telling'
  BY <1>1, <1>3 DEF Telling
<1> QED
  BY <1>2, <1>6, <1>7

(* Every step keeps the story. *)
LEMMA StepStory ==
  ASSUME LogInv, TypeInv, StoryInv, [Next]_vars
  PROVE  StoryInv'
<1> SUFFICES ASSUME NothingLost'
             PROVE  LogComplete' /\ PageInv' /\ StreamInv' /\ Telling'
  BY DEF StoryInv
<1> USE DEF TypeInv
<1>1. NothingLost
  <2>1. CASE ManagerNext /\ ~Crash
    BY <2>1, ManagerGrows DEF NothingLost, ManagerTyped
  <2>2. CASE Crash
    BY <2>2 DEF Crash, NothingLost, ManagerTyped
  <2>3. CASE ReaderNext \/ UNCHANGED vars
    <3>1. UNCHANGED manager
      BY <2>3 DEF ReaderNext, Read, Deliver, ConnectionLost, StreamReturned, Broken, Reconnect,
                  ConnectAnew, StatusAnswered, StatusFailed, vars
    <3> QED
      BY <3>1 DEF manager, NothingLost
  <2> QED
    BY <2>1, <2>2, <2>3 DEF Next, ManagerNext
<1>2. LogComplete /\ PageInv /\ StreamInv /\ Telling
  BY <1>1 DEF StoryInv
<1>3. ASSUME UNCHANGED manager PROVE LogComplete'
  BY <1>2, <1>3 DEF manager, LogComplete, Evicted
<1>4. CASE ManagerNext /\ ~Crash
  <2>1. LogComplete'
    BY <1>2, <1>4, ManagerComplete
  <2> QED
    BY <1>2, <1>4, <2>1, ReaderWaits
<1>5. CASE Crash
  <2>1. LogComplete'
    BY <1>2, <1>5, ManagerComplete DEF ManagerNext
  <2>2. /\ UNCHANGED <<count, stored, faults>> /\ pending' = <<>>
        /\ conn' \notin {"open", "closing", "over"}
        /\ page' \in {page, [page EXCEPT !.asking = TRUE]}
    BY <1>5 DEF Crash
  <2> QED
    BY <1>2, <2>1, <2>2, AskingTells
<1>6. CASE Read
  BY <1>2, <1>3, <1>6, ReadTells DEF Read
<1>7. CASE Deliver
  BY <1>2, <1>3, <1>7, DeliverTells DEF Deliver
<1>8. CASE ConnectionLost \/ StreamReturned
  <2>1. /\ UNCHANGED manager /\ UNCHANGED <<count, stored, faults>>
        /\ pending' = <<>> /\ conn' = "off" /\ page' = [page EXCEPT !.asking = TRUE]
    BY <1>8 DEF ConnectionLost, StreamReturned, Broken, manager
  <2> QED
    BY <1>2, <1>3, <2>1, AskingTells
<1>9. CASE Reconnect
  <2>1. /\ UNCHANGED manager /\ phase = "up" /\ conn = "off" /\ conn' = "open"
        /\ pending' = pending /\ page' = page /\ cursor' = BrowserCursor
    BY <1>9 DEF Reconnect, BrowserCursor
  <2>2. BrowserCursor' = page.lastSeq /\ cursor' = page.lastSeq
    BY <1>2, <2>1 DEF BrowserCursor, PageInv
  <2> QED
    BY <1>2, <1>3, <2>1, <2>2, ConnectTells
<1>10. CASE ConnectAnew
  <2>1. /\ UNCHANGED manager /\ phase = "up" /\ conn = "off" /\ conn' = "open"
        /\ pending' = pending /\ cursor' = page.lastSeq /\ page \in Pages
        /\ page' = [page EXCEPT !.url = page.lastSeq, !.lastId = 0]
    BY <1>10 DEF ConnectAnew, ReaderTyped
  <2>2. /\ page'.told = page.told /\ page'.seen = page.seen /\ page'.lastSeq = page.lastSeq
        /\ page'.ended = page.ended /\ page'.url = page.lastSeq /\ page'.lastId = 0
    BY <2>1 DEF Pages
  <2>3. BrowserCursor' = page.lastSeq
    BY <2>2 DEF BrowserCursor
  <2> QED
    BY <1>2, <1>3, <2>1, <2>2, <2>3, ConnectTells
<1>11. CASE StatusAnswered
  <2>1. /\ UNCHANGED manager /\ UNCHANGED <<count, stored, faults>>
        /\ page' = [page EXCEPT !.asking = FALSE, !.ended = @ \/ ended]
        /\ \/ conn' = "closed" /\ pending' = <<>>
           \/ UNCHANGED <<conn, pending, cursor, phase, ended>>
    BY <1>11 DEF StatusAnswered, manager
  <2>2. PageInv' /\ StreamInv' /\ Telling'
    BY <1>2, <2>1, AskingTells
  <2> QED
    BY <1>3, <2>1, <2>2
<1>12. CASE StatusFailed
  <2>1. /\ UNCHANGED manager /\ UNCHANGED <<count, stored, faults>>
        /\ page' = [page EXCEPT !.asking = FALSE]
        /\ UNCHANGED <<conn, pending, cursor, phase, ended>>
    BY <1>12 DEF StatusFailed, manager
  <2> QED
    BY <1>2, <1>3, <2>1, AskingTells
<1>13. CASE UNCHANGED vars
  <2>1. /\ UNCHANGED manager /\ UNCHANGED <<count, stored, faults>> /\ page' = page
        /\ UNCHANGED <<conn, pending, cursor, phase, ended>>
    BY <1>13 DEF vars, manager, reader
  <2> QED
    BY <1>2, <1>3, <2>1, AskingTells
<1> QED
  BY <1>4, <1>5, <1>6, <1>7, <1>8, <1>9, <1>10, <1>11, <1>12, <1>13 DEF Next, ReaderNext, ManagerNext

-----------------------------------------------------------------------------
(* Theorems about the page *)

(* The log, the stream and the page are typed and keep the story, always. *)
THEOREM StoryAlways == Spec => [](LogInv /\ TypeInv /\ StoryInv)
<1>1. Init => LogInv /\ TypeInv /\ StoryInv
  BY InitLogInv, InitTyped, InitStory
<1>2. LogInv /\ TypeInv /\ StoryInv /\ [Next]_vars => (LogInv /\ TypeInv /\ StoryInv)'
  BY StepKeeps, StepTyped, StepStory
<1> QED
  BY <1>1, <1>2, PTL DEF Spec

(* A page of run_events is sent every event as the next of those it was told
   of, or a snapshot stands for those it skips; and a stream that has returned
   has told everything: for any deque and any number of disconnections, crashes
   or failed writes (not both).  When no write has failed, the page shows the
   end, or a snapshot stood for it. *)
THEOREM PageIsToldInOrder == Spec => ToldInOrder
<1> DEFINE Told == conn = "over" => /\ NothingLost => page.told = count
                                    /\ faults = 0 => page.ended \/ count \notin page.seen
<1>1. TypeInv /\ LogInv /\ StoryInv => Told
  <2> SUFFICES ASSUME TypeInv, LogInv, StoryInv, conn = "over"
               PROVE  /\ NothingLost => page.told = count
                      /\ faults = 0 => page.ended \/ count \notin page.seen
    OBVIOUS
  <2>1. NothingLost => page.told = count
    BY DEF StoryInv, StreamInv
  <2>2. ASSUME faults = 0 PROVE page.ended \/ count \notin page.seen
    <3>1. LogComplete /\ StreamInv /\ Telling
      BY <2>2 DEF StoryInv, NothingLost
    <3>2. PICK e \in stored : e.end
      BY <2>2, <3>1 DEF LogComplete, StreamInv
    <3>3. e.seq = count
      BY <2>2, <3>1, <3>2, EndHasCount
    <3> QED
      BY <2>2, <3>1, <3>2, <3>3 DEF Telling
  <2> QED
    BY <2>1, <2>2
<1>2. LogInv /\ TypeInv /\ StoryInv /\ Next /\ NothingLost =>
        \/ page'.told >= page.told /\ page'.seen = page.seen
        \/ page'.told = page.told + 1 /\ page'.seen = page.seen \cup {page'.told}
  <2> SUFFICES ASSUME LogInv, TypeInv, StoryInv, Next, NothingLost
               PROVE  \/ page'.told >= page.told /\ page'.seen = page.seen
                      \/ page'.told = page.told + 1 /\ page'.seen = page.seen \cup {page'.told}
    OBVIOUS
  <2>1. CASE Deliver
    <3>1. PageInv /\ StreamInv /\ (SnapshotSent \/ EventsSent)
      BY <2>1 DEF StoryInv, StreamInv, Deliver
    <3> QED
      BY <2>1, <3>1, SnapshotTells, EventTells
  <2>2. CASE ~Deliver
    <3>1. page \in Pages /\ page.told \in Nat
      BY DEF TypeInv, ReaderTyped, Pages
    <3>2. page'.told = page.told /\ page'.seen = page.seen
      BY <2>2, <3>1
         DEF Next, ManagerNext, ReaderNext, Publish, End, EndUnstored, RewriteRow, Crash, Load, Read,
             ConnectionLost, StreamReturned, Broken, Reconnect, ConnectAnew, StatusAnswered,
             StatusFailed, reader, Pages
    <3> QED
      BY <3>1, <3>2
  <2> QED
    BY <2>1, <2>2
<1>3. LogInv /\ TypeInv /\ StoryInv /\ [Next]_vars /\ (LogInv /\ TypeInv /\ StoryInv)' =>
        [/\ NothingLost =>
              \/ page'.told >= page.told /\ page'.seen = page.seen
              \/ page'.told = page.told + 1 /\ page'.seen = page.seen \cup {page'.told}
         /\ conn' = "over" => /\ NothingLost' => page'.told = count'
                              /\ faults' = 0 => page'.ended \/ count' \notin page'.seen]_vars
  <2>1. (TypeInv /\ LogInv /\ StoryInv => Told)'
    BY <1>1, PTL
  <2> QED
    BY <1>2, <2>1
<1> QED
  BY StoryAlways, <1>3, PTL DEF Spec, ToldInOrder
=============================================================================
