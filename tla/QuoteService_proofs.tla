-------------------------- MODULE QuoteService_proofs --------------------------
(***************************************************************************)
(* What QuoteService keeps for any number of callers, symbols, providers,  *)
(* retries and pool threads: every flight has its fetcher, every waiter    *)
(* somebody who will serve it, and an open breaker lets one fetch through  *)
(* at most.                                                                *)
(***************************************************************************)
EXTENDS QuoteService, FiniteSetTheorems, SequenceTheorems, TLAPS

-----------------------------------------------------------------------------
(* The inductive invariant of flights *)

(* Callers are somewhere in get_quote, and know what they ask for. *)
CallersTyped ==
  /\ pc \in [Callers -> Places]
  /\ key \in [Callers -> Keys \cup {NoKey}]
  /\ had \in [Callers -> BOOLEAN]
  /\ inflight \in [Keys -> Callers \cup {NoOne}]
  /\ entry \in [Callers -> {"none", "pending", "lost"} \cup Results]
  /\ on \in [Callers -> Callers \cup {NoOne}]
  /\ got \in [Callers -> {"none"} \cup Results]
  /\ \A c \in Callers : pc[c] # "idle" => key[c] \in Keys

(* A fetcher's entry is empty until it publishes or fails to store. *)
EntryOfFetcher ==
  \A c \in Callers :
    /\ pc[c] \in Fetching \ {"unregister"} => entry[c] = "pending"
    /\ pc[c] = "unregister" => entry[c] \in Results \cup {"lost"}

OnlyWaitersWait == \A w \in Callers : on[w] # NoOne => pc[w] = "waiting"

FlightInv ==
  CallersTyped /\ EntryOfFetcher /\ OnlyWaitersWait /\ FlightHasFetcher /\ WaiterIsServed

flight == <<pc, key, had, inflight, entry, on, got>>

(* Nobody fetches in an initial state. *)
LEMMA InitFlightInv == Init => FlightInv
  BY NoOneAssumption DEF Init, FlightInv, CallersTyped, EntryOfFetcher, OnlyWaitersWait,
     FlightHasFetcher, WaiterIsServed, Places, Fetching, Keys, Results

-----------------------------------------------------------------------------
(* How a step changes who fetches what *)

(* A step of others than callers *)
LEMMA FlightStays ==
  ASSUME FlightInv, UNCHANGED flight
  PROVE  FlightInv'
  BY DEF FlightInv, CallersTyped, EntryOfFetcher, OnlyWaitersWait, FlightHasFetcher,
     WaiterIsServed, flight

(* A fetcher goes on with an empty entry. *)
LEMMA FetcherGoesOn ==
  ASSUME FlightInv, NEW c \in Callers, pc[c] \in Fetching \ {"unregister"},
         NEW place \in Fetching \ {"unregister"}, Goto(c, place),
         UNCHANGED <<key, had, inflight, entry, on, got>>
  PROVE  FlightInv'
  BY DEF FlightInv, CallersTyped, EntryOfFetcher, OnlyWaitersWait, FlightHasFetcher,
     WaiterIsServed, Goto, Fetching, Places

(* A caller that neither fetches nor waits moves on, short of fetching. *)
LEMMA AskerGoesOn ==
  ASSUME FlightInv, NEW c \in Callers, pc[c] \in {"idle", "lookup", "register"},
         NEW place \in {"idle", "lookup", "register"}, Goto(c, place),
         NEW k \in Keys \cup {NoKey}, key' = [key EXCEPT ![c] = k],
         place # "idle" => k \in Keys, had' \in [Callers -> BOOLEAN],
         UNCHANGED <<inflight, entry, on, got>>
  PROVE  FlightInv'
<1> USE DEF FlightInv, CallersTyped, Goto
<1>1. CallersTyped'
  BY DEF Places
<1>2. /\ \A d \in Callers \ {c} : pc'[d] = pc[d] /\ key'[d] = key[d]
      /\ pc[c] \notin Fetching /\ pc'[c] \notin Fetching
      /\ pc[c] # "waiting" /\ pc'[c] # "waiting"
  BY DEF Fetching
<1>3. EntryOfFetcher' /\ OnlyWaitersWait'
  BY <1>2 DEF EntryOfFetcher, OnlyWaitersWait, Fetching
<1>4. FlightHasFetcher'
  BY <1>2, NoOneAssumption DEF FlightHasFetcher
<1>5. WaiterIsServed'
  BY <1>2 DEF WaiterIsServed
<1> QED
  BY <1>1, <1>3, <1>4, <1>5

(* A waiter leaves, served or not. *)
LEMMA WaiterLeaves ==
  ASSUME FlightInv, NEW c \in Callers, pc[c] = "waiting",
         on' = [on EXCEPT ![c] = NoOne], got' \in {got, [got EXCEPT ![c] = "none"]},
         Return(c), UNCHANGED <<inflight, entry>>
  PROVE  FlightInv'
  BY NoOneAssumption DEF FlightInv, CallersTyped, EntryOfFetcher, OnlyWaitersWait,
     FlightHasFetcher, WaiterIsServed, Return, Goto, Fetching, Places, Results

(* A caller whose key is free becomes its fetcher. *)
LEMMA FetcherRegisters ==
  ASSUME FlightInv, NEW c \in Callers, BecomeFetcher(c)
  PROVE  FlightInv'
<1> USE DEF FlightInv, CallersTyped, BecomeFetcher, Goto
<1>1. key[c] \in Keys /\ c # NoOne /\ on[c] = NoOne
  BY NoOneAssumption DEF OnlyWaitersWait
<1>2. CallersTyped'
  BY <1>1 DEF Places
<1>3. EntryOfFetcher' /\ OnlyWaitersWait'
  BY <1>1 DEF EntryOfFetcher, OnlyWaitersWait, Fetching
<1>4. FlightHasFetcher'
  <2>1. ASSUME NEW k \in Keys, inflight'[k] # NoOne
        PROVE  pc'[inflight'[k]] \in Fetching /\ key'[inflight'[k]] = k
    BY <1>1, <2>1 DEF FlightHasFetcher, Fetching
  <2>2. ASSUME NEW d \in Callers, pc'[d] \in Fetching
        PROVE  inflight'[key'[d]] = d
    <3>1. CASE d = c
      BY <1>1, <3>1
    <3>2. CASE d # c
      <4>1. pc[d] \in Fetching /\ pc[d] # "idle"
        BY <2>2, <3>2 DEF Fetching
      <4>2. inflight[key[d]] = d /\ key[d] \in Keys /\ d # NoOne
        BY <4>1, NoOneAssumption DEF FlightHasFetcher
      <4> QED
        BY <1>1, <4>2
    <3> QED
      BY <3>1, <3>2
  <2> QED
    BY <2>1, <2>2 DEF FlightHasFetcher
<1>5. WaiterIsServed'
  BY DEF WaiterIsServed, Fetching
<1> QED
  BY <1>2, <1>3, <1>4, <1>5

(* A caller whose key is taken waits for its fetcher: for a result that is
   there already, or one that will be. *)
LEMMA WaiterJoins ==
  ASSUME FlightInv, NEW c \in Callers, JoinFetcher(c)
  PROVE  FlightInv'
<1> DEFINE f == inflight[key[c]]
<1> USE DEF FlightInv, CallersTyped, JoinFetcher, Goto
<1>1. key[c] \in Keys
  OBVIOUS
<1>2. f \in Callers /\ pc[f] \in Fetching /\ key[f] = key[c] /\ f # c
  BY <1>1 DEF FlightHasFetcher, Fetching
<1>3. entry[f] \in {"pending", "lost"} \cup Results
  BY <1>2 DEF EntryOfFetcher
<1>4. CallersTyped'
  BY <1>2 DEF Places
<1>5. EntryOfFetcher' /\ OnlyWaitersWait'
  BY DEF EntryOfFetcher, OnlyWaitersWait, Fetching
<1>6. FlightHasFetcher'
  BY DEF FlightHasFetcher, Fetching
<1>7. WaiterIsServed'
  <2>1. ASSUME NEW w \in Callers, pc'[w] = "waiting", got'[w] = "none", on'[w] # NoOne
        PROVE  /\ key'[on'[w]] = key'[w]
               /\ entry'[on'[w]] \in {"pending", "lost"}
               /\ pc'[on'[w]] \in Fetching
    <3>1. CASE w = c
      BY <2>1, <3>1, <1>2, <1>3 DEF Results
    <3>2. CASE w # c
      <4>1. pc[w] = "waiting" /\ got[w] = "none" /\ on[w] # NoOne /\ on'[w] = on[w]
        BY <2>1, <3>2
      <4>2. key[on[w]] = key[w] /\ entry[on[w]] \in {"pending", "lost"} /\ pc[on[w]] \in Fetching
        BY <4>1 DEF WaiterIsServed
      <4>3. on[w] # c
        BY <4>2 DEF Fetching
      <4> QED
        BY <4>1, <4>2, <4>3
    <3> QED
      BY <3>1, <3>2
  <2> QED
    BY <2>1 DEF WaiterIsServed
<1> QED
  BY <1>4, <1>5, <1>6, <1>7

(* A fetch that cannot be stored leaves an entry nobody will fill. *)
LEMMA FetchIsLost ==
  ASSUME FlightInv, NEW c \in Callers, StoreFails(c)
  PROVE  FlightInv'
  BY DEF FlightInv, CallersTyped, EntryOfFetcher, OnlyWaitersWait, FlightHasFetcher,
     WaiterIsServed, StoreFails, Goto, Fetching, Places

(* A fetcher publishes to all who wait for it. *)
LEMMA FetcherPublishes ==
  ASSUME FlightInv, NEW c \in Callers, Publish(c)
  PROVE  FlightInv'
<1> USE DEF FlightInv, CallersTyped, Publish, Goto
<1>1. Result(c) \in Results /\ "none" \notin Results
  BY DEF Result, Results
<1>2. CallersTyped'
  BY <1>1 DEF Places
<1>3. EntryOfFetcher' /\ OnlyWaitersWait'
  BY <1>1 DEF EntryOfFetcher, OnlyWaitersWait, Fetching
<1>4. FlightHasFetcher'
  BY DEF FlightHasFetcher, Fetching
<1>5. WaiterIsServed'
  BY <1>1 DEF WaiterIsServed, Fetching
<1> QED
  BY <1>2, <1>3, <1>4, <1>5

(* A fetcher gives its key back when nobody is left who waits for it. *)
LEMMA FetcherUnregisters ==
  ASSUME FlightInv, NEW c \in Callers, Unregister(c)
  PROVE  FlightInv'
<1> USE DEF FlightInv, CallersTyped, Unregister, Return, Goto
<1>1. key[c] \in Keys /\ inflight[key[c]] = c /\ entry[c] \in Results \cup {"lost"}
  BY DEF FlightHasFetcher, EntryOfFetcher, Fetching
<1>2. CallersTyped'
  BY <1>1 DEF Places
<1>3. EntryOfFetcher' /\ OnlyWaitersWait'
  BY DEF EntryOfFetcher, OnlyWaitersWait, Fetching
<1>4. FlightHasFetcher'
  BY <1>1, NoOneAssumption DEF FlightHasFetcher, Fetching
<1>5. WaiterIsServed'
  BY <1>1 DEF WaiterIsServed, Fetching, Results
<1> QED
  BY <1>2, <1>3, <1>4, <1>5

(* After an attempt a fetcher is still upstream, or at the end of the chain. *)
LEMMA ChainMoves ==
  ASSUME NEW c \in Callers, NEW error,
         RetryOrNext(c, error) \/ NextProvider(c, error)
  PROVE  UNCHANGED pc \/ Goto(c, "failed")
  BY DEF RetryOrNext, NextProvider, Again

LEMMA AnswerMoves ==
  ASSUME NEW c \in Callers, NEW outcome \in Outcomes, Answer(c, outcome)
  PROVE  UNCHANGED pc \/ Goto(c, "failed") \/ Goto(c, "store")
<1>1. CASE outcome = "ok"
  BY <1>1 DEF Answer
<1>2. CASE outcome = "transient"
  BY <1>2, ChainMoves DEF Answer
<1>3. CASE outcome = "not_configured"
  BY <1>3, ChainMoves DEF Answer
<1>4. CASE outcome = "broken"
  BY <1>4, ChainMoves DEF Answer
<1>5. CASE outcome = "fatal"
  BY <1>5 DEF Answer
<1> QED
  BY <1>1, <1>2, <1>3, <1>4, <1>5 DEF Outcomes

(* Every step keeps the flights in order. *)
LEMMA NextFlightInv == FlightInv /\ [Next]_vars => FlightInv'
<1> SUFFICES ASSUME FlightInv, [Next]_vars PROVE FlightInv'
  OBVIOUS
<1>1. ASSUME NEW c \in Callers, Ask(c) \/ Hit(c) \/ Miss(c) PROVE FlightInv'
  <2>1. CASE Ask(c)
    BY <2>1, AskerGoesOn DEF Ask, FlightInv, CallersTyped
  <2>2. CASE Hit(c)
    BY <2>2, AskerGoesOn DEF Hit, Return, FlightInv, CallersTyped
  <2>3. CASE Miss(c)
    <3>1. key' = [key EXCEPT ![c] = key[c]] /\ key[c] \in Keys
      BY <2>3 DEF Miss, FlightInv, CallersTyped
    <3> QED
      BY <2>3, <3>1, AskerGoesOn DEF Miss, FlightInv, CallersTyped
  <2> QED
    BY <1>1, <2>1, <2>2, <2>3
<1>2. ASSUME NEW c \in Callers, WakeUp(c) \/ GiveUp(c) PROVE FlightInv'
  BY <1>2, WaiterLeaves DEF WakeUp, GiveUp
<1>3. ASSUME NEW c \in Callers, Fetch(c) PROVE FlightInv'
  <2>1. CASE Refuse(c) \/ Pass(c) \/ RecordFailure(c) \/ Store(c)
    <3>1. CASE Refuse(c)
      BY <3>1, FetcherGoesOn DEF Refuse, Fetching
    <3>2. CASE Pass(c)
      BY <3>2, FetcherGoesOn DEF Pass, Fetching
    <3>3. CASE RecordFailure(c)
      BY <3>3, FetcherGoesOn DEF RecordFailure, Fetching
    <3>4. CASE Store(c)
      BY <3>4, FetcherGoesOn DEF Store, Fetching
    <3> QED
      BY <2>1, <3>1, <3>2, <3>3, <3>4
  <2>2. CASE Submit(c)
    BY <2>2, FlightStays DEF Submit, flight, caller
  <2>3. CASE SkipProvider(c) \/ CallTimesOut(c) \/ \E outcome \in Outcomes : Answer(c, outcome)
    <3>1. /\ pc[c] = "upstream"
          /\ UNCHANGED <<key, had, inflight, entry, on, got>>
          /\ UNCHANGED pc \/ Goto(c, "failed") \/ Goto(c, "store")
      BY <2>3, ChainMoves, AnswerMoves DEF SkipProvider, CallTimesOut, Answer
    <3>2. CASE UNCHANGED pc
      BY <3>1, <3>2, FlightStays DEF flight
    <3>3. CASE Goto(c, "failed")
      BY <3>1, <3>3, FetcherGoesOn DEF Fetching
    <3>4. CASE Goto(c, "store")
      BY <3>1, <3>4, FetcherGoesOn DEF Fetching
    <3> QED
      BY <3>1, <3>2, <3>3, <3>4
  <2>4. CASE StoreFails(c) \/ Publish(c) \/ Unregister(c)
    BY <2>4, FetchIsLost, FetcherPublishes, FetcherUnregisters
  <2> QED
    BY <1>3, <2>1, <2>2, <2>3, <2>4 DEF Fetch
<1>4. CASE Pool \/ Time \/ Upkeep \/ UNCHANGED vars
  BY <1>4, FlightStays DEF Pool, Take, AbandonedReturns, Time, CooldownElapses, FailureAges,
     Expire, Upkeep, PurgeStale, Invalidate, ResetCircuit, vars, caller, flight
<1> QED
  BY <1>1, <1>2, <1>3, <1>4, FetcherRegisters, WaiterJoins DEF Next, Proceed

(* One fetch per key, and no way out of get_quote leaves its slot behind. *)
THEOREM FlightsHaveFetchers == Spec => []FlightHasFetcher
  BY InitFlightInv, NextFlightInv, PTL DEF Spec, FlightInv

(* An empty entry somebody waits for will be filled by a fetcher of the same
   key, unless the quote could not be stored. *)
THEOREM WaitersAreServed == Spec => []WaiterIsServed
  BY InitFlightInv, NextFlightInv, PTL DEF Spec, FlightInv

-----------------------------------------------------------------------------
(* The breaker *)

(* Callers that were let past the breaker and have submitted nothing yet *)
Unbegun(s) == {c \in Callers : pc[c] = "upstream" /\ SymOf(c) = s /\ ~call[c].begun}

Positions == [prov : Nat, attempt : Nat, last : {"none", "failed", "not_configured"},
              begun : BOOLEAN]

BreakerTyped ==
  /\ call \in [Callers -> Positions]
  /\ circuit \in [Symbols -> {"closed", "open", "elapsed"}]
  /\ failures \in [Symbols -> Nat]
  /\ sinceOpen \in [Symbols -> 0..1]

(* An open breaker has at most one fetch begun or about to begin behind it. *)
OneSlips ==
  \A s \in Symbols : circuit[s] = "open" =>
    /\ \A c, d \in Unbegun(s) : c = d
    /\ sinceOpen[s] = 1 => Unbegun(s) = {}

SparingInv == FlightInv /\ BreakerTyped /\ OneSlips

LEMMA StartPosition == AtStart \in Positions
  BY DEF AtStart, Positions

LEMMA InitSparingInv == Init => SparingInv
<1> SUFFICES ASSUME Init PROVE SparingInv
  OBVIOUS
<1>1. FlightInv
  BY InitFlightInv
<1>2. BreakerTyped /\ OneSlips
  BY StartPosition DEF Init, BreakerTyped, OneSlips
<1> QED
  BY <1>1, <1>2 DEF SparingInv

(* A step that leaves the breaker alone and lets nobody past it *)
LEMMA BreakerStays ==
  ASSUME BreakerTyped, OneSlips, call' \in [Callers -> Positions], UNCHANGED breaker,
         \A s \in Symbols : Unbegun(s)' \subseteq Unbegun(s)
  PROVE  BreakerTyped' /\ OneSlips'
  BY DEF BreakerTyped, OneSlips, breaker

(* A step of callers that are not let past the breaker by it *)
LEMMA OthersStay ==
  ASSUME CallersTyped, BreakerTyped, OneSlips, UNCHANGED breaker, NEW c \in Callers,
         pc'[c] # "upstream", call' = call \/ call' = [call EXCEPT ![c] = AtStart],
         \A d \in Callers \ {c} : pc'[d] = pc[d] /\ key'[d] = key[d]
  PROVE  BreakerTyped' /\ OneSlips'
<1>1. call' \in [Callers -> Positions]
  BY StartPosition DEF BreakerTyped
<1>2. \A d \in Callers \ {c} : call'[d] = call[d]
  BY DEF BreakerTyped
<1>3. \A s \in Symbols : Unbegun(s)' \subseteq Unbegun(s)
  BY <1>2 DEF Unbegun, SymOf
<1> QED
  BY <1>1, <1>3, BreakerStays

(* A fetcher goes on along the chain. *)
LEMMA ChainKeepsBegun ==
  ASSUME CallersTyped, BreakerTyped, OneSlips, UNCHANGED <<key, breaker>>, NEW c \in Callers,
         pc[c] = "upstream", UNCHANGED pc \/ Goto(c, "failed") \/ Goto(c, "store"),
         call' \in [Callers -> Positions], \A d \in Callers : call'[d].begun = call[d].begun
  PROVE  BreakerTyped' /\ OneSlips'
<1>1. \A s \in Symbols : Unbegun(s)' \subseteq Unbegun(s)
  BY DEF Unbegun, SymOf, Goto, CallersTyped
<1> QED
  BY <1>1, BreakerStays

LEMMA PositionsMove ==
  ASSUME BreakerTyped, NEW c \in Callers, NEW error \in {"failed", "not_configured"},
         RetryOrNext(c, error) \/ NextProvider(c, error)
  PROVE  call' \in [Callers -> Positions] /\ \A d \in Callers : call'[d].begun = call[d].begun
<1>1. \A d \in Callers : call[d] \in Positions
  BY DEF BreakerTyped
<1>2. CASE Again(c)
  <2>1. call'[c] = [call[c] EXCEPT !.attempt = @ + 1] /\ \A d \in Callers \ {c} : call'[d] = call[d]
    BY <1>2 DEF Again, BreakerTyped
  <2> QED
    BY <1>1, <1>2, <2>1 DEF Again, BreakerTyped, Positions
<1>3. CASE NextProvider(c, error)
  <2>1. CASE call' = [call EXCEPT ![c] = [prov |-> @.prov + 1, attempt |-> 0, last |-> error,
                                          begun |-> @.begun]]
    <3>1. call[c].prov + 1 \in Nat /\ call[c].begun \in BOOLEAN
      BY <1>1 DEF Positions
    <3>2. /\ call'[c] = [prov |-> call[c].prov + 1, attempt |-> 0, last |-> error,
                         begun |-> call[c].begun]
          /\ \A d \in Callers \ {c} : call'[d] = call[d]
      BY <2>1 DEF BreakerTyped
    <3>3. call'[c] \in Positions /\ call'[c].begun = call[c].begun
      BY <3>1, <3>2 DEF Positions
    <3> QED
      BY <1>1, <2>1, <3>2, <3>3 DEF BreakerTyped
  <2>2. CASE call' = [call EXCEPT ![c].last = error]
    <3>1. /\ call'[c] = [call[c] EXCEPT !.last = error]
          /\ \A d \in Callers \ {c} : call'[d] = call[d]
      BY <2>2 DEF BreakerTyped
    <3>2. call'[c] \in Positions /\ call'[c].begun = call[c].begun
      BY <1>1, <3>1 DEF Positions
    <3> QED
      BY <1>1, <2>2, <3>1, <3>2 DEF BreakerTyped
  <2> QED
    BY <1>3, <2>1, <2>2 DEF NextProvider
<1> QED
  BY <1>2, <1>3 DEF RetryOrNext

LEMMA AnswerPositions ==
  ASSUME BreakerTyped, NEW c \in Callers, NEW outcome \in Outcomes, Answer(c, outcome)
  PROVE  call' \in [Callers -> Positions] /\ \A d \in Callers : call'[d].begun = call[d].begun
<1>1. CASE outcome = "ok"
  BY <1>1 DEF Answer, BreakerTyped, Positions
<1>2. CASE outcome = "transient"
  BY <1>2, PositionsMove DEF Answer
<1>3. CASE outcome = "not_configured"
  BY <1>3, PositionsMove DEF Answer
<1>4. CASE outcome = "broken"
  BY <1>4, PositionsMove DEF Answer
<1>5. CASE outcome = "fatal"
  BY <1>5 DEF Answer, BreakerTyped, Positions
<1> QED
  BY <1>1, <1>2, <1>3, <1>4, <1>5 DEF Outcomes

(* Nobody passes an open breaker. *)
LEMMA PassSpares ==
  ASSUME SparingInv, NEW c \in Callers, Pass(c)
  PROVE  BreakerTyped' /\ OneSlips'
<1> DEFINE s == SymOf(c)
<1> USE DEF SparingInv, BreakerTyped
<1>1. s \in Symbols
  BY DEF Pass, FlightInv, CallersTyped, SymOf, Keys
<1>2. circuit'[s] = "closed" /\ \A t \in Symbols \ {s} : circuit'[t] = circuit[t] /\ sinceOpen'[t] = sinceOpen[t]
  BY <1>1 DEF Pass, CloseCircuit, breaker
<1>3. BreakerTyped'
  BY <1>1, <1>2 DEF Pass, CloseCircuit, breaker, AtStart, Positions
<1>4. \A t \in Symbols \ {s} : Unbegun(t)' \subseteq Unbegun(t)
  BY DEF Unbegun, SymOf, Pass, Goto, FlightInv, CallersTyped
<1> QED
  BY <1>2, <1>3, <1>4 DEF OneSlips

(* When a failure opens the breaker, only the fetcher of the other key can be
   past it without having begun. *)
LEMMA FailureSpares ==
  ASSUME SparingInv, NEW c \in Callers, RecordFailure(c)
  PROVE  BreakerTyped' /\ OneSlips'
<1> DEFINE s == SymOf(c)
<1> USE DEF SparingInv
<1>1. /\ key[c] \in Keys /\ s \in Symbols /\ key[c][2] \in BOOLEAN /\ key[c] = <<s, key[c][2]>>
  BY DEF RecordFailure, FlightInv, CallersTyped, SymOf, Keys
<1>2. BreakerTyped'
  <2>1. call' = call /\ BreakerTyped
    BY DEF RecordFailure, router
  <2>2. CASE UNCHANGED breaker
    BY <2>1, <2>2 DEF BreakerTyped, breaker
  <2>3. CASE /\ failures' = [failures EXCEPT ![s] = @ + 1]
             /\ UNCHANGED <<circuit, sinceOpen>>
    BY <1>1, <2>1, <2>3 DEF BreakerTyped
  <2>4. CASE /\ failures' = [failures EXCEPT ![s] = @ + 1]
             /\ circuit' = [circuit EXCEPT ![s] = "open"]
             /\ sinceOpen' = [sinceOpen EXCEPT ![s] = IF circuit[s] = "open" THEN @ ELSE 0]
    <3>1. sinceOpen' \in [Symbols -> 0..1]
      BY <1>1, <2>1, <2>4 DEF BreakerTyped
    <3>2. failures' \in [Symbols -> Nat]
      BY <1>1, <2>1, <2>4 DEF BreakerTyped
    <3> QED
      BY <1>1, <2>1, <2>4, <3>1, <3>2 DEF BreakerTyped
  <2> QED
    BY <2>2, <2>3, <2>4 DEF RecordFailure
<1>3. \A t \in Symbols : Unbegun(t)' \subseteq Unbegun(t)
  BY DEF Unbegun, SymOf, RecordFailure, Goto, FlightInv, CallersTyped, router
<1>4. \A t \in Symbols \ {s} : circuit'[t] = circuit[t] /\ sinceOpen'[t] = sinceOpen[t]
  BY <1>1 DEF RecordFailure, breaker, BreakerTyped
<1>5. \A d, e \in Unbegun(s) : d = e
  <2>1. ASSUME NEW d \in Unbegun(s)
        PROVE  /\ d \in Callers /\ inflight[key[d]] = d
               /\ key[d] = <<s, key[d][2]>> /\ key[d][2] \in BOOLEAN /\ key[d] # key[c]
    <3>1. d \in Callers /\ pc[d] = "upstream" /\ SymOf(d) = s /\ pc[c] = "failed"
      BY <2>1 DEF Unbegun, RecordFailure
    <3>2. key[d] \in Keys /\ inflight[key[d]] = d /\ inflight[key[c]] = c
      BY <3>1 DEF FlightInv, CallersTyped, FlightHasFetcher, Fetching
    <3> QED
      BY <3>1, <3>2 DEF Keys, SymOf
  <2> QED
    BY <2>1, <1>1
<1>6. circuit'[s] = "open" =>
        \/ circuit[s] = "open" /\ sinceOpen'[s] = sinceOpen[s]
        \/ sinceOpen'[s] = 0
  BY <1>1 DEF RecordFailure, breaker, BreakerTyped
<1>7. ASSUME NEW t \in Symbols, circuit'[t] = "open"
      PROVE  /\ \A d, e \in Unbegun(t)' : d = e
             /\ sinceOpen'[t] = 1 => Unbegun(t)' = {}
  <2>1. CASE t = s
    BY <2>1, <1>3, <1>5, <1>6, <1>7 DEF OneSlips
  <2>2. CASE t # s
    BY <2>2, <1>3, <1>4, <1>7 DEF OneSlips
  <2> QED
    BY <2>1, <2>2
<1> QED
  BY <1>2, <1>7 DEF OneSlips

(* A fetch that begins behind an open breaker is the one. *)
LEMMA SubmitSpares ==
  ASSUME SparingInv, NEW c \in Callers, Submit(c)
  PROVE  BreakerTyped' /\ OneSlips'
<1> DEFINE s == SymOf(c)
<1> USE DEF SparingInv
<1>1. s \in Symbols /\ UNCHANGED <<pc, key>>
  BY DEF Submit, FlightInv, CallersTyped, SymOf, Keys, caller
<1>2. call' \in [Callers -> Positions] /\ call'[c].begun /\ \A d \in Callers \ {c} : call'[d] = call[d]
  BY DEF Submit, BreakerTyped, Positions
<1>3. \A t \in Symbols : Unbegun(t)' \subseteq Unbegun(t) \ {c}
  BY <1>1, <1>2 DEF Unbegun, SymOf
<1>4. ~call[c].begun => c \in Unbegun(s)
  BY DEF Submit, Unbegun
<1>5. circuit' = circuit /\ failures' = failures
  BY DEF Submit
<1>6. CASE circuit[s] = "open" /\ ~call[c].begun
  <2>1. sinceOpen[s] = 0 /\ Unbegun(s) \ {c} = {}
    BY <1>1, <1>4, <1>6 DEF OneSlips, BreakerTyped
  <2>2. sinceOpen' = [sinceOpen EXCEPT ![s] = 1]
    BY <1>6, <2>1, <1>1 DEF Submit, BreakerTyped
  <2> QED
    BY <1>1, <1>2, <1>3, <1>5, <2>1, <2>2 DEF OneSlips, BreakerTyped
<1>7. CASE ~(circuit[s] = "open" /\ ~call[c].begun)
  <2>1. sinceOpen' = sinceOpen
    BY <1>7, <1>1 DEF Submit, BreakerTyped
  <2> QED
    BY <1>2, <1>3, <1>5, <2>1 DEF OneSlips, BreakerTyped
<1> QED
  BY <1>6, <1>7

(* The clock and reset_circuit close breakers or leave them. *)
LEMMA UpkeepSpares ==
  ASSUME SparingInv, Pool \/ Time \/ Upkeep \/ UNCHANGED vars
  PROVE  BreakerTyped' /\ OneSlips'
<1>1. UNCHANGED <<pc, key, call>> /\ \A s \in Symbols : Unbegun(s)' = Unbegun(s)
  BY DEF Pool, Take, AbandonedReturns, Time, CooldownElapses, FailureAges,
     Expire, Upkeep, PurgeStale, Invalidate, ResetCircuit, vars, caller, router, Unbegun, SymOf
<1>2. \A s \in Symbols : circuit'[s] = "open" => circuit[s] = "open" /\ sinceOpen'[s] = sinceOpen[s]
  BY DEF SparingInv, BreakerTyped, Pool, Take, AbandonedReturns, Time, CooldownElapses,
     FailureAges, Expire, Upkeep, PurgeStale, Invalidate, ResetCircuit, CloseCircuit, vars, breaker
<1>3. BreakerTyped'
  <2>1. CASE UNCHANGED breaker
    BY <1>1, <2>1 DEF SparingInv, BreakerTyped, breaker
  <2>2. CASE \E s \in Symbols : CooldownElapses(s)
    BY <1>1, <2>2 DEF SparingInv, BreakerTyped, CooldownElapses
  <2>3. CASE \E s \in Symbols : FailureAges(s)
    BY <1>1, <2>3 DEF SparingInv, BreakerTyped, FailureAges
  <2>4. CASE \E S \in SUBSET Symbols : ResetCircuit(S)
    BY <1>1, <2>4 DEF SparingInv, BreakerTyped, ResetCircuit, CloseCircuit
  <2> QED
    BY <2>1, <2>2, <2>3, <2>4 DEF Pool, Take, AbandonedReturns, Time, Expire, Upkeep,
       PurgeStale, Invalidate, vars
<1> QED
  BY <1>1, <1>2, <1>3 DEF SparingInv, OneSlips

LEMMA NextSparingInv == SparingInv /\ [Next]_vars => SparingInv'
<1> SUFFICES ASSUME SparingInv, [Next]_vars PROVE SparingInv'
  OBVIOUS
<1>1. FlightInv'
  BY NextFlightInv DEF SparingInv
<1>2. ASSUME NEW c \in Callers, Ask(c) \/ Proceed(c) PROVE BreakerTyped' /\ OneSlips'
  <2>1. CASE \/ Ask(c) \/ Hit(c) \/ Miss(c) \/ BecomeFetcher(c) \/ JoinFetcher(c)
             \/ WakeUp(c) \/ GiveUp(c) \/ Refuse(c) \/ Store(c) \/ StoreFails(c)
             \/ Publish(c) \/ Unregister(c)
    <3>1. CallersTyped /\ BreakerTyped /\ OneSlips
      BY DEF SparingInv, FlightInv
    <3>2. /\ UNCHANGED breaker
          /\ call' = call \/ call' = [call EXCEPT ![c] = AtStart]
      BY <2>1 DEF Ask, Hit, Miss, BecomeFetcher, JoinFetcher, WakeUp, GiveUp, Refuse, Store,
         StoreFails, Publish, Unregister, router
    <3>3. pc'[c] # "upstream"
      BY <2>1, <3>1 DEF CallersTyped, Ask, Hit, Miss, BecomeFetcher, JoinFetcher, WakeUp, GiveUp,
         Refuse, Store, StoreFails, Publish, Unregister, Return, Goto
    <3>4. \A d \in Callers \ {c} : pc'[d] = pc[d] /\ key'[d] = key[d]
      BY <2>1, <3>1 DEF CallersTyped, Ask, Hit, Miss, BecomeFetcher, JoinFetcher, WakeUp, GiveUp,
         Refuse, Store, StoreFails, Publish, Unregister, Return, Goto
    <3> QED
      BY <3>1, <3>2, <3>3, <3>4, OthersStay
  <2>2. CASE SkipProvider(c) \/ CallTimesOut(c) \/ \E outcome \in Outcomes : Answer(c, outcome)
    <3>1. CallersTyped /\ BreakerTyped /\ OneSlips
      BY DEF SparingInv, FlightInv
    <3>2. /\ pc[c] = "upstream" /\ UNCHANGED <<key, breaker>>
          /\ UNCHANGED pc \/ Goto(c, "failed") \/ Goto(c, "store")
      BY <2>2, ChainMoves, AnswerMoves DEF SkipProvider, CallTimesOut, Answer
    <3>3. call' \in [Callers -> Positions] /\ \A d \in Callers : call'[d].begun = call[d].begun
      BY <2>2, <3>1, PositionsMove, AnswerPositions DEF SkipProvider, CallTimesOut
    <3> QED
      BY <3>1, <3>2, <3>3, ChainKeepsBegun
  <2> QED
    BY <1>2, <2>1, <2>2, PassSpares, FailureSpares, SubmitSpares DEF Proceed, Fetch
<1>3. CASE Pool \/ Time \/ Upkeep \/ UNCHANGED vars
  BY <1>1, <1>3, UpkeepSpares DEF SparingInv
<1> QED
  BY <1>1, <1>2, <1>3 DEF Next, SparingInv

(* While a breaker is open at most one fetch of its symbol begins. *)
THEOREM OpenCircuitsSpare == Spec => []OpenCircuitSpares
<1>1. SparingInv => OpenCircuitSpares
  BY DEF SparingInv, BreakerTyped, OpenCircuitSpares
<1> QED
  BY <1>1, InitSparingInv, NextSparingInv, PTL DEF Spec

-----------------------------------------------------------------------------
(* The pool and the chain *)

Running == {c \in Callers : future[c] = "running"}

(* Calls are somewhere in the chain; threads that run calls and threads that
   are lost to calls given up are together no more than the pool has. *)
PoolInv ==
  /\ cache \in [Symbols -> {"none", "fresh", "expired"}]
  /\ call \in [Callers -> Calls]
  /\ future \in [Callers -> Futures]
  /\ queue \in Seq(Callers)
  /\ abandoned \in Nat
  /\ IsFiniteSet(Running) /\ Busy <= Workers

(* What a call that is given up leaves of the queue *)
LEMMA RemoveAtType ==
  ASSUME NEW S, NEW s \in Seq(S), NEW i \in 1..Len(s)
  PROVE  RemoveAt(s, i) \in Seq(S)
<1>1. SubSeq(s, 1, i - 1) \in Seq(S) /\ SubSeq(s, i + 1, Len(s)) \in Seq(S)
  <2>1. \A j \in 1..Len(s) : s[j] \in S
    BY ElementOfSeq
  <2>2. Len(s) \in Nat
    OBVIOUS
  <2> QED
    BY <2>1, <2>2, SubSeqProperties
<1> QED
  BY <1>1, ConcatProperties DEF RemoveAt

LEMMA StartOfChain == AtStart \in Calls /\ Len(Chain) \in Nat
<1>1. Chain \in Seq(Range(Chain)) /\ Chain # <<>>
  BY ChainAssumption
<1>2. Len(Chain) \in Nat \ {0}
  BY <1>1
<1> QED
  BY <1>2, NumbersAssumption DEF AtStart, Calls

LEMMA InitPoolInv == Init => PoolInv
<1> SUFFICES ASSUME Init PROVE PoolInv
  OBVIOUS
<1>1. Running = {}
  BY DEF Init, Running
<1>2. IsFiniteSet(Running) /\ Cardinality(Running) = 0
  BY <1>1, FS_EmptySet
<1>3. Busy <= Workers
  BY <1>2, NumbersAssumption DEF Init, Busy, Running
<1> QED
  BY <1>2, <1>3, StartOfChain DEF Init, PoolInv, Futures

(* A step that starts no call *)
LEMMA PoolStays ==
  ASSUME PoolInv, cache' \in [Symbols -> {"none", "fresh", "expired"}],
         call' = call \/ \E c \in Callers : call' = [call EXCEPT ![c] = AtStart],
         UNCHANGED <<future, queue, abandoned>>
  PROVE  PoolInv'
<1>1. call' \in [Callers -> Calls]
  BY StartOfChain DEF PoolInv
<1> QED
  BY <1>1 DEF PoolInv, Running, Busy

(* The chain is followed from its first provider to its last. *)
LEMMA ChainKeepsCalls ==
  ASSUME PoolInv, NEW c \in Callers, NEW error \in {"failed", "not_configured"},
         RetryOrNext(c, error) \/ NextProvider(c, error)
  PROVE  call' \in [Callers -> Calls]
<1>1. /\ call \in [Callers -> Calls] /\ call[c] \in Calls
      /\ Len(Chain) \in Nat /\ Retries \in Nat
  BY StartOfChain, NumbersAssumption DEF PoolInv
<1>2. /\ call[c].prov \in 1..Len(Chain) /\ call[c].attempt \in 0..Retries /\ call[c].begun \in BOOLEAN
      /\ call[c].last \in {"none", "failed", "not_configured"}
  BY <1>1 DEF Calls
<1>3. ASSUME NEW next \in Calls, call' = [call EXCEPT ![c] = next] PROVE call' \in [Callers -> Calls]
  BY <1>1, <1>3
<1>4. CASE call[c].attempt < Retries /\ Again(c)
  <2>1. call' = [call EXCEPT ![c] = [call[c] EXCEPT !.attempt = @ + 1]]
    BY <1>1, <1>4 DEF Again
  <2>2. [call[c] EXCEPT !.attempt = @ + 1] \in Calls
    BY <1>1, <1>2, <1>4 DEF Calls
  <2> QED
    BY <1>3, <2>1, <2>2
<1>5. CASE NextProvider(c, error)
  <2>1. CASE call[c].prov < Len(Chain)
    <3> DEFINE next == [prov |-> call[c].prov + 1, attempt |-> 0, last |-> error,
                        begun |-> call[c].begun]
    <3>1. call' = [call EXCEPT ![c] = next]
      BY <1>1, <1>5, <2>1 DEF NextProvider
    <3>2. next \in Calls
      BY <1>1, <1>2, <2>1 DEF Calls
    <3> HIDE DEF next
    <3> QED
      BY <1>3, <3>1, <3>2
  <2>2. CASE ~ (call[c].prov < Len(Chain))
    <3>1. call' = [call EXCEPT ![c] = [call[c] EXCEPT !.last = error]]
      BY <1>1, <1>5, <2>2 DEF NextProvider
    <3>2. [call[c] EXCEPT !.last = error] \in Calls
      BY <1>1, <1>2 DEF Calls
    <3> QED
      BY <1>3, <3>1, <3>2
  <2> QED
    BY <2>1, <2>2
<1> QED
  BY <1>4, <1>5 DEF RetryOrNext, Again

(* A call whose last error is noted *)
LEMMA LastKeepsCalls ==
  ASSUME PoolInv, NEW c \in Callers, NEW last \in {"none", "failed", "not_configured"},
         call' = [call EXCEPT ![c].last = last]
  PROVE  call' \in [Callers -> Calls]
<1>1. call \in [Callers -> Calls] /\ call[c] \in Calls
  BY DEF PoolInv
<1>2. [call[c] EXCEPT !.last = last] \in Calls
  BY <1>1 DEF Calls
<1>3. call' = [call EXCEPT ![c] = [call[c] EXCEPT !.last = last]]
  BY <1>1
<1> QED
  BY <1>1, <1>2, <1>3

LEMMA AnswerKeepsCalls ==
  ASSUME PoolInv, NEW c \in Callers, NEW outcome \in Outcomes, Answer(c, outcome)
  PROVE  call' \in [Callers -> Calls]
<1>1. CASE outcome = "ok"
  BY <1>1, LastKeepsCalls DEF Answer
<1>2. CASE outcome = "transient"
  BY <1>2, ChainKeepsCalls DEF Answer
<1>3. CASE outcome = "not_configured"
  BY <1>3, ChainKeepsCalls DEF Answer
<1>4. CASE outcome = "broken"
  BY <1>4, ChainKeepsCalls DEF Answer
<1>5. CASE outcome = "fatal"
  BY <1>5, LastKeepsCalls DEF Answer
<1> QED
  BY <1>1, <1>2, <1>3, <1>4, <1>5 DEF Outcomes

(* A call that ends leaves its thread free or keeps it, no two threads busy. *)
LEMMA CallEnds ==
  ASSUME PoolInv, NEW c \in Callers, future[c] = "running",
         future' = [future EXCEPT ![c] = "none"], abandoned' \in {abandoned, abandoned + 1}
  PROVE  IsFiniteSet(Running') /\ (Busy <= Workers)'
<1>1. Running' = Running \ {c} /\ c \in Running
  BY DEF PoolInv, Running
<1>2. /\ IsFiniteSet(Running) /\ Cardinality(Running) \in Nat
      /\ Cardinality(Running) + abandoned <= Workers /\ abandoned \in Nat
  BY FS_CardinalityType DEF PoolInv, Busy, Running
<1>3. IsFiniteSet(Running') /\ Cardinality(Running') = Cardinality(Running) - 1
  BY <1>1, <1>2, FS_RemoveElement
<1>4. Cardinality(Running') + abandoned' <= Workers
  BY <1>2, <1>3, NumbersAssumption
<1> QED
  BY <1>3, <1>4 DEF Busy, Running

(* A call that is queued or taken out of the queue makes no thread busy. *)
LEMMA CallWaits ==
  ASSUME PoolInv, NEW c \in Callers, future[c] # "running", NEW place \in {"none", "queued"},
         future' = [future EXCEPT ![c] = place], abandoned' = abandoned
  PROVE  IsFiniteSet(Running') /\ (Busy <= Workers)'
<1>1. Running' = Running
  BY DEF PoolInv, Running
<1> QED
  BY <1>1 DEF PoolInv, Busy, Running

(* A free thread takes a call. *)
LEMMA CallBegins ==
  ASSUME PoolInv, Take
  PROVE  PoolInv'
<1> DEFINE c == Head(queue)
<1>1. c \in Callers /\ Tail(queue) \in Seq(Callers)
  BY DEF PoolInv, Take
<1>2. /\ future' = [future EXCEPT ![c] = "running"] /\ queue' = Tail(queue)
      /\ Busy < Workers /\ UNCHANGED <<cache, call, abandoned>>
  BY DEF Take
<1> HIDE DEF c
<1>3. Running' = Running \cup {c}
  BY <1>1, <1>2 DEF PoolInv, Running
<1>4. /\ IsFiniteSet(Running) /\ Cardinality(Running) \in Nat /\ abandoned \in Nat
      /\ Cardinality(Running) + abandoned < Workers
  BY <1>2, FS_CardinalityType DEF PoolInv, Busy, Running
<1>5. /\ IsFiniteSet(Running')
      /\ Cardinality(Running') = IF c \in Running THEN Cardinality(Running) ELSE Cardinality(Running) + 1
  BY <1>3, <1>4, FS_AddElement
<1>6. Cardinality(Running') + abandoned' <= Workers
  BY <1>2, <1>4, <1>5, NumbersAssumption
<1>7. (Busy <= Workers)'
  BY <1>6 DEF Busy, Running
<1>8. future' \in [Callers -> Futures]
  BY <1>1, <1>2 DEF PoolInv, Futures
<1> QED
  BY <1>1, <1>2, <1>5, <1>7, <1>8 DEF PoolInv

LEMMA NextPoolInv == PoolInv /\ [Next]_vars => PoolInv'
<1> SUFFICES ASSUME PoolInv, [Next]_vars PROVE PoolInv'
  OBVIOUS
<1>1. ASSUME NEW c \in Callers,
             \/ Ask(c) \/ Hit(c) \/ Miss(c) \/ BecomeFetcher(c) \/ JoinFetcher(c)
             \/ WakeUp(c) \/ GiveUp(c) \/ Refuse(c) \/ Pass(c) \/ RecordFailure(c)
             \/ Store(c) \/ StoreFails(c) \/ Publish(c) \/ Unregister(c)
      PROVE  PoolInv'
  <2>1. /\ cache' \in [Symbols -> {"none", "fresh", "expired"}]
        /\ UNCHANGED <<future, queue, abandoned>>
    BY <1>1 DEF PoolInv, Ask, Hit, Miss, BecomeFetcher, JoinFetcher, WakeUp, GiveUp, Refuse, Pass,
       RecordFailure, Store, StoreFails, Publish, Unregister, router
  <2>2. call' = call \/ call' = [call EXCEPT ![c] = AtStart]
    BY <1>1 DEF Ask, Hit, Miss, BecomeFetcher, JoinFetcher, WakeUp, GiveUp, Refuse, Pass,
       RecordFailure, Store, StoreFails, Publish, Unregister, router
  <2> QED
    BY <1>1, <2>1, <2>2, PoolStays
<1>2. ASSUME NEW c \in Callers, Submit(c)
      PROVE  PoolInv'
  <2>1. /\ future[c] = "none" /\ future' = [future EXCEPT ![c] = "queued"]
        /\ queue' = Append(queue, c) /\ call' = [call EXCEPT ![c].begun = TRUE]
        /\ cache' = cache /\ abandoned' = abandoned
    BY <1>2 DEF Submit
  <2>2. IsFiniteSet(Running') /\ (Busy <= Workers)'
    BY <2>1, CallWaits
  <2>3. future' \in [Callers -> Futures] /\ queue' \in Seq(Callers)
    BY <2>1 DEF PoolInv, Futures
  <2>4. call' \in [Callers -> Calls]
    BY <2>1 DEF PoolInv, Calls
  <2> QED
    BY <2>1, <2>2, <2>3, <2>4 DEF PoolInv
<1>3. ASSUME NEW c \in Callers, SkipProvider(c)
      PROVE  PoolInv'
  <2>1. call' \in [Callers -> Calls]
    BY <1>3, ChainKeepsCalls DEF SkipProvider
  <2> QED
    BY <1>3, <2>1 DEF SkipProvider, PoolInv, Running, Busy
<1>4. ASSUME NEW c \in Callers, CallTimesOut(c)
      PROVE  PoolInv'
  <2>1. call' \in [Callers -> Calls]
    BY <1>4, ChainKeepsCalls DEF CallTimesOut
  <2>2. future' = [future EXCEPT ![c] = "none"] /\ cache' = cache
        /\ future' \in [Callers -> Futures]
    BY <1>4 DEF CallTimesOut, PoolInv, Futures
  <2>3. CASE future[c] = "running" /\ abandoned' = abandoned + 1 /\ UNCHANGED queue
    <3>1. IsFiniteSet(Running') /\ (Busy <= Workers)'
      BY <2>2, <2>3, CallEnds
    <3> QED
      BY <2>1, <2>2, <2>3, <3>1 DEF PoolInv
  <2>4. CASE future[c] = "queued" /\ LeaveQueue(c) /\ UNCHANGED abandoned
    <3>1. IsFiniteSet(Running') /\ (Busy <= Workers)'
      BY <2>2, <2>4, CallWaits
    <3>2. queue' \in Seq(Callers)
      BY <2>4, RemoveAtType DEF LeaveQueue, PoolInv
    <3> QED
      BY <2>1, <2>2, <2>4, <3>1, <3>2 DEF PoolInv
  <2> QED
    BY <1>4, <2>3, <2>4 DEF CallTimesOut
<1>5. ASSUME NEW c \in Callers, NEW outcome \in Outcomes, Answer(c, outcome)
      PROVE  PoolInv'
  <2>1. call' \in [Callers -> Calls]
    BY <1>5, AnswerKeepsCalls
  <2>2. /\ future[c] = "running" /\ future' = [future EXCEPT ![c] = "none"]
        /\ cache' = cache /\ queue' = queue /\ abandoned' = abandoned
    BY <1>5 DEF Answer
  <2>3. IsFiniteSet(Running') /\ (Busy <= Workers)'
    BY <2>2, CallEnds
  <2> QED
    BY <2>1, <2>2, <2>3 DEF PoolInv, Futures
<1>6. CASE Take
  BY <1>6, CallBegins
<1>7. CASE AbandonedReturns
  <2>1. /\ Running' = Running /\ abandoned' = abandoned - 1 /\ abandoned' \in Nat
        /\ UNCHANGED <<cache, call, future, queue>>
    BY <1>7 DEF AbandonedReturns, PoolInv, Running
  <2>2. Cardinality(Running) \in Nat /\ Cardinality(Running) + abandoned <= Workers
    BY FS_CardinalityType DEF PoolInv, Busy, Running
  <2>3. Cardinality(Running') + abandoned' <= Workers
    BY <2>1, <2>2, NumbersAssumption DEF PoolInv
  <2>4. (Busy <= Workers)'
    BY <2>3 DEF Busy, Running
  <2> QED
    BY <2>1, <2>4 DEF PoolInv
<1>8. CASE Time \/ Upkeep \/ UNCHANGED vars
  <2>1. cache' \in [Symbols -> {"none", "fresh", "expired"}]
    BY <1>8 DEF PoolInv, Time, CooldownElapses, FailureAges, Expire, Upkeep, PurgeStale, Invalidate,
       ResetCircuit, vars
  <2>2. UNCHANGED <<call, future, queue, abandoned>>
    BY <1>8 DEF Time, CooldownElapses, FailureAges, Expire, Upkeep, PurgeStale, Invalidate,
       ResetCircuit, vars, router
  <2> QED
    BY <2>1, <2>2, PoolStays
<1> QED
  BY <1>1, <1>2, <1>3, <1>4, <1>5, <1>6, <1>7, <1>8 DEF Next, Proceed, Fetch, Pool

(* _BOUNDED_EXECUTOR never has more than Workers threads busy, those lost to
   calls that were given up included. *)
THEOREM PoolIsBounded == Spec => [](Busy <= Workers)
<1>1. PoolInv => Busy <= Workers
  BY DEF PoolInv
<1> QED
  BY <1>1, InitPoolInv, NextPoolInv, PTL DEF Spec

(* Callers, the cache, the pool and the breaker are typed for any number of
   callers, symbols, providers and threads. *)
THEOREM QuotesTypeCorrect == Spec => []QuoteTypeOK
<1>1. SparingInv /\ PoolInv => QuoteTypeOK
  <2> SUFFICES ASSUME SparingInv, PoolInv PROVE QuoteTypeOK
    OBVIOUS
  <2>1. Cardinality(Running) \in Nat /\ Cardinality(Running) + abandoned <= Workers /\ abandoned \in Nat
    BY FS_CardinalityType DEF PoolInv, Busy, Running
  <2>2. abandoned \in 0..Workers
    BY <2>1, NumbersAssumption
  <2>3. sinceOpen \in [Symbols -> Nat]
    BY DEF SparingInv, BreakerTyped
  <2> QED
    BY <2>2, <2>3 DEF SparingInv, FlightInv, CallersTyped, BreakerTyped, PoolInv, QuoteTypeOK
<1> QED
  BY <1>1, InitSparingInv, NextSparingInv, InitPoolInv, NextPoolInv, PTL DEF Spec

-----------------------------------------------------------------------------
(* The queue of the pool *)

(* The pool's queue holds every call that waits for a thread, once, and none
   that was given up; a call in the pool has its caller waiting for it. *)
CallHasWaiter ==
  /\ \A c \in Callers : future[c] = "queued" <=> \E i \in 1..Len(queue) : queue[i] = c
  /\ \A i, j \in 1..Len(queue) : queue[i] = queue[j] => i = j
  /\ \A c \in Callers : future[c] # "none" => pc[c] = "upstream"

(* What is left of a queue of distinct elements when one of them is taken out *)
LeavesOut(S, s, i, rest) ==
  /\ \A j, k \in 1..Len(rest) : rest[j] = rest[k] => j = k
  /\ \A x \in S : (\E j \in 1..Len(rest) : rest[j] = x)
                   <=> (x # s[i] /\ \E j \in 1..Len(s) : s[j] = x)

LEMMA RemoveAtLeaves ==
  ASSUME NEW S, NEW s \in Seq(S), NEW i \in 1..Len(s),
         \A j, k \in 1..Len(s) : s[j] = s[k] => j = k
  PROVE  LeavesOut(S, s, i, RemoveAt(s, i))
<1> DEFINE n == Len(s)
           rest == RemoveAt(s, i)
           from(j) == IF j < i THEN j ELSE j + 1
<1>1. n \in Nat /\ i \in 1..n
  OBVIOUS
<1>2. /\ SubSeq(s, 1, i - 1) \in Seq(S) /\ Len(SubSeq(s, 1, i - 1)) = i - 1
      /\ \A j \in 1..(i - 1) : SubSeq(s, 1, i - 1)[j] = s[j]
  BY <1>1
<1>3. /\ SubSeq(s, i + 1, n) \in Seq(S) /\ Len(SubSeq(s, i + 1, n)) = n - i
      /\ \A j \in 1..(n - i) : SubSeq(s, i + 1, n)[j] = s[i + j]
  BY <1>1
<1>4. Len(rest) = n - 1 /\ \A j \in 1..(n - 1) : rest[j] = s[from(j)]
  <2> DEFINE a == SubSeq(s, 1, i - 1)
             b == SubSeq(s, i + 1, n)
  <2>1. rest = a \o b
    BY DEF RemoveAt
  <2>2. /\ a \in Seq(S) /\ Len(a) = i - 1 /\ \A j \in 1..(i - 1) : a[j] = s[j]
        /\ b \in Seq(S) /\ Len(b) = n - i /\ \A j \in 1..(n - i) : b[j] = s[i + j]
    BY <1>2, <1>3
  <2> HIDE DEF a, b, rest, n
  <2>3. Len(rest) = n - 1 /\ \A j \in 1..(n - 1) : rest[j] = IF j < i THEN a[j] ELSE b[j - (i - 1)]
    <3>1. /\ Len(rest) = Len(a) + Len(b)
          /\ \A j \in 1..(Len(a) + Len(b)) : rest[j] = IF j <= Len(a) THEN a[j] ELSE b[j - Len(a)]
      BY <2>1, <2>2, ConcatProperties
    <3> QED
      BY <1>1, <2>2, <3>1
  <2>4. ASSUME NEW j \in 1..(n - 1) PROVE rest[j] = s[from(j)]
    <3>1. CASE j < i
      BY <1>1, <2>2, <2>3, <3>1
    <3>2. CASE ~(j < i)
      <4>1. j - (i - 1) \in 1..(n - i) /\ i + (j - (i - 1)) = j + 1
        BY <1>1, <3>2
      <4>2. b[j - (i - 1)] = s[j + 1]
        BY <2>2, <4>1
      <4> QED
        BY <2>3, <3>2, <4>2
    <3> QED
      BY <3>1, <3>2
  <2> QED
    BY <2>3, <2>4
<1>5. /\ \A j \in 1..(n - 1) : from(j) \in 1..n /\ from(j) # i
      /\ \A j, k \in 1..(n - 1) : from(j) = from(k) => j = k
      /\ \A m \in 1..n : m # i => \E j \in 1..(n - 1) : from(j) = m
  <2>1. ASSUME NEW m \in 1..n, m # i PROVE \E j \in 1..(n - 1) : from(j) = m
    <3>1. CASE m < i
      <4>1. m \in 1..(n - 1) /\ from(m) = m
        BY <1>1, <3>1
      <4> QED
        BY <4>1
    <3>2. CASE m > i
      <4>1. m - 1 \in 1..(n - 1) /\ from(m - 1) = m
        BY <1>1, <3>2
      <4> QED
        BY <4>1
    <3> QED
      BY <1>1, <2>1, <3>1, <3>2
  <2> QED
    BY <1>1, <2>1
<1>6. \A j, k \in 1..n : s[j] = s[k] => j = k
  OBVIOUS
<1> HIDE DEF n, rest, from
<1>7. \A j, k \in 1..Len(rest) : rest[j] = rest[k] => j = k
  BY <1>4, <1>5, <1>6
<1>8. ASSUME NEW x \in S
      PROVE  (\E j \in 1..Len(rest) : rest[j] = x) <=> (x # s[i] /\ \E j \in 1..n : s[j] = x)
  <2>1. ASSUME NEW j \in 1..Len(rest), rest[j] = x PROVE x # s[i] /\ \E k \in 1..n : s[k] = x
    <3>1. j \in 1..(n - 1) /\ from(j) \in 1..n /\ from(j) # i /\ s[from(j)] = x
      BY <1>1, <1>4, <1>5, <2>1
    <3> QED
      BY <1>1, <1>6, <3>1
  <2>2. ASSUME NEW m \in 1..n, s[m] = x, x # s[i] PROVE \E j \in 1..Len(rest) : rest[j] = x
    <3>1. PICK j \in 1..(n - 1) : from(j) = m
      BY <1>5, <2>2
    <3>2. rest[j] = x /\ j \in 1..Len(rest)
      BY <1>4, <2>2, <3>1
    <3> QED
      BY <3>2
  <2> QED
    BY <2>1, <2>2
<1> QED
  BY <1>7, <1>8 DEF n, rest, LeavesOut

(* A step that leaves the pool alone, of a caller without a call *)
LEMMA CallsStay ==
  ASSUME CallHasWaiter, FlightInv, NEW c \in Callers, pc[c] # "upstream" \/ future[c] = "none",
         \A d \in Callers \ {c} : pc'[d] = pc[d], UNCHANGED <<future, queue>>
  PROVE  CallHasWaiter'
  BY DEF CallHasWaiter

(* A call is put at the end of the queue. *)
LEMMA CallIsQueued ==
  ASSUME CallHasWaiter, FlightInv, PoolInv, NEW c \in Callers, Submit(c)
  PROVE  CallHasWaiter'
<1>1. /\ future[c] = "none" /\ future' = [future EXCEPT ![c] = "queued"]
      /\ pc[c] = "upstream" /\ pc' = pc /\ queue' = Append(queue, c)
  BY DEF Submit, caller
<1>2. /\ Len(queue) \in Nat /\ Len(queue') = Len(queue) + 1 /\ queue'[Len(queue) + 1] = c
      /\ \A i \in 1..Len(queue) : queue'[i] = queue[i] /\ queue[i] \in Callers
  BY <1>1 DEF PoolInv
<1>3. \A i \in 1..Len(queue) : queue[i] # c
  BY <1>1 DEF CallHasWaiter
<1>4. ASSUME NEW d \in Callers
      PROVE  future'[d] = "queued" <=> \E i \in 1..Len(queue') : queue'[i] = d
  <2>1. CASE d = c
    BY <1>1, <1>2, <2>1 DEF PoolInv
  <2>2. CASE d # c
    <3>1. future'[d] = future[d]
      BY <1>1, <2>2 DEF PoolInv
    <3>2. (\E i \in 1..Len(queue') : queue'[i] = d) <=> (\E i \in 1..Len(queue) : queue[i] = d)
      BY <1>2, <2>2
    <3> QED
      BY <3>1, <3>2 DEF CallHasWaiter
  <2> QED
    BY <2>1, <2>2
<1>5. \A i, j \in 1..Len(queue') : queue'[i] = queue'[j] => i = j
  BY <1>2, <1>3 DEF CallHasWaiter
<1>6. \A d \in Callers : future'[d] # "none" => pc'[d] = "upstream"
  BY <1>1 DEF CallHasWaiter, PoolInv
<1> QED
  BY <1>4, <1>5, <1>6 DEF CallHasWaiter

(* A thread takes the call at the head. *)
LEMMA CallIsTaken ==
  ASSUME CallHasWaiter, FlightInv, PoolInv, Take
  PROVE  CallHasWaiter'
<1> DEFINE c == Head(queue)
<1>1. /\ c \in Callers /\ c = queue[1] /\ Len(queue) \in Nat \ {0}
      /\ Len(queue') = Len(queue) - 1 /\ \A i \in 1..(Len(queue) - 1) : queue'[i] = queue[i + 1]
  BY DEF PoolInv, Take
<1>2. future' = [future EXCEPT ![c] = "running"] /\ pc' = pc
  BY DEF Take, caller
<1> HIDE DEF c
<1>3. future[c] = "queued"
  BY <1>1 DEF CallHasWaiter
<1>4. ASSUME NEW d \in Callers
      PROVE  (\E i \in 1..Len(queue') : queue'[i] = d) <=> (d # c /\ \E i \in 1..Len(queue) : queue[i] = d)
  <2>1. ASSUME NEW i \in 1..Len(queue'), queue'[i] = d PROVE d # c /\ \E j \in 1..Len(queue) : queue[j] = d
    <3>1. i + 1 \in 1..Len(queue) /\ 1 \in 1..Len(queue) /\ i + 1 # 1 /\ queue[i + 1] = d
      BY <1>1, <2>1
    <3> QED
      BY <1>1, <3>1 DEF CallHasWaiter
  <2>2. ASSUME NEW i \in 1..Len(queue), queue[i] = d, d # c PROVE \E j \in 1..Len(queue') : queue'[j] = d
    <3>1. i # 1
      BY <1>1, <2>2
    <3>2. i - 1 \in 1..Len(queue') /\ queue'[i - 1] = queue[i]
      BY <1>1, <3>1
    <3> QED
      BY <2>2, <3>2
  <2> QED
    BY <2>1, <2>2
<1>5. \A d \in Callers : future'[d] = "queued" <=> \E i \in 1..Len(queue') : queue'[i] = d
  BY <1>1, <1>2, <1>4 DEF CallHasWaiter, PoolInv
<1>6. ASSUME NEW i \in 1..Len(queue'), NEW j \in 1..Len(queue'), queue'[i] = queue'[j] PROVE i = j
  <2>1. /\ i + 1 \in 1..Len(queue) /\ j + 1 \in 1..Len(queue) /\ queue[i + 1] = queue[j + 1]
        /\ i \in Nat /\ j \in Nat
    BY <1>1, <1>6
  <2>2. i + 1 = j + 1
    BY <2>1 DEF CallHasWaiter
  <2> QED
    BY <2>1, <2>2
<1>7. \A d \in Callers : future'[d] # "none" => pc'[d] = "upstream"
  BY <1>1, <1>2, <1>3 DEF CallHasWaiter, PoolInv
<1> QED
  BY <1>5, <1>6, <1>7 DEF CallHasWaiter

(* A call ends, or is given up, in its thread or in the queue. *)
LEMMA CallLeaves ==
  ASSUME CallHasWaiter, FlightInv, PoolInv, NEW c \in Callers,
         \/ future[c] = "running" /\ UNCHANGED queue
         \/ future[c] = "queued" /\ LeaveQueue(c),
         future' = [future EXCEPT ![c] = "none"], \A d \in Callers \ {c} : pc'[d] = pc[d]
  PROVE  CallHasWaiter'
<1>1. \A d \in Callers : future'[d] # "none" => pc'[d] = "upstream"
  BY DEF CallHasWaiter, PoolInv
<1>2. CASE future[c] = "running" /\ UNCHANGED queue
  <2>1. \A d \in Callers : future'[d] = "queued" <=> future[d] = "queued"
    BY <1>2 DEF PoolInv
  <2> QED
    BY <1>1, <1>2, <2>1 DEF CallHasWaiter
<1>3. CASE future[c] = "queued" /\ LeaveQueue(c)
  <2>1. PICK i \in 1..Len(queue) : queue[i] = c /\ queue' = RemoveAt(queue, i)
    BY <1>3 DEF LeaveQueue, PoolInv
  <2>2. queue \in Seq(Callers) /\ \A j, k \in 1..Len(queue) : queue[j] = queue[k] => j = k
    BY DEF CallHasWaiter, PoolInv
  <2>3. /\ \A j, k \in 1..Len(queue') : queue'[j] = queue'[k] => j = k
        /\ \A d \in Callers : (\E j \in 1..Len(queue') : queue'[j] = d)
                               <=> (d # c /\ \E j \in 1..Len(queue) : queue[j] = d)
    <3>1. LeavesOut(Callers, queue, i, RemoveAt(queue, i))
      BY <2>2, RemoveAtLeaves
    <3>2. LeavesOut(Callers, queue, i, queue')
      BY <2>1, <3>1
    <3> QED
      BY <2>1, <3>2 DEF LeavesOut
  <2>4. \A d \in Callers : future'[d] = "queued" <=> (d # c /\ future[d] = "queued")
    BY DEF PoolInv
  <2>5. \A d \in Callers : future'[d] = "queued" <=> \E j \in 1..Len(queue') : queue'[j] = d
    BY <2>3, <2>4 DEF CallHasWaiter
  <2> QED
    BY <1>1, <2>3, <2>5 DEF CallHasWaiter
<1> QED
  BY <1>2, <1>3

(* A fetcher whose call ends stays where it is or leaves the chain. *)
LEMMA RouterMovesOne ==
  ASSUME FlightInv, NEW c \in Callers,
         \/ SkipProvider(c) \/ CallTimesOut(c) \/ \E outcome \in Outcomes : Answer(c, outcome)
  PROVE  \A d \in Callers \ {c} : pc'[d] = pc[d]
<1>1. \A error : RetryOrNext(c, error) \/ NextProvider(c, error) => pc' = pc \/ Goto(c, "failed")
  BY DEF RetryOrNext, NextProvider, Again
<1>2. ASSUME NEW outcome \in Outcomes, Answer(c, outcome)
      PROVE  pc' = pc \/ Goto(c, "failed") \/ Goto(c, "store")
  BY <1>1, <1>2 DEF Answer, Outcomes
<1>3. pc' = pc \/ Goto(c, "failed") \/ Goto(c, "store")
  BY <1>1, <1>2 DEF SkipProvider, CallTimesOut
<1> QED
  BY <1>3 DEF Goto, FlightInv, CallersTyped

LEMMA NextCallHasWaiter == CallHasWaiter /\ FlightInv /\ PoolInv /\ [Next]_vars => CallHasWaiter'
<1> SUFFICES ASSUME CallHasWaiter, FlightInv, PoolInv, [Next]_vars PROVE CallHasWaiter'
  OBVIOUS
<1>1. ASSUME NEW c \in Callers,
             \/ Ask(c) \/ Hit(c) \/ Miss(c) \/ BecomeFetcher(c) \/ JoinFetcher(c)
             \/ WakeUp(c) \/ GiveUp(c) \/ Refuse(c) \/ Pass(c) \/ RecordFailure(c)
             \/ Store(c) \/ StoreFails(c) \/ Publish(c) \/ Unregister(c)
      PROVE  CallHasWaiter'
  <2>1. \E place : Goto(c, place)
    BY <1>1 DEF Ask, Hit, Miss, BecomeFetcher, JoinFetcher, WakeUp, GiveUp, Refuse, Pass,
       RecordFailure, Store, StoreFails, Publish, Unregister, Return
  <2>2. UNCHANGED <<future, queue>> /\ pc[c] # "upstream"
    BY <1>1 DEF Ask, Hit, Miss, BecomeFetcher, JoinFetcher, WakeUp, GiveUp, Refuse, Pass,
       RecordFailure, Store, StoreFails, Publish, Unregister, router
  <2>3. \A d \in Callers \ {c} : pc'[d] = pc[d]
    BY <2>1 DEF Goto, FlightInv, CallersTyped
  <2> QED
    BY <2>2, <2>3, CallsStay
<1>2. ASSUME NEW c \in Callers, Submit(c) PROVE CallHasWaiter'
  BY <1>2, CallIsQueued
<1>3. ASSUME NEW c \in Callers, SkipProvider(c) PROVE CallHasWaiter'
  BY <1>3, CallsStay, RouterMovesOne DEF SkipProvider
<1>4. ASSUME NEW c \in Callers, CallTimesOut(c) PROVE CallHasWaiter'
  BY <1>4, CallLeaves, RouterMovesOne DEF CallTimesOut
<1>5. ASSUME NEW c \in Callers, NEW outcome \in Outcomes, Answer(c, outcome) PROVE CallHasWaiter'
  <2>1. /\ future[c] = "running" /\ UNCHANGED queue /\ future' = [future EXCEPT ![c] = "none"]
    BY <1>5 DEF Answer
  <2> QED
    BY <1>5, <2>1, CallLeaves, RouterMovesOne
<1>6. CASE Take
  BY <1>6, CallIsTaken
<1>7. CASE AbandonedReturns \/ Time \/ Upkeep \/ UNCHANGED vars
  <2>1. UNCHANGED <<pc, future, queue>>
    BY <1>7 DEF AbandonedReturns, Time, CooldownElapses, FailureAges, Expire, Upkeep, PurgeStale,
       Invalidate, ResetCircuit, vars, router, caller
  <2> QED
    BY <2>1 DEF CallHasWaiter
<1> QED
  BY <1>1, <1>2, <1>3, <1>4, <1>5, <1>6, <1>7 DEF Next, Proceed, Fetch, Pool

(* future.result and future.cancel leave no call behind that nobody waits for:
   what a pool thread begins has a caller in the chain, and every call that
   was submitted and not yet begun will be begun once at most. *)
THEOREM CallsHaveWaiters == Spec => []CallHasWaiter
<1>1. Init => CallHasWaiter
  BY DEF Init, CallHasWaiter
<1>2. SparingInv => FlightInv
  BY DEF SparingInv
<1> QED
  BY <1>1, <1>2, InitSparingInv, NextSparingInv, InitPoolInv, NextPoolInv, NextCallHasWaiter, PTL DEF Spec

=============================================================================
