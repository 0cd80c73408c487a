----------------------------- MODULE QuoteService -----------------------------
(***************************************************************************)
(* Quotes of the web console (web/market_data.py): the cache table, the    *)
(* sharing of concurrent fetches of one quote (_inflight), the circuit     *)
(* breaker of a symbol, the chain of providers (ProviderRouter) and the    *)
(* fixed pool of daemon threads every provider is called on.               *)
(*                                                                         *)
(* A caller is a thread inside get_quote: a page's request, a worker of    *)
(* get_quotes' own pool, the prewarmer or the alert monitor.  It takes one *)
(* step per database transaction, per critical section and per wait.       *)
(* Prices are left out; a cached quote is fresh or older than the time to  *)
(* live.  Time is the order of events: what is timed may elapse at any     *)
(* moment, which is what a thread that is scheduled late sees.             *)
(***************************************************************************)
EXTENDS Naturals, FiniteSets, Sequences, SequencesExt

CONSTANTS Callers,     \* threads that ask
          NoOne,       \* no caller
          NoKey,       \* what a caller asks for that is not in get_quote
          Symbols,     \* pairs of a symbol and an asset type
          Chain,       \* providers of the strategy, in order
          Covers,      \* providers that support each symbol
          Retries,     \* further attempts at one provider
          Workers,     \* threads of _BOUNDED_EXECUTOR
          Threshold    \* _circuit_threshold

ASSUME NoOneAssumption   == NoOne \notin Callers /\ NoKey \notin Symbols \X BOOLEAN
ASSUME ChainAssumption   == /\ Chain \in Seq(Range(Chain)) \ {<<>>}
                            /\ Covers \in [Symbols -> SUBSET Range(Chain)]
ASSUME NumbersAssumption == /\ Retries \in Nat
                            /\ Workers \in Nat \ {0}
                            /\ Threshold \in Nat \ {0}

VARIABLES
  cache,       \* the row of market_quotes of each symbol
  inflight,    \* _inflight: the fetcher whose entry stands under a key
  entry,       \* the entry a fetcher made: what it has published
  pc,          \* where each caller is in get_quote
  key,         \* what it asks for: the symbol and force_refresh
  had,         \* whether its own read of the cache found a quote
  on,          \* the fetcher a waiter waits for
  got,         \* what a waiter's entry holds
  call,        \* where a fetcher is in the chain of providers
  future,      \* its submitted call
  queue,       \* the pool's queue
  abandoned,   \* pool threads still busy with calls that timed out
  circuit,     \* _circuit_open_until
  failures,    \* recent entries of _circuit_failures
  sinceOpen    \* history: fetches begun while the circuit was open

caller  == <<entry, pc, key, had, on, got>>
router  == <<call, future, queue, abandoned>>
breaker == <<circuit, failures, sinceOpen>>
vars    == <<cache, inflight, caller, router, breaker>>

-----------------------------------------------------------------------------
(* Data *)

Keys     == Symbols \X BOOLEAN
SymOf(c) == key[c][1]
Results  == {"quote", "error", "nothing"}

Places == {"idle", "lookup", "register", "waiting", "check", "refused",
           "upstream", "store", "failed", "publish", "unregister"}

(* Places of the one caller that fetches under a key. *)
Fetching == {"check", "refused", "upstream", "store", "failed", "publish", "unregister"}

Outcomes == {"ok", "transient", "fatal", "broken", "not_configured"}
Futures  == {"none", "queued", "running"}   \* "running": a pool thread executes it

Calls == [prov : 1..Len(Chain), attempt : 0..Retries, last : {"none", "failed", "not_configured"},
          begun : BOOLEAN]   \* history: whether anything was submitted
AtStart == [prov |-> 1, attempt |-> 0, last |-> "none", begun |-> FALSE]

Busy == Cardinality({c \in Callers : future[c] = "running"}) + abandoned

QuoteTypeOK ==
  /\ cache \in [Symbols -> {"none", "fresh", "expired"}]
  /\ inflight \in [Keys -> Callers \cup {NoOne}]
  /\ entry \in [Callers -> {"none", "pending", "lost"} \cup Results]
  /\ pc \in [Callers -> Places]
  /\ key \in [Callers -> Keys \cup {NoKey}]
  /\ had \in [Callers -> BOOLEAN]
  /\ on \in [Callers -> Callers \cup {NoOne}]
  /\ got \in [Callers -> {"none"} \cup Results]
  /\ call \in [Callers -> Calls]
  /\ future \in [Callers -> Futures]
  /\ queue \in Seq(Callers)
  /\ abandoned \in 0..Workers
  /\ circuit \in [Symbols -> {"closed", "open", "elapsed"}]
  /\ failures \in [Symbols -> Nat]
  /\ sinceOpen \in [Symbols -> Nat]

Init ==
  /\ cache = [s \in Symbols |-> "none"]
  /\ inflight = [k \in Keys |-> NoOne]
  /\ entry = [c \in Callers |-> "none"]
  /\ pc = [c \in Callers |-> "idle"]
  /\ key = [c \in Callers |-> NoKey]
  /\ had = [c \in Callers |-> FALSE]
  /\ on = [c \in Callers |-> NoOne]
  /\ got = [c \in Callers |-> "none"]
  /\ call = [c \in Callers |-> AtStart]
  /\ future = [c \in Callers |-> "none"]
  /\ queue = <<>>
  /\ abandoned = 0
  /\ circuit = [s \in Symbols |-> "closed"]
  /\ failures = [s \in Symbols |-> 0]
  /\ sinceOpen = [s \in Symbols |-> 0]

Goto(c, place) == pc' = [pc EXCEPT ![c] = place]

(* get_quote returns or raises. *)
Return(c) ==
  /\ Goto(c, "idle")
  /\ key' = [key EXCEPT ![c] = NoKey]
  /\ had' = [had EXCEPT ![c] = FALSE]

-----------------------------------------------------------------------------
(* A caller up to the point where it fetches or waits *)

Ask(c) ==
  /\ pc[c] = "idle"
  /\ \E k \in Keys : key' = [key EXCEPT ![c] = k]
  /\ Goto(c, "lookup")
  /\ UNCHANGED <<cache, inflight, entry, had, on, got, router, breaker>>

(* The cached row is read once; a fresh one is the answer, *)
IsHit(c) == cache[SymOf(c)] = "fresh" /\ ~key[c][2]

Hit(c) ==
  /\ pc[c] = "lookup"
  /\ IsHit(c)
  /\ Return(c)
  /\ UNCHANGED <<cache, inflight, entry, on, got, router, breaker>>

(* unless force_refresh is set. *)
Miss(c) ==
  /\ pc[c] = "lookup"
  /\ ~IsHit(c)
  /\ had' = [had EXCEPT ![c] = cache[SymOf(c)] # "none"]
  /\ Goto(c, "register")
  /\ UNCHANGED <<cache, inflight, entry, key, on, got, router, breaker>>

(* _register_inflight, the caller becomes the fetcher of its key *)
BecomeFetcher(c) ==
  /\ pc[c] = "register"
  /\ inflight[key[c]] = NoOne
  /\ inflight' = [inflight EXCEPT ![key[c]] = c]
  /\ entry' = [entry EXCEPT ![c] = "pending"]
  /\ Goto(c, "check")
  /\ UNCHANGED <<cache, key, had, on, got, router, breaker>>

(* _register_inflight, another fetches already: the caller keeps that entry *)
JoinFetcher(c) ==
  LET f == inflight[key[c]] IN
  /\ pc[c] = "register"
  /\ f # NoOne
  /\ on' = [on EXCEPT ![c] = f]
  /\ got' = [got EXCEPT ![c] = IF entry[f] \in Results THEN entry[f] ELSE "none"]
  /\ Goto(c, "waiting")
  /\ UNCHANGED <<cache, inflight, entry, key, had, router, breaker>>

(* _wait_inflight ends with the entry's result, its error or the assertion
   that it has one of them, *)
WakeUp(c) ==
  /\ pc[c] = "waiting"
  /\ got[c] # "none"
  /\ on' = [on EXCEPT ![c] = NoOne]
  /\ got' = [got EXCEPT ![c] = "none"]
  /\ Return(c)
  /\ UNCHANGED <<cache, inflight, entry, router, breaker>>

(* or after timeout_seconds and five more. *)
GiveUp(c) ==
  /\ pc[c] = "waiting"
  /\ got[c] = "none"
  /\ on' = [on EXCEPT ![c] = NoOne]
  /\ Return(c)
  /\ UNCHANGED <<cache, inflight, entry, got, router, breaker>>

-----------------------------------------------------------------------------
(* The circuit breaker *)

CloseCircuit(S) ==
  /\ circuit' = [s \in Symbols |-> IF s \in S THEN "closed" ELSE circuit[s]]
  /\ failures' = [s \in Symbols |-> IF s \in S THEN 0 ELSE failures[s]]
  /\ sinceOpen' = [s \in Symbols |-> IF s \in S THEN 0 ELSE sinceOpen[s]]

(* _circuit_status finds the circuit open: the answer is the caller's own
   cached quote or one that says unavailable. *)
Refuse(c) ==
  /\ pc[c] = "check"
  /\ circuit[SymOf(c)] = "open"
  /\ Goto(c, "refused")
  /\ UNCHANGED <<cache, inflight, entry, key, had, on, got, router, breaker>>

(* Mutant: a caller without a cached quote goes upstream all the same. *)
PassWithoutQuote(c) ==
  /\ pc[c] = "check"
  /\ circuit[SymOf(c)] # "open" \/ ~had[c]
  /\ IF circuit[SymOf(c)] = "elapsed" THEN CloseCircuit({SymOf(c)}) ELSE UNCHANGED breaker
  /\ call' = [call EXCEPT ![c] = AtStart]
  /\ Goto(c, "upstream")
  /\ UNCHANGED <<cache, inflight, entry, key, had, on, got, future, queue, abandoned>>

(* It is closed, or its cooldown has elapsed, which closes it. *)
Pass(c) ==
  /\ pc[c] = "check"
  /\ circuit[SymOf(c)] # "open"
  /\ IF circuit[SymOf(c)] = "elapsed" THEN CloseCircuit({SymOf(c)}) ELSE UNCHANGED breaker
  /\ call' = [call EXCEPT ![c] = AtStart]
  /\ Goto(c, "upstream")
  /\ UNCHANGED <<cache, inflight, entry, key, had, on, got, future, queue, abandoned>>

(* Mutant: the error is raised without being published. *)
RaiseUnpublished(c) ==
  /\ pc[c] = "failed"
  /\ Goto(c, IF had[c] THEN "publish" ELSE "unregister")
  /\ UNCHANGED <<cache, inflight, entry, key, had, on, got, router, breaker>>

(* _record_circuit_failure, which is not called for NOT_CONFIGURED *)
RecordFailure(c) ==
  LET s == SymOf(c) IN
  /\ pc[c] = "failed"
  /\ IF call[c].last = "not_configured"
     THEN UNCHANGED breaker
     ELSE /\ failures' = [failures EXCEPT ![s] = @ + 1]
          /\ IF failures[s] + 1 >= Threshold
             THEN /\ circuit' = [circuit EXCEPT ![s] = "open"]
                  /\ sinceOpen' = [sinceOpen EXCEPT ![s] = IF circuit[s] = "open" THEN @ ELSE 0]
             ELSE UNCHANGED <<circuit, sinceOpen>>
  /\ Goto(c, "publish")
  /\ UNCHANGED <<cache, inflight, entry, key, had, on, got, router>>

CooldownElapses(s) ==
  /\ circuit[s] = "open"
  /\ circuit' = [circuit EXCEPT ![s] = "elapsed"]
  /\ UNCHANGED <<cache, inflight, caller, router, failures, sinceOpen>>

(* A failure leaves the window the breaker looks back over. *)
FailureAges(s) ==
  /\ failures[s] > 0
  /\ failures' = [failures EXCEPT ![s] = @ - 1]
  /\ UNCHANGED <<cache, inflight, caller, router, circuit, sinceOpen>>

(* reset_circuit: of one symbol, if its circuit is known, or of all *)
ResetCircuit(S) ==
  /\ \/ S = Symbols
     \/ \E s \in Symbols : S = {s} /\ circuit[s] # "closed"
  /\ CloseCircuit(S)
  /\ UNCHANGED <<cache, inflight, caller, router>>

-----------------------------------------------------------------------------
(* The chain of providers *)

(* The call is put to the pool. *)
Submit(c) ==
  /\ pc[c] = "upstream"
  /\ future[c] = "none"
  /\ Chain[call[c].prov] \in Covers[SymOf(c)]
  /\ future' = [future EXCEPT ![c] = "queued"]
  /\ queue' = Append(queue, c)
  /\ call' = [call EXCEPT ![c].begun = TRUE]
  /\ sinceOpen' = [sinceOpen EXCEPT ![SymOf(c)] =
                     IF circuit[SymOf(c)] = "open" /\ ~call[c].begun THEN @ + 1 ELSE @]
  /\ UNCHANGED <<cache, inflight, caller, abandoned, circuit, failures>>

(* The next attempt at this provider, *)
Again(c) ==
  /\ call[c].attempt < Retries
  /\ call' = [call EXCEPT ![c].attempt = @ + 1]
  /\ UNCHANGED pc

(* the first at the next one, or the end of the chain with the last error. *)
NextProvider(c, error) ==
  IF call[c].prov < Len(Chain)
  THEN /\ call' = [call EXCEPT ![c] = [prov |-> @.prov + 1, attempt |-> 0, last |-> error,
                                       begun |-> @.begun]]
       /\ UNCHANGED pc
  ELSE /\ call' = [call EXCEPT ![c].last = error]
       /\ Goto(c, "failed")

RetryOrNext(c, error) ==
  IF call[c].attempt < Retries THEN Again(c) ELSE NextProvider(c, error)

(* A provider that is not there or does not support the symbol *)
SkipProvider(c) ==
  /\ pc[c] = "upstream"
  /\ future[c] = "none"
  /\ Chain[call[c].prov] \notin Covers[SymOf(c)]
  /\ NextProvider(c, "not_configured")
  /\ UNCHANGED <<cache, inflight, entry, key, had, on, got, future, queue, abandoned, breaker>>

(* The pool's queue without the call of c. *)
LeaveQueue(c) == \E i \in DOMAIN queue : queue[i] = c /\ queue' = RemoveAt(queue, i)

(* Mutants: every call that times out is taken to keep a thread; *)
CallTimesOutMiscounted(c) ==
  /\ pc[c] = "upstream"
  /\ \/ future[c] = "running" /\ UNCHANGED queue
     \/ future[c] = "queued" /\ LeaveQueue(c)
  /\ abandoned' = abandoned + 1
  /\ future' = [future EXCEPT ![c] = "none"]
  /\ RetryOrNext(c, "failed")
  /\ UNCHANGED <<cache, inflight, entry, key, had, on, got, breaker>>

(* the timeout counts from the moment a thread begins the call. *)
CallTimesOutOnceBegun(c) == future[c] = "running" /\ CallTimesOutMiscounted(c)

(* future.result gives up; a call no thread has begun is taken back, one that
   runs keeps its thread. *)
CallTimesOut(c) ==
  /\ pc[c] = "upstream"
  /\ \/ future[c] = "running" /\ abandoned' = abandoned + 1 /\ UNCHANGED queue
     \/ future[c] = "queued" /\ LeaveQueue(c) /\ UNCHANGED abandoned
  /\ future' = [future EXCEPT ![c] = "none"]
  /\ RetryOrNext(c, "failed")
  /\ UNCHANGED <<cache, inflight, entry, key, had, on, got, breaker>>

(* The provider answers in time and future.result hands it on: a quote, a
   ProviderError that is worth another attempt or is final, or any other
   exception, which is not retried. *)
Answer(c, outcome) ==
  /\ pc[c] = "upstream"
  /\ future[c] = "running"
  /\ future' = [future EXCEPT ![c] = "none"]
  /\ CASE outcome = "ok"             -> Goto(c, "store") /\ call' = [call EXCEPT ![c].last = "none"]
       [] outcome = "transient"      -> RetryOrNext(c, "failed")
       [] outcome = "not_configured" -> RetryOrNext(c, "not_configured")
       [] outcome = "broken"         -> NextProvider(c, "failed")
       [] outcome = "fatal"          -> /\ call' = [call EXCEPT ![c].last = "failed"]
                                        /\ Goto(c, "failed")
  /\ UNCHANGED <<cache, inflight, entry, key, had, on, got, queue, abandoned, breaker>>

(* A pool thread *)
Take ==
  /\ queue # <<>>
  /\ Busy < Workers
  /\ future' = [future EXCEPT ![Head(queue)] = "running"]
  /\ queue' = Tail(queue)
  /\ UNCHANGED <<cache, inflight, caller, call, abandoned, breaker>>

AbandonedReturns ==
  /\ abandoned > 0
  /\ abandoned' = abandoned - 1
  /\ UNCHANGED <<cache, inflight, caller, call, future, queue, breaker>>

-----------------------------------------------------------------------------
(* The end of a fetch *)

(* upsert_quote replaces whatever row is there, *)
Store(c) ==
  /\ pc[c] = "store"
  /\ cache' = [cache EXCEPT ![SymOf(c)] = "fresh"]
  /\ Goto(c, "publish")
  /\ UNCHANGED <<inflight, entry, key, had, on, got, router, breaker>>

(* or raises something else than a ProviderError: nothing is published. *)
StoreFails(c) ==
  /\ pc[c] = "store"
  /\ entry' = [entry EXCEPT ![c] = "lost"]
  /\ Goto(c, "unregister")
  /\ UNCHANGED <<cache, inflight, key, had, on, got, router, breaker>>

(* _publish_inflight: nothing when the circuit was open; the new quote; after
   a failure the cached one if there was one, else the error. *)
Result(c) ==
  CASE pc[c] = "refused"                         -> "nothing"
    [] pc[c] = "publish" /\ call[c].last = "none" -> "quote"
    [] OTHER                                     -> IF had[c] THEN "quote" ELSE "error"

(* Mutant: the way out of an open circuit leaves the slot taken. *)
PublishKeepingSlot(c) ==
  /\ pc[c] \in {"refused", "publish"}
  /\ entry' = [entry EXCEPT ![c] = Result(c)]
  /\ got' = [w \in Callers |-> IF on[w] = c THEN Result(c) ELSE got[w]]
  /\ IF pc[c] = "refused" THEN Return(c) ELSE Goto(c, "unregister") /\ UNCHANGED <<key, had>>
  /\ UNCHANGED <<cache, inflight, on, router, breaker>>

Publish(c) ==
  /\ pc[c] \in {"refused", "publish"}
  /\ entry' = [entry EXCEPT ![c] = Result(c)]
  /\ got' = [w \in Callers |-> IF on[w] = c /\ got[w] = "none" THEN Result(c) ELSE got[w]]
  /\ Goto(c, "unregister")
  /\ UNCHANGED <<cache, inflight, key, had, on, router, breaker>>

(* _unregister_inflight; nobody will fill the entry of a lost fetch. *)
Unregister(c) ==
  /\ pc[c] = "unregister"
  /\ inflight' = [inflight EXCEPT ![key[c]] = IF @ = c THEN NoOne ELSE @]
  /\ entry' = [entry EXCEPT ![c] = "none"]
  /\ on' = [w \in Callers |-> IF on[w] = c /\ entry[c] = "lost" THEN NoOne ELSE on[w]]
  /\ call' = [call EXCEPT ![c] = AtStart]
  /\ Return(c)
  /\ UNCHANGED <<cache, got, future, queue, abandoned, breaker>>

-----------------------------------------------------------------------------
(* The cache beside the callers *)

Expire(s) ==
  /\ cache[s] = "fresh"
  /\ cache' = [cache EXCEPT ![s] = "expired"]
  /\ UNCHANGED <<inflight, caller, router, breaker>>

(* invalidate, of one symbol or of all *)
Invalidate(S) ==
  /\ S = Symbols \/ Cardinality(S) = 1
  /\ cache' = [s \in Symbols |-> IF s \in S THEN "none" ELSE cache[s]]
  /\ UNCHANGED <<inflight, caller, router, breaker>>

(* purge_stale, of the rows older than some age *)
PurgeStale ==
  /\ \E old \in SUBSET {s \in Symbols : cache[s] # "none"} :
       /\ (\E s \in old : cache[s] = "fresh") => {s \in Symbols : cache[s] = "expired"} \subseteq old
       /\ cache' = [s \in Symbols |-> IF s \in old THEN "none" ELSE cache[s]]
  /\ UNCHANGED <<inflight, caller, router, breaker>>

-----------------------------------------------------------------------------

Fetch(c) == \/ Refuse(c) \/ Pass(c) \/ RecordFailure(c)
            \/ Submit(c) \/ SkipProvider(c) \/ CallTimesOut(c)
            \/ (\E outcome \in Outcomes : Answer(c, outcome))
            \/ Store(c) \/ StoreFails(c) \/ Publish(c) \/ Unregister(c)

(* What a caller does once it has asked. *)
Proceed(c) == \/ Hit(c) \/ Miss(c) \/ BecomeFetcher(c) \/ JoinFetcher(c)
              \/ WakeUp(c) \/ GiveUp(c) \/ Fetch(c)

Pool == Take \/ AbandonedReturns

Time == \E s \in Symbols : CooldownElapses(s) \/ FailureAges(s) \/ Expire(s)

Upkeep == PurgeStale \/ \E S \in SUBSET Symbols : Invalidate(S) \/ ResetCircuit(S)

Next == (\E c \in Callers : Ask(c) \/ Proceed(c)) \/ Pool \/ Time \/ Upkeep

Spec == Init /\ [][Next]_vars

(* Every wait of a caller has a timeout, so a caller's thread goes on.  No
   pool thread, provider or clock of the breaker is assumed to. *)
FairSpec == Spec /\ \A c \in Callers : WF_vars(Proceed(c))

-----------------------------------------------------------------------------
(* Properties *)

(* Every entry of _inflight has a caller behind it that is still fetching
   under that key, and a caller that fetches stands in the table: one fetch
   per key, and no slot left behind by any way out of get_quote. *)
FlightHasFetcher ==
  /\ \A k \in Keys : inflight[k] # NoOne => pc[inflight[k]] \in Fetching /\ key[inflight[k]] = k
  /\ \A c \in Callers : pc[c] \in Fetching => inflight[key[c]] = c

(* A waiter whose entry is empty waits for a fetcher of its own key that will
   still fill it, unless that fetch could not write its quote and raised. *)
WaiterIsServed ==
  \A w \in Callers : pc[w] = "waiting" /\ got[w] = "none" /\ on[w] # NoOne =>
    /\ key[on[w]] = key[w]
    /\ entry[on[w]] \in {"pending", "lost"}
    /\ pc[on[w]] \in Fetching

(* While the circuit of a symbol is open at most one fetch begins: that of the
   other key, which had looked at the breaker before it opened. *)
OpenCircuitSpares == \A s \in Symbols : sinceOpen[s] <= 1

(* get_quote always comes back, though every thread of the pool be lost to a
   provider that never answers. *)
EveryAskEnds == \A c \in Callers : pc[c] # "idle" ~> pc[c] = "idle"

=============================================================================
