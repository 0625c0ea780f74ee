-------------------------------- MODULE Intake --------------------------------
(***************************************************************************)
(* POST /payment-intents of the Express backend (paymentRoutes.ts), with   *)
(* what it reads: the idempotency keys, the quote of swapService.ts, the   *)
(* price of priceService.ts with its cache and its one request in flight,  *)
(* and the level that hotWalletMonitor.ts measures.                        *)
(*                                                                         *)
(* A tick is 30 seconds.  Ages count ticks and stop where nothing depends  *)
(* on them any more, so that the model needs no clock.                     *)
(***************************************************************************)
EXTENDS Integers, FiniteSets

CONSTANTS
    MaxCalls,          \* bound: requests
    Keys, NoKey,       \* values of X-Idempotency-Key, and its absence
    CACHE_DURATION,    \* 60 s
    MAX_STALENESS,     \* 2 minutes
    KEY_LIFE,          \* 10 minutes
    Balances,          \* of the hot wallet: "plenty", "little", "none"
    MaxChecks          \* bound: balance checks in flight

ASSUME IntakeAssumption ==
    /\ {MaxCalls, CACHE_DURATION, MAX_STALENESS, KEY_LIFE, MaxChecks} \subseteq Nat \ {0}
    /\ CACHE_DURATION <= MAX_STALENESS
    /\ NoKey \notin Keys /\ Balances \subseteq {"plenty", "little", "none"}

Calls    == 1 .. MaxCalls
Ids      == 1 .. MaxCalls + 1        \* milliseconds, numbered: pi_${Date.now()}
Levels   == {"UNKNOWN", "NORMAL", "WARNING", "CRITICAL"}

VARIABLES
    calls,     \* calls[c]: [stage, key, id, rate, before, age]
    intents,   \* intents[i]: the call whose intent the map holds, or 0
    idem,      \* idem[k]: [id, age], id 0 for no entry
    ms,        \* the millisecond of Date.now()
    cache,     \* the cached price: [age, market], both -1 for none
    fetch,     \* the oracle request in flight: [at, age]
    balance,   \* the hot wallet
    level,     \* statusCache.level
    checks     \* balance checks in flight: how many read each balance

priceVars   == <<cache, fetch>>
monitorVars == <<balance, level, checks>>
vars == <<calls, intents, idem, ms, priceVars, monitorVars>>

\* rate: the age of the market price in an intent that is being written, else -1.
\* before: the calls with the same key that had been given an intent of their
\* own, not longer than KEY_LIFE ago, when this one began.
\* age: ticks of the quote while it is awaited, then since the key was stored.
NotMade == [stage |-> "none", key |-> NoKey, id |-> 0, rate |-> -1, before |-> {}, age |-> 0]

Pending == {"quote", "price", "sync"}

TypeOK ==
    /\ calls \in [Calls -> [stage : Pending \cup {"none", "made", "repeated", "refused", "malformed"},
                            key : Keys \cup {NoKey}, id : Ids \cup {0},
                            rate : -1 .. MAX_STALENESS + 1, before : SUBSET Calls,
                            age : 0 .. KEY_LIFE]]
    /\ intents \in [Ids -> Calls \cup {0}]
    /\ idem \in [Keys -> [id : Ids \cup {0}, age : 0 .. KEY_LIFE]]
    /\ ms \in Ids
    /\ cache \in [age : -1 .. MAX_STALENESS, market : -1 .. MAX_STALENESS + 1]
    /\ fetch \in [at : {"nowhere", "coingecko", "jupiter", "fx"}, age : {0, 1}]
    /\ balance \in Balances /\ level \in Levels /\ checks \in [Balances -> 0 .. MaxChecks]

NoFetch == [at |-> "nowhere", age |-> 0]

\* start() runs the first check at once.
Init ==
    /\ calls = [c \in Calls |-> NotMade] /\ intents = [i \in Ids |-> 0]
    /\ idem = [k \in Keys |-> [id |-> 0, age |-> 0]] /\ ms = 1
    /\ cache = [age |-> -1, market |-> -1] /\ fetch = NoFetch
    /\ balance \in Balances /\ level = "UNKNOWN"
    /\ checks = [b \in Balances |-> IF b = balance THEN 1 ELSE 0]

-----------------------------------------------------------------------------
(***************************************************************************)
(* The request.                                                            *)
(***************************************************************************)
isCritical == level = "CRITICAL"

\* Mutant: the key is looked up after the hot wallet.
LiveUnlessPaused(k) ==
    k # NoKey /\ idem[k].id # 0 /\ idem[k].age < KEY_LIFE /\ intents[idem[k].id] # 0 /\ ~isCritical

Live(k) == k # NoKey /\ idem[k].id # 0 /\ idem[k].age < KEY_LIFE /\ intents[idem[k].id] # 0

Before(k) == {c \in Calls : k # NoKey /\ calls[c].key = k /\ calls[c].stage = "made"
                              /\ calls[c].age < KEY_LIFE}

Arrives(c, k, stage, id) ==
    /\ calls[c].stage = "none" /\ \A d \in 1 .. c - 1 : calls[d].stage # "none"
    /\ calls' = [calls EXCEPT ![c] = [NotMade EXCEPT !.stage = stage, !.key = k, !.id = id,
                                                     !.before = Before(k)]]
    /\ UNCHANGED <<intents, idem, priceVars, monitorVars>>

\* A key that has an intent answers with it, in a pause too.
Repeat(c, k) == Live(k) /\ Arrives(c, k, "repeated", idem[k].id) /\ UNCHANGED ms

\* Without a payload, before the key is looked up; else, if the key has no
\* intent, in a pause or for a bad payload or amount.
Refuse(c, k) ==
    /\ \/ Arrives(c, k, "malformed", 0)
       \/ ~Live(k) /\ Arrives(c, k, "refused", 0)
    /\ UNCHANGED ms

\* The identifier is taken here, before the awaits.  The millisecond may end.
Admit(c, k) ==
    ~Live(k) /\ ~isCritical /\ Arrives(c, k, "quote", ms) /\ ms' \in {ms, ms + 1}

\* An intent for each of the calls W goes into the map, with a rate from a
\* market price of some age.  Of two calls with one id the last is kept.
Make(W, age) ==
    /\ calls' = [c \in Calls |-> IF c \in W THEN [calls[c] EXCEPT !.stage = "sync", !.rate = age]
                                 ELSE calls[c]]
    /\ \E f \in [{calls[c].id : c \in W} -> W] :
          /\ \A i \in DOMAIN f : calls[f[i]].id = i
          /\ intents' = [i \in Ids |-> IF i \in DOMAIN f THEN f[i] ELSE intents[i]]

\* getQuote: the answer of Jupiter's route, within 8 seconds.
Quote(c) ==
    /\ calls[c].stage = "quote"
    /\ Make({c}, calls[c].age)
    /\ UNCHANGED <<idem, ms, priceVars, monitorVars>>

\* Without one, getPrice: from the cache, by joining the request in flight, or
\* by starting one.
QuoteFails(c) ==
    /\ calls[c].stage = "quote"
    /\ \/ /\ cache.age \in 0 .. CACHE_DURATION - 1
          /\ Make({c}, cache.market)
          /\ UNCHANGED fetch
       \/ /\ cache.age \notin 0 .. CACHE_DURATION - 1
          /\ calls' = [calls EXCEPT ![c].stage = "price"]
          /\ fetch' = IF fetch.at = "nowhere" THEN [at |-> "coingecko", age |-> 0] ELSE fetch
          /\ UNCHANGED intents
    /\ UNCHANGED <<idem, ms, cache, monitorVars>>

\* The row is written (or not: sync catches its errors), the key is stored, the
\* answer is sent.
Synced(c) ==
    /\ calls[c].stage = "sync"
    /\ calls' = [calls EXCEPT ![c].stage = "made", ![c].rate = -1,
                              ![c].age = IF calls[c].key = NoKey THEN KEY_LIFE ELSE 0]
    /\ idem' = IF calls[c].key = NoKey THEN idem
               ELSE [idem EXCEPT ![calls[c].key] = [id |-> calls[c].id, age |-> 0]]
    /\ UNCHANGED <<intents, ms, priceVars, monitorVars>>

\* Every minute, keys past their time are dropped.
CollectKeys ==
    /\ idem' = [k \in Keys |-> IF idem[k].age = KEY_LIFE THEN [id |-> 0, age |-> 0] ELSE idem[k]]
    /\ idem' # idem
    /\ UNCHANGED <<calls, intents, ms, priceVars, monitorVars>>

-----------------------------------------------------------------------------
(***************************************************************************)
(* fetchAndCachePrice.  The cache that it was called with is the cache:    *)
(* one request is in flight at a time and nothing else writes it.          *)
(***************************************************************************)
Waiting == {c \in Calls : calls[c].stage = "price"}

\* CoinGecko answers, or Jupiter has and the rate of the rupiah comes, from
\* either host (15800 where an answer has none), with a price no older than the
\* request.
OracleAnswers ==
    /\ fetch.at \in {"coingecko", "fx"}
    /\ cache' = [age |-> 0, market |-> fetch.age]
    /\ fetch' = NoFetch
    /\ Make(Waiting, fetch.age)
    /\ UNCHANGED <<idem, ms, monitorVars>>

CoinGeckoFails ==
    /\ fetch.at = "coingecko"
    /\ fetch' = [fetch EXCEPT !.at = "jupiter"]
    /\ UNCHANGED <<calls, intents, idem, ms, cache, monitorVars>>

\* Either host of Jupiter has a price, in dollars.
JupiterPrices ==
    /\ fetch.at = "jupiter"
    /\ fetch' = [fetch EXCEPT !.at = "fx"]
    /\ UNCHANGED <<calls, intents, idem, ms, cache, monitorVars>>

\* Mutant: the error reaches one of the waiting calls.
JupiterFailsAlone ==
    /\ fetch.at \in {"jupiter", "fx"}
    /\ fetch' = NoFetch
    /\ IF cache.age \in 0 .. MAX_STALENESS - 1
       THEN Make(Waiting, cache.market)
       ELSE /\ \E c \in Waiting : calls' = [calls EXCEPT ![c].stage = "refused"]
            /\ UNCHANGED intents
    /\ UNCHANGED <<idem, ms, cache, monitorVars>>

\* Mutant: the cached price is used whatever its age.
JupiterFailsStale ==
    /\ fetch.at \in {"jupiter", "fx"}
    /\ fetch' = NoFetch
    /\ IF cache.age >= 0
       THEN Make(Waiting, cache.market)
       ELSE /\ calls' = [c \in Calls |-> IF c \in Waiting THEN [calls[c] EXCEPT !.stage = "refused"]
                                         ELSE calls[c]]
            /\ UNCHANGED intents
    /\ UNCHANGED <<idem, ms, cache, monitorVars>>

\* The second oracle fails too, for the price or for the rupiah: the cached price if it is not too old, else an
\* error for every call that waits.
JupiterFails ==
    /\ fetch.at \in {"jupiter", "fx"}
    /\ fetch' = NoFetch
    /\ IF cache.age \in 0 .. MAX_STALENESS - 1
       THEN Make(Waiting, cache.market)
       ELSE /\ calls' = [c \in Calls |-> IF c \in Waiting THEN [calls[c] EXCEPT !.stage = "refused"]
                                         ELSE calls[c]]
            /\ UNCHANGED intents
    /\ UNCHANGED <<idem, ms, cache, monitorVars>>

-----------------------------------------------------------------------------
(***************************************************************************)
(* The hot wallet and its monitor.                                         *)
(***************************************************************************)
BalanceMoves ==
    /\ balance' \in Balances \ {balance}
    /\ UNCHANGED <<calls, intents, idem, ms, priceVars, level, checks>>

\* Mutant: a pause is not ended by a warning.
MeasureSticky(b) ==
    CASE b = "plenty" -> "NORMAL" [] b = "little" -> IF isCritical THEN level ELSE "WARNING"
      [] b = "none" -> "CRITICAL"

\* Mutant: the level of the log line.
MeasureLow(b) == IF b = "none" THEN "LOW" ELSE "NORMAL"

Measure(b) ==
    CASE b = "plenty" -> "NORMAL" [] b = "little" -> "WARNING" [] b = "none" -> "CRITICAL"

\* Every 15 minutes a check begins, whether the last one has ended or not.
CheckBegins ==
    /\ \A b \in Balances : checks[b] < MaxChecks
    /\ checks' = [checks EXCEPT ![balance] = @ + 1]
    /\ UNCHANGED <<calls, intents, idem, ms, priceVars, balance, level>>

\* The RPC node read balance b when the check began, or reads it now.
CheckAnswers(b) ==
    /\ checks[b] > 0
    /\ level' \in {Measure(b), Measure(balance)}
    /\ checks' = [checks EXCEPT ![b] = @ - 1]
    /\ UNCHANGED <<calls, intents, idem, ms, priceVars, balance>>

\* A check that fails leaves the level as it was.
CheckFails(b) ==
    /\ checks[b] > 0
    /\ checks' = [checks EXCEPT ![b] = @ - 1]
    /\ UNCHANGED <<calls, intents, idem, ms, priceVars, balance, level>>

-----------------------------------------------------------------------------
Older(n, most) == IF n < most THEN n + 1 ELSE n

\* Half a minute passes.  The oracle requests, five at most, have 3 seconds each
\* and the route 8, so none lasts longer.
Tick ==
    /\ fetch.age = 0
    /\ \A c \in Calls : calls[c].stage = "quote" => calls[c].age = 0
    /\ calls' = [c \in Calls |->
                    [calls[c] EXCEPT !.age = IF calls[c].stage \in {"quote", "made"}
                                             THEN Older(@, KEY_LIFE) ELSE @]]
    /\ idem' = [k \in Keys |-> [idem[k] EXCEPT !.age = IF idem[k].id = 0 THEN 0
                                                       ELSE Older(@, KEY_LIFE)]]
    /\ ms' = IF \E c \in Calls : calls[c].id = ms THEN ms + 1 ELSE ms
    /\ cache' = IF cache.age = -1 THEN cache
                ELSE [age |-> Older(cache.age, MAX_STALENESS),
                      market |-> Older(cache.market, MAX_STALENESS + 1)]
    /\ fetch' = IF fetch.at = "nowhere" THEN fetch ELSE [fetch EXCEPT !.age = 1]
    /\ UNCHANGED <<intents, monitorVars>>

Next ==
    \/ \E c \in Calls, k \in Keys \cup {NoKey} : Repeat(c, k) \/ Refuse(c, k) \/ Admit(c, k)
    \/ \E c \in Calls : Quote(c) \/ QuoteFails(c) \/ Synced(c)
    \/ CollectKeys \/ OracleAnswers \/ CoinGeckoFails \/ JupiterPrices \/ JupiterFails
    \/ BalanceMoves \/ CheckBegins \/ \E b \in Balances : CheckAnswers(b) \/ CheckFails(b)
    \/ Tick

\* Every await of a request ends: the fetches by their timeouts, the write of
\* the row by its own.  Checks keep beginning, and end.
Fairness ==
    /\ \A c \in Calls : WF_vars(Quote(c) \/ QuoteFails(c)) /\ WF_vars(Synced(c))
    /\ WF_vars(OracleAnswers \/ CoinGeckoFails \/ JupiterPrices \/ JupiterFails)
    /\ WF_vars(CheckBegins) /\ \A b \in Balances : WF_vars(CheckAnswers(b) \/ CheckFails(b))

Spec == Init /\ [][Next]_vars /\ Fairness

-----------------------------------------------------------------------------
\* No intent is made with a market price older than two minutes and the one
\* request that brought it, whichever way the price reached the call: fresh,
\* from the cache, from a request another call had started, or as a fallback.
PriceFresh == \A c \in Calls : calls[c].rate <= MAX_STALENESS

\* A call whose key was answered less than ten minutes ago makes no intent.
\* Unless it lacks a payload, it is answered with one that an earlier call with
\* the key made, also while new payments are paused.  It holds that call's data
\* unless two calls took one millisecond.
RepeatGetsOne ==
    \A c \in Calls : calls[c].before # {} /\ calls[c].stage # "malformed" =>
        \E d \in calls[c].before :
            /\ calls[c].stage = "repeated" /\ calls[c].id = calls[d].id
            /\ (\A e \in Calls \ {d} : calls[e].stage \in Pending \cup {"made"}
                                          => calls[e].id # calls[d].id)
               => intents[calls[c].id] = d

\* If the balance stays what it is and checks do not fail for ever, new payments
\* are in the end paused if it is below the limit, and only then: a check that
\* answers late with an old balance does not decide for good.
LevelFollows ==
    \A b \in Balances :
        <>[](balance = b) /\ SF_vars(CheckAnswers(b)) => <>[](isCritical <=> b = "none")

\* Every call that awaits something is answered: a call that joined the oracle
\* request of another too.
CallAnswered == \A c \in Calls : calls[c].stage \in Pending ~> calls[c].stage \notin Pending

=============================================================================
