------------------------------ MODULE IntakeProofs ------------------------------
(***************************************************************************)
(* Proofs about POST /payment-intents: the types, the age of the price an  *)
(* intent is written with, and the answer to a repeated key.               *)
(***************************************************************************)
EXTENDS Intake, TLAPS

\* Calls begin in the order of their numbers and each passes at most one
\* millisecond, so that no identifier, and not the clock, outruns the calls.
Numbered ==
    /\ \A c \in Calls : calls[c].id <= c /\ calls[c].id <= ms
    /\ \A k \in Keys : idem[k].id <= ms
    /\ \A c \in Calls : calls[c].stage = "none" =>
          /\ calls[c].id = 0 /\ ms <= c
          /\ \A d \in Calls : c <= d => calls[d].stage = "none"

\* A cached price was at most a tick old when it came, and so is the answer of
\* the route.
Fresh ==
    /\ cache.market <= cache.age + 1
    /\ \A c \in Calls : calls[c].stage = "quote" => calls[c].age <= 1

\* What the map holds under an identifier is an intent of a call with it, and
\* it holds one for every call that has passed its awaits.
Kept ==
    /\ \A c \in Calls : calls[c].stage \in Pending \cup {"made"} => calls[c].id \in Ids
    /\ \A c \in Calls : calls[c].stage \in {"sync", "made"} => intents[calls[c].id] # 0
    /\ \A i \in Ids : intents[i] # 0 =>
          calls[intents[i]].id = i /\ calls[intents[i]].stage \in {"sync", "made"}

\* The entry of a key is that of the last call made with it, as old as that call
\* is, and stays until all of them are too old.
KeyEntry ==
    /\ \A k \in Keys : idem[k].id # 0 =>
          \E e \in Calls : /\ calls[e].stage = "made" /\ calls[e].key = k
                           /\ calls[e].id = idem[k].id /\ calls[e].age = idem[k].age
    /\ \A d \in Calls : calls[d].stage = "made" /\ calls[d].key \in Keys
                          /\ calls[d].age < KEY_LIFE =>
          idem[calls[d].key].id # 0 /\ idem[calls[d].key].age <= calls[d].age

\* A call with a payload that began while its key was young was answered with a
\* made call's id.
Repeats ==
    \A c \in Calls : calls[c].before # {} /\ calls[c].stage # "malformed" =>
        /\ calls[c].stage = "repeated"
        /\ \E d \in calls[c].before : calls[d].stage = "made" /\ calls[c].id = calls[d].id

IInv == TypeOK /\ Numbered /\ Fresh /\ PriceFresh /\ Kept /\ KeyEntry /\ Repeats

-----------------------------------------------------------------------------
(***************************************************************************)
(* Types.                                                                  *)
(***************************************************************************)
CallType ==
    [stage : Pending \cup {"none", "made", "repeated", "refused", "malformed"},
     key : Keys \cup {NoKey}, id : Ids \cup {0}, rate : -1 .. MAX_STALENESS + 1,
     before : SUBSET Calls, age : 0 .. KEY_LIFE]

\* The constants are numbers of the size the code gives them.
LEMMA Numbers ==
    /\ MaxCalls \in Nat \ {0} /\ CACHE_DURATION \in Nat \ {0} /\ MAX_STALENESS \in Nat \ {0}
    /\ KEY_LIFE \in Nat \ {0} /\ MaxChecks \in Nat \ {0}
    /\ CACHE_DURATION <= MAX_STALENESS /\ NoKey \notin Keys
BY IntakeAssumption DEF IntakeAssumption

\* A request that arrives is a call like the others, and the only one to change.
LEMMA ArrivesTyped ==
    ASSUME TypeOK, NEW c \in Calls, NEW k \in Keys \cup {NoKey},
           NEW stage \in {"repeated", "refused", "malformed", "quote"}, NEW id \in Ids \cup {0},
           Arrives(c, k, stage, id)
    PROVE  /\ calls' \in [Calls -> CallType]
           /\ calls'[c].stage = stage /\ calls'[c].key = k /\ calls'[c].id = id
           /\ calls'[c].rate = -1 /\ calls'[c].before = Before(k) /\ calls'[c].age = 0
           /\ \A d \in Calls \ {c} : calls'[d] = calls[d]
<1>1. Before(k) \in SUBSET Calls
  BY DEF Before
<1> DEFINE new == [stage |-> stage, key |-> k, id |-> id, rate |-> -1,
                   before |-> Before(k), age |-> 0]
<1>2. [NotMade EXCEPT !.stage = stage, !.key = k, !.id = id, !.before = Before(k)] = new
  <2> DEFINE rec(x, y, z) == [stage |-> stage, key |-> x, id |-> y, rate |-> -1,
                              before |-> z, age |-> 0]
  <2>1. [NotMade EXCEPT !.stage = stage] = rec(NoKey, 0, {})
    BY DEF NotMade
  <2>2. [rec(NoKey, 0, {}) EXCEPT !.key = k] = rec(k, 0, {})
    OBVIOUS
  <2>3. [rec(k, 0, {}) EXCEPT !.id = id] = rec(k, id, {})
    OBVIOUS
  <2>4. [rec(k, id, {}) EXCEPT !.before = Before(k)] = rec(k, id, Before(k))
    OBVIOUS
  <2>5. new = rec(k, id, Before(k))
    OBVIOUS
  <2> HIDE DEF rec, new
  <2> QED
    BY <2>1, <2>2, <2>3, <2>4, <2>5, Zenon
<1>3. calls' = [calls EXCEPT ![c] = new]
  BY <1>2 DEF Arrives
<1>4. new \in CallType
  <2>1. -1 \in -1 .. MAX_STALENESS + 1 /\ 0 \in 0 .. KEY_LIFE
    BY Numbers
  <2>2. stage \in Pending \cup {"none", "made", "repeated", "refused", "malformed"}
    BY DEF Pending
  <2> QED
    BY <1>1, <2>1, <2>2 DEF CallType
<1>5. calls \in [Calls -> CallType]
  BY DEF TypeOK, CallType
<1> QED
  BY <1>3, <1>4, <1>5

\* A call that is given another stage, rate or age of its type stays a call.
LEMMA CallTyped ==
    ASSUME NEW r \in CallType, NEW n \in 0 .. KEY_LIFE, NEW x \in -1 .. MAX_STALENESS + 1,
           NEW stage \in Pending \cup {"made", "refused"}
    PROVE  /\ [r EXCEPT !.stage = stage] \in CallType
           /\ [r EXCEPT !.age = n] \in CallType
           /\ [r EXCEPT !.stage = stage, !.rate = x] \in CallType
           /\ [r EXCEPT !.stage = "made", !.rate = -1, !.age = n] \in CallType
<1>1. \A q \in CallType : /\ [q EXCEPT !.stage = stage] \in CallType
                         /\ [q EXCEPT !.stage = "made"] \in CallType
  BY DEF CallType
<1>2. -1 \in -1 .. MAX_STALENESS + 1
  BY Numbers
<1>3. \A q \in CallType : /\ [q EXCEPT !.rate = x] \in CallType
                         /\ [q EXCEPT !.rate = -1] \in CallType
  BY <1>2 DEF CallType
<1>4. \A q \in CallType : [q EXCEPT !.age = n] \in CallType
  BY DEF CallType
<1> QED
  BY <1>1, <1>3, <1>4, Zenon

\* Intents are made for calls with an identifier, of a price of some age.
LEMMA MakeTyped ==
    ASSUME TypeOK, NEW W \in SUBSET Calls, \A c \in W : calls[c].id \in Ids,
           NEW age \in -1 .. MAX_STALENESS + 1, Make(W, age)
    PROVE  calls' \in [Calls -> CallType] /\ intents' \in [Ids -> Calls \cup {0}]
<1>1. calls \in [Calls -> CallType] /\ intents \in [Ids -> Calls \cup {0}]
  BY DEF TypeOK, CallType
<1>2. ASSUME NEW c \in Calls
      PROVE  [calls[c] EXCEPT !.stage = "sync", !.rate = age] \in CallType
  <2>1. calls[c] \in CallType
    BY <1>1
  <2>2. "sync" \in Pending \cup {"made", "refused"} /\ 0 \in 0 .. KEY_LIFE
    BY Numbers DEF Pending
  <2> QED
    BY <2>1, <2>2, CallTyped, Zenon
<1>3. calls' \in [Calls -> CallType]
  BY <1>1, <1>2 DEF Make
<1>4. PICK f \in [{calls[c].id : c \in W} -> W] :
          intents' = [i \in Ids |-> IF i \in DOMAIN f THEN f[i] ELSE intents[i]]
  BY DEF Make
<1>5. intents' \in [Ids -> Calls \cup {0}]
  BY <1>1, <1>4
<1> QED
  BY <1>3, <1>5

\* Ages stop at their bound.
LEMMA OlderTyped ==
    ASSUME NEW most \in Nat, NEW n \in Int, n <= most
    PROVE  Older(n, most) \in Int /\ n <= Older(n, most) /\ Older(n, most) <= most
           /\ Older(n, most) <= n + 1
BY DEF Older

\* Each step keeps the types.
LEMMA TypeInductive ==
    ASSUME TypeOK, Numbered, Fresh, Kept, [Next]_vars
    PROVE  TypeOK'
<1> USE Numbers
<1>t. /\ calls \in [Calls -> CallType] /\ intents \in [Ids -> Calls \cup {0}]
      /\ idem \in [Keys -> [id : Ids \cup {0}, age : 0 .. KEY_LIFE]] /\ ms \in Ids
      /\ cache \in [age : -1 .. MAX_STALENESS, market : -1 .. MAX_STALENESS + 1]
      /\ fetch \in [at : {"nowhere", "coingecko", "jupiter", "fx"}, age : {0, 1}]
      /\ balance \in Balances /\ level \in Levels /\ checks \in [Balances -> 0 .. MaxChecks]
  BY DEF TypeOK, CallType
<1>g. ASSUME calls' \in [Calls -> CallType], intents' \in [Ids -> Calls \cup {0}],
             idem' \in [Keys -> [id : Ids \cup {0}, age : 0 .. KEY_LIFE]], ms' \in Ids,
             cache' \in [age : -1 .. MAX_STALENESS, market : -1 .. MAX_STALENESS + 1],
             fetch' \in [at : {"nowhere", "coingecko", "jupiter", "fx"}, age : {0, 1}],
             balance' \in Balances, level' \in Levels,
             checks' \in [Balances -> 0 .. MaxChecks]
      PROVE  TypeOK'
  BY <1>g DEF TypeOK, CallType
<1>p. \A c \in Calls : calls[c].stage \in Pending => calls[c].id \in Ids
  BY DEF Kept
<1>1. ASSUME NEW c \in Calls, NEW k \in Keys \cup {NoKey}, Repeat(c, k) PROVE TypeOK'
  <2>1. idem[k].id \in Ids \cup {0}
    BY <1>1, <1>t DEF Repeat, Live
  <2>2. calls' \in [Calls -> CallType]
    BY <1>1, <2>1, ArrivesTyped DEF Repeat
  <2> QED
    BY <1>1, <2>2, <1>t, <1>g DEF Repeat, Arrives, priceVars, monitorVars
<1>2. ASSUME NEW c \in Calls, NEW k \in Keys \cup {NoKey}, Refuse(c, k) PROVE TypeOK'
  <2>2. calls' \in [Calls -> CallType]
    BY <1>2, ArrivesTyped DEF Refuse
  <2> QED
    BY <1>2, <2>2, <1>t, <1>g DEF Refuse, Arrives, priceVars, monitorVars
<1>3. ASSUME NEW c \in Calls, NEW k \in Keys \cup {NoKey}, Admit(c, k) PROVE TypeOK'
  <2>1. calls' \in [Calls -> CallType]
    BY <1>3, <1>t, ArrivesTyped DEF Admit
  <2>2. ms' \in Ids
    BY <1>3, <1>t DEF Admit, Arrives, Numbered, Ids, Calls
  <2> QED
    BY <1>3, <2>1, <2>2, <1>t, <1>g DEF Admit, Arrives, priceVars, monitorVars
<1>4. ASSUME NEW c \in Calls, Quote(c) PROVE TypeOK'
  <2>1. calls[c].age \in -1 .. MAX_STALENESS + 1
    BY <1>4, <1>t DEF Quote, Fresh, CallType
  <2>2. calls' \in [Calls -> CallType] /\ intents' \in [Ids -> Calls \cup {0}]
    BY <1>4, <2>1, <1>p, MakeTyped DEF Quote, Pending
  <2> QED
    BY <1>4, <2>2, <1>t, <1>g DEF Quote, priceVars, monitorVars
<1>5. ASSUME NEW c \in Calls, QuoteFails(c) PROVE TypeOK'
  <2>1. calls' \in [Calls -> CallType] /\ intents' \in [Ids -> Calls \cup {0}]
    <3>1. CASE Make({c}, cache.market)
      BY <1>5, <3>1, <1>t, <1>p, MakeTyped DEF QuoteFails, Pending
    <3>2. CASE calls' = [calls EXCEPT ![c].stage = "price"] /\ UNCHANGED intents
      <4>1. calls[c] \in CallType /\ 0 \in 0 .. KEY_LIFE
        BY <1>t
      <4>2. [calls[c] EXCEPT !.stage = "price"] \in CallType
        BY <4>1 DEF CallType, Pending
      <4> QED
        BY <3>2, <4>2, <1>t
    <3> QED
      BY <1>5, <3>1, <3>2 DEF QuoteFails
  <2>2. fetch' \in [at : {"nowhere", "coingecko", "jupiter", "fx"}, age : {0, 1}]
    BY <1>5, <1>t DEF QuoteFails
  <2> QED
    BY <1>5, <2>1, <2>2, <1>t, <1>g DEF QuoteFails, monitorVars
<1>6. ASSUME NEW c \in Calls, Synced(c) PROVE TypeOK'
  <2> DEFINE n == IF calls[c].key = NoKey THEN KEY_LIFE ELSE 0
  <2>1. n \in 0 .. KEY_LIFE
    OBVIOUS
  <2>2. [calls[c] EXCEPT !.stage = "made", !.rate = -1, !.age = n] \in CallType
    BY <2>1, <1>t, CallTyped DEF Pending
  <2>3. calls' = [calls EXCEPT ![c] = [calls[c] EXCEPT !.stage = "made", !.rate = -1, !.age = n]]
    BY <1>6, <1>t DEF Synced, CallType
  <2>4. calls' \in [Calls -> CallType]
    BY <2>2, <2>3, <1>t
  <2>5. idem' \in [Keys -> [id : Ids \cup {0}, age : 0 .. KEY_LIFE]]
    BY <1>6, <1>t DEF Synced, CallType
  <2> QED
    BY <1>6, <2>4, <2>5, <1>t, <1>g DEF Synced, priceVars, monitorVars
<1>7. ASSUME CollectKeys PROVE TypeOK'
  BY <1>7, <1>t, <1>g DEF CollectKeys, priceVars, monitorVars
<1>8. ASSUME OracleAnswers PROVE TypeOK'
  <2>0. fetch.age \in -1 .. MAX_STALENESS + 1
    BY <1>t
  <2>1. calls' \in [Calls -> CallType] /\ intents' \in [Ids -> Calls \cup {0}]
    BY <1>8, <2>0, <1>p, MakeTyped DEF OracleAnswers, Waiting, Pending
  <2>2. cache' \in [age : -1 .. MAX_STALENESS, market : -1 .. MAX_STALENESS + 1]
    BY <1>8, <1>t DEF OracleAnswers
  <2> QED
    BY <1>8, <2>1, <2>2, <1>t, <1>g DEF OracleAnswers, NoFetch, monitorVars
<1>9. ASSUME CoinGeckoFails PROVE TypeOK'
  BY <1>9, <1>t, <1>g DEF CoinGeckoFails, monitorVars
<1>10. ASSUME JupiterPrices PROVE TypeOK'
  BY <1>10, <1>t, <1>g DEF JupiterPrices, monitorVars
<1>11. ASSUME JupiterFails PROVE TypeOK'
  <2>1. calls' \in [Calls -> CallType] /\ intents' \in [Ids -> Calls \cup {0}]
    <3>1. CASE Make(Waiting, cache.market)
      BY <1>11, <3>1, <1>t, <1>p, MakeTyped DEF JupiterFails, Waiting, Pending
    <3>2. CASE /\ calls' = [c \in Calls |-> IF c \in Waiting
                                            THEN [calls[c] EXCEPT !.stage = "refused"]
                                            ELSE calls[c]]
               /\ UNCHANGED intents
      <4>1. ASSUME NEW c \in Calls PROVE [calls[c] EXCEPT !.stage = "refused"] \in CallType
        <5>1. calls[c] \in CallType
          BY <1>t
        <5> QED
          BY <5>1 DEF CallType
      <4> QED
        BY <3>2, <4>1, <1>t
    <3> QED
      BY <1>11, <3>1, <3>2 DEF JupiterFails
  <2> QED
    BY <1>11, <2>1, <1>t, <1>g DEF JupiterFails, NoFetch, monitorVars
<1>12. ASSUME BalanceMoves PROVE TypeOK'
  BY <1>12, <1>t, <1>g DEF BalanceMoves, priceVars
<1>13. ASSUME CheckBegins PROVE TypeOK'
  <2>1. checks' \in [Balances -> 0 .. MaxChecks]
    BY <1>13, <1>t DEF CheckBegins
  <2> QED
    BY <1>13, <2>1, <1>t, <1>g DEF CheckBegins, priceVars
<1>14. ASSUME NEW b \in Balances, CheckAnswers(b) \/ CheckFails(b) PROVE TypeOK'
  <2>1. checks' \in [Balances -> 0 .. MaxChecks]
    BY <1>14, <1>t DEF CheckAnswers, CheckFails
  <2>2. level' \in Levels
    <3>1. \A x \in Balances : Measure(x) \in Levels
      BY IntakeAssumption DEF IntakeAssumption, Measure, Levels
    <3> QED
      BY <1>14, <1>t, <3>1 DEF CheckAnswers, CheckFails
  <2> QED
    BY <1>14, <2>1, <2>2, <1>t, <1>g DEF CheckAnswers, CheckFails, priceVars
<1>15. ASSUME Tick PROVE TypeOK'
  <2>1. ASSUME NEW c \in Calls
        PROVE  calls'[c] \in CallType
    <3>1. Older(calls[c].age, KEY_LIFE) \in 0 .. KEY_LIFE
      BY <1>t DEF Older, CallType
    <3>2. calls[c] \in CallType
      BY <1>t
    <3>3. [calls[c] EXCEPT !.age = IF calls[c].stage \in {"quote", "made"}
                                  THEN Older(calls[c].age, KEY_LIFE) ELSE calls[c].age] \in CallType
      BY <3>1, <3>2 DEF CallType
    <3> QED
      BY <1>15, <3>3, Zenon DEF Tick
  <2>2. calls' \in [Calls -> CallType]
    BY <1>15, <2>1 DEF Tick
  <2>3. idem' \in [Keys -> [id : Ids \cup {0}, age : 0 .. KEY_LIFE]]
    BY <1>15, <1>t DEF Tick, Older
  <2>4. ms' \in Ids
    BY <1>15, <1>t DEF Tick, Numbered, Ids, Calls
  <2>5. cache' \in [age : -1 .. MAX_STALENESS, market : -1 .. MAX_STALENESS + 1]
    BY <1>15, <1>t DEF Tick, Older
  <2>6. fetch' \in [at : {"nowhere", "coingecko", "jupiter", "fx"}, age : {0, 1}]
    BY <1>15, <1>t DEF Tick
  <2> QED
    BY <1>15, <2>2, <2>3, <2>4, <2>5, <2>6, <1>t, <1>g DEF Tick, monitorVars
<1>16. CASE UNCHANGED vars
  BY <1>16, <1>t, <1>g DEF vars, priceVars, monitorVars
<1> QED
  BY <1>1, <1>2, <1>3, <1>4, <1>5, <1>6, <1>7, <1>8, <1>9, <1>10, <1>11, <1>12, <1>13,
     <1>14, <1>15, <1>16 DEF Next

-----------------------------------------------------------------------------
(***************************************************************************)
(* What a step may do to a call that has begun.                            *)
(***************************************************************************)
Steady ==
    \A c \in Calls :
        /\ calls'[c].id = calls[c].id /\ calls'[c].key = calls[c].key
        /\ calls'[c].before = calls[c].before
        /\ calls[c].stage = "none" <=> calls'[c].stage = "none"
        /\ calls[c].stage = "made" => calls'[c].stage = "made"
        /\ calls[c].stage = "sync" => calls'[c].stage \in {"sync", "made"}
        /\ calls[c].stage = "repeated" => calls'[c].stage = "repeated"
        /\ calls[c].stage = "malformed" => calls'[c].stage = "malformed"
        /\ calls'[c].stage \in Pending \cup {"made"} => calls[c].stage \in Pending \cup {"made"}

\* The calls a price comes to go on to the row, the others stay what they are.
LEMMA MakeSteady ==
    ASSUME TypeOK, NEW W, NEW age, Make(W, age),
           \A c \in W : calls[c].stage \in {"quote", "price"}
    PROVE  /\ Steady
           /\ \A c \in Calls : c \in W => calls'[c].stage = "sync" /\ calls'[c].rate = age
           /\ \A c \in Calls : c \notin W => calls'[c] = calls[c]
<1>1. ASSUME NEW c \in Calls
      PROVE  calls[c] \in CallType
  BY DEF TypeOK, CallType
<1>2. ASSUME NEW c \in Calls, c \in W
      PROVE  /\ calls'[c].id = calls[c].id /\ calls'[c].key = calls[c].key
             /\ calls'[c].before = calls[c].before
             /\ calls'[c].stage = "sync" /\ calls'[c].rate = age
  <2> DEFINE r == [calls[c] EXCEPT !.stage = "sync"]
  <2>1. /\ r \in CallType /\ r.stage = "sync" /\ r.id = calls[c].id /\ r.key = calls[c].key
        /\ r.before = calls[c].before
    BY <1>1 DEF CallType, Pending
  <2>2. calls'[c] = [r EXCEPT !.rate = age]
    BY <1>2, Zenon DEF Make
  <2> HIDE DEF r
  <2> QED
    BY <2>1, <2>2 DEF CallType
<1>3. ASSUME NEW c \in Calls, c \notin W
      PROVE  calls'[c] = calls[c]
  BY <1>3 DEF Make
<1> QED
  BY <1>1, <1>2, <1>3 DEF Steady, Pending, CallType

\* A step begins one call or leaves what identifies every call alone.
LEMMA StepCases ==
    ASSUME TypeOK, [Next]_vars
    PROVE  \/ \E c \in Calls, k \in Keys \cup {NoKey} : Repeat(c, k) \/ Refuse(c, k) \/ Admit(c, k)
           \/ Steady
<1>1. \A c \in Calls : calls[c] \in CallType
  BY DEF TypeOK, CallType
<1>2. ASSUME UNCHANGED calls PROVE Steady
  BY <1>2 DEF Steady
<1>3. ASSUME NEW c \in Calls, Quote(c) PROVE Steady
  BY <1>3, MakeSteady DEF Quote
<1>4. ASSUME NEW c \in Calls, QuoteFails(c) PROVE Steady
  <2>1. CASE Make({c}, cache.market)
    BY <1>4, <2>1, MakeSteady DEF QuoteFails
  <2>2. CASE calls' = [calls EXCEPT ![c].stage = "price"]
    BY <1>4, <2>2, <1>1 DEF QuoteFails, Steady, Pending, CallType, TypeOK
  <2> QED
    BY <1>4, <2>1, <2>2 DEF QuoteFails
<1>5. ASSUME NEW c \in Calls, Synced(c) PROVE Steady
  BY <1>5, <1>1 DEF Synced, Steady, Pending, CallType, TypeOK
<1>6. ASSUME OracleAnswers PROVE Steady
  BY <1>6, MakeSteady DEF OracleAnswers, Waiting
<1>7. ASSUME JupiterFails PROVE Steady
  <2>1. CASE Make(Waiting, cache.market)
    BY <2>1, MakeSteady DEF Waiting
  <2>2. CASE calls' = [c \in Calls |-> IF c \in Waiting
                                      THEN [calls[c] EXCEPT !.stage = "refused"]
                                      ELSE calls[c]]
    BY <2>2, <1>1 DEF Waiting, Steady, Pending, CallType
  <2> QED
    BY <1>7, <2>1, <2>2 DEF JupiterFails
<1>8. ASSUME Tick PROVE Steady
  BY <1>8, <1>1 DEF Tick, Steady, CallType
<1> QED
  BY <1>2, <1>3, <1>4, <1>5, <1>6, <1>7, <1>8
     DEF Next, vars, CollectKeys, CoinGeckoFails, JupiterPrices, BalanceMoves, CheckBegins,
         CheckAnswers, CheckFails

\* What the key table, the clock and the map do in a step that begins no call.
LEMMA TableCases ==
    ASSUME TypeOK, [Next]_vars
    PROVE  /\ \A k \in Keys : \/ idem'[k].id \in {0, idem[k].id}
                              \/ \E c \in Calls : calls[c].key = k /\ idem'[k].id = calls[c].id
           /\ ms' = ms \/ (\E c \in Calls : calls[c].id = ms /\ ms' = ms + 1)
              \/ (\E c \in Calls, k \in Keys \cup {NoKey} : Admit(c, k))
<1>1. /\ idem \in [Keys -> [id : Ids \cup {0}, age : 0 .. KEY_LIFE]]
      /\ \A c \in Calls : calls[c].key \in Keys \cup {NoKey}
  BY DEF TypeOK
<1>2. ASSUME NEW k \in Keys
      PROVE  \/ idem'[k].id \in {0, idem[k].id}
             \/ \E c \in Calls : calls[c].key = k /\ idem'[k].id = calls[c].id
  <2>1. ASSUME NEW c \in Calls, Synced(c)
        PROVE  \/ idem'[k].id = idem[k].id
               \/ calls[c].key = k /\ idem'[k].id = calls[c].id
    BY <2>1, <1>1 DEF Synced
  <2>2. CASE CollectKeys
    BY <2>2, <1>1 DEF CollectKeys
  <2>3. CASE Tick
    BY <2>3, <1>1 DEF Tick
  <2>4. CASE UNCHANGED idem
    BY <2>4
  <2> QED
    BY <2>1, <2>2, <2>3, <2>4
       DEF Next, vars, Repeat, Refuse, Admit, Arrives, Quote, QuoteFails, OracleAnswers,
           JupiterFails, CoinGeckoFails, JupiterPrices, BalanceMoves, CheckBegins,
           CheckAnswers, CheckFails
<1>3. ms' = ms \/ (\E c \in Calls : calls[c].id = ms /\ ms' = ms + 1)
      \/ (\E c \in Calls, k \in Keys \cup {NoKey} : Admit(c, k))
  BY DEF Next, vars, Tick, Repeat, Refuse, Quote, QuoteFails, Synced, CollectKeys,
         OracleAnswers, JupiterFails, CoinGeckoFails, JupiterPrices, BalanceMoves,
         CheckBegins, CheckAnswers, CheckFails
<1> QED
  BY <1>2, <1>3

\* No identifier and no millisecond outruns the calls.
LEMMA NumberedInductive ==
    ASSUME TypeOK, Numbered, [Next]_vars
    PROVE  Numbered'
<1>1. /\ \A c \in Calls : calls[c] \in CallType
      /\ ms \in Ids /\ idem \in [Keys -> [id : Ids \cup {0}, age : 0 .. KEY_LIFE]]
  BY DEF TypeOK, CallType
<1>i. (\A c \in Calls : calls[c].id \in Nat) /\ ms \in Nat /\ \A k \in Keys : idem[k].id \in Nat
  BY <1>1, Numbers DEF CallType, Ids
<1>2. Ids \subseteq Nat /\ Calls \subseteq Nat /\ \A i \in Ids : i >= 1
  BY Numbers DEF Ids, Calls
<1>3. ASSUME NEW c \in Calls, NEW k \in Keys \cup {NoKey},
             NEW stage \in {"repeated", "refused", "malformed", "quote"}, NEW id \in Ids \cup {0},
             Arrives(c, k, stage, id), id <= ms, UNCHANGED ms \/ ms' = ms + 1
      PROVE  Numbered'
  <2>1. /\ calls'[c].id = id /\ calls'[c].stage # "none"
        /\ \A d \in Calls \ {c} : calls'[d] = calls[d]
    BY <1>3, ArrivesTyped
  <2>2. ms <= c /\ UNCHANGED idem /\ \A d \in Calls : d < c => calls[d].stage # "none"
    BY <1>3, <1>2 DEF Arrives, Numbered, Calls
  <2>3. \A d \in Calls : calls'[d].id <= d /\ calls'[d].id <= ms'
    BY <1>3, <1>i, <1>2, <2>1, <2>2 DEF Numbered
  <2>4. \A i \in Keys : idem'[i].id <= ms'
    BY <1>3, <1>1, <1>2, <2>2 DEF Numbered
  <2>5. ASSUME NEW d \in Calls, calls'[d].stage = "none"
        PROVE  calls'[d].id = 0 /\ ms' <= d /\ \A e \in Calls : d <= e => calls'[e].stage = "none"
    <3>1. d # c /\ calls[d].stage = "none" /\ c < d
      BY <2>1, <2>2, <2>5, <1>2
    <3> QED
      BY <3>1, <2>1, <2>2, <1>1, <1>2, <1>3 DEF Numbered
  <2> QED
    BY <2>3, <2>4, <2>5 DEF Numbered
<1>4. ASSUME NEW c \in Calls, NEW k \in Keys \cup {NoKey},
             Repeat(c, k) \/ Refuse(c, k) \/ Admit(c, k)
      PROVE  Numbered'
  <2>1. CASE Repeat(c, k)
    <3>1. idem[k].id \in Ids \cup {0} /\ idem[k].id <= ms
      BY <2>1, <1>1 DEF Repeat, Live, Numbered
    <3> QED
      BY <2>1, <3>1, <1>3 DEF Repeat
  <2>2. CASE Refuse(c, k)
    BY <2>2, <1>1, <1>2, <1>3 DEF Refuse
  <2>3. CASE Admit(c, k)
    BY <2>3, <1>1, <1>2, <1>3 DEF Admit
  <2> QED
    BY <1>4, <2>1, <2>2, <2>3
<1>5. ASSUME Steady, \A c \in Calls, k \in Keys \cup {NoKey} : ~Admit(c, k)
      PROVE  Numbered'
  <2>1. ms' = ms \/ (\E c \in Calls : calls[c].id = ms /\ ms' = ms + 1)
    BY <1>5, TableCases
  <2>2. ms <= ms' /\ ms' \in Nat
    BY <2>1, <1>1, <1>2
  <2>3. \A c \in Calls : calls'[c].id <= c /\ calls'[c].id <= ms'
    BY <1>5, <2>2, <1>i, <1>2 DEF Numbered, Steady
  <2>4. ASSUME NEW k \in Keys PROVE idem'[k].id <= ms'
    <3>1. \/ idem'[k].id \in {0, idem[k].id}
          \/ \E c \in Calls : calls[c].key = k /\ idem'[k].id = calls[c].id
      BY TableCases
    <3>2. idem'[k].id <= ms
      BY <3>1, <1>i DEF Numbered
    <3>3. idem'[k].id \in Nat
      BY <3>1, <1>i
    <3> QED
      BY <3>2, <3>3, <2>2, <1>i
  <2>5. ASSUME NEW c \in Calls, calls'[c].stage = "none"
        PROVE  calls'[c].id = 0 /\ ms' <= c /\ \A d \in Calls : c <= d => calls'[d].stage = "none"
    <3>1. calls[c].stage = "none"
      BY <1>5, <2>5 DEF Steady
    <3>2. calls'[c].id = 0 /\ \A d \in Calls : c <= d => calls'[d].stage = "none"
      BY <1>5, <3>1 DEF Steady, Numbered
    <3>3. ASSUME NEW d \in Calls, calls[d].id = ms
          PROVE  ms < c
      <4>1. ~ (c <= d)
        BY <3>1, <3>3, <1>1, <1>2 DEF Numbered
      <4>2. ms <= d
        BY <3>3 DEF Numbered
      <4> QED
        BY <4>1, <4>2, <1>i, <1>2
    <3> QED
      BY <2>1, <3>1, <3>2, <3>3, <1>i, <1>2 DEF Numbered
  <2> QED
    BY <2>3, <2>4, <2>5 DEF Numbered
<1> QED
  BY <1>4, <1>5, StepCases

-----------------------------------------------------------------------------
(***************************************************************************)
(* The price.                                                              *)
(***************************************************************************)
\* A price that reaches a call is at most a tick older than the bound of the
\* way it came by: the cache's, or the fallback's.
LEMMA FreshInductive ==
    ASSUME TypeOK, Fresh, PriceFresh, [Next]_vars
    PROVE  Fresh' /\ PriceFresh'
<1> USE Numbers
<1>t. /\ \A c \in Calls : calls[c] \in CallType
      /\ cache \in [age : -1 .. MAX_STALENESS, market : -1 .. MAX_STALENESS + 1]
      /\ fetch.age \in {0, 1}
  BY DEF TypeOK, CallType
<1>a. \A c \in Calls : calls[c].age \in Int /\ calls[c].rate \in Int
  BY <1>t DEF CallType
<1>m. ASSUME NEW W, NEW age \in Int, age <= MAX_STALENESS, Make(W, age),
             \A c \in W : calls[c].stage \in {"quote", "price"}
      PROVE  /\ \A c \in Calls : calls'[c].rate <= MAX_STALENESS
             /\ \A c \in Calls : calls'[c].stage = "quote" => calls'[c].age <= 1
  <2>1. /\ \A c \in Calls : c \in W => calls'[c].stage = "sync" /\ calls'[c].rate = age
        /\ \A c \in Calls : c \notin W => calls'[c] = calls[c]
    BY <1>m, MakeSteady
  <2> QED
    BY <1>m, <2>1 DEF Fresh, PriceFresh
<1>1. ASSUME NEW c \in Calls, NEW k \in Keys \cup {NoKey},
             Repeat(c, k) \/ Refuse(c, k) \/ Admit(c, k)
      PROVE  Fresh' /\ PriceFresh'
  <2>1. UNCHANGED cache
    BY <1>1 DEF Repeat, Refuse, Admit, Arrives, priceVars
  <2>2. PICK stage \in {"repeated", "refused", "malformed", "quote"}, id \in Ids \cup {0} :
            Arrives(c, k, stage, id)
    <3>1. CASE Repeat(c, k)
      BY <3>1 DEF Repeat, Live, TypeOK
    <3>2. CASE Refuse(c, k)
      BY <3>2 DEF Refuse
    <3>3. CASE Admit(c, k)
      BY <3>3 DEF Admit, TypeOK
    <3> QED
      BY <1>1, <3>1, <3>2, <3>3
  <2>3. /\ calls'[c].rate = -1 /\ calls'[c].age = 0
        /\ \A d \in Calls \ {c} : calls'[d] = calls[d]
    BY <2>2, ArrivesTyped
  <2> QED
    BY <2>1, <2>3 DEF Fresh, PriceFresh
<1>2. ASSUME NEW c \in Calls, Quote(c) PROVE Fresh' /\ PriceFresh'
  <2>1. calls[c].age \in Int /\ calls[c].age <= MAX_STALENESS
    BY <1>2, <1>a DEF Quote, Fresh
  <2> QED
    BY <1>2, <2>1, <1>m DEF Quote, Fresh, PriceFresh, priceVars
<1>3. ASSUME NEW c \in Calls, QuoteFails(c) PROVE Fresh' /\ PriceFresh'
  <2>1. CASE cache.age \in 0 .. CACHE_DURATION - 1 /\ Make({c}, cache.market)
    <3>1. cache.market \in Int /\ cache.market <= MAX_STALENESS
      BY <2>1, <1>t DEF Fresh
    <3> QED
      BY <1>3, <2>1, <3>1, <1>m DEF QuoteFails, Fresh, PriceFresh
  <2>2. CASE calls' = [calls EXCEPT ![c].stage = "price"]
    <3>1. \A d \in Calls : /\ calls'[d].rate = calls[d].rate
                           /\ calls'[d].stage = "quote" => calls'[d] = calls[d]
      BY <2>2, <1>t DEF CallType, TypeOK
    <3> QED
      BY <1>3, <3>1 DEF QuoteFails, Fresh, PriceFresh
  <2> QED
    BY <1>3, <2>1, <2>2 DEF QuoteFails
<1>4. ASSUME NEW c \in Calls, Synced(c) PROVE Fresh' /\ PriceFresh'
  <2>1. \A d \in Calls \ {c} : calls'[d] = calls[d]
    BY <1>4, <1>t DEF Synced, TypeOK
  <2>2. calls'[c].stage = "made" /\ calls'[c].rate = -1
    BY <1>4, <1>t DEF Synced, TypeOK, CallType
  <2>3. UNCHANGED cache
    BY <1>4 DEF Synced, priceVars
  <2>4. PriceFresh'
    <3>1. -1 <= MAX_STALENESS
      OBVIOUS
    <3> QED
      BY <2>1, <2>2, <3>1 DEF PriceFresh
  <2> QED
    BY <2>1, <2>2, <2>3, <2>4 DEF Fresh
<1>5. ASSUME OracleAnswers PROVE Fresh' /\ PriceFresh'
  <2>1. cache' = [age |-> 0, market |-> fetch.age] /\ Make(Waiting, fetch.age)
    BY <1>5 DEF OracleAnswers
  <2>2. cache'.market <= cache'.age + 1
    BY <2>1, <1>t
  <2> QED
    BY <2>1, <2>2, <1>t, <1>m DEF Fresh, PriceFresh, Waiting
<1>6. ASSUME JupiterFails PROVE Fresh' /\ PriceFresh'
  <2>1. CASE cache.age \in 0 .. MAX_STALENESS - 1 /\ Make(Waiting, cache.market)
    <3>1. cache.market \in Int /\ cache.market <= MAX_STALENESS
      BY <2>1, <1>t DEF Fresh
    <3> QED
      BY <1>6, <2>1, <3>1, <1>m DEF JupiterFails, Waiting, Fresh, PriceFresh
  <2>2. CASE calls' = [c \in Calls |-> IF c \in Waiting
                                      THEN [calls[c] EXCEPT !.stage = "refused"]
                                      ELSE calls[c]]
    <3>1. \A d \in Calls : /\ calls'[d].rate = calls[d].rate
                           /\ calls'[d].stage = "quote" => calls'[d] = calls[d]
      BY <2>2, <1>t DEF CallType
    <3> QED
      BY <1>6, <3>1 DEF JupiterFails, Fresh, PriceFresh
  <2> QED
    BY <1>6, <2>1, <2>2 DEF JupiterFails
<1>7. ASSUME Tick PROVE Fresh' /\ PriceFresh'
  <2>1. cache'.market <= cache'.age + 1
    BY <1>7, <1>t DEF Tick, Fresh, Older
  <2>2. ASSUME NEW c \in Calls
        PROVE  /\ calls'[c].rate = calls[c].rate
               /\ calls'[c].stage = "quote" => calls'[c].age <= 1
    <3>1. calls'[c].stage = calls[c].stage /\ calls'[c].rate = calls[c].rate
      BY <1>7, <1>t DEF Tick, CallType
    <3>2. ASSUME calls[c].stage = "quote" PROVE calls'[c].age <= 1
      <4>1. calls'[c].age = Older(calls[c].age, KEY_LIFE) /\ calls[c].age = 0
        BY <1>7, <1>t, <3>2 DEF Tick, CallType
      <4> QED
        BY <4>1 DEF Older
    <3> QED
      BY <3>1, <3>2
  <2> QED
    BY <2>1, <2>2 DEF Fresh, PriceFresh
<1>8. ASSUME UNCHANGED <<calls, cache>> PROVE Fresh' /\ PriceFresh'
  BY <1>8 DEF Fresh, PriceFresh
<1> QED
  BY <1>1, <1>2, <1>3, <1>4, <1>5, <1>6, <1>7, <1>8
     DEF Next, vars, CollectKeys, CoinGeckoFails, JupiterPrices, BalanceMoves, CheckBegins,
         CheckAnswers, CheckFails, priceVars

-----------------------------------------------------------------------------
(***************************************************************************)
(* The map of intents.                                                     *)
(***************************************************************************)
\* Of the calls that get an intent at once, the map holds one under each id.
LEMMA MakeKeeps ==
    ASSUME TypeOK, Kept, NEW W \in SUBSET Calls, NEW age, Make(W, age),
           \A c \in W : calls[c].stage \in {"quote", "price"}
    PROVE  Kept'
<1>t. intents \in [Ids -> Calls \cup {0}] /\ 0 \notin Calls
  BY Numbers DEF TypeOK, Calls
<1>i. \A c \in W : calls[c].id \in Ids
  BY DEF Kept, Pending
<1>1. /\ Steady
      /\ \A c \in Calls : c \in W => calls'[c].stage = "sync"
      /\ \A c \in Calls : c \notin W => calls'[c] = calls[c]
  BY MakeSteady
<1>2. PICK f \in [{calls[c].id : c \in W} -> W] :
          /\ \A i \in DOMAIN f : calls[f[i]].id = i
          /\ intents' = [i \in Ids |-> IF i \in DOMAIN f THEN f[i] ELSE intents[i]]
  BY DEF Make
<1>3. ASSUME NEW c \in Calls, calls'[c].stage \in Pending \cup {"made"}
      PROVE  calls'[c].id \in Ids
  BY <1>1, <1>3 DEF Steady, Kept
<1>4. ASSUME NEW c \in Calls, calls'[c].stage \in {"sync", "made"}
      PROVE  intents'[calls'[c].id] # 0
  <2>1. calls'[c].id = calls[c].id /\ calls[c].id \in Ids
    BY <1>1, <1>3, <1>4 DEF Steady, Pending
  <2>2. CASE c \in W
    BY <2>1, <2>2, <1>2, <1>t
  <2>3. CASE c \notin W
    BY <2>1, <2>3, <1>1, <1>2, <1>4, <1>t DEF Kept
  <2> QED
    BY <2>2, <2>3
<1>5. ASSUME NEW i \in Ids, intents'[i] # 0
      PROVE  calls'[intents'[i]].id = i /\ calls'[intents'[i]].stage \in {"sync", "made"}
  <2>1. CASE i \in DOMAIN f
    <3>1. intents'[i] = f[i] /\ f[i] \in W /\ calls[f[i]].id = i
      BY <2>1, <1>2
    <3> QED
      BY <3>1, <1>1 DEF Steady
  <2>2. CASE i \notin DOMAIN f
    <3>1. intents'[i] = intents[i] /\ intents[i] \in Calls
      BY <2>2, <1>2, <1>5, <1>t
    <3> QED
      BY <3>1, <1>1, <1>5 DEF Kept, Steady
  <2> QED
    BY <2>1, <2>2
<1> QED
  BY <1>3, <1>4, <1>5 DEF Kept

\* Each step keeps the map in accord with the calls.
LEMMA KeptInductive ==
    ASSUME TypeOK, Kept, [Next]_vars
    PROVE  Kept'
<1>t. /\ \A c \in Calls : calls[c] \in CallType
      /\ intents \in [Ids -> Calls \cup {0}] /\ 0 \notin Calls /\ ms \in Ids
  BY Numbers DEF TypeOK, CallType, Calls
<1>q. ASSUME Steady, UNCHANGED intents,
             \A c \in Calls : calls'[c].stage \in {"sync", "made"}
                                 => calls[c].stage \in {"sync", "made"}
      PROVE  Kept'
  <2>1. \A c \in Calls : calls'[c].stage \in Pending \cup {"made"} => calls'[c].id \in Ids
    BY <1>q DEF Kept, Steady
  <2>2. \A c \in Calls : calls'[c].stage \in {"sync", "made"} => intents'[calls'[c].id] # 0
    BY <1>q DEF Kept, Steady
  <2>3. ASSUME NEW i \in Ids, intents'[i] # 0
        PROVE  calls'[intents'[i]].id = i /\ calls'[intents'[i]].stage \in {"sync", "made"}
    <3>1. intents'[i] = intents[i] /\ intents[i] \in Calls
      BY <2>3, <1>q, <1>t
    <3> QED
      BY <3>1, <1>q, <2>3 DEF Kept, Steady
  <2> QED
    BY <2>1, <2>2, <2>3 DEF Kept
<1>1. ASSUME NEW c \in Calls, NEW k \in Keys \cup {NoKey},
             Repeat(c, k) \/ Refuse(c, k) \/ Admit(c, k)
      PROVE  Kept'
  <2>1. UNCHANGED intents /\ calls[c].stage = "none"
    BY <1>1 DEF Repeat, Refuse, Admit, Arrives
  <2>2. /\ \/ calls'[c].stage \in {"repeated", "refused", "malformed"}
           \/ calls'[c].stage = "quote" /\ calls'[c].id \in Ids
        /\ \A d \in Calls \ {c} : calls'[d] = calls[d]
    <3>1. CASE Repeat(c, k)
      <4>1. idem[k].id \in Ids \cup {0} /\ Arrives(c, k, "repeated", idem[k].id)
        BY <3>1 DEF Repeat, Live, TypeOK
      <4> QED
        BY <4>1, ArrivesTyped
    <3>2. CASE Refuse(c, k)
      <4>1. Arrives(c, k, "refused", 0) \/ Arrives(c, k, "malformed", 0)
        BY <3>2 DEF Refuse
      <4> QED
        BY <4>1, ArrivesTyped
    <3>3. CASE Admit(c, k)
      <4>1. Arrives(c, k, "quote", ms)
        BY <3>3 DEF Admit
      <4> QED
        BY <4>1, <1>t, ArrivesTyped
    <3> QED
      BY <1>1, <3>1, <3>2, <3>3
  <2>3. \A i \in Ids : intents[i] # 0 => intents[i] \in Calls \ {c}
    BY <2>1, <1>t DEF Kept
  <2> QED
    BY <2>1, <2>2, <2>3 DEF Kept, Pending
<1>2. ASSUME NEW c \in Calls, Quote(c) PROVE Kept'
  BY <1>2, MakeKeeps DEF Quote
<1>3. ASSUME NEW c \in Calls, QuoteFails(c) PROVE Kept'
  <2>1. CASE Make({c}, cache.market)
    BY <1>3, <2>1, MakeKeeps DEF QuoteFails
  <2>2. CASE calls' = [calls EXCEPT ![c].stage = "price"] /\ UNCHANGED intents
    <3>1. Steady
      BY <1>3, <2>2, <1>t DEF QuoteFails, Steady, Pending, CallType, TypeOK
    <3>2. \A d \in Calls : calls'[d].stage \in {"sync", "made"} => calls'[d] = calls[d]
      BY <2>2, <1>t DEF CallType, TypeOK
    <3> QED
      BY <2>2, <3>1, <3>2, <1>q
  <2> QED
    BY <1>3, <2>1, <2>2 DEF QuoteFails
<1>4. ASSUME NEW c \in Calls, Synced(c) PROVE Kept'
  <2>1. Steady
    BY <1>4, <1>t DEF Synced, Steady, Pending, CallType, TypeOK
  <2>2. \A d \in Calls : calls'[d].stage \in {"sync", "made"} => calls[d].stage \in {"sync", "made"}
    BY <1>4, <1>t DEF Synced, TypeOK
  <2> QED
    BY <1>4, <2>1, <2>2, <1>q DEF Synced
<1>5. ASSUME OracleAnswers PROVE Kept'
  BY <1>5, MakeKeeps DEF OracleAnswers, Waiting
<1>6. ASSUME JupiterFails PROVE Kept'
  <2>1. CASE Make(Waiting, cache.market)
    BY <2>1, MakeKeeps DEF Waiting
  <2>2. CASE /\ calls' = [c \in Calls |-> IF c \in Waiting
                                          THEN [calls[c] EXCEPT !.stage = "refused"]
                                          ELSE calls[c]]
             /\ UNCHANGED intents
    <3>1. Steady
      BY <2>2, <1>t DEF Waiting, Steady, Pending, CallType
    <3>2. \A d \in Calls : calls'[d].stage \in {"sync", "made"} => calls'[d] = calls[d]
      BY <2>2, <1>t DEF CallType
    <3> QED
      BY <2>2, <3>1, <3>2, <1>q
  <2> QED
    BY <1>6, <2>1, <2>2 DEF JupiterFails
<1>7. ASSUME Tick PROVE Kept'
  <2>1. Steady /\ \A d \in Calls : calls'[d].stage = calls[d].stage
    BY <1>7, <1>t DEF Tick, Steady, CallType
  <2> QED
    BY <1>7, <2>1, <1>q DEF Tick
<1>8. ASSUME UNCHANGED <<calls, intents>> PROVE Kept'
  BY <1>8 DEF Kept
<1> QED
  BY <1>1, <1>2, <1>3, <1>4, <1>5, <1>6, <1>7, <1>8
     DEF Next, vars, CollectKeys, CoinGeckoFails, JupiterPrices, BalanceMoves, CheckBegins,
         CheckAnswers, CheckFails

-----------------------------------------------------------------------------
(***************************************************************************)
(* Repeated keys.                                                          *)
(***************************************************************************)
\* While no call is made and no time passes, the entries are true of the calls.
LEMMA EntryStays ==
    ASSUME KeyEntry, UNCHANGED idem,
           \A c \in Calls : calls[c].stage = "made" => calls'[c] = calls[c],
           \A c \in Calls : calls'[c].stage = "made" => calls[c].stage = "made"
    PROVE  KeyEntry'
BY DEF KeyEntry

\* Each step keeps the entry of a key that of the last call made with it.
LEMMA EntryInductive ==
    ASSUME TypeOK, Kept, KeyEntry, [Next]_vars
    PROVE  KeyEntry'
<1> USE Numbers
<1>t. /\ \A c \in Calls : calls[c] \in CallType
      /\ calls \in [Calls -> CallType]
      /\ idem \in [Keys -> [id : Ids \cup {0}, age : 0 .. KEY_LIFE]] /\ 0 \notin Ids
  BY DEF TypeOK, CallType, Ids
<1>a. /\ \A c \in Calls : calls[c].age \in 0 .. KEY_LIFE
      /\ \A k \in Keys : idem[k].age \in 0 .. KEY_LIFE
  BY <1>t DEF CallType
<1>m. ASSUME NEW W, NEW age, Make(W, age), \A c \in W : calls[c].stage \in {"quote", "price"},
             UNCHANGED idem
      PROVE  KeyEntry'
  <2>1. /\ \A c \in Calls : c \in W => calls'[c].stage = "sync"
        /\ \A c \in Calls : c \notin W => calls'[c] = calls[c]
    BY <1>m, MakeSteady
  <2>2. /\ \A c \in Calls : calls[c].stage = "made" => calls'[c] = calls[c]
        /\ \A c \in Calls : calls'[c].stage = "made" => calls[c].stage = "made"
    BY <1>m, <2>1
  <2> QED
    BY <1>m, <2>2, EntryStays
<1>1. ASSUME NEW c \in Calls, NEW k \in Keys \cup {NoKey},
             Repeat(c, k) \/ Refuse(c, k) \/ Admit(c, k)
      PROVE  KeyEntry'
  <2>1. UNCHANGED idem /\ calls[c].stage = "none"
    BY <1>1 DEF Repeat, Refuse, Admit, Arrives
  <2>2. calls'[c].stage # "made" /\ \A d \in Calls \ {c} : calls'[d] = calls[d]
    <3>1. PICK stage \in {"repeated", "refused", "malformed", "quote"}, id \in Ids \cup {0} :
              Arrives(c, k, stage, id)
      BY <1>1 DEF Repeat, Refuse, Admit, Live, TypeOK
    <3> QED
      BY <3>1, ArrivesTyped
  <2>3. /\ \A d \in Calls : calls[d].stage = "made" => calls'[d] = calls[d]
        /\ \A d \in Calls : calls'[d].stage = "made" => calls[d].stage = "made"
    BY <2>1, <2>2
  <2> QED
    BY <2>1, <2>3, EntryStays
<1>2. ASSUME NEW c \in Calls, Quote(c) PROVE KeyEntry'
  BY <1>2, <1>m DEF Quote
<1>3. ASSUME NEW c \in Calls, QuoteFails(c) PROVE KeyEntry'
  <2>1. CASE Make({c}, cache.market)
    BY <1>3, <2>1, <1>m DEF QuoteFails
  <2>2. CASE calls' = [calls EXCEPT ![c].stage = "price"]
    <3>1. /\ \A d \in Calls : calls[d].stage = "made" => calls'[d] = calls[d]
          /\ \A d \in Calls : calls'[d].stage = "made" => calls[d].stage = "made"
      BY <1>3, <2>2, <1>t DEF QuoteFails, CallType
    <3> QED
      BY <1>3, <3>1, EntryStays DEF QuoteFails
  <2> QED
    BY <1>3, <2>1, <2>2 DEF QuoteFails
<1>4. ASSUME NEW c \in Calls, Synced(c) PROVE KeyEntry'
  <2>1. \A d \in Calls \ {c} : calls'[d] = calls[d]
    BY <1>4, <1>t DEF Synced
  <2>2. /\ calls[c].stage = "sync" /\ calls'[c].stage = "made"
        /\ calls'[c].key = calls[c].key /\ calls'[c].id = calls[c].id
        /\ calls'[c].age = IF calls[c].key = NoKey THEN KEY_LIFE ELSE 0
    BY <1>4, <1>t DEF Synced, CallType
  <2>3. calls[c].id \in Ids /\ calls[c].key \in Keys \cup {NoKey}
    BY <2>2, <1>t DEF Kept, Pending, CallType
  <2>4. CASE calls[c].key = NoKey
    <3>1. UNCHANGED idem
      BY <1>4, <2>4 DEF Synced
    <3>2. ASSUME NEW k \in Keys, idem'[k].id # 0
          PROVE  \E e \in Calls : /\ calls'[e].stage = "made" /\ calls'[e].key = k
                                  /\ calls'[e].id = idem'[k].id /\ calls'[e].age = idem'[k].age
      <4>1. PICK e \in Calls : /\ calls[e].stage = "made" /\ calls[e].key = k
                               /\ calls[e].id = idem[k].id /\ calls[e].age = idem[k].age
        BY <3>1, <3>2 DEF KeyEntry
      <4>2. calls'[e] = calls[e]
        BY <4>1, <2>1, <2>2
      <4> QED
        BY <4>1, <4>2, <3>1
    <3>3. ASSUME NEW d \in Calls, calls'[d].stage = "made", calls'[d].key \in Keys,
                 calls'[d].age < KEY_LIFE
          PROVE  idem'[calls'[d].key].id # 0 /\ idem'[calls'[d].key].age <= calls'[d].age
      <4>1. d # c
        BY <3>3, <2>2, <2>4
      <4> QED
        BY <4>1, <3>1, <3>3, <2>1 DEF KeyEntry
    <3> QED
      BY <3>2, <3>3 DEF KeyEntry
  <2>5. CASE calls[c].key # NoKey
    <3>1. /\ calls[c].key \in Keys
          /\ idem' = [idem EXCEPT ![calls[c].key] = [id |-> calls[c].id, age |-> 0]]
      BY <1>4, <2>3, <2>5 DEF Synced
    <3>2. /\ idem'[calls[c].key].id = calls[c].id /\ idem'[calls[c].key].age = 0
          /\ \A k \in Keys \ {calls[c].key} : idem'[k] = idem[k]
      BY <3>1, <1>t
    <3>3. ASSUME NEW k \in Keys, idem'[k].id # 0
          PROVE  \E e \in Calls : /\ calls'[e].stage = "made" /\ calls'[e].key = k
                                  /\ calls'[e].id = idem'[k].id /\ calls'[e].age = idem'[k].age
      <4>1. CASE k = calls[c].key
        BY <4>1, <2>2, <3>2, <2>5
      <4>2. CASE k # calls[c].key
        <5>1. PICK e \in Calls : /\ calls[e].stage = "made" /\ calls[e].key = k
                                 /\ calls[e].id = idem[k].id /\ calls[e].age = idem[k].age
          BY <4>2, <3>2, <3>3 DEF KeyEntry
        <5>2. calls'[e] = calls[e]
          BY <5>1, <2>1, <2>2
        <5> QED
          BY <5>1, <5>2, <3>2, <4>2
      <4> QED
        BY <4>1, <4>2
    <3>4. ASSUME NEW d \in Calls, calls'[d].stage = "made", calls'[d].key \in Keys,
                 calls'[d].age < KEY_LIFE
          PROVE  idem'[calls'[d].key].id # 0 /\ idem'[calls'[d].key].age <= calls'[d].age
      <4>1. CASE calls'[d].key = calls[c].key
        <5>1. calls'[d].age >= 0
          <6>1. CASE d = c
            BY <6>1, <2>2, <2>5
          <6>2. CASE d # c
            BY <6>2, <2>1, <1>a
          <6> QED
            BY <6>1, <6>2
        <5> QED
          BY <5>1, <4>1, <3>2, <2>3, <1>t
      <4>2. CASE calls'[d].key # calls[c].key
        <5>1. calls'[d] = calls[d]
          BY <4>2, <2>1, <2>2
        <5> QED
          BY <5>1, <4>2, <3>2, <3>4 DEF KeyEntry
      <4> QED
        BY <4>1, <4>2
    <3> QED
      BY <3>3, <3>4 DEF KeyEntry
  <2> QED
    BY <2>4, <2>5
<1>5. ASSUME CollectKeys PROVE KeyEntry'
  <2>1. /\ UNCHANGED calls
        /\ \A k \in Keys : \/ idem'[k] = idem[k] /\ idem[k].age # KEY_LIFE
                           \/ idem[k].age = KEY_LIFE /\ idem'[k] = [id |-> 0, age |-> 0]
    BY <1>5 DEF CollectKeys
  <2>2. \A k \in Keys : idem'[k].id # 0 => idem'[k] = idem[k]
    BY <2>1
  <2>3. ASSUME NEW d \in Calls, calls[d].stage = "made", calls[d].key \in Keys,
               calls[d].age < KEY_LIFE
        PROVE  idem'[calls[d].key].id # 0 /\ idem'[calls[d].key].age <= calls[d].age
    <3>1. idem[calls[d].key].id # 0 /\ idem[calls[d].key].age <= calls[d].age
      BY <2>3 DEF KeyEntry
    <3>2. idem[calls[d].key].age # KEY_LIFE
      BY <2>3, <3>1, <1>a
    <3> QED
      BY <2>3, <3>1, <3>2, <2>1
  <2> QED
    BY <2>1, <2>2, <2>3 DEF KeyEntry
<1>6. ASSUME OracleAnswers PROVE KeyEntry'
  BY <1>6, <1>m DEF OracleAnswers, Waiting
<1>7. ASSUME JupiterFails PROVE KeyEntry'
  <2>1. CASE Make(Waiting, cache.market)
    BY <1>7, <2>1, <1>m DEF JupiterFails, Waiting
  <2>2. CASE calls' = [c \in Calls |-> IF c \in Waiting
                                      THEN [calls[c] EXCEPT !.stage = "refused"]
                                      ELSE calls[c]]
    <3>1. /\ \A d \in Calls : calls[d].stage = "made" => calls'[d] = calls[d]
          /\ \A d \in Calls : calls'[d].stage = "made" => calls[d].stage = "made"
      BY <2>2, <1>t DEF Waiting, CallType
    <3> QED
      BY <1>7, <3>1, EntryStays DEF JupiterFails
  <2> QED
    BY <1>7, <2>1, <2>2 DEF JupiterFails
<1>8. ASSUME Tick PROVE KeyEntry'
  <2>1. \A c \in Calls : /\ calls'[c].stage = calls[c].stage /\ calls'[c].key = calls[c].key
                         /\ calls'[c].id = calls[c].id
                         /\ calls[c].stage = "made" =>
                               calls'[c].age = Older(calls[c].age, KEY_LIFE)
    BY <1>8, <1>t DEF Tick, CallType
  <2>2. \A k \in Keys : /\ idem'[k].id = idem[k].id
                        /\ idem'[k].age = IF idem[k].id = 0 THEN 0
                                          ELSE Older(idem[k].age, KEY_LIFE)
    BY <1>8, <1>t DEF Tick
  <2>3. ASSUME NEW k \in Keys, idem'[k].id # 0
        PROVE  \E e \in Calls : /\ calls'[e].stage = "made" /\ calls'[e].key = k
                                /\ calls'[e].id = idem'[k].id /\ calls'[e].age = idem'[k].age
    <3>1. PICK e \in Calls : /\ calls[e].stage = "made" /\ calls[e].key = k
                             /\ calls[e].id = idem[k].id /\ calls[e].age = idem[k].age
      BY <2>2, <2>3 DEF KeyEntry
    <3> QED
      BY <3>1, <2>1, <2>2, <2>3
  <2>4. ASSUME NEW d \in Calls, calls'[d].stage = "made", calls'[d].key \in Keys,
               calls'[d].age < KEY_LIFE
        PROVE  idem'[calls'[d].key].id # 0 /\ idem'[calls'[d].key].age <= calls'[d].age
    <3>1. calls'[d].age = Older(calls[d].age, KEY_LIFE) /\ calls[d].age < KEY_LIFE
      BY <2>1, <2>4, <1>a DEF Older
    <3>2. idem[calls[d].key].id # 0 /\ idem[calls[d].key].age <= calls[d].age
      BY <2>1, <2>4, <3>1 DEF KeyEntry
    <3>3. calls[d].key \in Keys /\ calls'[d].key = calls[d].key
      BY <2>1, <2>4
    <3>4. idem[calls[d].key].age \in Int /\ calls[d].age \in Int
      BY <1>a, <3>3
    <3>5. Older(idem[calls[d].key].age, KEY_LIFE) <= Older(calls[d].age, KEY_LIFE)
      BY <3>2, <3>4 DEF Older
    <3> QED
      BY <3>1, <3>2, <3>3, <3>5, <2>2
  <2> QED
    BY <2>3, <2>4 DEF KeyEntry
<1>9. ASSUME UNCHANGED <<calls, idem>> PROVE KeyEntry'
  BY <1>9 DEF KeyEntry
<1> QED
  BY <1>1, <1>2, <1>3, <1>4, <1>5, <1>6, <1>7, <1>8, <1>9
     DEF Next, vars, CoinGeckoFails, JupiterPrices, BalanceMoves, CheckBegins,
         CheckAnswers, CheckFails

\* A key answered less than KEY_LIFE ago has an entry that answers, of a call
\* that is one of those.
LEMMA EntryAnswers ==
    ASSUME TypeOK, Kept, KeyEntry, NEW k \in Keys \cup {NoKey}, Before(k) # {}
    PROVE  Live(k) /\ \E e \in Before(k) : calls[e].id = idem[k].id
<1> USE Numbers
<1>a. /\ \A c \in Calls : calls[c].age \in 0 .. KEY_LIFE
      /\ \A i \in Keys : idem[i].age \in 0 .. KEY_LIFE
  BY DEF TypeOK
<1>1. PICK d \in Calls : /\ k \in Keys /\ k # NoKey /\ calls[d].key = k
                         /\ calls[d].stage = "made" /\ calls[d].age < KEY_LIFE
  BY DEF Before
<1>2. idem[k].id # 0 /\ idem[k].age <= calls[d].age
  BY <1>1 DEF KeyEntry
<1>3. idem[k].age < KEY_LIFE
  BY <1>1, <1>2, <1>a
<1>4. PICK e \in Calls : /\ calls[e].stage = "made" /\ calls[e].key = k
                         /\ calls[e].id = idem[k].id /\ calls[e].age = idem[k].age
  BY <1>1, <1>2 DEF KeyEntry
<1>5. e \in Before(k)
  BY <1>1, <1>3, <1>4 DEF Before
<1>6. intents[idem[k].id] # 0
  BY <1>4 DEF Kept
<1> QED
  BY <1>1, <1>2, <1>3, <1>4, <1>5, <1>6 DEF Live

\* Each step keeps the calls that began with a young key answered.
LEMMA RepeatsInductive ==
    ASSUME TypeOK, Kept, KeyEntry, Repeats, [Next]_vars
    PROVE  Repeats'
<1>t. \A c \in Calls : calls[c].before \in SUBSET Calls
  BY DEF TypeOK
<1>1. ASSUME NEW c \in Calls, NEW k \in Keys \cup {NoKey},
             Repeat(c, k) \/ Refuse(c, k) \/ Admit(c, k)
      PROVE  Repeats'
  <2>0. Before(k) # {} => Live(k)
    BY EntryAnswers
  <2>1. PICK stage \in {"repeated", "refused", "malformed", "quote"}, id \in Ids \cup {0} :
            /\ Arrives(c, k, stage, id)
            /\ Before(k) # {} => \/ stage = "malformed"
                                 \/ stage = "repeated" /\ id = idem[k].id
    <3>1. CASE Repeat(c, k)
      BY <3>1 DEF Repeat, Live, TypeOK
    <3>2. CASE Refuse(c, k)
      BY <3>2, <2>0 DEF Refuse
    <3>3. CASE Admit(c, k)
      BY <3>3, <2>0 DEF Admit, TypeOK
    <3> QED
      BY <1>1, <3>1, <3>2, <3>3
  <2>2. /\ calls[c].stage = "none" /\ calls'[c].before = Before(k)
        /\ calls'[c].stage = stage /\ calls'[c].id = id
        /\ \A d \in Calls \ {c} : calls'[d] = calls[d]
    BY <2>1, ArrivesTyped DEF Arrives
  <2>3. ASSUME NEW d \in Calls, calls'[d].before # {}, calls'[d].stage # "malformed"
        PROVE  /\ calls'[d].stage = "repeated"
               /\ \E e \in calls'[d].before : calls'[e].stage = "made" /\ calls'[d].id = calls'[e].id
    <3>1. CASE d = c
      <4>1. PICK e \in Before(k) : calls[e].id = idem[k].id
        BY <3>1, <2>2, <2>3, EntryAnswers
      <4>2. calls[e].stage = "made" /\ e # c /\ e \in Calls
        BY <2>2, <4>1 DEF Before
      <4> QED
        BY <3>1, <4>1, <4>2, <2>1, <2>2, <2>3
    <3>2. CASE d # c
      <4>1. calls'[d] = calls[d]
        BY <3>2, <2>2
      <4>2. PICK e \in calls[d].before : calls[e].stage = "made" /\ calls[d].id = calls[e].id
        BY <4>1, <2>3 DEF Repeats
      <4>3. calls'[e] = calls[e]
        BY <4>2, <2>2, <1>t
      <4> QED
        BY <4>1, <4>2, <4>3, <2>3 DEF Repeats
    <3> QED
      BY <3>1, <3>2
  <2> QED
    BY <2>3 DEF Repeats
<1>2. ASSUME Steady PROVE Repeats'
  <2>1. ASSUME NEW d \in Calls, calls'[d].before # {}, calls'[d].stage # "malformed"
        PROVE  /\ calls'[d].stage = "repeated"
               /\ \E e \in calls'[d].before : calls'[e].stage = "made" /\ calls'[d].id = calls'[e].id
    <3>1. /\ calls'[d].before = calls[d].before /\ calls'[d].id = calls[d].id
          /\ calls[d].stage # "malformed"
      BY <1>2, <2>1 DEF Steady
    <3>2. PICK e \in calls[d].before : calls[e].stage = "made" /\ calls[d].id = calls[e].id
      BY <3>1, <2>1 DEF Repeats
    <3>3. calls'[e].stage = "made" /\ calls'[e].id = calls[e].id
      BY <1>2, <3>2, <1>t DEF Steady
    <3> QED
      BY <3>1, <3>2, <3>3, <2>1, <1>2 DEF Repeats, Steady
  <2> QED
    BY <2>1 DEF Repeats
<1> QED
  BY <1>1, <1>2, StepCases

-----------------------------------------------------------------------------
(***************************************************************************)
(* The invariant and what follows from it.                                 *)
(***************************************************************************)
\* Before the first request nothing is cached, keyed or made.
LEMMA Initially == Init => IInv
<1> SUFFICES ASSUME Init PROVE IInv
  OBVIOUS
<1> USE Numbers
<1>1. NotMade \in CallType
  BY DEF NotMade, CallType, Pending
<1>2. \A c \in Calls : calls[c] = NotMade /\ c >= 1
  BY DEF Init, Calls
<1>3. /\ NotMade.stage = "none" /\ NotMade.id = 0 /\ NotMade.rate = -1
      /\ NotMade.before = {} /\ NotMade.age = 0
  BY DEF NotMade
<1>4. TypeOK
  <2>1. calls \in [Calls -> CallType] /\ intents \in [Ids -> Calls \cup {0}]
    BY <1>1 DEF Init
  <2>2. idem \in [Keys -> [id : Ids \cup {0}, age : 0 .. KEY_LIFE]] /\ ms \in Ids
    BY DEF Init, Ids
  <2>3. /\ cache \in [age : -1 .. MAX_STALENESS, market : -1 .. MAX_STALENESS + 1]
        /\ fetch \in [at : {"nowhere", "coingecko", "jupiter", "fx"}, age : {0, 1}]
    BY DEF Init, NoFetch
  <2>4. balance \in Balances /\ level \in Levels /\ checks \in [Balances -> 0 .. MaxChecks]
    BY DEF Init, Levels
  <2> QED
    BY <2>1, <2>2, <2>3, <2>4 DEF TypeOK, CallType
<1>5. Numbered
  BY <1>2, <1>3 DEF Numbered, Init, Calls
<1>6. Fresh /\ PriceFresh
  <2>1. cache.market <= cache.age + 1
    BY DEF Init
  <2> QED
    BY <1>2, <1>3, <2>1 DEF Fresh, PriceFresh
<1>7. Kept
  BY <1>2, <1>3 DEF Kept, Pending, Init
<1>8. KeyEntry /\ Repeats
  BY <1>2, <1>3 DEF KeyEntry, Repeats, Init
<1> QED
  BY <1>4, <1>5, <1>6, <1>7, <1>8 DEF IInv

\* The invariant is inductive.
LEMMA Inductive == IInv /\ [Next]_vars => IInv'
BY TypeInductive, NumberedInductive, FreshInductive, KeptInductive, EntryInductive,
   RepeatsInductive DEF IInv

\* The invariant always holds.
LEMMA Always == Spec => []IInv
BY Initially, Inductive, PTL DEF Spec

\* The backend's records of requests, keys, prices and balance checks keep
\* their types; in particular the millisecond stays within the identifiers
\* although a call can take one and time passes between calls.
THEOREM IntakeTyped == Spec => []TypeOK
<1>1. IInv => TypeOK
  BY DEF IInv
<1> QED
  BY <1>1, Always, PTL

\* priceService.ts and swapService.ts: no intent is written with a market price
\* older than MAX_STALENESS, whatever the cache, the request in flight, its
\* fallbacks and the route of Jupiter do.
THEOREM PricesFresh == Spec => []PriceFresh
<1>1. IInv => PriceFresh
  BY DEF IInv
<1> QED
  BY <1>1, Always, PTL

\* paymentRoutes.ts: a request whose key was answered within KEY_LIFE makes no
\* intent and, unless it has no payload, is answered with one that an earlier
\* request with the key made.
THEOREM RepeatsGetOne == Spec => []RepeatGetsOne
<1>1. ASSUME IInv PROVE RepeatGetsOne
  <2>1. ASSUME NEW c \in Calls, calls[c].before # {}, calls[c].stage # "malformed"
        PROVE  \E d \in calls[c].before :
                  /\ calls[c].stage = "repeated" /\ calls[c].id = calls[d].id
                  /\ (\A e \in Calls \ {d} : calls[e].stage \in Pending \cup {"made"}
                                                => calls[e].id # calls[d].id)
                     => intents[calls[c].id] = d
    <3>1. PICK d \in calls[c].before : calls[d].stage = "made" /\ calls[c].id = calls[d].id
      BY <1>1, <2>1 DEF IInv, Repeats
    <3>2. d \in Calls /\ intents \in [Ids -> Calls \cup {0}]
      BY <1>1 DEF IInv, TypeOK
    <3>3. calls[d].id \in Ids /\ intents[calls[d].id] # 0
      BY <1>1, <3>1, <3>2 DEF IInv, Kept
    <3> DEFINE x == intents[calls[d].id]
    <3>4. x \in Calls /\ calls[x].id = calls[d].id /\ calls[x].stage \in Pending \cup {"made"}
      BY <1>1, <3>2, <3>3 DEF IInv, Kept, Pending
    <3>5. calls[c].stage = "repeated"
      BY <1>1, <2>1 DEF IInv, Repeats
    <3> QED
      BY <3>1, <3>4, <3>5
  <2> QED
    BY <2>1 DEF RepeatGetsOne
<1> QED
  BY <1>1, Always, PTL

=============================================================================
