------------------------------ MODULE RulesProofs ------------------------------
(***************************************************************************)
(* Theorems about Rules.  A behaviour picks one input, so each property    *)
(* holds of a specification if it holds of every input.                    *)
(***************************************************************************)
EXTENDS Rules, SumsProofs, SequenceTheorems

-----------------------------------------------------------------------------
(***************************************************************************)
(* Numbers.  Induction goes over a set, the numbers at which the claim     *)
(* holds, so that no theorem takes an operator.                            *)
(***************************************************************************)
\* Of any natural numbers one is the least.
LEMMA LeastNumber ==
    ASSUME NEW T, T \subseteq Nat, T # {}
    PROVE  \E m \in T : \A k \in T : m <= k
<1>1. PICK n \in T : TRUE
  OBVIOUS
<1> DEFINE U == {1 .. m : m \in {k \in T : k <= n}}
           S == 1 .. n
<1>2. n \in Nat /\ IsFiniteSet(S)
  BY FS_Interval
<1>3. U \subseteq SUBSET S /\ U # {}
  <2>1. \A m \in T : m <= n => 1 .. m \subseteq 1 .. n
    BY <1>2
  <2>2. 1 .. n \in U
    BY <1>1, <1>2
  <2> QED
    BY <2>1, <2>2
<1> HIDE DEF U, S
<1>4. PICK x \in U : \A y \in U : y \subseteq x => y = x
  BY <1>2, <1>3, Smallest
<1>5. PICK m \in T : m <= n /\ x = 1 .. m
  BY DEF U
<1>6. ASSUME NEW k \in T, ~ (m <= k) PROVE FALSE
  <2>1. k \in Nat /\ m \in Nat /\ k < m /\ k <= n
    BY <1>2, <1>5, <1>6
  <2>2. 1 .. k \in U
    BY <2>1 DEF U
  <2>3. 1 .. k \subseteq 1 .. m
    BY <2>1
  <2>4. 1 .. k = 1 .. m
    BY <1>4, <1>5, <2>2, <2>3
  <2>5. m \in 1 .. m /\ m \notin 1 .. k
    BY <2>1
  <2> QED
    BY <2>4, <2>5
<1> QED
  BY <1>6

\* Of some numbers up to N one is the greatest.
LEMMA GreatestNumber ==
    ASSUME NEW N \in Nat, NEW T, T \subseteq 1 .. N, T # {}
    PROVE  Greatest(T) \in T /\ \A k \in T : k <= Greatest(T)
<1> DEFINE U == {N - k : k \in T}
<1>1. U \subseteq Nat /\ U # {}
  <2>1. \A k \in T : N - k \in Nat
    OBVIOUS
  <2> QED
    BY <2>1
<1> HIDE DEF U
<1>2. PICK u \in U : \A v \in U : u <= v
  BY <1>1, LeastNumber
<1>3. PICK m \in T : u = N - m
  BY DEF U
<1>4. \A k \in T : m >= k
  <2>1. ASSUME NEW k \in T PROVE m >= k
    <3>1. N - m <= N - k
      BY <1>2, <1>3 DEF U
    <3> QED
      BY <3>1
  <2> QED
    BY <2>1
<1>5. Greatest(T) \in T /\ \A y \in T : Greatest(T) >= y
  BY <1>4 DEF Greatest
<1> QED
  BY <1>5

\* A set that holds 0 and each number with the one before it holds all up to N.
LEMMA Steps ==
    ASSUME NEW N \in Nat, NEW G, 0 \in G, \A n \in 1 .. N : n - 1 \in G => n \in G
    PROVE  0 .. N \subseteq G
<1> DEFINE T == {n \in 0 .. N : n \notin G}
<1>1. ASSUME T # {} PROVE FALSE
  <2>1. T \subseteq Nat
    OBVIOUS
  <2>2. PICK m \in T : \A k \in T : m <= k
    <3> HIDE DEF T
    <3> QED
      BY <1>1, <2>1, LeastNumber
  <2>3. m \in 1 .. N /\ m \notin G
    BY <2>2
  <2>4. m - 1 \notin T
    BY <2>2, <2>3
  <2>5. m - 1 \in G
    BY <2>3, <2>4
  <2> QED
    BY <2>3, <2>5
<1> QED
  BY <1>1

\* f begins with a and goes on by step.
Iterated(f, N, a, step) == f[0] = a /\ \A n \in 1 .. N : f[n] = step[n][f[n - 1]]

\* A function can be built step by step.
LEMMA Iterates ==
    ASSUME NEW N \in Nat, NEW S, NEW a \in S, NEW step \in [1 .. N -> [S -> S]]
    PROVE  \E f \in [0 .. N -> S] : Iterated(f, N, a, step)
<1> DEFINE Up(f, m) == /\ f \in [0 .. m -> S] /\ f[0] = a
                       /\ \A k \in 1 .. m : f[k] = step[k][f[k - 1]]
           G == {m \in 0 .. N : \E f : Up(f, m)}
<1>1. 0 \in G
  <2>1. Up([n \in 0 .. 0 |-> a], 0)
    OBVIOUS
  <2> HIDE DEF Up
  <2>2. \E f : Up(f, 0)
    BY <2>1
  <2> QED
    BY <2>2
<1>2. ASSUME NEW m \in 1 .. N, m - 1 \in G PROVE m \in G
  <2>1. PICK f : Up(f, m - 1)
    BY <1>2
  <2> DEFINE g == [k \in 0 .. m |-> IF k = m THEN step[m][f[m - 1]] ELSE f[k]]
  <2>2. m \in Nat /\ 0 # m /\ \A k \in 0 .. m : k # m => k \in 0 .. m - 1
    OBVIOUS
  <2>3. \A k \in 0 .. m : k # m => g[k] = f[k]
    OBVIOUS
  <2>4. g[m] = step[m][f[m - 1]]
    OBVIOUS
  <2>5. step[m] \in [S -> S] /\ f[m - 1] \in S
    BY <2>1
  <2>6. g \in [0 .. m -> S]
    BY <2>1, <2>2, <2>5
  <2>7. g[0] = a
    BY <2>1, <2>2, <2>3
  <2>8. \A k \in 1 .. m : g[k] = step[k][g[k - 1]]
    <3>1. ASSUME NEW k \in 1 .. m PROVE g[k] = step[k][g[k - 1]]
      <4>1. k - 1 \in 0 .. m /\ k - 1 # m
        OBVIOUS
      <4>2. g[k - 1] = f[k - 1]
        BY <2>3, <4>1
      <4>3. CASE k = m
        BY <2>4, <4>2, <4>3
      <4>4. CASE k # m
        <5>1. k \in 1 .. m - 1 /\ k \in 0 .. m
          BY <4>4
        <5>2. f[k] = step[k][f[k - 1]]
          BY <2>1, <5>1
        <5>3. g[k] = f[k]
          BY <2>3, <4>4, <5>1
        <5> QED
          BY <4>2, <5>2, <5>3
      <4> QED
        BY <4>3, <4>4
    <3> QED
      BY <3>1
  <2> HIDE DEF g
  <2>9. Up(g, m)
    BY <2>6, <2>7, <2>8
  <2> QED
    BY <2>9
<1>3. N \in G
  <2> HIDE DEF G
  <2>1. 0 .. N \subseteq G
    BY <1>1, <1>2, Steps
  <2> QED
    BY <2>1
<1>4. PICK f : Up(f, N)
  BY <1>3
<1> QED
  BY <1>4 DEF Iterated
-----------------------------------------------------------------------------
(***************************************************************************)
(* Inputs.                                                                 *)
(***************************************************************************)
InputOK == input = [kind |-> "none"] \/ input \in Inputs

\* The input of a behaviour is one of Inputs, once it is picked.
LEMMA Picked == Spec => []InputOK
<1>1. Init => InputOK
  BY DEF Init, InputOK
<1>2. InputOK /\ [Pick]_input => InputOK'
  BY DEF Pick, InputOK
<1> QED
  BY <1>1, <1>2, PTL DEF Spec

\* What an input of each kind holds.
LEMMA InputKinds ==
    ASSUME InputOK
    PROVE  /\ input.kind = "code" => input.code \in Codes /\ input.damage \in Damages
           /\ input.kind = "payment" => input.payment \in Payments
           /\ input.kind = "history" => input.history \in Histories
           /\ input.kind = "traffic" => input.traffic \in Traffic
           /\ input.kind = "fee" => input.fee \in 0 .. MaxFee
<1>1. CASE input = [kind |-> "none"]
  BY <1>1
<1>2. CASE input \in [kind : {"code"}, code : Codes, damage : Damages]
  BY <1>2
<1>3. CASE input \in [kind : {"payment"}, payment : Payments]
  BY <1>3
<1>4. CASE input \in [kind : {"history"}, history : Histories]
  BY <1>4
<1>5. CASE input \in [kind : {"traffic"}, traffic : Traffic]
  BY <1>5
<1>6. CASE input \in [kind : {"fee"}, fee : 0 .. MaxFee]
  BY <1>6
<1> QED
  BY <1>1, <1>2, <1>3, <1>4, <1>5, <1>6 DEF InputOK, Inputs

\* Whatever the amount of the payment, the split of its fee that the intent
\* announces is the recorded one up to a rupiah.
THEOREM FeesAgree == Spec => []FeeSharesAgree
<1>1. InputOK => FeeSharesAgree
  <2>1. SUFFICES ASSUME InputOK, input.kind = "fee" PROVE SharesAgree(platformFee(input.fee))
    BY DEF FeeSharesAgree
  <2>2. input.fee \in Nat
    BY <2>1, InputKinds, FeeAssumption
  <2> DEFINE fee == (input.fee + 100) \div 200
  <2>3. fee \in Nat
    BY <2>2
  <2> HIDE DEF fee
  <2>4. platformFee(input.fee) = IF fee < MIN_FEE_IDR THEN MIN_FEE_IDR ELSE fee
    BY DEF platformFee, fee
  <2>5. platformFee(input.fee) \in Nat
    BY <2>3, <2>4 DEF MIN_FEE_IDR
  <2> QED
    BY <2>5, SplitsAgree
<1> QED
  BY <1>1, Picked, PTL

\* No established wallet is blocked, whatever it paid before within the hour and
\* however fast: the other rules add up to 83 at most.
THEOREM EstablishedServed == Spec => []EstablishedNotBlocked
<1>1. InputOK => EstablishedNotBlocked
  <2> SUFFICES ASSUME InputOK, input.kind = "payment", input.payment.age >= 90,
                      input.payment.txCount >= 5, input.payment.amount <= 500,
                      ~ input.payment.denied
               PROVE  Allow(Score(input.payment, input.payment.velocity))
    BY DEF EstablishedNotBlocked
  <2> DEFINE x == input.payment
             v == x.velocity
  <2>1. x \in [age : Nat, txCount : Int, amount : Nat, static : BOOLEAN, nmid : BOOLEAN,
               denied : BOOLEAN, velocity : [count : Nat, total : Nat, windowStart : Nat]]
    BY InputKinds, PaymentsAssumption
  <2>2. /\ x.age \in Nat /\ x.txCount \in Int /\ x.amount \in Nat
        /\ v.count \in Nat /\ v.total \in Nat
        /\ x.age >= 90 /\ x.txCount >= 5 /\ x.amount <= 500 /\ ~ x.denied
    BY <2>1
  <2> HIDE DEF x, v
  <2>3. AgeScore(x.age) = 0 /\ FewTransactionsScore(x.txCount) = 0
    BY <2>2 DEF AgeScore, FewTransactionsScore
  <2>4. AmountScore(x.amount) \in {0, 5, 25}
    BY <2>2 DEF AmountScore
  <2>5. VelocityScore(v.count) \in {0, 15, 20}
    BY <2>2 DEF VelocityScore
  <2>6. /\ VolumeScore(v.total, x.amount) \in {0, 15} /\ StaticScore(x.static, x.amount) \in {0, 10}
        /\ NmidScore(x.nmid) \in {0, 8} /\ RoundScore(x.amount) \in {0, 5}
    BY <2>2 DEF VolumeScore, StaticScore, NmidScore, RoundScore
  <2>7. Score(x, v) <= 83 /\ Score(x, v) \in Nat
    BY <2>2, <2>3, <2>4, <2>5, <2>6 DEF Score
  <2>8. Allow(Score(x, v))
    BY <2>7 DEF Allow, Level
  <2> QED
    BY <2>8 DEF x, v
<1> QED
  BY <1>1, Picked, PTL
-----------------------------------------------------------------------------
(***************************************************************************)
(* The rate limiter.                                                       *)
(***************************************************************************)
Hits == [count : Nat, until : Nat, n : Nat, t : Nat]
Request == [time : Nat, redis : {"up", "down", "lost", "half"}]

\* No entry of the hits map is valid.
Stale(h, now) == h.t = 0 \/ now > h.t

\* The Redis counter, field by field.
LEMMA IncrFields ==
    ASSUME NEW h \in Hits, NEW now \in Nat, NEW e \in BOOLEAN
    PROVE  /\ Incr(h, now, e) \in Hits
           /\ Incr(h, now, e).n = h.n /\ Incr(h, now, e).t = h.t
           /\ Fresh(h, now) => /\ Incr(h, now, e).count = 1
                               /\ Incr(h, now, e).until = IF e THEN now + WINDOW ELSE Never
           /\ ~ Fresh(h, now) => /\ Incr(h, now, e).count = h.count + 1
                                 /\ Incr(h, now, e).until = h.until
<1> DEFINE c == IF Fresh(h, now) THEN 1 ELSE h.count + 1
           u == IF ~ Fresh(h, now) THEN h.until ELSE IF e THEN now + WINDOW ELSE Never
<1>1. c \in Nat /\ u \in Nat
  BY DEF Hits, WINDOW, Never
<1>2. Incr(h, now, e) = [h EXCEPT !.count = c, !.until = u]
  BY Zenon DEF Incr
<1> HIDE DEF c, u
<1>3. [h EXCEPT !.count = c, !.until = u] \in Hits
  BY <1>1 DEF Hits
<1>4. /\ [h EXCEPT !.count = c, !.until = u].count = c
      /\ [h EXCEPT !.count = c, !.until = u].until = u
      /\ [h EXCEPT !.count = c, !.until = u].n = h.n
      /\ [h EXCEPT !.count = c, !.until = u].t = h.t
  BY DEF Hits
<1>5. /\ Incr(h, now, e) \in Hits
      /\ Incr(h, now, e).n = h.n /\ Incr(h, now, e).t = h.t
      /\ Incr(h, now, e).count = c /\ Incr(h, now, e).until = u
  BY <1>2, <1>3, <1>4, Zenon
<1> QED
  BY <1>5 DEF c, u

\* The in-memory counter, field by field.
LEMMA InMemoryFields ==
    ASSUME NEW h \in Hits, NEW now \in Nat
    PROVE  /\ InMemory(h, now).hits \in Hits
           /\ InMemory(h, now).served \in BOOLEAN
           /\ InMemory(h, now).hits.count = h.count /\ InMemory(h, now).hits.until = h.until
           /\ Stale(h, now) => /\ InMemory(h, now).hits.n = 1
                               /\ InMemory(h, now).hits.t = now + WINDOW
                               /\ InMemory(h, now).served
           /\ ~ Stale(h, now) => /\ InMemory(h, now).hits.t = h.t
                                 /\ InMemory(h, now).served <=> h.n < RATE_LIMIT_PER_MIN
                                 /\ InMemory(h, now).hits.n =
                                        IF h.n < RATE_LIMIT_PER_MIN THEN h.n + 1 ELSE h.n
<1>0. now + WINDOW \in Nat /\ RATE_LIMIT_PER_MIN \in Nat /\ h.n \in Nat
  BY LimitAssumption DEF WINDOW, Hits
<1>1. CASE Stale(h, now)
  <2> DEFINE u == now + WINDOW
             g == [h EXCEPT !.n = 1, !.t = u]
  <2>1. InMemory(h, now) = [hits |-> g, served |-> TRUE]
    BY <1>1 DEF InMemory, Stale
  <2>2. u \in Nat
    BY <1>0
  <2> HIDE DEF u
  <2>3. g \in Hits /\ g.count = h.count /\ g.until = h.until /\ g.n = 1 /\ g.t = u
    BY <2>2 DEF Hits
  <2> HIDE DEF g
  <2>4. InMemory(h, now).hits = g /\ InMemory(h, now).served = TRUE
    BY <2>1
  <2> QED
    BY <1>1, <2>3, <2>4 DEF u
<1>2. CASE ~ Stale(h, now) /\ h.n >= RATE_LIMIT_PER_MIN
  <2>1. InMemory(h, now) = [hits |-> h, served |-> FALSE]
    BY <1>2 DEF InMemory, Stale
  <2> QED
    BY <1>0, <1>2, <2>1
<1>3. CASE ~ Stale(h, now) /\ ~ (h.n >= RATE_LIMIT_PER_MIN)
  <2> DEFINE g == [h EXCEPT !.n = @ + 1]
  <2>1. InMemory(h, now) = [hits |-> g, served |-> TRUE]
    BY <1>3 DEF InMemory, Stale
  <2>2. g \in Hits /\ g.count = h.count /\ g.until = h.until /\ g.n = h.n + 1 /\ g.t = h.t
    BY DEF Hits
  <2> HIDE DEF g
  <2>3. InMemory(h, now).hits = g /\ InMemory(h, now).served = TRUE
    BY <2>1
  <2>4. h.n < RATE_LIMIT_PER_MIN
    BY <1>0, <1>3
  <2>5. InMemory(h, now).served <=> h.n < RATE_LIMIT_PER_MIN
    BY <2>3, <2>4
  <2>6. InMemory(h, now).served \in BOOLEAN
    BY <2>3
  <2>7. /\ InMemory(h, now).hits \in Hits
        /\ InMemory(h, now).hits.count = h.count /\ InMemory(h, now).hits.until = h.until
        /\ InMemory(h, now).hits.n = h.n + 1 /\ InMemory(h, now).hits.t = h.t
    BY <2>2, <2>3
  <2> QED
    BY <1>3, <2>4, <2>5, <2>6, <2>7
<1> QED
  BY <1>1, <1>2, <1>3
\* What one request does to the Redis counter.
LEMMA LimitRedis ==
    ASSUME NEW h \in Hits, NEW x \in Request
    PROVE  /\ Limit(h, x).hits \in Hits /\ Limit(h, x).served \in BOOLEAN
           /\ x.redis = "down" => /\ Limit(h, x).hits.count = h.count
                                  /\ Limit(h, x).hits.until = h.until
           /\ x.redis # "down" /\ Fresh(h, x.time) =>
                  /\ Limit(h, x).hits.count = 1
                  /\ Limit(h, x).hits.until \in {Never, x.time + WINDOW}
                  /\ x.redis = "up" => /\ Limit(h, x).hits.until = x.time + WINDOW
                                       /\ Limit(h, x).served
           /\ x.redis # "down" /\ ~ Fresh(h, x.time) =>
                  /\ Limit(h, x).hits.count = h.count + 1
                  /\ Limit(h, x).hits.until = h.until
                  /\ x.redis # "lost" => (Limit(h, x).served <=> h.count + 1 <= RATE_LIMIT_PER_MIN)
<1> DEFINE now == x.time
           e == x.redis = "up"
           r == Incr(h, now, e)
<1>0. now \in Nat /\ e \in BOOLEAN /\ x.redis \in {"up", "down", "lost", "half"}
  BY DEF Request
<1>1. Limit(h, x) = IF x.redis = "down" THEN InMemory(h, now)
                    ELSE IF x.redis = "lost" \/ (x.redis = "half" /\ r.count = 1) THEN InMemory(r, now)
                    ELSE [hits |-> r, served |-> r.count <= RATE_LIMIT_PER_MIN]
  BY Zenon DEF Limit
<1> HIDE DEF now, e
<1>2. /\ r \in Hits /\ r.n = h.n /\ r.t = h.t
      /\ Fresh(h, now) => r.count = 1 /\ r.until = IF e THEN now + WINDOW ELSE Never
      /\ ~ Fresh(h, now) => r.count = h.count + 1 /\ r.until = h.until
  BY <1>0, IncrFields
<1> HIDE DEF r
<1>3. h.count \in Nat /\ r.count \in Nat /\ RATE_LIMIT_PER_MIN \in Nat \ {0}
  BY <1>2, LimitAssumption DEF Hits
<1>4. CASE x.redis = "down"
  <2>1. Limit(h, x) = InMemory(h, now)
    BY <1>1, <1>4
  <2>2. /\ InMemory(h, now).hits \in Hits /\ InMemory(h, now).served \in BOOLEAN
        /\ InMemory(h, now).hits.count = h.count /\ InMemory(h, now).hits.until = h.until
    BY <1>0, InMemoryFields
  <2> QED
    BY <1>4, <2>1, <2>2, Zenon
<1>5. CASE x.redis = "half" /\ r.count = 1
  <2>1. Limit(h, x) = InMemory(r, now)
    BY <1>1, <1>5
  <2>2. /\ InMemory(r, now).hits \in Hits /\ InMemory(r, now).served \in BOOLEAN
        /\ InMemory(r, now).hits.count = r.count /\ InMemory(r, now).hits.until = r.until
    BY <1>0, <1>2, InMemoryFields
  <2>3. Fresh(h, now)
    <3>1. h.count = 0 => Fresh(h, now)
      BY DEF Fresh
    <3> QED
      BY <1>2, <1>3, <1>5, <3>1
  <2>4. r.until \in {Never, now + WINDOW}
    BY <1>2, <2>3
  <2>5. /\ Limit(h, x).hits \in Hits /\ Limit(h, x).served \in BOOLEAN
        /\ Limit(h, x).hits.count = 1 /\ Limit(h, x).hits.until \in {Never, now + WINDOW}
    BY <1>5, <2>1, <2>2, <2>4, Zenon
  <2> QED
    BY <1>5, <2>3, <2>5 DEF now
<1>6. CASE x.redis \notin {"down", "lost"} /\ ~ (x.redis = "half" /\ r.count = 1)
  <2> DEFINE b == r.count <= RATE_LIMIT_PER_MIN
  <2>1. Limit(h, x) = [hits |-> r, served |-> b]
    BY <1>1, <1>6
  <2>5. b \in BOOLEAN
    BY <1>3
  <2> HIDE DEF b
  <2>6. Limit(h, x).hits = r /\ Limit(h, x).served = b
    BY <2>1
  <2>2. /\ Limit(h, x).hits = r
        /\ Limit(h, x).served <=> r.count <= RATE_LIMIT_PER_MIN
        /\ Limit(h, x).served \in BOOLEAN
    BY <2>5, <2>6 DEF b
  <2>3. Fresh(h, now) => e
    BY <1>0, <1>2, <1>6 DEF e
  <2>4. Fresh(h, now) => r.until = now + WINDOW /\ r.count = 1 /\ r.count <= RATE_LIMIT_PER_MIN
    BY <1>2, <1>3, <2>3
  <2> QED
    BY <1>2, <1>6, <2>2, <2>4 DEF now
<1>7. CASE x.redis = "lost"
  <2>1. Limit(h, x) = InMemory(r, now)
    BY <1>1, <1>7
  <2>2. /\ InMemory(r, now).hits \in Hits /\ InMemory(r, now).served \in BOOLEAN
        /\ InMemory(r, now).hits.count = r.count /\ InMemory(r, now).hits.until = r.until
    BY <1>0, <1>2, InMemoryFields
  <2>3. /\ Limit(h, x).hits \in Hits /\ Limit(h, x).served \in BOOLEAN
        /\ Limit(h, x).hits.count = r.count /\ Limit(h, x).hits.until = r.until
    BY <2>1, <2>2, Zenon
  <2>4. Fresh(h, now) => r.count = 1 /\ r.until \in {Never, now + WINDOW}
    BY <1>2
  <2> QED
    BY <1>2, <1>7, <2>3, <2>4 DEF now
<1> QED
  BY <1>0, <1>4, <1>5, <1>6, <1>7

\* What one request does to the in-memory counter.
LEMMA LimitMemory ==
    ASSUME NEW h \in Hits, NEW x \in Request
    PROVE  /\ \/ x.redis \notin {"down", "lost"}
                 /\ Limit(h, x).hits.n = h.n /\ Limit(h, x).hits.t = h.t
              \/ Stale(h, x.time) /\ Limit(h, x).hits.n = 1
                 /\ Limit(h, x).hits.t = x.time + WINDOW
              \/ ~ Stale(h, x.time) /\ Limit(h, x).hits.t = h.t
                 /\ Limit(h, x).hits.n = IF h.n < RATE_LIMIT_PER_MIN THEN h.n + 1 ELSE h.n
           /\ x.redis \in {"down", "lost"} => (Limit(h, x).served <=> Stale(h, x.time)
                                                  \/ h.n < RATE_LIMIT_PER_MIN)
<1> DEFINE now == x.time
           e == x.redis = "up"
           r == Incr(h, now, e)
<1>0. now \in Nat /\ e \in BOOLEAN
  BY DEF Request
<1>1. Limit(h, x) = IF x.redis = "down" THEN InMemory(h, now)
                    ELSE IF x.redis = "lost" \/ (x.redis = "half" /\ r.count = 1) THEN InMemory(r, now)
                    ELSE [hits |-> r, served |-> r.count <= RATE_LIMIT_PER_MIN]
  BY Zenon DEF Limit
<1> HIDE DEF now, e
<1>2. r \in Hits /\ r.n = h.n /\ r.t = h.t
  BY <1>0, IncrFields
<1> HIDE DEF r
<1>3. Stale(r, now) <=> Stale(h, now)
  BY <1>2 DEF Stale
<1>4. ASSUME NEW g \in {h, r}
      PROVE  /\ g.n = h.n /\ g.t = h.t /\ (Stale(g, now) <=> Stale(h, now))
             /\ Stale(g, now) => InMemory(g, now).hits.n = 1
                                 /\ InMemory(g, now).hits.t = now + WINDOW
                                 /\ InMemory(g, now).served
             /\ ~ Stale(g, now) => /\ InMemory(g, now).hits.t = g.t
                                   /\ InMemory(g, now).served <=> g.n < RATE_LIMIT_PER_MIN
                                   /\ InMemory(g, now).hits.n =
                                          IF g.n < RATE_LIMIT_PER_MIN THEN g.n + 1 ELSE g.n
  <2>1. g \in Hits
    BY <1>2
  <2>2. g.n = h.n /\ g.t = h.t /\ (Stale(g, now) <=> Stale(h, now))
    BY <1>2, <1>3
  <2> QED
    BY <1>0, <2>1, <2>2, InMemoryFields
<1>5. CASE x.redis = "down"
  <2>1. Limit(h, x) = InMemory(h, now)
    BY <1>1, <1>5
  <2> QED
    BY <1>4, <1>5, <2>1 DEF now
<1>6. CASE x.redis = "lost" \/ (x.redis = "half" /\ r.count = 1)
  <2>1. Limit(h, x) = InMemory(r, now)
    BY <1>1, <1>6
  <2> QED
    BY <1>4, <1>6, <2>1 DEF now
<1>7. CASE x.redis \notin {"down", "lost"} /\ ~ (x.redis = "half" /\ r.count = 1)
  <2>1. Limit(h, x).hits = r
    BY <1>1, <1>7
  <2> QED
    BY <1>2, <1>7, <2>1
<1> QED
  BY <1>5, <1>6, <1>7

\* The first request of a window whose EXPIRE fails is left to memory.
LEMMA HalfInMemory ==
    ASSUME NEW h \in Hits, NEW x \in Request, x.redis = "half",
           Fresh(h, x.time), Stale(h, x.time)
    PROVE  Limit(h, x).served
<1> DEFINE now == x.time
           r == Incr(h, now, FALSE)
<1>1. now \in Nat
  BY DEF Request
<1>2. Limit(h, x) = IF r.count = 1 THEN InMemory(r, now)
                    ELSE [hits |-> r, served |-> r.count <= RATE_LIMIT_PER_MIN]
  BY Zenon DEF Limit
<1> HIDE DEF now
<1>3. r \in Hits /\ r.n = h.n /\ r.t = h.t /\ r.count = 1
  BY <1>1, IncrFields DEF now
<1> HIDE DEF r
<1>4. Stale(r, now)
  BY <1>3 DEF Stale, now
<1>5. InMemory(r, now).served
  BY <1>1, <1>3, <1>4, InMemoryFields
<1> QED
  BY <1>2, <1>3, <1>5

\* The counters follow the requests one by one.
LEMMA CountersStep ==
    ASSUME NEW xs \in Seq(Request)
    PROVE  /\ Counters(xs)[0] = [hits |-> NoHits, served |-> {}]
           /\ \A n \in 0 .. Len(xs) : Counters(xs)[n].hits \in Hits
           /\ \A n \in 1 .. Len(xs) :
                  /\ Counters(xs)[n].hits = Limit(Counters(xs)[n - 1].hits, xs[n]).hits
                  /\ Counters(xs)[n].served =
                         Counters(xs)[n - 1].served
                           \cup IF Limit(Counters(xs)[n - 1].hits, xs[n]).served THEN {n} ELSE {}
<1> DEFINE N == Len(xs)
           State == [hits : Hits, served : SUBSET Nat]
           first == [hits |-> NoHits, served |-> {}]
           next(s, n) == [hits |-> Limit(s.hits, xs[n]).hits,
                          served |-> s.served \cup IF Limit(s.hits, xs[n]).served THEN {n} ELSE {}]
           step == [n \in 1 .. N |-> [s \in State |-> next(s, n)]]
           F(f) == [n \in 0 .. N |-> IF n = 0 THEN first
                                     ELSE LET a == Limit(f[n - 1].hits, xs[n])
                                          IN  [hits |-> a.hits,
                                               served |-> f[n - 1].served
                                                            \cup IF a.served THEN {n} ELSE {}]]
<1>1. N \in Nat /\ \A n \in 1 .. N : xs[n] \in Request
  OBVIOUS
<1>2. first \in State
  BY DEF NoHits, Hits
<1>3. \A n \in 1 .. N, s \in State : next(s, n) \in State
  <2>1. ASSUME NEW n \in 1 .. N, NEW s \in State PROVE next(s, n) \in State
    <3>1. s.hits \in Hits /\ s.served \in SUBSET Nat
      OBVIOUS
    <3>2. Limit(s.hits, xs[n]).hits \in Hits
      BY <1>1, <3>1, LimitRedis
    <3> QED
      BY <3>1, <3>2
  <2> QED
    BY <2>1
<1>4. Counters(xs) = CHOOSE f : f = F(f)
  BY Zenon DEF Counters
<1> HIDE DEF State, first
<1>5. step \in [1 .. N -> [State -> State]]
  <2> HIDE DEF next
  <2> QED
    BY <1>3
<1>6. PICK f \in [0 .. N -> State] :
          f[0] = first /\ \A n \in 1 .. N : f[n] = step[n][f[n - 1]]
  <2>1. N \in Nat
    BY <1>1
  <2> HIDE DEF step, N, next, F
  <2>2. \E f \in [0 .. N -> State] : Iterated(f, N, first, step)
    BY <2>1, <1>2, <1>5, Iterates
  <2> QED
    BY <2>2 DEF Iterated
<1>7. f = F(f)
  <2>1. ASSUME NEW n \in 0 .. N PROVE f[n] = F(f)[n]
    <3>1. CASE n = 0
      BY <1>6, <3>1
    <3>2. CASE n # 0
      <4>1. n \in 1 .. N /\ n - 1 \in 0 .. N
        BY <1>1, <3>2
      <4>2. f[n - 1] \in State
        BY <1>6, <4>1
      <4>3. f[n] = step[n][f[n - 1]]
        BY <1>6, <4>1
      <4>4. f[n] = next(f[n - 1], n)
        BY <4>1, <4>2, <4>3
      <4>5. F(f)[n] = next(f[n - 1], n)
        BY <3>2
      <4> QED
        BY <4>4, <4>5
    <3> QED
      BY <3>1, <3>2
  <2>2. f = [n \in 0 .. N |-> f[n]] /\ F(f) = [n \in 0 .. N |-> F(f)[n]]
    BY <1>6
  <2> HIDE DEF F
  <2> QED
    BY <2>1, <2>2
<1> DEFINE C == Counters(xs)
<1>8. C = F(C)
  <2> HIDE DEF F
  <2> QED
    BY <1>4, <1>7
<1> HIDE DEF C
<1>9. C[0] = first
  BY <1>1, <1>8
<1>10. \A n \in 1 .. N : C[n] = next(C[n - 1], n)
  <2>1. ASSUME NEW n \in 1 .. N PROVE C[n] = next(C[n - 1], n)
    <3>1. C[n] = F(C)[n]
      <4> HIDE DEF F
      <4> QED
        BY <1>8
    <3>2. n \in 0 .. N /\ n # 0
      BY <1>1
    <3>3. F(C)[n] = next(C[n - 1], n)
      BY <3>2
    <3> QED
      BY <3>1, <3>3
  <2> QED
    BY <2>1
<1>11. 0 .. N \subseteq {n \in 0 .. N : C[n] \in State}
  <2> DEFINE G == {n \in 0 .. N : C[n] \in State}
  <2>1. 0 \in G
    BY <1>1, <1>2, <1>9
  <2>2. \A n \in 1 .. N : n - 1 \in G => n \in G
    <3> HIDE DEF next
    <3> QED
      BY <1>1, <1>3, <1>10
  <2> HIDE DEF G, N
  <2>3. 0 .. N \subseteq G
    BY <1>1, <2>1, <2>2, Steps
  <2> QED
    BY <2>3 DEF G
<1>12. \A n \in 0 .. N : C[n].hits \in Hits
  BY <1>11 DEF State
<1>13. \A n \in 1 .. N :
           /\ C[n].hits = Limit(C[n - 1].hits, xs[n]).hits
           /\ C[n].served = C[n - 1].served \cup IF Limit(C[n - 1].hits, xs[n]).served
                                                 THEN {n} ELSE {}
  <2>1. ASSUME NEW n \in 1 .. N
        PROVE  /\ next(C[n - 1], n).hits = Limit(C[n - 1].hits, xs[n]).hits
               /\ next(C[n - 1], n).served =
                      C[n - 1].served \cup IF Limit(C[n - 1].hits, xs[n]).served THEN {n} ELSE {}
    OBVIOUS
  <2> HIDE DEF next
  <2> QED
    BY <1>10, <2>1
<1> QED
  BY <1>9, <1>12, <1>13 DEF C, first
Serves(xs, k) == Limit(Counters(xs)[k - 1].hits, xs[k]).served

\* A request that is served stays so.
LEMMA ServedAre ==
    ASSUME NEW xs \in Seq(Request)
    PROVE  Served(xs) = {k \in 1 .. Len(xs) : Serves(xs, k)}
<1> DEFINE N == Len(xs)
           C == Counters(xs)
           Upto(n) == {k \in 1 .. n : Serves(xs, k)}
           G == {n \in 0 .. N : C[n].served = Upto(n)}
<1>1. N \in Nat
  OBVIOUS
<1>2. 0 \in G
  <2>1. C[0].served = {}
    BY CountersStep
  <2>2. Upto(0) = {}
    OBVIOUS
  <2> QED
    BY <1>1, <2>1, <2>2
<1>3. \A n \in 1 .. N : n - 1 \in G => n \in G
  <2>1. ASSUME NEW n \in 1 .. N, n - 1 \in G PROVE n \in G
    <3>1. C[n].served = C[n - 1].served \cup IF Serves(xs, n) THEN {n} ELSE {}
      BY CountersStep DEF Serves
    <3>2. C[n - 1].served = Upto(n - 1)
      BY <2>1
    <3>3. \A k : k \in 1 .. n <=> k \in 1 .. n - 1 \/ k = n
      OBVIOUS
    <3>4. Upto(n) = Upto(n - 1) \cup IF Serves(xs, n) THEN {n} ELSE {}
      BY <3>3
    <3>5. n \in 0 .. N
      BY <1>1
    <3> QED
      BY <3>1, <3>2, <3>4, <3>5
  <2> QED
    BY <2>1
<1>4. N \in G
  <2> HIDE DEF G, N
  <2>1. 0 .. N \subseteq G
    BY <1>1, <1>2, <1>3, Steps
  <2> QED
    BY <1>1, <2>1
<1> QED
  BY <1>4 DEF Served

\* An address that pauses for more than a minute finds both counters run out, or
\* the one in Redis, where it was left without a time to live, not yet full.
THEOREM SilenceServed == Spec => []NoLockout
<1>1. InputOK => NoLockout
  <2> SUFFICES ASSUME InputOK, input.kind = "traffic", NEW n \in DOMAIN input.traffic,
                      n > 1 => input.traffic[n].time > input.traffic[n - 1].time + WINDOW,
                      \A k \in 1 .. n : input.traffic[k].redis \in {"lost", "half"}
                                             => n - k < RATE_LIMIT_PER_MIN
               PROVE  n \in Served(input.traffic)
    BY DEF NoLockout
  <2> DEFINE xs == input.traffic
             C == Counters(xs)
             N == Len(xs)
  <2>1. xs \in Seq(Request) /\ InOrder(xs)
    BY InputKinds, TrafficAssumption DEF Request
  <2>2. /\ N \in Nat /\ n \in 1 .. N /\ \A k \in 1 .. N : xs[k] \in Request
        /\ \A k \in 1 .. N : xs[k].time \in Nat /\ xs[k].redis \in {"up", "down", "lost", "half"}
        /\ \A k \in 1 .. n : xs[k].redis \in {"lost", "half"} => n - k < RATE_LIMIT_PER_MIN
        /\ n > 1 => xs[n].time > xs[n - 1].time + WINDOW
    <3>1. N \in Nat /\ n \in 1 .. N /\ \A k \in 1 .. N : xs[k] \in Request
      BY <2>1
    <3>2. \A x \in Request : x.time \in Nat /\ x.redis \in {"up", "down", "lost", "half"}
      BY DEF Request
    <3>3. /\ \A k \in 1 .. n : xs[k].redis \in {"lost", "half"} => n - k < RATE_LIMIT_PER_MIN
          /\ n > 1 => xs[n].time > xs[n - 1].time + WINDOW
      OBVIOUS
    <3> HIDE DEF xs, N
    <3> QED
      BY <3>1, <3>2, <3>3
  <2> DEFINE Unexpiring(h, m) == h.until = Never /\ h.count + n - m <= RATE_LIMIT_PER_MIN
             Bounded(h, m, now) ==
                 /\ \/ h.count = 0
                    \/ h.until # Never /\ h.until <= now + WINDOW
                    \/ Unexpiring(h, m)
                 /\ h.t <= now + WINDOW
             time(m) == IF m = 0 THEN 0 ELSE xs[m].time
             G == {m \in 0 .. n - 1 : Bounded(C[m].hits, m, time(m))}
  <2>3. 0 \in G
    <3>1. C[0].hits = NoHits
      BY <2>1, CountersStep
    <3> QED
      BY <2>2, <3>1 DEF NoHits, WINDOW
  <2>4. ASSUME NEW m \in 1 .. n - 1, m - 1 \in G PROVE m \in G
    <3> DEFINE h == C[m - 1].hits
               g == C[m].hits
               x == xs[m]
    <3>1. m \in 1 .. N /\ m - 1 \in 0 .. N /\ m \in 0 .. n - 1 /\ m \in 1 .. n
      BY <2>2
    <3>2. h \in Hits /\ x \in Request /\ g = Limit(h, x).hits
      BY <2>1, <2>2, <3>1, CountersStep
    <3>3. /\ x.redis \in {"up", "down", "lost", "half"} /\ x.time \in Nat
          /\ x.redis \in {"lost", "half"} => n - m < RATE_LIMIT_PER_MIN
          /\ time(m - 1) \in Nat /\ time(m - 1) <= x.time
      <4>1. /\ x.redis \in {"up", "down", "lost", "half"} /\ x.time \in Nat
            /\ x.redis \in {"lost", "half"} => n - m < RATE_LIMIT_PER_MIN
        BY <2>2, <3>1
      <4>2. CASE m = 1
        BY <4>1, <4>2
      <4>3. CASE m # 1
        <5>1. m \in DOMAIN xs /\ m - 1 \in 1 .. m /\ m - 1 \in 1 .. N /\ m - 1 # 0
          BY <2>1, <3>1, <4>3
        <5>2. xs[m - 1].time <= x.time /\ xs[m - 1].time \in Nat
          BY <2>1, <2>2, <5>1 DEF InOrder
        <5> QED
          BY <4>1, <5>1, <5>2
      <4> QED
        BY <4>2, <4>3
    <3>4. Bounded(h, m - 1, time(m - 1))
      BY <2>4
    <3>5. time(m) = x.time
      BY <3>1
    <3> HIDE DEF C, xs, time
    <3> HIDE DEF h, x, g
    <3>0. n \in Nat /\ m \in Nat /\ RATE_LIMIT_PER_MIN \in Nat
      BY <2>2, LimitAssumption
    <3>6. \/ g.count = 0
          \/ g.until # Never /\ g.until <= x.time + WINDOW
          \/ Unexpiring(g, m)
      <4>1. /\ x.redis = "down" => g.count = h.count /\ g.until = h.until
            /\ x.redis # "down" /\ Fresh(h, x.time) => g.until \in {Never, x.time + WINDOW} /\ g.count = 1
            /\ x.redis = "up" /\ Fresh(h, x.time) => g.until = x.time + WINDOW
            /\ x.redis # "down" /\ ~ Fresh(h, x.time) => g.until = h.until /\ g.count = h.count + 1
        BY <3>2, LimitRedis
      <4>2. h.count = 0 => Fresh(h, x.time)
        BY DEF Fresh
      <4>3. h.until \in Nat /\ h.count \in Nat
        BY <3>2 DEF Hits
      <4>4. CASE x.redis = "down"
        BY <3>0, <3>3, <3>4, <4>1, <4>3, <4>4 DEF WINDOW, Never
      <4>5. CASE x.redis # "down" /\ Fresh(h, x.time)
        BY <3>0, <3>3, <4>1, <4>5 DEF WINDOW, Never
      <4>6. CASE x.redis # "down" /\ ~ Fresh(h, x.time)
        BY <3>0, <3>3, <3>4, <4>1, <4>2, <4>3, <4>6 DEF WINDOW, Never
      <4> QED
        BY <4>4, <4>5, <4>6
    <3>7. g.t <= x.time + WINDOW
      <4>1. g.t = h.t \/ g.t = x.time + WINDOW
        BY <3>2, LimitMemory
      <4>2. h.t \in Nat
        BY <3>2 DEF Hits
      <4> QED
        BY <3>3, <3>4, <4>1, <4>2 DEF WINDOW
    <3>8. Bounded(g, m, time(m))
      BY <3>5, <3>6, <3>7
    <3> QED
      BY <3>1, <3>8 DEF g
  <2>5. n - 1 \in G
    <3>1. n - 1 \in Nat /\ n - 1 \in 0 .. n - 1
      BY <2>2
    <3> DEFINE M == n - 1
    <3>2. \A m \in 1 .. M : m - 1 \in G => m \in G
      BY <2>4
    <3> HIDE DEF G, M
    <3>3. 0 .. M \subseteq G
      <4>1. M \in Nat
        BY <3>1 DEF M
      <4> QED
        BY <2>3, <3>2, <4>1, Steps
    <3> QED
      BY <3>1, <3>3 DEF M
  <2> DEFINE h == C[n - 1].hits
             x == xs[n]
  <2>6. h \in Hits /\ x \in Request /\ Bounded(h, n - 1, time(n - 1)) /\ n - 1 \in 0 .. N
    <3>1. Bounded(h, n - 1, time(n - 1))
      <4> HIDE DEF Bounded
      <4> QED
        BY <2>5
    <3>2. n - 1 \in 0 .. N /\ x \in Request
      BY <2>2
    <3>3. h \in Hits
      BY <2>1, <3>2, CountersStep
    <3> QED
      BY <3>1, <3>2, <3>3
  <2>7. x.time \in Nat /\ x.redis \in {"up", "down", "lost", "half"} /\ time(n - 1) \in Nat
        /\ (n = 1 \/ x.time > time(n - 1) + WINDOW)
    <3>1. x.time \in Nat /\ x.redis \in {"up", "down", "lost", "half"}
      BY <2>2
    <3>2. CASE n = 1
      BY <3>1, <3>2
    <3>3. CASE n # 1
      <4>1. n - 1 \in 1 .. N /\ n > 1 /\ n - 1 # 0
        BY <2>2, <3>3
      <4> QED
        BY <2>2, <3>1, <4>1
    <3> QED
      BY <3>2, <3>3
  <2>8. /\ Fresh(h, x.time) \/ h.count + 1 <= RATE_LIMIT_PER_MIN
        /\ Stale(h, x.time)
    <3>1. CASE n = 1
      <4>1. h = NoHits
        BY <2>1, <3>1, CountersStep
      <4> QED
        BY <4>1 DEF NoHits, Fresh, Stale
    <3>2. CASE n # 1
      <4>1. x.time > time(n - 1) + WINDOW /\ h.until \in Nat /\ h.t \in Nat /\ h.count \in Nat
        BY <2>6, <2>7, <3>2 DEF Hits
      <4>2. Bounded(h, n - 1, time(n - 1))
        BY <2>6
      <4>3. n \in Nat /\ RATE_LIMIT_PER_MIN \in Nat
        BY <2>2, LimitAssumption
      <4> HIDE DEF h, x, time
      <4>4. Fresh(h, x.time) \/ h.count + 1 <= RATE_LIMIT_PER_MIN
        BY <2>7, <4>1, <4>2, <4>3 DEF Fresh, WINDOW
      <4>5. Stale(h, x.time)
        BY <2>7, <4>1, <4>2 DEF Stale, WINDOW
      <4> QED
        BY <4>4, <4>5
    <3> QED
      BY <3>1, <3>2
  <2>9. Limit(h, x).served
    <3> HIDE DEF h, x, time
    <3>1. CASE x.redis = "up"
      BY <2>6, <2>8, <3>1, LimitRedis
    <3>2. CASE x.redis \in {"down", "lost"}
      BY <2>6, <2>8, <3>2, LimitMemory
    <3>3. CASE x.redis = "half" /\ ~ Fresh(h, x.time)
      BY <2>6, <2>8, <3>3, LimitRedis
    <3>4. CASE x.redis = "half" /\ Fresh(h, x.time)
      BY <2>6, <2>8, <3>4, HalfInMemory
    <3> QED
      BY <2>7, <3>1, <3>2, <3>3, <3>4
  <2>10. Serves(xs, n)
    BY <2>9 DEF Serves
  <2>11. Served(xs) = {k \in 1 .. N : Serves(xs, k)}
    BY <2>1, ServedAre
  <2> QED
    BY <2>2, <2>10, <2>11
<1> QED
  BY <1>1, Picked, PTL
\* The requests in n .. m that are served within a minute of request n, with
\* Redis in one of the given modes.
ServedFrom(xs, n, m, modes) ==
    {k \in n .. m : Serves(xs, k) /\ xs[k].redis \in modes
                    /\ xs[k].time < xs[n].time + WINDOW}

\* Each request adds itself or nothing.
LEMMA ServedFromGrows ==
    ASSUME NEW xs, NEW n \in Nat \ {0}, NEW m \in Nat, NEW modes, n - 1 <= m,
           IsFiniteSet(ServedFrom(xs, n, m, modes))
    PROVE  /\ IsFiniteSet(ServedFrom(xs, n, m + 1, modes))
           /\ \/ Cardinality(ServedFrom(xs, n, m + 1, modes))
                    = Cardinality(ServedFrom(xs, n, m, modes))
              \/ /\ Cardinality(ServedFrom(xs, n, m + 1, modes))
                       = Cardinality(ServedFrom(xs, n, m, modes)) + 1
                 /\ Serves(xs, m + 1) /\ xs[m + 1].redis \in modes
                 /\ xs[m + 1].time < xs[n].time + WINDOW
<1> DEFINE S == ServedFrom(xs, n, m, modes)
           new == Serves(xs, m + 1) /\ xs[m + 1].redis \in modes
                  /\ xs[m + 1].time < xs[n].time + WINDOW
<1>1. \A k : k \in n .. m + 1 <=> k \in n .. m \/ k = m + 1
  OBVIOUS
<1>2. m + 1 \notin S
  BY DEF ServedFrom
<1>3. ServedFrom(xs, n, m + 1, modes) = IF new THEN S \cup {m + 1} ELSE S
  BY <1>1 DEF ServedFrom
<1> HIDE DEF S
<1>4. CASE new
  <2>1. ServedFrom(xs, n, m + 1, modes) = S \cup {m + 1}
    BY <1>3, <1>4
  <2>2. IsFiniteSet(S \cup {m + 1}) /\ Cardinality(S \cup {m + 1}) = Cardinality(S) + 1
    <3>1. IsFiniteSet(S)
      BY DEF S
    <3> QED
      BY <1>2, <3>1, FS_AddElement
  <2> QED
    BY <1>4, <2>1, <2>2 DEF S
<1>5. CASE ~ new
  <2>1. ServedFrom(xs, n, m + 1, modes) = S
    BY <1>3, <1>5
  <2> QED
    BY <2>1 DEF S
<1> QED
  BY <1>4, <1>5

\* c requests of the Redis counter were served since some request less than a
\* minute before T: no window or one has ended since.
RedisCount(h, c, T) ==
    \/ c <= h.count /\ c <= RATE_LIMIT_PER_MIN
    \/ /\ c <= RATE_LIMIT_PER_MIN + h.count /\ h.count >= 1
       /\ h.until = Never \/ h.until >= T

\* The same of the in-memory counter.
MemoryCount(h, c, T) ==
    \/ c <= h.n /\ c <= RATE_LIMIT_PER_MIN
    \/ c <= RATE_LIMIT_PER_MIN + h.n /\ h.n <= RATE_LIMIT_PER_MIN /\ h.t >= T

\* A request of before T that Redis counts.
LEMMA RedisStep ==
    ASSUME NEW h \in Hits, NEW x \in Request, NEW T \in Nat, T <= x.time + WINDOW, x.time < T,
           NEW c \in Nat, NEW d \in Nat, c <= 2 * RATE_LIMIT_PER_MIN, RedisCount(h, c, T),
           d = c \/ (d = c + 1 /\ Limit(h, x).served /\ x.redis \in {"up", "half"})
    PROVE  RedisCount(Limit(h, x).hits, d, T) /\ d <= 2 * RATE_LIMIT_PER_MIN
<1> DEFINE g == Limit(h, x).hits
           served == Limit(h, x).served
           now == x.time
           L == RATE_LIMIT_PER_MIN
           fresh == Fresh(h, now)
<1>1. L \in Nat \ {0} /\ now \in Nat /\ h.count \in Nat /\ h.until \in Nat
      /\ g.count \in Nat /\ g.until \in Nat
  BY LimitAssumption, LimitRedis DEF Hits, Request
<1>2. /\ x.redis = "down" => g.count = h.count /\ g.until = h.until
      /\ x.redis # "down" /\ fresh => g.count = 1 /\ g.until \in {Never, now + WINDOW}
      /\ x.redis # "down" /\ ~ fresh =>
             /\ g.count = h.count + 1 /\ g.until = h.until
             /\ x.redis # "lost" => (served <=> h.count + 1 <= L)
  BY LimitRedis
<1>3. fresh <=> h.count = 0 \/ (h.until # Never /\ now >= h.until)
  BY DEF Fresh
<1>4. now < T /\ T <= now + WINDOW /\ T \in Nat
  OBVIOUS
<1>5. d = c \/ (d = c + 1 /\ served /\ x.redis \in {"up", "half"})
  OBVIOUS
<1> HIDE DEF g, served, now, L, fresh
<1>6. CASE c <= h.count /\ c <= L
  <2>1. CASE x.redis = "down"
    <3>1. d = c /\ g.count = h.count
      BY <1>2, <1>5, <2>1
    <3> QED
      BY <1>1, <1>6, <3>1 DEF RedisCount, g, L
  <2>2. CASE x.redis # "down" /\ ~ fresh
    <3>1. d <= g.count /\ d <= L
      BY <1>1, <1>2, <1>5, <1>6, <2>2
    <3> QED
      BY <1>1, <3>1 DEF RedisCount, g, L
  <2>3. CASE x.redis # "down" /\ fresh
    <3>1. d <= L + g.count /\ g.count = 1 /\ (g.until = Never \/ g.until >= T)
      BY <1>1, <1>2, <1>4, <1>5, <1>6, <2>3 DEF WINDOW
    <3>2. d <= 2 * L
      BY <1>1, <3>1
    <3> QED
      BY <1>1, <3>1, <3>2 DEF RedisCount, g, L
  <2> QED
    BY <2>1, <2>2, <2>3
<1>7. CASE c <= L + h.count /\ h.count >= 1 /\ (h.until = Never \/ h.until >= T)
  <2>1. ~ fresh
    BY <1>1, <1>3, <1>4, <1>7
  <2>2. c <= 2 * L
    BY DEF L
  <2>3. CASE x.redis = "down"
    <3>1. d = c /\ g.count = h.count /\ g.until = h.until
      BY <1>2, <1>5, <2>3
    <3> QED
      BY <1>1, <1>7, <2>2, <3>1 DEF RedisCount, g, L
  <2>4. CASE x.redis # "down"
    <3>1. /\ g.count = h.count + 1 /\ g.until = h.until
          /\ x.redis # "lost" => (served <=> h.count + 1 <= L)
      BY <1>2, <2>1, <2>4
    <3>2. d <= L + g.count /\ d <= 2 * L /\ g.count >= 1
      BY <1>1, <1>5, <1>7, <2>2, <3>1
    <3> QED
      BY <1>1, <1>7, <3>1, <3>2 DEF RedisCount, g, L
  <2> QED
    BY <2>3, <2>4
<1> QED
  BY <1>6, <1>7 DEF RedisCount, L

\* A request of before T that memory counts.
LEMMA MemoryStep ==
    ASSUME NEW h \in Hits, NEW x \in Request, NEW T \in Nat, T <= x.time + WINDOW, x.time < T,
           NEW c \in Nat, NEW d \in Nat, c <= 2 * RATE_LIMIT_PER_MIN, MemoryCount(h, c, T),
           d = c \/ (d = c + 1 /\ Limit(h, x).served /\ x.redis \in {"down", "lost"})
    PROVE  MemoryCount(Limit(h, x).hits, d, T) /\ d <= 2 * RATE_LIMIT_PER_MIN
<1> DEFINE g == Limit(h, x).hits
           served == Limit(h, x).served
           now == x.time
           L == RATE_LIMIT_PER_MIN
           stale == Stale(h, now)
           down == x.redis \in {"down", "lost"}
<1>1. L \in Nat \ {0} /\ now \in Nat /\ h.n \in Nat /\ h.t \in Nat /\ g.n \in Nat /\ g.t \in Nat
  BY LimitAssumption, LimitRedis DEF Hits, Request
<1>2. /\ \/ ~ down /\ g.n = h.n /\ g.t = h.t
         \/ stale /\ g.n = 1 /\ g.t = now + WINDOW
         \/ ~ stale /\ g.t = h.t /\ g.n = IF h.n < L THEN h.n + 1 ELSE h.n
      /\ down => (served <=> stale \/ h.n < L)
  BY LimitMemory
<1>3. stale <=> h.t = 0 \/ now > h.t
  BY DEF Stale
<1>4. now < T /\ T <= now + WINDOW /\ T \in Nat /\ c <= 2 * L
  OBVIOUS
<1>5. d = c \/ (d = c + 1 /\ served /\ down)
  OBVIOUS
<1>6. \/ c <= h.n /\ c <= L
      \/ c <= L + h.n /\ h.n <= L /\ h.t >= T
  BY DEF MemoryCount
<1> HIDE DEF g, served, now, L, stale, down
<1>7. /\ \/ d <= g.n /\ d <= L
         \/ d <= L + g.n /\ g.n <= L /\ g.t >= T
      /\ d <= 2 * L
  <2>1. CASE ~ down /\ g.n = h.n /\ g.t = h.t
    <3>1. d = c
      BY <1>5, <2>1
    <3> QED
      BY <1>4, <1>6, <2>1, <3>1
  <2>2. CASE stale /\ g.n = 1 /\ g.t = now + WINDOW
    <3>1. c <= h.n /\ c <= L
      BY <1>1, <1>3, <1>4, <1>6, <2>2
    <3>2. d <= L + 1
      BY <1>1, <1>5, <3>1
    <3> QED
      BY <1>1, <1>4, <2>2, <3>2
  <2>3. CASE ~ stale /\ g.t = h.t /\ g.n = IF h.n < L THEN h.n + 1 ELSE h.n
    <3>1. CASE h.n < L
      BY <1>1, <1>4, <1>5, <1>6, <2>3, <3>1
    <3>2. CASE ~ (h.n < L)
      <4>1. d = c
        BY <1>2, <1>5, <2>3, <3>2
      <4> QED
        BY <1>1, <1>4, <1>6, <2>3, <3>2, <4>1
    <3> QED
      BY <3>1, <3>2
  <2> QED
    BY <1>2, <2>1, <2>2, <2>3
<1> QED
  BY <1>7 DEF MemoryCount, g, L
\* Within a minute each of the two counters serves twice the limit at most.
LEMMA FromBound ==
    ASSUME NEW xs \in Seq(Request), InOrder(xs), NEW n \in 1 .. Len(xs),
           NEW modes \in {{"up", "half"}, {"down", "lost"}}
    PROVE  /\ IsFiniteSet(ServedFrom(xs, n, Len(xs), modes))
           /\ Cardinality(ServedFrom(xs, n, Len(xs), modes)) <= 2 * RATE_LIMIT_PER_MIN
<1> DEFINE N == Len(xs)
           C == Counters(xs)
           T == xs[n].time + WINDOW
           S(m) == ServedFrom(xs, n, m, modes)
           Good(h, c) == IF modes = {"down", "lost"} THEN MemoryCount(h, c, T) ELSE RedisCount(h, c, T)
           P(m) == /\ IsFiniteSet(S(m)) /\ Cardinality(S(m)) <= 2 * RATE_LIMIT_PER_MIN
                   /\ (m >= n /\ xs[m].time >= T) \/ Good(C[m].hits, Cardinality(S(m)))
           G == {m \in 0 .. N : m >= n - 1 => P(m)}
<1>1. N \in Nat /\ n \in Nat \ {0} /\ n \in 1 .. N /\ \A k \in 1 .. N : xs[k] \in Request
  OBVIOUS
<1>2. \A k \in 1 .. N : xs[k].time \in Nat
  BY <1>1 DEF Request
<1>3. T \in Nat /\ RATE_LIMIT_PER_MIN \in Nat \ {0}
  BY <1>1, <1>2, LimitAssumption DEF WINDOW
<1>4. P(n - 1)
  <2>1. S(n - 1) = {}
    BY <1>1 DEF ServedFrom
  <2>2. IsFiniteSet(S(n - 1)) /\ Cardinality(S(n - 1)) = 0
    BY <2>1, FS_EmptySet
  <2>3. C[n - 1].hits \in Hits
    BY <1>1, CountersStep
  <2>4. Good(C[n - 1].hits, 0)
    <3>1. C[n - 1].hits.count \in Nat /\ C[n - 1].hits.n \in Nat
      BY <2>3 DEF Hits
    <3> QED
      BY <1>3, <3>1 DEF RedisCount, MemoryCount
  <2> HIDE DEF Good, S
  <2> QED
    BY <1>3, <2>2, <2>4
<1>5. ASSUME NEW m \in 1 .. N, m - 1 \in G, m >= n - 1 PROVE P(m)
  <2>1. CASE m = n - 1
    BY <1>4, <2>1
  <2>2. CASE m # n - 1
    <3>1. m >= n /\ m - 1 >= n - 1 /\ m - 1 \in 0 .. N /\ m - 1 \in Nat /\ m \in Nat
      BY <1>1, <1>5, <2>2
    <3>2. P(m - 1)
      BY <1>5, <3>1
    <3> DEFINE h == C[m - 1].hits
               x == xs[m]
               c == Cardinality(S(m - 1))
               d == Cardinality(S(m))
    <3>3. h \in Hits /\ x \in Request /\ C[m].hits = Limit(h, x).hits
      BY <1>1, <3>1, CountersStep
    <3>4. x.time \in Nat /\ T <= x.time + WINDOW
      <4>1. xs[n].time <= x.time /\ xs[n].time \in Nat /\ x.time \in Nat
        <5>1. m \in DOMAIN xs /\ n \in 1 .. m
          BY <1>1, <3>1
        <5> QED
          BY <1>1, <1>2, <5>1 DEF InOrder
      <4> QED
        BY <4>1 DEF WINDOW
    <3>5. /\ IsFiniteSet(S(m))
          /\ d = c \/ (d = c + 1 /\ Limit(h, x).served /\ x.redis \in modes /\ x.time < T)
      <4> DEFINE p == m - 1
      <4>1. IsFiniteSet(S(p)) /\ p \in Nat /\ n - 1 <= p /\ p + 1 = m
        BY <3>1, <3>2
      <4> HIDE DEF p
      <4>2. /\ IsFiniteSet(S(p + 1))
            /\ \/ Cardinality(S(p + 1)) = Cardinality(S(p))
               \/ /\ Cardinality(S(p + 1)) = Cardinality(S(p)) + 1
                  /\ Serves(xs, p + 1) /\ xs[p + 1].redis \in modes
                  /\ xs[p + 1].time < xs[n].time + WINDOW
        BY <1>1, <4>1, ServedFromGrows
      <4> QED
        BY <4>1, <4>2 DEF p, Serves
    <3>6. c \in Nat /\ d \in Nat /\ c <= 2 * RATE_LIMIT_PER_MIN
      BY <3>2, <3>5, FS_CardinalityType
    <3>7. CASE x.time >= T
      <4>1. d = c
        BY <1>3, <3>4, <3>5, <3>7
      <4> QED
        BY <3>1, <3>5, <3>6, <3>7, <4>1
    <3>8. CASE ~ (x.time >= T)
      <4>1. x.time < T
        BY <1>3, <3>4, <3>8
      <4>2. Good(h, c)
        <5>1. ASSUME m - 1 >= n, xs[m - 1].time >= T PROVE FALSE
          <6>1. m \in DOMAIN xs /\ m - 1 \in 1 .. m /\ m - 1 \in 1 .. N
            BY <1>1, <3>1, <5>1
          <6>2. xs[m - 1].time <= x.time /\ xs[m - 1].time \in Nat
            BY <1>2, <6>1 DEF InOrder
          <6> QED
            BY <1>3, <3>4, <4>1, <5>1, <6>2
        <5> HIDE DEF Good, S
        <5> QED
          BY <3>2, <5>1
      <4> HIDE DEF h, x, c, d, T
      <4>3. Good(Limit(h, x).hits, d) /\ d <= 2 * RATE_LIMIT_PER_MIN
        <5>1. CASE modes = {"down", "lost"}
          <6>1. MemoryCount(h, c, T)
            BY <4>2, <5>1
          <6>2. d = c \/ (d = c + 1 /\ Limit(h, x).served /\ x.redis \in {"down", "lost"})
            BY <3>5, <5>1
          <6>3. MemoryCount(Limit(h, x).hits, d, T) /\ d <= 2 * RATE_LIMIT_PER_MIN
            BY <1>3, <3>3, <3>4, <3>6, <4>1, <6>1, <6>2, MemoryStep
          <6> QED
            BY <5>1, <6>3
        <5>2. CASE modes # {"down", "lost"}
          <6>1. RedisCount(h, c, T)
            BY <4>2, <5>2
          <6>2. d = c \/ (d = c + 1 /\ Limit(h, x).served /\ x.redis \in {"up", "half"})
            BY <3>5, <5>2
          <6>3. RedisCount(Limit(h, x).hits, d, T) /\ d <= 2 * RATE_LIMIT_PER_MIN
            BY <1>3, <3>3, <3>4, <3>6, <4>1, <6>1, <6>2, RedisStep
          <6> QED
            BY <5>2, <6>3
        <5> QED
          BY <5>1, <5>2
      <4>4. Good(C[m].hits, d)
        BY <3>3, <4>3
      <4> HIDE DEF Good
      <4> QED
        BY <3>5, <4>3, <4>4 DEF d
    <3> QED
      BY <3>7, <3>8
  <2> QED
    BY <2>1, <2>2
<1>6. N \in G
  <2> HIDE DEF P
  <2>1. 0 \in G
    <3>1. 0 >= n - 1 => 0 = n - 1
      BY <1>1
    <3> QED
      BY <1>1, <1>4, <3>1
  <2>2. \A m \in 1 .. N : m - 1 \in G => m \in G
    BY <1>1, <1>5
  <2> HIDE DEF G, N
  <2>3. 0 .. N \subseteq G
    BY <1>1, <2>1, <2>2, Steps
  <2> QED
    BY <1>1, <2>3
<1> QED
  BY <1>1, <1>6

\* However the requests come, no minute sees more than twice the limit of one
\* kind of counter, or four times if both count.
THEOREM LimitKept == Spec => []LimitHolds
<1>1. InputOK => LimitHolds
  <2> SUFFICES ASSUME InputOK, input.kind = "traffic", NEW n \in Served(input.traffic)
               PROVE  LET kinds == {input.traffic[k].redis : k \in DOMAIN input.traffic}
                          mixed == /\ kinds \cap {"up", "half"} # {}
                                   /\ kinds \cap {"down", "lost"} # {}
                      IN  Cardinality({k \in Served(input.traffic) :
                                           k >= n /\ input.traffic[k].time
                                                       < input.traffic[n].time + WINDOW})
                            <= (IF mixed THEN 4 ELSE 2) * RATE_LIMIT_PER_MIN
    BY DEF LimitHolds
  <2> DEFINE xs == input.traffic
             N == Len(xs)
             kinds == {xs[k].redis : k \in DOMAIN xs}
             mixed == kinds \cap {"up", "half"} # {} /\ kinds \cap {"down", "lost"} # {}
             F == {k \in Served(xs) : k >= n /\ xs[k].time < xs[n].time + WINDOW}
             R == ServedFrom(xs, n, N, {"up", "half"})
             M == ServedFrom(xs, n, N, {"down", "lost"})
             L == RATE_LIMIT_PER_MIN
  <2>1. xs \in Seq(Request) /\ InOrder(xs)
    BY InputKinds, TrafficAssumption DEF Request
  <2>2. Served(xs) = {k \in 1 .. N : Serves(xs, k)} /\ N \in Nat /\ n \in 1 .. N
    BY <2>1, ServedAre
  <2>3. \A k \in 1 .. N : xs[k].redis \in {"up", "down", "lost", "half"}
    <3>1. \A k \in 1 .. N : xs[k] \in Request
      BY <2>1
    <3> QED
      BY <3>1 DEF Request
  <2>4. F = R \cup M
    <3>1. \A k : k \in n .. N <=> k \in 1 .. N /\ k >= n
      BY <2>2
    <3> QED
      BY <2>2, <2>3, <3>1 DEF ServedFrom
  <2>5. /\ IsFiniteSet(R) /\ Cardinality(R) <= 2 * L
        /\ IsFiniteSet(M) /\ Cardinality(M) <= 2 * L
    BY <2>1, <2>2, FromBound
  <2>6. Cardinality(R) \in Nat /\ Cardinality(M) \in Nat /\ L \in Nat
    BY <2>5, FS_CardinalityType, LimitAssumption
  <2>7. CASE ~ mixed
    <3>1. \A k \in n .. N : xs[k].redis \in kinds
      <4>1. DOMAIN xs = 1 .. N /\ \A k \in n .. N : k \in 1 .. N
        BY <2>1, <2>2
      <4> QED
        BY <4>1
    <3>2. F = R \/ F = M
      <4>1. CASE kinds \cap {"up", "half"} = {}
        <5>1. \A k \in n .. N : xs[k].redis \notin {"up", "half"}
          BY <3>1, <4>1
        <5>2. R = {}
          BY <5>1 DEF ServedFrom
        <5> QED
          BY <2>4, <5>2
      <4>2. CASE kinds \cap {"down", "lost"} = {}
        <5>1. \A k \in n .. N : xs[k].redis \notin {"down", "lost"}
          BY <3>1, <4>2
        <5>2. M = {}
          BY <5>1 DEF ServedFrom
        <5> QED
          BY <2>4, <5>2
      <4> QED
        BY <2>7, <4>1, <4>2
    <3>3. Cardinality(F) <= 2 * L
      BY <2>5, <3>2
    <3> QED
      BY <2>7, <3>3
  <2>8. CASE mixed
    <3>1. /\ Cardinality(R \cup M) = Cardinality(R) + Cardinality(M) - Cardinality(R \cap M)
      BY <2>5, FS_Union
    <3>2. Cardinality(R \cap M) \in Nat
      <4>1. IsFiniteSet(R \cap M)
        BY <2>5, FS_Subset
      <4> QED
        BY <4>1, FS_CardinalityType
    <3> DEFINE a == Cardinality(R)
               b == Cardinality(M)
               e == Cardinality(R \cap M)
    <3>3. Cardinality(F) = a + b - e /\ a <= 2 * L /\ b <= 2 * L /\ a \in Nat /\ b \in Nat
          /\ e \in Nat
      BY <2>4, <2>5, <2>6, <3>1, <3>2
    <3>4. Cardinality(F) <= 4 * L
      <4> HIDE DEF a, b, e, F, L
      <4> QED
        BY <2>6, <3>3
    <3> QED
      BY <2>8, <3>4
  <2> QED
    BY <2>7, <2>8
<1> QED
  BY <1>1, Picked, PTL
-----------------------------------------------------------------------------
(***************************************************************************)
(* The velocity of a wallet.                                               *)
(***************************************************************************)
Velocity == [count : Nat, total : Nat, windowStart : Nat]
Event == [age : Nat, txCount : Int, amount : Nat, static : BOOLEAN, nmid : BOOLEAN,
          denied : BOOLEAN, time : Nat]

\* No payment is held against the wallet any more.
Over(v, now) == v.count = 0 \/ now - v.windowStart > VELOCITY_WINDOW

\* The velocity that counts, field by field.
LEMMA VelocityFields ==
    ASSUME NEW v \in Velocity, NEW now \in Nat
    PROVE  /\ getVelocity(v, now) \in Velocity
           /\ Over(v, now) => /\ getVelocity(v, now).count = 0
                              /\ getVelocity(v, now).total = 0
                              /\ getVelocity(v, now).windowStart = now
           /\ ~ Over(v, now) => getVelocity(v, now) = v
<1>1. CASE Over(v, now)
  <2>1. getVelocity(v, now) = [NoVelocity EXCEPT !.windowStart = now]
    BY <1>1 DEF getVelocity, Over
  <2>2. [NoVelocity EXCEPT !.windowStart = now] = [count |-> 0, total |-> 0, windowStart |-> now]
    BY DEF NoVelocity
  <2> QED
    BY <1>1, <2>1, <2>2 DEF Velocity
<1>2. CASE ~ Over(v, now)
  BY <1>2 DEF getVelocity, Over
<1> QED
  BY <1>1, <1>2

\* What a payment adds to it.
LEMMA RecordFields ==
    ASSUME NEW v \in Velocity, NEW now \in Nat, NEW amount \in Nat
    PROVE  /\ recordVelocity(v, amount, now) \in Velocity
           /\ recordVelocity(v, amount, now).count = getVelocity(v, now).count + 1
           /\ recordVelocity(v, amount, now).total = getVelocity(v, now).total + amount
           /\ recordVelocity(v, amount, now).windowStart = getVelocity(v, now).windowStart
<1> DEFINE w == getVelocity(v, now)
           c == w.count + 1
           t == w.total + amount
           r == [w EXCEPT !.count = c, !.total = t]
<1>1. w \in Velocity
  BY VelocityFields
<1>2. recordVelocity(v, amount, now) = r
  BY Zenon DEF recordVelocity
<1>3. c \in Nat /\ t \in Nat
  BY <1>1 DEF Velocity
<1> HIDE DEF w, c, t
<1>4. r \in Velocity /\ r.count = c /\ r.total = t /\ r.windowStart = w.windowStart
  BY <1>1, <1>3 DEF Velocity
<1> HIDE DEF r
<1> QED
  BY <1>2, <1>4 DEF w, c, t

\* Payment n of the history passes the score.
Passes(xs, n) == Allow(Evaluate(xs[n], History(xs)[n - 1].velocity, xs[n].time).score)

\* The history goes on payment by payment.
LEMMA HistoryStep ==
    ASSUME NEW xs \in Seq(Event)
    PROVE  /\ History(xs)[0] = [velocity |-> NoVelocity, allowed |-> {}]
           /\ \A n \in 0 .. Len(xs) : History(xs)[n].velocity \in Velocity
           /\ \A n \in 1 .. Len(xs) :
                  /\ History(xs)[n].velocity =
                         IF Passes(xs, n)
                         THEN recordVelocity(History(xs)[n - 1].velocity, xs[n].amount, xs[n].time)
                         ELSE History(xs)[n - 1].velocity
                  /\ History(xs)[n].allowed =
                         History(xs)[n - 1].allowed \cup IF Passes(xs, n) THEN {n} ELSE {}
<1> DEFINE N == Len(xs)
           State == [velocity : Velocity, allowed : SUBSET Nat]
           first == [velocity |-> NoVelocity, allowed |-> {}]
           eval(s, n) == Evaluate(xs[n], s.velocity, xs[n].time)
           next(s, n) == [velocity |-> eval(s, n).velocity,
                          allowed |-> s.allowed \cup IF Allow(eval(s, n).score) THEN {n} ELSE {}]
           step == [n \in 1 .. N |-> [s \in State |-> next(s, n)]]
           F(f) == [n \in 0 .. N |-> IF n = 0 THEN first
                                     ELSE LET e == Evaluate(xs[n], f[n - 1].velocity, xs[n].time)
                                          IN  [velocity |-> e.velocity,
                                               allowed |-> f[n - 1].allowed
                                                             \cup IF Allow(e.score)
                                                                  THEN {n} ELSE {}]]
<1>1. N \in Nat /\ \A n \in 1 .. N : xs[n] \in Event
  OBVIOUS
<1>2. first \in State
  BY DEF NoVelocity, Velocity
<1>3. \A n \in 1 .. N : \A s : eval(s, n).velocity =
          IF Allow(eval(s, n).score) THEN recordVelocity(s.velocity, xs[n].amount, xs[n].time)
          ELSE s.velocity
  <2>1. ASSUME NEW n \in 1 .. N, NEW s
        PROVE  eval(s, n).velocity =
                   IF Allow(eval(s, n).score)
                   THEN recordVelocity(s.velocity, xs[n].amount, xs[n].time) ELSE s.velocity
    <3> DEFINE score == Score(xs[n], getVelocity(s.velocity, xs[n].time))
               v == IF Allow(score) THEN recordVelocity(s.velocity, xs[n].amount, xs[n].time)
                    ELSE s.velocity
    <3>1. eval(s, n) = [score |-> score, velocity |-> v]
      BY Zenon DEF Evaluate
    <3> HIDE DEF score, v, eval
    <3>2. eval(s, n).score = score /\ eval(s, n).velocity = v
      BY <3>1
    <3> QED
      BY <3>2 DEF v
  <2> HIDE DEF eval
  <2> QED
    BY <2>1
<1> HIDE DEF eval
<1>4. \A n \in 1 .. N, s \in State : next(s, n) \in State
  <2>1. ASSUME NEW n \in 1 .. N, NEW s \in State PROVE next(s, n) \in State
    <3>1. s.velocity \in Velocity /\ s.allowed \in SUBSET Nat
      OBVIOUS
    <3>2. xs[n].amount \in Nat /\ xs[n].time \in Nat
      BY <1>1 DEF Event
    <3>3. recordVelocity(s.velocity, xs[n].amount, xs[n].time) \in Velocity
      BY <3>1, <3>2, RecordFields
    <3>4. eval(s, n).velocity \in Velocity
      BY <1>3, <3>1, <3>3
    <3> QED
      BY <3>1, <3>4
  <2> QED
    BY <2>1
<1>5. History(xs) = CHOOSE f : f = F(f)
  BY Zenon DEF History
<1> HIDE DEF State, first
<1>6. step \in [1 .. N -> [State -> State]]
  <2> HIDE DEF next
  <2> QED
    BY <1>4
<1>7. PICK f \in [0 .. N -> State] :
          f[0] = first /\ \A n \in 1 .. N : f[n] = step[n][f[n - 1]]
  <2>1. N \in Nat
    BY <1>1
  <2> HIDE DEF step, N, next, F
  <2>2. \E f \in [0 .. N -> State] : Iterated(f, N, first, step)
    BY <2>1, <1>2, <1>6, Iterates
  <2> QED
    BY <2>2 DEF Iterated
<1>8. ASSUME NEW g, NEW n \in 0 .. N
      PROVE  F(g)[n] = IF n = 0 THEN first ELSE next(g[n - 1], n)
  BY DEF eval
<1> HIDE DEF F
<1>9. f = F(f)
  <2>1. ASSUME NEW n \in 0 .. N PROVE f[n] = F(f)[n]
    <3>1. CASE n = 0
      BY <1>7, <1>8, <3>1
    <3>2. CASE n # 0
      <4>1. n \in 1 .. N /\ n - 1 \in 0 .. N
        BY <1>1, <3>2
      <4>2. f[n - 1] \in State
        BY <1>7, <4>1
      <4>3. f[n] = step[n][f[n - 1]]
        BY <1>7, <4>1
      <4>4. f[n] = next(f[n - 1], n)
        BY <4>1, <4>2, <4>3
      <4> HIDE DEF next
      <4> QED
        BY <1>8, <3>2, <4>4
    <3> QED
      BY <3>1, <3>2
  <2>2. f = [n \in 0 .. N |-> f[n]]
    BY <1>7
  <2>3. F(f) = [n \in 0 .. N |-> F(f)[n]]
    BY DEF F
  <2> QED
    BY <2>1, <2>2, <2>3
<1> DEFINE C == History(xs)
<1>10. C = F(C)
  BY <1>5, <1>9
<1> HIDE DEF C
<1>11. C[0] = first
  <2>1. 0 \in 0 .. N
    BY <1>1
  <2>2. F(C)[0] = first
    BY <1>8, <2>1
  <2>3. C[0] = F(C)[0]
    BY <1>10
  <2> QED
    BY <2>2, <2>3
<1>12. \A n \in 1 .. N : C[n] = next(C[n - 1], n)
  <2>1. ASSUME NEW n \in 1 .. N PROVE C[n] = next(C[n - 1], n)
    <3>1. C[n] = F(C)[n]
      BY <1>10
    <3>2. n \in 0 .. N /\ n # 0
      BY <1>1
    <3> HIDE DEF next
    <3> QED
      BY <1>8, <3>1, <3>2
  <2> QED
    BY <2>1
<1>13. 0 .. N \subseteq {n \in 0 .. N : C[n] \in State}
  <2> DEFINE G == {n \in 0 .. N : C[n] \in State}
  <2>1. 0 \in G
    BY <1>1, <1>2, <1>11
  <2>2. \A n \in 1 .. N : n - 1 \in G => n \in G
    <3> HIDE DEF next
    <3> QED
      BY <1>1, <1>4, <1>12
  <2> HIDE DEF G, N
  <2>3. 0 .. N \subseteq G
    BY <1>1, <2>1, <2>2, Steps
  <2> QED
    BY <2>3 DEF G
<1>14. \A n \in 0 .. N : C[n].velocity \in Velocity
  BY <1>13 DEF State
<1>15. \A n \in 1 .. N :
           /\ C[n].velocity = IF Passes(xs, n)
                              THEN recordVelocity(C[n - 1].velocity, xs[n].amount, xs[n].time)
                              ELSE C[n - 1].velocity
           /\ C[n].allowed = C[n - 1].allowed \cup IF Passes(xs, n) THEN {n} ELSE {}
  <2>1. ASSUME NEW n \in 1 .. N
        PROVE  /\ C[n].velocity = eval(C[n - 1], n).velocity
               /\ C[n].allowed =
                      C[n - 1].allowed \cup IF Allow(eval(C[n - 1], n).score) THEN {n} ELSE {}
    <3> DEFINE s == C[n - 1]
    <3>1. C[n] = next(s, n)
      BY <1>12
    <3> HIDE DEF s
    <3>2. /\ next(s, n).velocity = eval(s, n).velocity
          /\ next(s, n).allowed = s.allowed \cup IF Allow(eval(s, n).score) THEN {n} ELSE {}
      OBVIOUS
    <3> HIDE DEF next
    <3> QED
      BY <3>1, <3>2 DEF s
  <2>2. ASSUME NEW n \in 1 .. N PROVE Passes(xs, n) <=> Allow(eval(C[n - 1], n).score)
    BY DEF Passes, eval, C
  <2> QED
    BY <1>3, <2>1, <2>2
<1> QED
  BY <1>11, <1>14, <1>15 DEF C, first
\* The sum of the community modules is the one of SumsProofs.
LEMMA SumIs ==
    ASSUME NEW S, IsFiniteSet(S), NEW w \in [S -> Nat], NEW it, Sums(it, w, S),
           NEW q \in SUBSET S
    PROVE  SumFunctionOnSet(w, q) = it[q]
<1> DEFINE F(g) == [s \in SUBSET q |-> IF s = {} THEN 0
                                       ELSE LET x == CHOOSE x \in s : TRUE
                                            IN  w[x] + g[s \ {x}]]
           sum == CHOOSE g : g = F(g)
<1>1. SumFunctionOnSet(w, q) = sum[q]
  BY DEF SumFunctionOnSet, FoldFunctionOnSet, MapThenFoldSet
<1>2. ASSUME NEW g PROVE Sums(g, w, q) <=> g = F(g)
  BY DEF Sums, AnyOf
<1>3. IsFiniteSet(q)
  BY FS_Subset
<1>4. PICK g : Sums(g, w, q)
  BY <1>3, SumsExist
<1> HIDE DEF F
<1>5. sum = F(sum)
  BY <1>2, <1>4
<1>6. Sums(sum, w, q)
  BY <1>2, <1>5
<1> HIDE DEF sum
<1>7. sum[q] = it[q]
  BY <1>3, <1>6, SumsAgree
<1> QED
  BY <1>1, <1>7

\* v accounts for the payments of A, the last of which was not after now: what it
\* counts happened since its window began, and the window had not ended then.
Accounting(xs, it, v, A, now) ==
    LET counted == {k \in A : xs[k].time >= v.windowStart} IN
    /\ v.count = 0 => A = {}
    /\ v.count > 0 =>
           /\ v.windowStart <= now
           /\ \A k \in A : xs[k].time <= v.windowStart + VELOCITY_WINDOW
           /\ v.count = Cardinality(counted) /\ v.total = it[counted]

\* A payment that passes is accounted for.
LEMMA RecordAccounts ==
    ASSUME NEW xs \in Seq(Event), NEW it,
           Sums(it, [n \in 1 .. Len(xs) |-> xs[n].amount], 1 .. Len(xs)),
           NEW m \in 1 .. Len(xs), NEW A \in SUBSET (1 .. m - 1), NEW v \in Velocity,
           NEW now \in Nat, now <= xs[m].time, \A k \in 1 .. m : xs[k].time <= xs[m].time,
           Accounting(xs, it, v, A, now)
    PROVE  Accounting(xs, it, recordVelocity(v, xs[m].amount, xs[m].time), A \cup {m}, xs[m].time)
<1> DEFINE N == Len(xs)
           w == [n \in 1 .. N |-> xs[n].amount]
           time == xs[m].time
           amount == xs[m].amount
           r == recordVelocity(v, amount, time)
           B == {k \in A \cup {m} : xs[k].time >= r.windowStart}
<1>1. /\ N \in Nat /\ m \in 1 .. N /\ \A k \in 1 .. N : xs[k].time \in Nat /\ xs[k].amount \in Nat
  <2>1. N \in Nat /\ \A k \in 1 .. N : xs[k] \in Event
    OBVIOUS
  <2>2. \A x \in Event : x.time \in Nat /\ x.amount \in Nat
    BY DEF Event
  <2> HIDE DEF N
  <2> QED
    BY <2>1, <2>2 DEF N
<1>2. /\ w \in [1 .. N -> Nat] /\ IsFiniteSet(1 .. N) /\ time \in Nat /\ amount \in Nat
      /\ A \subseteq 1 .. N /\ m \notin A /\ A \subseteq 1 .. m
      /\ \A k \in 1 .. m : xs[k].time <= time
      /\ w[m] = amount
  <2>1. w \in [1 .. N -> Nat] /\ w[m] = amount
    BY <1>1
  <2>2. IsFiniteSet(1 .. N)
    BY <1>1, FS_Interval
  <2>3. /\ A \subseteq 1 .. m - 1 /\ m \in Nat /\ m <= N
        /\ \A k \in 1 .. m : xs[k].time <= time
    BY <1>1
  <2>4. 1 .. m - 1 \subseteq 1 .. N /\ 1 .. m - 1 \subseteq 1 .. m /\ m \notin 1 .. m - 1
    BY <1>1, <2>3
  <2>5. time \in Nat /\ amount \in Nat
    BY <1>1
  <2> HIDE DEF N, w, time, amount
  <2> QED
    BY <2>1, <2>2, <2>3, <2>4, <2>5
<1>3. /\ v.count \in Nat /\ v.total \in Nat /\ v.windowStart \in Nat
  BY DEF Velocity
<1>4. /\ r \in Velocity
      /\ Over(v, time) => r.count = 1 /\ r.total = amount /\ r.windowStart = time
      /\ ~ Over(v, time) => r.count = v.count + 1 /\ r.total = v.total + amount
                            /\ r.windowStart = v.windowStart
  <2>1. /\ r \in Velocity
        /\ r.count = getVelocity(v, time).count + 1
        /\ r.total = getVelocity(v, time).total + amount
        /\ r.windowStart = getVelocity(v, time).windowStart
    BY <1>2, RecordFields
  <2>2. /\ Over(v, time) => /\ getVelocity(v, time).count = 0
                            /\ getVelocity(v, time).total = 0
                            /\ getVelocity(v, time).windowStart = time
        /\ ~ Over(v, time) => getVelocity(v, time) = v
    BY <1>2, VelocityFields
  <2> HIDE DEF r, time, amount
  <2> QED
    BY <1>2, <2>1, <2>2
<1>5. /\ v.count = 0 => A = {}
      /\ v.count > 0 =>
           /\ \A k \in A : xs[k].time <= v.windowStart + VELOCITY_WINDOW
           /\ v.windowStart <= now
           /\ v.count = Cardinality({k \in A : xs[k].time >= v.windowStart})
           /\ v.total = it[{k \in A : xs[k].time >= v.windowStart}]
  BY DEF Accounting
<1>6. Over(v, time) <=> v.count = 0 \/ time - v.windowStart > VELOCITY_WINDOW
  BY DEF Over
<1>7. it[{}] = 0
  BY SumsEmpty
<1>8. ASSUME NEW q \in SUBSET (1 .. N), m \notin q
      PROVE  /\ Cardinality(q \cup {m}) = Cardinality(q) + 1
             /\ it[q \cup {m}] = amount + it[q]
  <2>1. IsFiniteSet(q)
    BY <1>2, FS_Subset
  <2>2. Cardinality(q \cup {m}) = Cardinality(q) + 1
    BY <1>8, <2>1, FS_AddElement
  <2> DEFINE p == q \cup {m}
  <2>3. p \in SUBSET (1 .. N) /\ m \in p /\ p \ {m} = q
    BY <1>1, <1>8
  <2> HIDE DEF p
  <2>4. it[p] = w[m] + it[p \ {m}]
    <3> DEFINE S == 1 .. N
    <3>1. Sums(it, w, S) /\ IsFiniteSet(S) /\ w \in [S -> Nat] /\ p \in SUBSET S
      BY <1>2, <2>3
    <3> HIDE DEF S, w
    <3> QED
      BY <2>3, <3>1, SumsSplit
  <2> QED
    BY <1>2, <2>2, <2>3, <2>4 DEF p
<1> HIDE DEF N, w, r, time, amount
<1>9. CASE Over(v, time)
  <2>1. r.count = 1 /\ r.total = amount /\ r.windowStart = time
    BY <1>4, <1>9
  <2>2. \A k \in A : xs[k].time < time
    <3>1. ASSUME NEW k \in A PROVE xs[k].time < time
      <4>1. v.count > 0 /\ time - v.windowStart > VELOCITY_WINDOW
        BY <1>3, <1>5, <1>6, <1>9
      <4>2. xs[k].time <= v.windowStart + VELOCITY_WINDOW /\ xs[k].time \in Nat
        BY <1>1, <1>2, <1>5, <4>1
      <4> QED
        BY <1>2, <1>3, <4>1, <4>2 DEF VELOCITY_WINDOW
    <3> QED
      BY <3>1
  <2>3. \A k \in A : xs[k].time \in Nat
    BY <1>1, <1>2
  <2>4. B = {m}
    <3>1. xs[m].time >= time
      BY <1>2 DEF time
    <3>2. \A k \in A : ~ (xs[k].time >= time)
      BY <1>2, <2>2, <2>3
    <3> QED
      BY <2>1, <3>1, <3>2
  <2>5. Cardinality(B) = 1 /\ it[B] = amount
    <3>1. Cardinality({m}) = 1
      BY FS_Singleton
    <3>2. it[{} \cup {m}] = amount + it[{}]
      BY <1>8
    <3>3. {} \cup {m} = {m}
      OBVIOUS
    <3>4. it[{m}] = amount
      BY <1>2, <1>7, <3>2, <3>3
    <3> HIDE DEF B
    <3> QED
      BY <2>4, <3>1, <3>4
  <2>6. \A k \in A \cup {m} : xs[k].time <= r.windowStart + VELOCITY_WINDOW
    BY <1>2, <2>1, <2>2, <2>3 DEF VELOCITY_WINDOW, time
  <2> QED
    BY <1>2, <2>1, <2>5, <2>6 DEF Accounting, r, time, amount
<1>10. CASE ~ Over(v, time)
  <2> DEFINE q == {k \in A : xs[k].time >= v.windowStart}
  <2>1. r.count = v.count + 1 /\ r.total = v.total + amount /\ r.windowStart = v.windowStart
    BY <1>4, <1>10
  <2>2. v.count > 0 /\ time <= v.windowStart + VELOCITY_WINDOW
    BY <1>2, <1>3, <1>6, <1>10 DEF VELOCITY_WINDOW
  <2>3. v.windowStart <= time
    BY <1>2, <1>3, <1>5, <2>2 DEF time
  <2>4. B = q \cup {m}
    BY <2>1, <2>3 DEF time
  <2>5. q \in SUBSET (1 .. N) /\ m \notin q
    BY <1>2
  <2>6. v.count = Cardinality(q) /\ v.total = it[q]
    BY <1>5, <2>2
  <2> HIDE DEF q
  <2>7. Cardinality(B) = v.count + 1 /\ it[B] = amount + v.total
    BY <1>8, <2>4, <2>5, <2>6
  <2>8. \A k \in A \cup {m} : xs[k].time <= r.windowStart + VELOCITY_WINDOW
    BY <1>5, <2>1, <2>2 DEF time
  <2>9. r.count > 0 /\ r.count = Cardinality(B) /\ r.total = it[B] /\ r.windowStart <= time
    BY <1>2, <1>3, <2>1, <2>3, <2>7
  <2> QED
    BY <2>8, <2>9 DEF Accounting, r, time, amount
<1> QED
  BY <1>9, <1>10

\* After any history the wallet is charged with what was allowed in the window
\* that is open, and with that alone.
THEOREM VelocityKept == Spec => []VelocityIsRecent
<1>1. InputOK => VelocityIsRecent
  <2> SUFFICES ASSUME InputOK, input.kind = "history" PROVE VelocityIsRecent
    BY DEF VelocityIsRecent
  <2> DEFINE xs == input.history
             N == Len(xs)
             S == 1 .. N
             w == [n \in 1 .. N |-> xs[n].amount]
             C == History(xs)
             time(m) == IF m = 0 THEN 0 ELSE xs[m].time
  <2>1. xs \in Seq(Event) /\ xs # <<>> /\ InOrder(xs)
    BY InputKinds, PaymentsAssumption DEF Event
  <2>2. N \in Nat /\ N \in 1 .. N /\ DOMAIN xs = 1 .. N
    BY <2>1
  <2>3. \A k \in 1 .. N : xs[k].time \in Nat /\ xs[k].amount \in Nat
    <3>1. \A k \in 1 .. N : xs[k] \in Event
      BY <2>1
    <3> QED
      BY <3>1 DEF Event
  <2>4. w \in [S -> Nat] /\ IsFiniteSet(S)
    <3>1. IsFiniteSet(S)
      BY <2>2, FS_Interval
    <3>2. w \in [S -> Nat]
      BY <2>3
    <3> QED
      BY <3>1, <3>2
  <2>5. PICK it : Sums(it, w, S)
    <3> HIDE DEF S, w
    <3> QED
      BY <2>4, SumsExist
  <2> DEFINE G == {m \in 0 .. N : /\ C[m].allowed \in SUBSET (1 .. m)
                                  /\ Accounting(xs, it, C[m].velocity, C[m].allowed, time(m))}
  <2>6. 0 \in G
    <3>1. C[0].velocity = NoVelocity /\ C[0].allowed = {}
      BY <2>1, HistoryStep
    <3>2. Accounting(xs, it, NoVelocity, {}, time(0))
      BY DEF Accounting, NoVelocity
    <3>3. {} \in SUBSET (1 .. 0) /\ 0 \in 0 .. N
      BY <2>2
    <3> HIDE DEF C, N, xs, time
    <3> QED
      BY <3>1, <3>2, <3>3
  <2>7. \A m \in 1 .. N : m - 1 \in G => m \in G
    <3>1. ASSUME NEW m \in 1 .. N, m - 1 \in G PROVE m \in G
      <4> DEFINE v == C[m - 1].velocity
                 A == C[m - 1].allowed
                 now == time(m - 1)
      <4>1. m \in 0 .. N /\ m - 1 \in 0 .. N /\ 1 .. m - 1 \subseteq 1 .. m /\ m \in 1 .. m /\ m # 0
        BY <2>2
      <4>2. A \in SUBSET (1 .. m - 1) /\ Accounting(xs, it, v, A, now) /\ v \in Velocity
        BY <2>1, <3>1, <4>1, HistoryStep
      <4>3. \A k \in 1 .. m : xs[k].time <= xs[m].time
        BY <2>1, <2>2 DEF InOrder
      <4>4. now \in Nat /\ now <= xs[m].time
        <5>1. CASE m = 1
          BY <2>3, <5>1
        <5>2. CASE m # 1
          <6>1. m - 1 \in 1 .. m /\ m - 1 \in 1 .. N /\ m - 1 # 0
            BY <2>2, <5>2
          <6> QED
            BY <2>3, <4>3, <6>1
        <5> QED
          BY <5>1, <5>2
      <4>5. /\ C[m].velocity = IF Passes(xs, m) THEN recordVelocity(v, xs[m].amount, xs[m].time)
                               ELSE v
            /\ C[m].allowed = A \cup IF Passes(xs, m) THEN {m} ELSE {}
        BY <2>1, HistoryStep
      <4>6. time(m) = xs[m].time
        BY <4>1
      <4>7. v.windowStart \in Nat /\ xs[m].time \in Nat
        BY <2>3, <4>2 DEF Velocity
      <4> HIDE DEF v, A, now
      <4>8. CASE Passes(xs, m)
        <5>1. C[m].velocity = recordVelocity(v, xs[m].amount, xs[m].time) /\ C[m].allowed = A \cup {m}
          BY <4>5, <4>8
        <5>2. Accounting(xs, it, recordVelocity(v, xs[m].amount, xs[m].time), A \cup {m},
                        xs[m].time)
          <6> HIDE DEF xs
          <6> QED
            BY <2>1, <2>5, <4>2, <4>3, <4>4, RecordAccounts
        <5>3. A \cup {m} \in SUBSET (1 .. m)
          BY <4>1, <4>2
        <5> HIDE DEF time, xs, C
        <5> QED
          BY <4>1, <4>6, <5>1, <5>2, <5>3
      <4>9. CASE ~ Passes(xs, m)
        <5>1. C[m].velocity = v /\ C[m].allowed = A
          BY <4>5, <4>9
        <5>2. Accounting(xs, it, v, A, xs[m].time)
          BY <4>2, <4>4, <4>7 DEF Accounting
        <5>3. A \in SUBSET (1 .. m)
          BY <4>1, <4>2
        <5> HIDE DEF time, xs, C
        <5> QED
          BY <4>1, <4>6, <5>1, <5>2, <5>3
      <4> QED
        BY <4>8, <4>9
    <3> QED
      BY <3>1
  <2>8. N \in G
    <3> HIDE DEF G, N
    <3>1. 0 .. N \subseteq G
      BY <2>2, <2>6, <2>7, Steps
    <3> QED
      BY <2>2, <3>1
  <2> DEFINE now == xs[N].time
             h == C[N]
             v == getVelocity(h.velocity, now)
             counted == {n \in h.allowed : xs[n].time >= v.windowStart}
  <2>9. h.velocity \in Velocity /\ now \in Nat /\ h.allowed \subseteq S
        /\ Accounting(xs, it, h.velocity, h.allowed, now)
    <3>1. N # 0
      BY <2>2
    <3> QED
      BY <2>1, <2>2, <2>3, <2>8, <3>1, HistoryStep
  <2>10. /\ Over(h.velocity, now) => v.count = 0 /\ v.windowStart = now
         /\ ~ Over(h.velocity, now) => v = h.velocity
    BY <2>9, VelocityFields
  <2> HIDE DEF v, h, now
  <2>11. h.velocity.windowStart \in Nat /\ h.velocity.count \in Nat
    BY <2>9 DEF Velocity
  <2>12. now - v.windowStart <= VELOCITY_WINDOW
    BY <2>9, <2>10, <2>11 DEF Over, VELOCITY_WINDOW
  <2>13. ASSUME v.count > 0
         PROVE  v.count = Cardinality(counted) /\ v.total = it[counted]
    <3>1. v = h.velocity
      BY <2>10, <2>13
    <3> QED
      BY <2>9, <2>13, <3>1 DEF Accounting
  <2>14. SumFunctionOnSet(w, counted) = it[counted]
    <3>1. counted \in SUBSET S
      BY <2>9
    <3> HIDE DEF counted, w, S
    <3> QED
      BY <2>4, <2>5, <3>1, SumIs
  <2>15. w = [n \in DOMAIN xs |-> xs[n].amount]
    BY <2>2
  <2>16. /\ now - v.windowStart <= VELOCITY_WINDOW
         /\ v.count > 0 => /\ v.count = Cardinality(counted)
                           /\ v.total = SumFunctionOnSet([n \in DOMAIN xs |-> xs[n].amount], counted)
    BY <2>12, <2>13, <2>14, <2>15
  <2> QED
    BY <2>16, Zenon DEF VelocityIsRecent, v, h, now
<1> QED
  BY <1>1, Picked, PTL
-----------------------------------------------------------------------------
(***************************************************************************)
(* Codes.                                                                  *)
(***************************************************************************)
\* f puts the sequences together, one after the other.
Joins(f, seqs) == f[0] = <<>> /\ \A n \in 1 .. Len(seqs) : f[n] = f[n - 1] \o seqs[n]

\* Sequences put together are a sequence, which grows by one of them at a time.
LEMMA Flattened ==
    ASSUME NEW X, NEW seqs \in Seq(Seq(X))
    PROVE  /\ FlattenSeq(seqs) \in Seq(X)
           /\ \E f \in [0 .. Len(seqs) -> Seq(X)] :
                  Joins(f, seqs) /\ FlattenSeq(seqs) = f[Len(seqs)]
<1> DEFINE N == Len(seqs)
           step == [n \in 1 .. N |-> [s \in Seq(X) |-> s \o seqs[n]]]
           F(f) == [i \in 1 .. N |-> IF i = 1 THEN seqs[i] ELSE f[i - 1] \o seqs[i]]
           flat == CHOOSE f : f = F(f)
<1>1. N \in Nat /\ \A n \in 1 .. N : seqs[n] \in Seq(X)
  BY ElementOfSeq, LenProperties
<1>2. CASE N = 0
  <2>1. seqs = <<>>
    BY <1>2, EmptySeq
  <2>2. FlattenSeq(seqs) = seqs
    BY <1>2 DEF FlattenSeq
  <2> DEFINE f == [n \in 0 .. N |-> <<>>]
  <2>3. <<>> \in Seq(X)
    BY EmptySeq
  <2>4. f \in [0 .. N -> Seq(X)] /\ f[0] = <<>> /\ f[N] = <<>>
    BY <1>2, <2>3
  <2>5. Joins(f, seqs)
    BY <1>2, <2>4 DEF Joins
  <2> HIDE DEF f
  <2> QED
    BY <2>1, <2>2, <2>3, <2>4, <2>5
<1>3. CASE N # 0
  <2>1. FlattenSeq(seqs) = flat[N]
    BY <1>3 DEF FlattenSeq
  <2>2. \A n \in 1 .. N, s \in Seq(X) : s \o seqs[n] \in Seq(X)
    BY <1>1, ConcatProperties
  <2>3. step \in [1 .. N -> [Seq(X) -> Seq(X)]]
    BY <2>2
  <2>4. <<>> \in Seq(X)
    BY EmptySeq
  <2>5. PICK f \in [0 .. N -> Seq(X)] : Iterated(f, N, <<>>, step)
    <3>1. N \in Nat
      BY <1>1
    <3> HIDE DEF N, step, F
    <3> QED
      BY <2>3, <2>4, <3>1, Iterates
  <2> DEFINE g == [i \in 1 .. N |-> f[i]]
  <2>6. \A i \in 1 .. N : f[i] = f[i - 1] \o seqs[i] /\ f[i - 1] \in Seq(X)
    <3>1. ASSUME NEW i \in 1 .. N PROVE f[i] = f[i - 1] \o seqs[i] /\ f[i - 1] \in Seq(X)
      <4>1. i - 1 \in 0 .. N
        BY <1>1
      <4>2. f[i - 1] \in Seq(X)
        BY <2>5, <4>1
      <4>3. f[i] = step[i][f[i - 1]]
        BY <2>5 DEF Iterated
      <4>4. step[i][f[i - 1]] = f[i - 1] \o seqs[i]
        BY <4>2
      <4> QED
        BY <4>2, <4>3, <4>4
    <3> QED
      BY <3>1
  <2>7. g = F(g)
    <3>1. ASSUME NEW i \in 1 .. N PROVE g[i] = F(g)[i]
      <4>1. CASE i = 1
        <5>1. f[0] = <<>>
          BY <2>5 DEF Iterated
        <5>2. 1 \in 1 .. N /\ seqs[1] \in Seq(X)
          BY <1>1, <4>1
        <5>3. f[1] = f[0] \o seqs[1]
          <6>1. 1 - 1 = 0
            OBVIOUS
          <6> QED
            BY <2>6, <5>2, <6>1
        <5>4. f[1] = seqs[1]
          BY <5>1, <5>2, <5>3, ConcatEmptySeq
        <5> QED
          BY <4>1, <5>2, <5>4
      <4>2. CASE i # 1
        <5>1. i - 1 \in 1 .. N
          BY <1>1, <4>2
        <5>2. g[i] = f[i] /\ g[i - 1] = f[i - 1]
          BY <5>1
        <5>3. F(g)[i] = g[i - 1] \o seqs[i]
          BY <4>2
        <5> QED
          BY <2>6, <5>2, <5>3
      <4> QED
        BY <4>1, <4>2
    <3>2. g = [i \in 1 .. N |-> g[i]] /\ F(g) = [i \in 1 .. N |-> F(g)[i]]
      OBVIOUS
    <3> HIDE DEF g, F
    <3> QED
      BY <3>1, <3>2
  <2>8. flat = F(flat)
    <3> HIDE DEF g, F
    <3> QED
      BY <2>7
  <2> DEFINE G == {m \in 0 .. N : m # 0 => flat[m] \in Seq(X)}
  <2>9. \A m \in 1 .. N : m - 1 \in G => m \in G
    <3>1. ASSUME NEW m \in 1 .. N, m - 1 \in G PROVE m \in G
      <4>1. flat[m] = F(flat)[m]
        <5> HIDE DEF F, flat
        <5> QED
          BY <2>8
      <4>2. seqs[m] \in Seq(X) /\ m \in 0 .. N
        BY <1>1
      <4>3. CASE m = 1
        <5>1. F(flat)[m] = seqs[m]
          <6> HIDE DEF flat
          <6> QED
            BY <4>3
        <5> HIDE DEF F, flat
        <5> QED
          BY <4>1, <4>2, <5>1
      <4>4. CASE m # 1
        <5>1. F(flat)[m] = flat[m - 1] \o seqs[m]
          <6> HIDE DEF flat
          <6> QED
            BY <4>4
        <5>2. m - 1 # 0
          BY <4>4
        <5> HIDE DEF F, flat
        <5>3. flat[m - 1] \in Seq(X)
          BY <3>1, <5>2
        <5>4. flat[m - 1] \o seqs[m] \in Seq(X)
          BY <4>2, <5>3, ConcatProperties
        <5> QED
          BY <4>1, <4>2, <5>1, <5>4
      <4> QED
        BY <4>3, <4>4
    <3> QED
      BY <3>1
  <2>10. 0 .. N \subseteq G
    <3>1. 0 \in G
      BY <1>1
    <3> HIDE DEF G, N
    <3> QED
      BY <1>1, <2>9, <3>1, Steps
  <2>11. ASSUME NEW m \in 1 .. N PROVE flat[m] \in Seq(X)
    <3>1. m \in 0 .. N /\ m # 0
      BY <1>1
    <3> HIDE DEF flat, N
    <3>2. m \in G
      <4> HIDE DEF G
      <4> QED
        BY <2>10, <3>1
    <3> QED
      BY <3>1, <3>2
  <2>12. flat[1] = seqs[1] /\ \A m \in 2 .. N : flat[m] = flat[m - 1] \o seqs[m]
    <3>1. \A m \in 1 .. N : flat[m] = F(flat)[m]
      <4> HIDE DEF F, flat
      <4> QED
        BY <2>8
    <3>2. \A m \in 1 .. N : F(flat)[m] = IF m = 1 THEN seqs[m] ELSE flat[m - 1] \o seqs[m]
      <4> HIDE DEF flat
      <4> QED
        OBVIOUS
    <3>3. 1 \in 1 .. N /\ \A m \in 2 .. N : m \in 1 .. N /\ m # 1
      BY <1>1, <1>3
    <3> HIDE DEF F, flat
    <3> QED
      BY <3>1, <3>2, <3>3
  <2> DEFINE h == [n \in 0 .. N |-> IF n = 0 THEN <<>> ELSE flat[n]]
  <2> HIDE DEF flat
  <2>13. h \in [0 .. N -> Seq(X)] /\ h[0] = <<>> /\ \A n \in 1 .. N : h[n] = flat[n]
    <3>1. \A n \in 0 .. N : n # 0 => n \in 1 .. N
      BY <1>1
    <3>2. 0 \in 0 .. N /\ \A n \in 1 .. N : n \in 0 .. N /\ n # 0
      BY <1>1
    <3> HIDE DEF N
    <3> QED
      BY <2>4, <2>11, <3>1, <3>2
  <2>14. Joins(h, seqs)
    <3>1. ASSUME NEW n \in 1 .. N PROVE h[n] = h[n - 1] \o seqs[n]
      <4>1. CASE n = 1
        <5>1. h[n - 1] = <<>> /\ h[n] = seqs[n]
          <6>1. n - 1 = 0
            BY <4>1
          <6>2. h[n] = flat[n]
            BY <2>13
          <6> HIDE DEF h
          <6> QED
            BY <2>12, <2>13, <4>1, <6>1, <6>2
        <5>2. seqs[n] \in Seq(X)
          BY <1>1
        <5> HIDE DEF h
        <5> QED
          BY <5>1, <5>2, ConcatEmptySeq
      <4>2. CASE n # 1
        <5>1. n \in 2 .. N /\ n - 1 \in 1 .. N
          BY <1>1, <4>2
        <5> HIDE DEF h
        <5> QED
          BY <2>12, <2>13, <5>1
      <4> QED
        BY <4>1, <4>2
    <3> HIDE DEF h
    <3> QED
      BY <2>13, <3>1 DEF Joins
  <2>15. FlattenSeq(seqs) = h[N] /\ FlattenSeq(seqs) \in Seq(X)
    <3>1. N \in 1 .. N
      BY <1>1, <1>3
    <3> HIDE DEF h, N
    <3> QED
      BY <2>1, <2>11, <2>13, <3>1
  <2> HIDE DEF h
  <2> QED
    BY <2>13, <2>14, <2>15
<1> QED
  BY <1>2, <1>3

\* A code is a sequence of cells.
LEMMA OriginalIsSeq ==
    ASSUME NEW code \in Codes
    PROVE  /\ Encode(code.fields) \in Seq(Cells \cup Nat)
           /\ Original(code) \in Seq(Cells \cup Nat) /\ code.seal \in Seq(Cells \cup Nat)
           /\ Len(code.seal) = 2
<1> DEFINE X == Cells \cup Nat
           fields == code.fields
           part(k) == <<fields[k].tag, Len(fields[k].value)>> \o fields[k].value
           parts == [k \in DOMAIN fields |-> part(k)]
<1>1. /\ fields \in Seq([tag : Digits, value : Seq(Cells)])
      /\ code.seal \in Seq(Cells) /\ Len(code.seal) = 2
  BY CodesAssumption DEF CrcCells
<1>2. ASSUME NEW s \in Seq(Cells) PROVE s \in Seq(X)
  <2>1. s \in [1 .. Len(s) -> Cells] /\ Len(s) \in Nat
    BY LenProperties
  <2>2. s \in [1 .. Len(s) -> X]
    BY <2>1
  <2> HIDE DEF X
  <2> QED
    BY <2>1, <2>2
<1>3. ASSUME NEW k \in DOMAIN fields PROVE part(k) \in Seq(X)
  <2>1. DOMAIN fields = 1 .. Len(fields)
    BY <1>1, LenProperties
  <2>2. fields[k] \in [tag : Digits, value : Seq(Cells)]
    BY <1>1, <2>1, ElementOfSeq
  <2>3. fields[k].tag \in Digits /\ fields[k].value \in Seq(Cells)
    BY <2>2
  <2>4. fields[k].tag \in Nat /\ Len(fields[k].value) \in Nat
    <3> HIDE DEF fields
    <3>a. fields[k].tag \in Digits
      BY <2>3
    <3>b. \A d \in Digits : d \in Nat
      BY DEF Digits
    <3>1. fields[k].tag \in Nat
      BY <3>a, <3>b
    <3>2. Len(fields[k].value) \in Nat
      BY <2>3, LenProperties
    <3> QED
      BY <3>1, <3>2
  <2>5. <<fields[k].tag, Len(fields[k].value)>> \in Seq(X)
    BY <2>4
  <2>6. fields[k].value \in Seq(X)
    BY <1>2, <2>3
  <2> HIDE DEF X, fields
  <2> QED
    BY <2>5, <2>6, ConcatProperties
<1>4. parts \in Seq(Seq(X))
  <2>1. Len(fields) \in Nat /\ DOMAIN fields = 1 .. Len(fields)
    BY <1>1, LenProperties
  <2> HIDE DEF part, X, fields
  <2> QED
    BY <1>3, <2>1
<1>5. Encode(fields) \in Seq(X)
  <2>1. Encode(fields) = FlattenSeq(parts)
    BY Zenon DEF Encode
  <2> HIDE DEF parts, X
  <2> QED
    BY <1>4, <2>1, Flattened
<1>6. CrcTag \in Seq(X)
  BY DEF CrcTag, CrcCells
<1>7. Original(code) \in Seq(X)
  <2> HIDE DEF X
  <2> QED
    BY <1>5, <1>6, ConcatProperties DEF Original
<1> QED
  BY <1>1, <1>2, <1>5, <1>7

\* What passes the backend's check begins with the code, CRC and all.
LEMMA CheckedIsWhole ==
    ASSUME NEW X, NEW p, p.cells \in Seq(X), p.orig \in Seq(X), p.seal \in Seq(X),
           Len(p.seal) = 2, verifyCRC(p)
    PROVE  /\ Len(p.cells) >= Len(p.orig) + 2
           /\ \A i \in 1 .. Len(p.orig) + 2 : p.cells[i] = (p.orig \o p.seal)[i]
<1> DEFINE cells == p.cells
           n == Len(cells)
           at == {k \in 1 .. n - 1 : SubSeq(cells, k, k + 1) = CrcTag}
           k == Greatest(at)
<1>1. /\ at # {} /\ k + 3 <= n
      /\ SubSeq(cells, 1, k + 1) = p.orig /\ SubSeq(cells, k + 2, k + 3) = p.seal
  BY DEF verifyCRC, CrcMatches
<1>2. n \in Nat /\ \A i \in 1 .. n : cells[i] \in X
  BY LenProperties, ElementOfSeq
<1>3. k \in Nat /\ k >= 1
  <2>1. at \subseteq 1 .. n
    BY <1>2
  <2> HIDE DEF at
  <2>2. k \in at
    BY <1>1, <1>2, <2>1, GreatestNumber
  <2>3. k \in 1 .. n
    BY <2>1, <2>2
  <2> HIDE DEF k
  <2> QED
    BY <1>2, <2>3
<1>n. n = Len(cells) /\ cells = p.cells
  OBVIOUS
<1> HIDE DEF k, at, n, cells
<1>4. Len(p.orig) = k + 1 /\ \A i \in 1 .. k + 1 : p.orig[i] = cells[i]
  <2>1. \A i \in 1 .. k + 1 : cells[i] \in X
    BY <1>1, <1>2, <1>3
  <2>2. k + 1 \in Int /\ 1 <= k + 1 /\ (k + 1) - 1 + 1 = k + 1
    BY <1>3
  <2>3. /\ Len(SubSeq(cells, 1, k + 1)) = k + 1
        /\ \A i \in 1 .. k + 1 : SubSeq(cells, 1, k + 1)[i] = cells[1 + i - 1]
    BY <2>1, <2>2, SubSeqProperties
  <2>4. \A i \in 1 .. k + 1 : 1 + i - 1 = i
    BY <1>3
  <2> QED
    BY <1>1, <2>3, <2>4
<1>5. \A i \in 1 .. 2 : p.seal[i] = cells[k + 1 + i]
  <2>1. \A i \in k + 2 .. k + 3 : cells[i] \in X
    BY <1>1, <1>2, <1>3
  <2>2. k + 2 \in Int /\ k + 3 \in Int /\ (k + 3) - (k + 2) + 1 = 2
    BY <1>3
  <2>3. \A i \in 1 .. 2 : SubSeq(cells, k + 2, k + 3)[i] = cells[k + 2 + i - 1]
    BY <2>1, <2>2, SubSeqProperties
  <2>4. \A i \in 1 .. 2 : k + 2 + i - 1 = k + 1 + i
    BY <1>3
  <2> QED
    BY <1>1, <2>3, <2>4
<1>6. \A i \in 1 .. Len(p.orig) + 2 :
          (p.orig \o p.seal)[i] = IF i <= Len(p.orig) THEN p.orig[i] ELSE p.seal[i - Len(p.orig)]
  <2> DEFINE a == p.orig
             b == p.seal
  <2>1. a \in Seq(X) /\ b \in Seq(X) /\ Len(b) = 2
    OBVIOUS
  <2> HIDE DEF a, b
  <2>2. \A i \in 1 .. Len(a) + Len(b) : (a \o b)[i] = IF i <= Len(a) THEN a[i] ELSE b[i - Len(a)]
    BY <2>1, ConcatProperties
  <2>3. \A i \in 1 .. Len(a) + 2 : (a \o b)[i] = IF i <= Len(a) THEN a[i] ELSE b[i - Len(a)]
    BY <2>1, <2>2
  <2> QED
    BY <2>3 DEF a, b
<1>7. ASSUME NEW i \in 1 .. Len(p.orig) + 2 PROVE cells[i] = (p.orig \o p.seal)[i]
  <2>1. CASE i <= k + 1
    <3>1. i \in 1 .. k + 1
      BY <1>3, <1>4, <2>1
    <3> QED
      BY <1>4, <1>6, <1>7, <2>1, <3>1
  <2>2. CASE ~ (i <= k + 1)
    <3>1. i - (k + 1) \in 1 .. 2 /\ k + 1 + (i - (k + 1)) = i
      BY <1>3, <1>4, <1>7, <2>2
    <3> QED
      BY <1>4, <1>5, <1>6, <1>7, <2>2, <3>1
  <2> QED
    BY <2>1, <2>2
<1>8. n >= Len(p.orig) + 2
  BY <1>1, <1>2, <1>3, <1>4
<1> QED
  BY <1>7, <1>8, <1>n

\* A misread cell or a missing end never passes the backend, for codes of any
\* length and any content, the digits of the CRC tag inside a value included.
THEOREM DamageNeverPasses == Spec => []DamageRejected
<1>1. InputOK => DamageRejected
  <2> SUFFICES ASSUME InputOK, input.kind = "code", input.damage.kind \in {"cell", "cut"},
                      Scanned.cells # Whole(input.code), BackendDecode(Scanned).ok
               PROVE  FALSE
    BY DEF DamageRejected
  <2> DEFINE code == input.code
             damage == input.damage
             X == Cells \cup Nat \cup {BLANK}
             whole == Whole(code)
             n == Len(whole)
             p == Scanned
  <2>1. code \in Codes /\ damage \in Damages /\ damage.at \in Nat
    BY InputKinds, CodesAssumption
  <2>2. Original(code) \in Seq(X) /\ code.seal \in Seq(X) /\ Len(code.seal) = 2
    <3>1. ASSUME NEW s \in Seq(Cells \cup Nat) PROVE s \in Seq(X)
      <4>1. s \in [1 .. Len(s) -> Cells \cup Nat] /\ Len(s) \in Nat
        BY LenProperties
      <4>2. s \in [1 .. Len(s) -> X]
        BY <4>1
      <4> HIDE DEF X
      <4> QED
        BY <4>1, <4>2
    <3> HIDE DEF X
    <3> QED
      BY <2>1, <3>1, OriginalIsSeq
  <2> HIDE DEF X
  <2>3. /\ whole \in Seq(X) /\ n = Len(Original(code)) + 2 /\ Len(Original(code)) \in Nat
    <3> DEFINE a == Original(code)
               b == code.seal
    <3>1. a \in Seq(X) /\ b \in Seq(X) /\ Len(b) = 2 /\ whole = a \o b
      BY <2>2 DEF Whole
    <3> HIDE DEF a, b, whole
    <3>2. whole \in Seq(X) /\ Len(whole) = Len(a) + Len(b) /\ Len(a) \in Nat
      <4>a. a \in Seq(X) /\ b \in Seq(X)
        BY <3>1
      <4>1. a \o b \in Seq(X) /\ Len(a \o b) = Len(a) + Len(b)
        BY ONLY <4>a, ConcatProperties
      <4>2. Len(a) \in Nat
        BY <3>1, LenProperties
      <4> QED
        BY <3>1, <4>1, <4>2
    <3> QED
      BY <3>1, <3>2 DEF a
  <2>4. /\ p.orig = Original(code) /\ p.seal = code.seal
        /\ damage.kind = "cell" => p.cells = [whole EXCEPT ![1 + (damage.at % n)] = BLANK]
        /\ damage.kind = "cut" => p.cells = SubSeq(whole, 1, n - 1 - (damage.at % n))
    BY DEF Scanned, Payload
  <2>5. n \in Nat \ {0} /\ damage.at % n \in 0 .. n - 1
    BY <2>1, <2>3
  <2>n. n = Len(whole)
    OBVIOUS
  <2> HIDE DEF n, whole, p, code, damage
  <2>6. verifyCRC(p)
    <3>1. BackendDecode(p).ok
      BY DEF p
    <3>2. ~ verifyCRC(p) => BackendDecode(p) = Rejected
      BY DEF BackendDecode
    <3>3. ~ Rejected.ok
      BY DEF Rejected
    <3> QED
      BY <3>1, <3>2, <3>3
  <2>7. whole = Original(code) \o code.seal
    BY DEF Whole, whole
  <2>8. CASE damage.kind = "cell"
    <3> DEFINE j == 1 + (damage.at % n)
    <3>1. j \in 1 .. n /\ BLANK \in X
      BY <2>5 DEF X
    <3>2. p.cells = [whole EXCEPT ![j] = BLANK]
      BY <2>4, <2>8
    <3> HIDE DEF j
    <3>3. p.cells \in Seq(X) /\ Len(p.cells) = n
      <4>1. whole \in Seq(X) /\ j \in 1 .. Len(whole) /\ BLANK \in X
        BY <2>3, <2>n, <3>1
      <4>2. /\ [whole EXCEPT ![j] = BLANK] \in Seq(X)
            /\ Len([whole EXCEPT ![j] = BLANK]) = Len(whole)
        BY <4>1, ExceptSeq
      <4> QED
        BY <2>n, <3>2, <4>2
    <3>4. \A i \in 1 .. Len(p.orig) + 2 : p.cells[i] = (p.orig \o p.seal)[i]
      <4>1. p.orig \in Seq(X) /\ p.seal \in Seq(X) /\ Len(p.seal) = 2
        BY <2>2, <2>4
      <4> QED
        BY <2>6, <3>3, <4>1, CheckedIsWhole
    <3>5. \A i \in 1 .. Len(p.cells) : p.cells[i] = whole[i]
      BY <2>3, <2>4, <2>7, <3>3, <3>4
    <3>6. p.cells = whole
      BY <2>3, <2>n, <3>3, <3>5, SeqEqual
    <3> QED
      BY <3>6 DEF p, whole, code
  <2>9. CASE damage.kind = "cut"
    <3> DEFINE m == n - 1 - (damage.at % n)
    <3>1. m \in Nat /\ m < n
      BY <2>5
    <3>2. p.cells = SubSeq(whole, 1, m)
      BY <2>4, <2>9
    <3> HIDE DEF m
    <3>3. \A i \in 1 .. m : whole[i] \in X
      BY <2>3, <2>n, <3>1, ElementOfSeq
    <3>4. p.cells \in Seq(X) /\ Len(p.cells) = m
      <4>1. m \in Int /\ 1 \in Int
        BY <3>1
      <4>2. /\ SubSeq(whole, 1, m) \in Seq(X)
            /\ Len(SubSeq(whole, 1, m)) = IF 1 <= m THEN m - 1 + 1 ELSE 0
        BY <3>3, <4>1, SubSeqProperties
      <4> QED
        BY <3>1, <3>2, <4>2
    <3>5. Len(p.cells) >= Len(p.orig) + 2
      BY <2>2, <2>4, <2>6, <3>4, CheckedIsWhole
    <3> QED
      BY <2>3, <2>4, <3>1, <3>4, <3>5
  <2> QED
    BY <2>8, <2>9 DEF damage
<1> QED
  BY <1>1, Picked, PTL

-----------------------------------------------------------------------------
(***************************************************************************)
(* What the backend reads of a code that arrives intact.                   *)
(***************************************************************************)
\* fields follow one another in cells from cell e[0] on; field k ends with cell e[k].
\* Laid: cells begins with them.
LaidFrom(cells, fields, e) ==
    \A k \in 1 .. Len(fields) :
        LET value == fields[k].value IN
        /\ e[k] = e[k - 1] + 2 + Len(value)
        /\ cells[e[k - 1] + 1] = fields[k].tag
        /\ cells[e[k - 1] + 2] = Len(value)
        /\ \A j \in 1 .. Len(value) : cells[e[k - 1] + 2 + j] = value[j]

Laid(cells, fields, e) == e[0] = 0 /\ LaidFrom(cells, fields, e)

\* The fields of a sequence begin one after the other, and end with the cells.
LEMMA EndsGrow ==
    ASSUME NEW N \in Nat, NEW e \in [0 .. N -> Nat], \A k \in 1 .. N : e[k - 1] <= e[k]
    PROVE  \A k \in 0 .. N : e[k] <= e[N]
<1> DEFINE G == {n \in 0 .. N : \A k \in 0 .. n : e[k] <= e[n]}
<1>1. 0 \in G
  OBVIOUS
<1>2. ASSUME NEW n \in 1 .. N, n - 1 \in G PROVE n \in G
  <2>1. ASSUME NEW k \in 0 .. n PROVE e[k] <= e[n]
    <3>1. CASE k = n
      BY <3>1
    <3>2. CASE k # n
      <4>1. k \in 0 .. n - 1 /\ n - 1 \in 0 .. N
        BY <3>2
      <4>2. e[k] <= e[n - 1]
        BY <1>2, <4>1
      <4>3. e[n - 1] <= e[n]
        OBVIOUS
      <4>4. e[k] \in Nat /\ e[n - 1] \in Nat /\ e[n] \in Nat
        BY <4>1
      <4> QED
        BY <4>2, <4>3, <4>4
    <3> QED
      BY <3>1, <3>2
  <2> QED
    BY <2>1
<1>3. N \in G
  <2> HIDE DEF G
  <2>1. 0 .. N \subseteq G
    BY <1>1, <1>2, Steps
  <2> QED
    BY <2>1
<1> QED
  BY <1>3

\* f walks from head to head until it stops.
Walks(f, stop, head, next) ==
    f = [i \in Nat |-> IF i \in stop THEN Nil ELSE head[i] \o f[next[i]]]

\* The body of a walk can be made a function: it looks only at later positions.
LEMMA WalkExists ==
    ASSUME NEW L \in Nat, NEW stop, NEW head, NEW next,
           \A i \in Nat : i >= L => i \in stop,
           \A i \in Nat : i \notin stop => next[i] \in Nat /\ next[i] > i
    PROVE  \E f : Walks(f, stop, head, next)
<1> DEFINE Body(f, i) == IF i \in stop THEN Nil ELSE head[i] \o f[next[i]]
           Good(f, n) == /\ f = [i \in Nat |-> f[i]]
                         /\ \A i \in Nat : i >= L - n => f[i] = Body(f, i)
           G == {n \in 0 .. L : \E f : Good(f, n)}
<1>1. 0 \in G
  <2> DEFINE f == [i \in Nat |-> Nil]
  <2>1. ASSUME NEW i \in Nat, i >= L - 0 PROVE f[i] = Body(f, i)
    <3>1. i \in stop
      BY <2>1
    <3> QED
      BY <3>1
  <2>2. Good(f, 0)
    <3>1. f = [i \in Nat |-> f[i]]
      OBVIOUS
    <3> HIDE DEF f, Body
    <3> QED
      BY <2>1, <3>1
  <2> HIDE DEF Good
  <2> QED
    BY <2>2
<1>2. ASSUME NEW n \in 1 .. L, n - 1 \in G PROVE n \in G
  <2>1. PICK f : Good(f, n - 1)
    BY <1>2
  <2> DEFINE a == L - n
             g == [f EXCEPT ![a] = Body(f, a)]
  <2>2. a \in Nat /\ n \in 0 .. L
    OBVIOUS
  <2>3. g = [i \in Nat |-> g[i]] /\ g[a] = Body(f, a) /\ \A i \in Nat : i # a => g[i] = f[i]
    <3> HIDE DEF Body, a
    <3> QED
      BY <2>1, <2>2
  <2>4. ASSUME NEW i \in Nat, i >= a PROVE Body(g, i) = Body(f, i)
    <3>1. CASE i \in stop
      BY <3>1
    <3>2. CASE i \notin stop
      <4>1. next[i] \in Nat /\ next[i] # a
        <5>1. next[i] \in Nat /\ next[i] > i
          BY <3>2
        <5> QED
          BY <2>2, <2>4, <5>1
      <4>2. g[next[i]] = f[next[i]]
        BY <2>3, <4>1
      <4> HIDE DEF g, a
      <4> QED
        BY <4>2
    <3> QED
      BY <3>1, <3>2
  <2>5. ASSUME NEW i \in Nat, i >= L - n PROVE g[i] = Body(g, i)
    <3>1. CASE i = a
      <4>1. a >= a
        BY <2>2
      <4> HIDE DEF Body, g, a
      <4>2. Body(g, a) = Body(f, a)
        BY <2>2, <2>4, <4>1
      <4> QED
        BY <2>3, <3>1, <4>2
    <3>2. CASE i # a
      <4>1. i >= L - (n - 1) /\ i >= a
        BY <2>5, <3>2
      <4> HIDE DEF Body, g
      <4>2. f[i] = Body(f, i)
        BY <2>1, <4>1
      <4> QED
        BY <2>3, <2>4, <3>2, <4>1, <4>2
    <3> QED
      BY <3>1, <3>2
  <2> HIDE DEF Body, g
  <2>6. Good(g, n)
    BY <2>3, <2>5
  <2> HIDE DEF Good
  <2> QED
    BY <2>2, <2>6
<1>3. L \in G
  <2> HIDE DEF G
  <2>1. 0 .. L \subseteq G
    BY <1>1, <1>2, Steps
  <2> QED
    BY <2>1
<1>4. PICK f : Good(f, L)
  BY <1>3
<1> HIDE DEF Body
<1>5. \A i \in Nat : f[i] = Body(f, i)
  <2>1. \A i \in Nat : i >= L - L
    OBVIOUS
  <2> QED
    BY <1>4, <2>1
<1>6. f = [i \in Nat |-> Body(f, i)]
  BY <1>4, <1>5
<1> QED
  BY <1>6 DEF Body, Walks

\* Where the walks of the two decoders end.
WalkEnds(s, i) == i + 1 > Len(s) \/ s[i + 1] \notin Digits \/ i + 1 + s[i + 1] > Len(s)
WalkToEnds(s, rest, i) == i + 1 + rest > Len(s) \/ s[i + 1] \notin Digits

\* What the walk of the serverless decoder does at each position.
LEMMA WalkSteps ==
    ASSUME NEW X, NEW s \in Seq(X)
    PROVE  \E W : /\ Walk(s) = W[1]
                  /\ \A i \in Nat :
                        W[i] = IF WalkEnds(s, i) THEN Nil
                               ELSE <<Field(s[i], SubSeq(s, i + 2, i + 1 + s[i + 1]))>>
                                        \o W[i + 2 + s[i + 1]]
<1> DEFINE stop == {i \in Nat : WalkEnds(s, i)}
           head == [i \in Nat |-> <<Field(s[i], SubSeq(s, i + 2, i + 1 + s[i + 1]))>>]
           next == [i \in Nat |-> i + 2 + s[i + 1]]
           Body(f, i) == IF \/ i + 1 > Len(s)
                            \/ s[i + 1] \notin Digits
                            \/ i + 1 + s[i + 1] > Len(s)
                         THEN Nil
                         ELSE <<Field(s[i], SubSeq(s, i + 2, i + 1 + s[i + 1]))>>
                                  \o f[i + 2 + s[i + 1]]
           Step(f, i) == IF i \in stop THEN Nil ELSE head[i] \o f[next[i]]
           W == CHOOSE f : f = [i \in Nat |-> Body(f, i)]
<1>1. Walk(s) = W[1]
  BY DEF Walk
<1>2. ASSUME NEW f, NEW i \in Nat PROVE Body(f, i) = Step(f, i)
  BY DEF WalkEnds
<1>3. Len(s) \in Nat
  BY LenProperties
<1>4. \A i \in Nat : i >= Len(s) => i \in stop
  BY <1>3 DEF WalkEnds
<1>5. \A i \in Nat : i \notin stop => next[i] \in Nat /\ next[i] > i
  <2>1. ASSUME NEW i \in Nat, i \notin stop PROVE next[i] \in Nat /\ next[i] > i
    <3>1. s[i + 1] \in Digits
      BY <2>1 DEF WalkEnds
    <3>2. s[i + 1] \in Nat
      <4>1. \A d \in Digits : d \in Nat
        BY DEF Digits
      <4> QED
        BY ONLY <3>1, <4>1
    <3>3. next[i] = i + 2 + s[i + 1]
      OBVIOUS
    <3> HIDE DEF next, stop, head
    <3> QED
      BY <3>2, <3>3
  <2> QED
    BY <2>1
<1> HIDE DEF stop, head, next
<1>6. PICK f : Walks(f, stop, head, next)
  BY <1>3, <1>4, <1>5, WalkExists
<1>7. f = [i \in Nat |-> Step(f, i)]
  BY <1>6 DEF Walks
<1> HIDE DEF Body, Step
<1>8. f = [i \in Nat |-> Body(f, i)]
  BY <1>2, <1>7
<1>9. W = [i \in Nat |-> Body(W, i)]
  BY <1>8
<1> HIDE DEF W
<1>10. \A i \in Nat : W[i] = Body(W, i)
  BY <1>9
<1> QED
  BY <1>1, <1>10 DEF Body, WalkEnds

\* What the walk of the backend does at each position.
LEMMA WalkToSteps ==
    ASSUME NEW X, NEW s \in Seq(X), NEW rest \in Nat
    PROVE  \E W : /\ WalkTo(s, rest) = W[1]
                  /\ \A i \in Nat :
                        W[i] = IF WalkToEnds(s, rest, i) THEN Nil
                               ELSE <<Field(s[i], SubSeq(s, i + 2, Least({Len(s), i + 1 + s[i + 1]})))>>
                                        \o W[i + 2 + s[i + 1]]
<1> DEFINE stop == {i \in Nat : WalkToEnds(s, rest, i)}
           head == [i \in Nat |->
                       <<Field(s[i], SubSeq(s, i + 2, Least({Len(s), i + 1 + s[i + 1]})))>>]
           next == [i \in Nat |-> i + 2 + s[i + 1]]
           Body(f, i) == IF i + 1 + rest > Len(s) \/ s[i + 1] \notin Digits THEN Nil
                         ELSE LET end == Least({Len(s), i + 1 + s[i + 1]})
                              IN  <<Field(s[i], SubSeq(s, i + 2, end))>> \o f[i + 2 + s[i + 1]]
           Step(f, i) == IF i \in stop THEN Nil ELSE head[i] \o f[next[i]]
           W == CHOOSE f : f = [i \in Nat |-> Body(f, i)]
<1>1. WalkTo(s, rest) = W[1]
  BY DEF WalkTo
<1>2. ASSUME NEW f, NEW i \in Nat PROVE Body(f, i) = Step(f, i)
  BY DEF WalkToEnds
<1>3. Len(s) \in Nat
  BY LenProperties
<1>4. \A i \in Nat : i >= Len(s) => i \in stop
  BY <1>3 DEF WalkToEnds
<1>5. \A i \in Nat : i \notin stop => next[i] \in Nat /\ next[i] > i
  <2>1. ASSUME NEW i \in Nat, i \notin stop PROVE next[i] \in Nat /\ next[i] > i
    <3>1. s[i + 1] \in Digits
      BY <2>1 DEF WalkToEnds
    <3>2. s[i + 1] \in Nat
      <4>1. \A d \in Digits : d \in Nat
        BY DEF Digits
      <4> QED
        BY ONLY <3>1, <4>1
    <3>3. next[i] = i + 2 + s[i + 1]
      OBVIOUS
    <3> HIDE DEF next, stop, head
    <3> QED
      BY <3>2, <3>3
  <2> QED
    BY <2>1
<1> HIDE DEF stop, head, next
<1>6. PICK f : Walks(f, stop, head, next)
  BY <1>3, <1>4, <1>5, WalkExists
<1>7. f = [i \in Nat |-> Step(f, i)]
  BY <1>6 DEF Walks
<1> HIDE DEF Body, Step
<1>8. f = [i \in Nat |-> Body(f, i)]
  BY <1>2, <1>7
<1>9. W = [i \in Nat |-> Body(W, i)]
  BY <1>8
<1> HIDE DEF W
<1>10. \A i \in Nat : W[i] = Body(W, i)
  BY <1>9
<1> QED
  BY <1>1, <1>10 DEF Body, WalkToEnds

\* A walk that reads one field after the other reads them all.
LEMMA ChainReads ==
    ASSUME NEW F, NEW fields \in Seq(F), NEW W, NEW e \in [0 .. Len(fields) -> Nat],
           e[0] = 0, W[e[Len(fields)] + 1] = Nil,
           \A k \in 1 .. Len(fields) : W[e[k - 1] + 1] = <<fields[k]>> \o W[e[k] + 1]
    PROVE  W[1] = fields
<1> DEFINE m == Len(fields)
           G == {d \in 0 .. m : W[e[m - d] + 1] = SubSeq(fields, m - d + 1, m)}
<1>1. m \in Nat
  BY LenProperties
<1>2. 0 \in G
  <2>1. SubSeq(fields, m + 1, m) = <<>>
    <3>1. m + 1 \in Int /\ m \in Int /\ m < m + 1
      BY <1>1
    <3> HIDE DEF m
    <3> QED
      BY <3>1, SubSeqEmpty
  <2>2. m - 0 = m /\ 0 \in 0 .. m
    BY <1>1
  <2>3. W[e[m - 0] + 1] = SubSeq(fields, m - 0 + 1, m)
    <3>1. W[e[m] + 1] = Nil
      OBVIOUS
    <3> HIDE DEF m
    <3> QED
      BY <2>1, <2>2, <3>1 DEF Nil
  <2> HIDE DEF m
  <2> QED
    BY <2>2, <2>3
<1>3. ASSUME NEW d \in 1 .. m, d - 1 \in G PROVE d \in G
  <2> DEFINE k == m - d + 1
  <2>1. k \in 1 .. m /\ m - d = k - 1 /\ m - (d - 1) = k /\ d \in 0 .. m /\ m - d + 1 = k
    BY <1>1
  <2>2. W[e[m - (d - 1)] + 1] = SubSeq(fields, m - (d - 1) + 1, m)
    BY <1>3
  <2> HIDE DEF k
  <2>3. W[e[k - 1] + 1] = <<fields[k]>> \o W[e[k] + 1]
    BY <2>1
  <2>4. <<fields[k]>> \o SubSeq(fields, k + 1, m) = SubSeq(fields, k, m)
    <3>1. k \in 1 .. Len(fields) /\ m \in k .. Len(fields)
      BY <1>1, <2>1
    <3> HIDE DEF m
    <3> QED
      BY <3>1, SubSeqRecursiveFirst
  <2>5. W[e[m - d] + 1] = SubSeq(fields, m - d + 1, m)
    <3> HIDE DEF m
    <3> QED
      BY <2>1, <2>2, <2>3, <2>4
  <2> HIDE DEF m
  <2> QED
    BY <2>1, <2>5
<1>4. m \in G
  <2> HIDE DEF G, m
  <2>1. 0 .. m \subseteq G
    BY <1>1, <1>2, <1>3, Steps
  <2> QED
    BY <1>1, <2>1
<1>5. W[1] = SubSeq(fields, 1, m)
  <2>1. m - m = 0 /\ 0 + 1 = 1
    BY <1>1
  <2>2. W[e[m - m] + 1] = SubSeq(fields, m - m + 1, m)
    BY <1>4
  <2> HIDE DEF m
  <2> QED
    BY <2>1, <2>2
<1> QED
  BY <1>5, SubSeqFull

\* What a walk finds where a field begins.
Found(s, i, field, end) ==
    LET l == Len(field.value) IN
    /\ i \in Nat /\ l \in Nat /\ l \in Digits /\ end \in Nat /\ end <= Len(s)
    /\ s[i + 1] = l /\ i + 1 + l = end /\ i + 2 + l = end + 1
    /\ Field(s[i], SubSeq(s, i + 2, end)) = field

\* It finds each field that was laid there.
LEMMA LaidIsFound ==
    ASSUME NEW X, NEW s \in Seq(X),
           NEW fields \in Seq([tag : X, value : Seq(X)]),
           \A k \in 1 .. Len(fields) : Len(fields[k].value) \in Digits,
           NEW e \in [0 .. Len(fields) -> Nat], Laid(s, fields, e), e[Len(fields)] <= Len(s)
    PROVE  /\ \A k \in 1 .. Len(fields) : Found(s, e[k - 1] + 1, fields[k], e[k])
           /\ \A k \in 1 .. Len(fields) - 1 : e[k] + 2 <= Len(s)
<1> DEFINE m == Len(fields)
           L == Len(s)
           F == [tag : X, value : Seq(X)]
<1>1. m \in Nat /\ L \in Nat
  BY LenProperties
<1>5. /\ e[0] = 0
      /\ \A k \in 1 .. m : /\ e[k] = e[k - 1] + 2 + Len(fields[k].value)
                           /\ s[e[k - 1] + 1] = fields[k].tag
                           /\ s[e[k - 1] + 2] = Len(fields[k].value)
                           /\ \A j \in 1 .. Len(fields[k].value) :
                                 s[e[k - 1] + 2 + j] = fields[k].value[j]
  BY Zenon DEF Laid, LaidFrom
<1>6. \A k \in 1 .. m : /\ fields[k].tag \in X /\ fields[k].value \in Seq(X)
                        /\ Len(fields[k].value) \in Digits /\ Len(fields[k].value) \in Nat
                        /\ e[k - 1] \in Nat /\ e[k] \in Nat
                        /\ fields[k] = Field(fields[k].tag, fields[k].value)
  <2>1. ASSUME NEW k \in 1 .. m
        PROVE  /\ fields[k].tag \in X /\ fields[k].value \in Seq(X)
               /\ fields[k] = Field(fields[k].tag, fields[k].value)
    <3>1. fields[k] \in F
      BY ElementOfSeq
    <3> QED
      BY <3>1 DEF Field
  <2>2. ASSUME NEW k \in 1 .. m PROVE Len(fields[k].value) \in Nat
    BY <2>1, LenProperties
  <2>3. ASSUME NEW k \in 1 .. m PROVE e[k - 1] \in Nat /\ e[k] \in Nat
    <3>1. k - 1 \in 0 .. m /\ k \in 0 .. m
      BY <1>1
    <3> QED
      BY <3>1
  <2> QED
    BY <2>1, <2>2, <2>3
<1>7. \A k \in 0 .. m : e[k] <= L
  <2>1. ASSUME NEW k \in 1 .. m PROVE e[k - 1] <= e[k]
    <3> DEFINE l == Len(fields[k].value)
    <3>1. e[k] = e[k - 1] + 2 + l
      BY <1>5
    <3>2. e[k - 1] \in Nat /\ l \in Nat
      BY <1>6
    <3> HIDE DEF l
    <3> QED
      BY <3>1, <3>2
  <2>2. ASSUME NEW k \in 0 .. m PROVE e[k] <= L
    <3>1. e[m] <= L
      OBVIOUS
    <3>2. e[k] <= e[m]
      <4>1. e \in [0 .. m -> Nat]
        OBVIOUS
      <4> HIDE DEF L, m
      <4> QED
        BY <1>1, <2>1, <4>1, EndsGrow
    <3>3. e[k] \in Nat /\ e[m] \in Nat
      <4>1. m \in 0 .. m
        BY <1>1
      <4> QED
        BY <4>1
    <3> HIDE DEF L, m
    <3> QED
      BY <1>1, <3>1, <3>2, <3>3
  <2> QED
    BY <2>2
<1>8. ASSUME NEW k \in 1 .. m PROVE Found(s, e[k - 1] + 1, fields[k], e[k])
  <2> DEFINE i == e[k - 1] + 1
             v == fields[k].value
             l == Len(v)
  <2>1. k \in 0 .. m
    BY <1>1
  <2>3. /\ l \in Digits /\ l \in Nat /\ i \in Nat /\ v \in Seq(X)
        /\ s[i] = fields[k].tag /\ s[i + 1] = l /\ i + 1 + l = e[k] /\ e[k] \in Nat
        /\ \A j \in 1 .. l : s[i + 1 + j] = v[j]
    <3>1. /\ e[k] = e[k - 1] + 2 + l /\ s[e[k - 1] + 1] = fields[k].tag
          /\ s[e[k - 1] + 2] = l /\ \A j \in 1 .. l : s[e[k - 1] + 2 + j] = v[j]
      BY <1>5
    <3>2. l \in Digits /\ l \in Nat /\ v \in Seq(X) /\ e[k - 1] \in Nat /\ e[k] \in Nat
      BY <1>6
    <3>3. i + 1 = e[k - 1] + 2 /\ i \in Nat /\ i + 1 + l = e[k - 1] + 2 + l
      BY <3>2
    <3>4. \A j \in 1 .. l : i + 1 + j = e[k - 1] + 2 + j
      BY <3>2
    <3> HIDE DEF v, l
    <3> QED
      BY <3>1, <3>2, <3>3, <3>4
  <2>4. e[k] <= L
    BY <1>7, <2>1
  <2>6. SubSeq(s, i + 2, e[k]) = v
    <3>1. i + 2 \in Int /\ e[k] \in Int /\ e[k] - (i + 2) + 1 = l
          /\ (IF i + 2 <= e[k] THEN e[k] - (i + 2) + 1 ELSE 0) = l
      <4> HIDE DEF i, l
      <4> QED
        BY <2>3
    <3>2. \A j \in i + 2 .. e[k] : s[j] \in X
      <4>1. \A j \in 1 .. L : s[j] \in X
        BY ElementOfSeq
      <4>2. \A j \in i + 2 .. e[k] : j \in 1 .. L
        <5> DEFINE w == e[k]
        <5>1. i \in Nat /\ w \in Nat /\ w <= L /\ L \in Nat
          <6> HIDE DEF i, l, L
          <6> QED
            BY <1>1, <2>3, <2>4
        <5> HIDE DEF i, l, L, w
        <5>2. \A j \in i + 2 .. w : j \in 1 .. L
          BY <5>1
        <5> QED
          BY <5>2 DEF w
      <4> HIDE DEF i, l, L
      <4> QED
        BY <4>1, <4>2
    <3> DEFINE t == SubSeq(s, i + 2, e[k])
    <3>3. t \in Seq(X) /\ Len(t) = l /\ \A j \in 1 .. l : t[j] = s[i + 2 + j - 1]
      <4> HIDE DEF i, l
      <4> QED
        BY <3>1, <3>2, SubSeqProperties
    <3>4. \A j \in 1 .. l : t[j] = v[j]
      <4>1. \A j \in 1 .. l : i + 2 + j - 1 = i + 1 + j
        <5> HIDE DEF i, l
        <5> QED
          BY <2>3
      <4> HIDE DEF t, i, l, v
      <4> QED
        BY <2>3, <3>3, <4>1
    <3>5. v \in Seq(X) /\ Len(t) = Len(v)
      BY <2>3, <3>3
    <3> HIDE DEF t, v
    <3>6. t = v
      BY <3>3, <3>4, <3>5, SeqEqual DEF l
    <3> QED
      BY <3>6 DEF t
  <2>7. Field(s[i], v) = fields[k]
    BY <1>6, <2>3
  <2>8. i + 2 + l = e[k] + 1
    <3> HIDE DEF i, l
    <3> QED
      BY <2>3
  <2>9. Found(s, i, fields[k], e[k])
    <3> HIDE DEF i
    <3> QED
      BY <2>3, <2>4, <2>6, <2>7, <2>8, Zenon DEF Found, L, l, v
  <2> QED
    BY <2>9
<1>9. ASSUME NEW k \in 1 .. m - 1 PROVE e[k] + 2 <= L
  <2> DEFINE w == Len(fields[k + 1].value)
             x == e[k]
             y == e[k + 1]
  <2>1. k + 1 \in 1 .. m /\ k + 1 \in 0 .. m /\ (k + 1) - 1 = k
    BY <1>1
  <2>2. y = x + 2 + w /\ w \in Nat /\ x \in Nat /\ y <= L
    BY <1>5, <1>6, <1>7, <2>1
  <2> HIDE DEF w, x, y, L
  <2>3. x + 2 <= L
    BY <1>1, <2>2
  <2> QED
    BY <2>3 DEF x
<1> QED
  BY <1>8, <1>9

\* The walks of both decoders read the fields that were laid, whatever their values
\* hold, if one cell follows them at most and, for the backend, the last has a value.
LEMMA WalksRead ==
    ASSUME NEW X, NEW s \in Seq(X), NEW rest \in {0, 1},
           NEW fields \in Seq([tag : X, value : Seq(X)]),
           \A k \in 1 .. Len(fields) : Len(fields[k].value) \in Digits,
           rest = 1 => fields # <<>> /\ Len(fields[Len(fields)].value) >= 1,
           NEW e \in [0 .. Len(fields) -> Nat], Laid(s, fields, e),
           Len(s) \in e[Len(fields)] .. e[Len(fields)] + 1
    PROVE  WalkTo(s, rest) = fields /\ Walk(s) = fields
<1> DEFINE m == Len(fields)
           L == Len(s)
           E == e[m]
<1>1. m \in Nat /\ L \in Nat /\ E \in Nat /\ E <= L /\ L <= E + 1
  <2>1. m \in Nat /\ L \in Nat
    BY LenProperties
  <2>2. m \in 0 .. m
    BY <2>1
  <2>3. E \in Nat /\ L \in E .. E + 1
    BY <2>2
  <2> HIDE DEF m, L, E
  <2> QED
    BY <2>1, <2>3
<1>2. /\ \A k \in 1 .. m : Found(s, e[k - 1] + 1, fields[k], e[k])
      /\ \A k \in 1 .. m - 1 : e[k] + 2 <= L
  <2>1. e[Len(fields)] <= Len(s)
    BY <1>1
  <2> QED
    BY <2>1, LaidIsFound
<1>3. e[0] = 0
  BY DEF Laid
<1>e. E + 1 \in Nat /\ E + 1 + 1 > L
  <2> HIDE DEF E, L
  <2> QED
    BY <1>1
<1>4. Walk(s) = fields
  <2>1. PICK W : /\ Walk(s) = W[1]
                 /\ \A i \in Nat :
                       W[i] = IF WalkEnds(s, i) THEN Nil
                              ELSE <<Field(s[i], SubSeq(s, i + 2, i + 1 + s[i + 1]))>>
                                       \o W[i + 2 + s[i + 1]]
    BY WalkSteps
  <2>2. W[E + 1] = Nil
    <3>1. WalkEnds(s, E + 1)
      BY <1>e DEF WalkEnds
    <3> HIDE DEF E
    <3> QED
      BY <1>e, <2>1, <3>1
  <2>3. ASSUME NEW k \in 1 .. m PROVE W[e[k - 1] + 1] = <<fields[k]>> \o W[e[k] + 1]
    <3> DEFINE i == e[k - 1] + 1
               end == e[k]
               l == Len(fields[k].value)
    <3>1. Found(s, i, fields[k], end)
      BY <1>2
    <3> HIDE DEF i, end
    <3>2. /\ i \in Nat /\ l \in Nat /\ l \in Digits /\ end \in Nat /\ end <= L
          /\ s[i + 1] = l /\ i + 1 + l = end /\ i + 2 + l = end + 1
          /\ Field(s[i], SubSeq(s, i + 2, end)) = fields[k]
      BY <3>1 DEF Found
    <3> HIDE DEF l, L
    <3>3. ~ (i + 1 > L) /\ ~ (i + 1 + l > L)
      BY <1>1, <3>2
    <3>4. ~ WalkEnds(s, i)
      BY <3>2, <3>3 DEF WalkEnds, L
    <3>5. W[i] = <<Field(s[i], SubSeq(s, i + 2, i + 1 + s[i + 1]))>> \o W[i + 2 + s[i + 1]]
      BY <2>1, <3>2, <3>4
    <3>6. W[i] = <<fields[k]>> \o W[end + 1]
      BY <3>2, <3>5
    <3> QED
      BY <3>6 DEF i, end
  <2>4. W[1] = fields
    <3> HIDE DEF L
    <3> QED
      BY <1>3, <2>2, <2>3, ChainReads
  <2> QED
    BY <2>1, <2>4
<1>5. WalkTo(s, rest) = fields
  <2>1. PICK W : /\ WalkTo(s, rest) = W[1]
                 /\ \A i \in Nat :
                       W[i] = IF WalkToEnds(s, rest, i) THEN Nil
                              ELSE <<Field(s[i], SubSeq(s, i + 2, Least({Len(s), i + 1 + s[i + 1]})))>>
                                       \o W[i + 2 + s[i + 1]]
    <3>1. rest \in Nat
      OBVIOUS
    <3> QED
      BY <3>1, WalkToSteps
  <2>2. W[E + 1] = Nil
    <3>1. E + 1 + 1 + rest > L
      <4> HIDE DEF E, L
      <4> QED
        BY <1>1
    <3>2. WalkToEnds(s, rest, E + 1)
      BY <3>1 DEF WalkToEnds
    <3> HIDE DEF E
    <3> QED
      BY <1>e, <2>1, <3>2
  <2>3. ASSUME NEW k \in 1 .. m PROVE W[e[k - 1] + 1] = <<fields[k]>> \o W[e[k] + 1]
    <3> DEFINE i == e[k - 1] + 1
               end == e[k]
               l == Len(fields[k].value)
    <3>1. Found(s, i, fields[k], end)
      BY <1>2
    <3>t. rest = 0 \/ l >= 1 \/ end + 2 <= L
      <4>1. CASE k = m
        BY <4>1
      <4>2. CASE k # m
        <5>1. k \in 1 .. m - 1
          BY <1>1, <4>2
        <5> QED
          BY <1>2, <5>1
      <4> QED
        BY <4>1, <4>2
    <3> HIDE DEF i, end
    <3>2. /\ i \in Nat /\ l \in Nat /\ l \in Digits /\ end \in Nat /\ end <= L
          /\ s[i + 1] = l /\ i + 1 + l = end /\ i + 2 + l = end + 1
          /\ Field(s[i], SubSeq(s, i + 2, end)) = fields[k]
      BY <3>1 DEF Found
    <3> HIDE DEF l, L
    <3>3. ~ (i + 1 + rest > L)
      BY <1>1, <3>2, <3>t
    <3>4. ~ WalkToEnds(s, rest, i)
      BY <3>2, <3>3 DEF WalkToEnds, L
    <3>5. W[i] = <<Field(s[i], SubSeq(s, i + 2, Least({Len(s), i + 1 + s[i + 1]})))>>
                     \o W[i + 2 + s[i + 1]]
      BY <2>1, <3>2, <3>4
    <3>6. Least({L, i + 1 + l}) = end
      BY <1>1, <3>2 DEF Least
    <3>7. W[i] = <<fields[k]>> \o W[end + 1]
      <4>1. Least({Len(s), i + 1 + s[i + 1]}) = end
        BY <3>2, <3>6 DEF L
      <4> QED
        BY <3>2, <3>5, <4>1
    <3> QED
      BY <3>7 DEF i, end
  <2>4. W[1] = fields
    <3> HIDE DEF L
    <3> QED
      BY <1>3, <2>2, <2>3, ChainReads
  <2> QED
    BY <2>1, <2>4
<1> QED
  BY <1>4, <1>5

\* What f puts together holds each of the sequences after those before it.
Holds(f, seqs) ==
    \A n \in 1 .. Len(seqs) :
        /\ Len(f[n]) = Len(f[n - 1]) + Len(seqs[n])
        /\ \A j \in 1 .. Len(seqs[n]) : f[Len(seqs)][Len(f[n - 1]) + j] = seqs[n][j]

\* Sequences put together hold each of them after those before it.
LEMMA JoinedHolds ==
    ASSUME NEW X, NEW seqs \in Seq(Seq(X)),
           NEW f \in [0 .. Len(seqs) -> Seq(X)], Joins(f, seqs)
    PROVE  Holds(f, seqs)
<1> DEFINE N == Len(seqs)
           Begins(a, b) == Len(a) <= Len(b) /\ \A i \in 1 .. Len(a) : b[i] = a[i]
           G == {n \in 0 .. N : \A k \in 0 .. n : Begins(f[k], f[n])}
<1>1. N \in Nat
  BY LenProperties
<1>2. ASSUME NEW n \in 1 .. N
      PROVE  /\ f[n - 1] \in Seq(X) /\ seqs[n] \in Seq(X) /\ f[n] \in Seq(X)
             /\ Len(f[n - 1]) \in Nat /\ Len(seqs[n]) \in Nat
             /\ Len(f[n]) = Len(f[n - 1]) + Len(seqs[n])
             /\ \A i \in 1 .. Len(f[n - 1]) : f[n][i] = f[n - 1][i]
             /\ \A j \in 1 .. Len(seqs[n]) : f[n][Len(f[n - 1]) + j] = seqs[n][j]
  <2> DEFINE a == f[n - 1]
             b == seqs[n]
             c == f[n]
  <2>1. a \in Seq(X) /\ b \in Seq(X)
    <3>1. n - 1 \in 0 .. N
      BY <1>1
    <3> QED
      BY <3>1, ElementOfSeq
  <2>2. c = a \o b
    BY DEF Joins
  <2> HIDE DEF a, b, c
  <2>3. Len(a) \in Nat /\ Len(b) \in Nat
    BY <2>1, LenProperties
  <2>4. /\ c \in Seq(X) /\ Len(c) = Len(a) + Len(b)
        /\ \A i \in 1 .. Len(a) + Len(b) : c[i] = IF i <= Len(a) THEN a[i] ELSE b[i - Len(a)]
    BY <2>1, <2>2, ConcatProperties
  <2>5. ASSUME NEW i \in 1 .. Len(a) PROVE c[i] = a[i]
    <3>1. i \in 1 .. Len(a) + Len(b) /\ i <= Len(a)
      BY ONLY <2>3, i \in 1 .. Len(a)
    <3> QED
      BY <2>4, <3>1
  <2>6. ASSUME NEW j \in 1 .. Len(b) PROVE c[Len(a) + j] = b[j]
    <3>1. /\ Len(a) + j \in 1 .. Len(a) + Len(b) /\ ~ (Len(a) + j <= Len(a))
          /\ (Len(a) + j) - Len(a) = j
      BY <2>3
    <3> QED
      BY <2>4, <3>1
  <2> QED
    BY <2>1, <2>3, <2>4, <2>5, <2>6 DEF a, b, c
<1>3. 0 \in G
  <2>1. f[0] \in Seq(X) /\ 0 \in 0 .. N
    BY <1>1
  <2>2. Len(f[0]) \in Nat
    BY <2>1, LenProperties
  <2>3. Begins(f[0], f[0])
    BY <2>2
  <2> HIDE DEF Begins
  <2> QED
    BY <2>1, <2>3
<1>4. ASSUME NEW n \in 1 .. N, n - 1 \in G PROVE n \in G
  <2>1. ASSUME NEW k \in 0 .. n PROVE Begins(f[k], f[n])
    <3>1. CASE k = n
      <4>1. Len(f[n]) \in Nat
        BY <1>2, LenProperties
      <4> QED
        BY <3>1, <4>1
    <3>2. CASE k # n
      <4>1. k \in 0 .. n - 1 /\ k \in 0 .. N
        BY <1>1, <3>2
      <4>2. Begins(f[k], f[n - 1])
        <5> HIDE DEF Begins
        <5> QED
          BY <1>4, <4>1
      <4>3. f[k] \in Seq(X) /\ Len(f[k]) \in Nat
        BY <4>1, LenProperties
      <4>4. /\ Len(f[k]) <= Len(f[n - 1]) /\ Len(f[n - 1]) \in Nat /\ Len(seqs[n]) \in Nat
            /\ Len(f[n]) = Len(f[n - 1]) + Len(seqs[n])
        BY <1>2, <4>2
      <4>5. Len(f[k]) <= Len(f[n])
        <5> DEFINE x == Len(f[k])
                   y == Len(f[n - 1])
                   z == Len(seqs[n])
                   w == Len(f[n])
        <5>1. x \in Nat /\ x <= y /\ y \in Nat /\ z \in Nat /\ w = y + z
          BY <4>3, <4>4
        <5> HIDE DEF x, y, z, w
        <5>2. x <= w
          BY <5>1
        <5> QED
          BY <5>2 DEF x, w
      <4>6. ASSUME NEW i \in 1 .. Len(f[k]) PROVE f[n][i] = f[k][i]
        <5>1. i \in 1 .. Len(f[n - 1])
          BY <4>3, <4>4
        <5>2. f[n][i] = f[n - 1][i]
          BY <1>2, <5>1
        <5> QED
          BY <4>2, <5>2
      <4> QED
        BY <4>5, <4>6
    <3> QED
      BY <3>1, <3>2
  <2> HIDE DEF Begins
  <2>2. n \in 0 .. N
    BY <1>1
  <2> QED
    BY <2>1, <2>2
<1>5. N \in G
  <2> HIDE DEF G, N
  <2>1. 0 .. N \subseteq G
    BY <1>1, <1>3, <1>4, Steps
  <2> QED
    BY <1>1, <2>1
<1>6. ASSUME NEW n \in 1 .. N, NEW j \in 1 .. Len(seqs[n])
      PROVE  f[N][Len(f[n - 1]) + j] = seqs[n][j]
  <2>1. Begins(f[n], f[N])
    <3>1. n \in 0 .. N
      BY <1>1
    <3> HIDE DEF Begins
    <3> QED
      BY <1>5, <3>1
  <2>2. /\ Len(f[n - 1]) \in Nat /\ Len(seqs[n]) \in Nat
        /\ Len(f[n]) = Len(f[n - 1]) + Len(seqs[n])
        /\ f[n][Len(f[n - 1]) + j] = seqs[n][j]
    BY <1>2
  <2>3. Len(f[n - 1]) + j \in 1 .. Len(f[n])
    <3> DEFINE y == Len(f[n - 1])
               z == Len(seqs[n])
               w == Len(f[n])
    <3>1. y \in Nat /\ z \in Nat /\ w = y + z /\ j \in 1 .. z
      BY <2>2
    <3> HIDE DEF y, z, w
    <3>2. y + j \in 1 .. w
      BY <3>1
    <3> QED
      BY <3>2 DEF y, w
  <2> QED
    BY <2>1, <2>2, <2>3
<1> QED
  BY <1>2, <1>6 DEF Holds

\* Fields, one after the other, are a sequence in which they are laid.
LEMMA EncodedIsLaid ==
    ASSUME NEW X, Nat \subseteq X, NEW fields \in Seq([tag : X, value : Seq(X)])
    PROVE  /\ Encode(fields) \in Seq(X)
           /\ \E e \in [0 .. Len(fields) -> Nat] :
                  Laid(Encode(fields), fields, e) /\ e[Len(fields)] = Len(Encode(fields))
<1> DEFINE m == Len(fields)
           part(k) == <<fields[k].tag, Len(fields[k].value)>> \o fields[k].value
           parts == [k \in DOMAIN fields |-> part(k)]
<1>1. m \in Nat /\ DOMAIN fields = 1 .. m
  BY LenProperties
<1>2. ASSUME NEW k \in 1 .. m
      PROVE  /\ Len(fields[k].value) \in Nat
             /\ part(k) \in Seq(X) /\ Len(part(k)) = 2 + Len(fields[k].value)
             /\ part(k)[1] = fields[k].tag /\ part(k)[2] = Len(fields[k].value)
             /\ \A j \in 1 .. Len(fields[k].value) : part(k)[2 + j] = fields[k].value[j]
  <2>1. fields[k] \in [tag : X, value : Seq(X)]
    BY <1>1, ElementOfSeq
  <2> DEFINE t == fields[k].tag
             v == fields[k].value
             h == <<t, Len(v)>>
  <2>2. t \in X /\ v \in Seq(X) /\ Len(v) \in Nat
    BY <2>1, LenProperties
  <2>3. h \in Seq(X) /\ Len(h) = 2 /\ h[1] = t /\ h[2] = Len(v)
    <3> HIDE DEF t, v
    <3> QED
      BY <2>2
  <2>4. part(k) = h \o v
    OBVIOUS
  <2> HIDE DEF h, v, t
  <2>5. /\ h \o v \in Seq(X) /\ Len(h \o v) = 2 + Len(v)
        /\ \A i \in 1 .. 2 + Len(v) : (h \o v)[i] = IF i <= 2 THEN h[i] ELSE v[i - 2]
    <3>1. v \in Seq(X) /\ h \in Seq(X)
      BY <2>2, <2>3
    <3>2. /\ h \o v \in Seq(X) /\ Len(h \o v) = Len(h) + Len(v)
          /\ \A i \in 1 .. Len(h) + Len(v) : (h \o v)[i] = IF i <= Len(h) THEN h[i] ELSE v[i - Len(h)]
      BY ONLY <3>1, ConcatProperties
    <3> QED
      BY <2>3, <3>2
  <2>6. (h \o v)[1] = t /\ (h \o v)[2] = Len(v)
    <3>1. 1 \in 1 .. 2 + Len(v) /\ 2 \in 1 .. 2 + Len(v)
      BY <2>2
    <3> QED
      BY <2>3, <2>5, <3>1
  <2>7. ASSUME NEW j \in 1 .. Len(v) PROVE (h \o v)[2 + j] = v[j]
    <3>1. 2 + j \in 1 .. 2 + Len(v) /\ ~ (2 + j <= 2) /\ (2 + j) - 2 = j
      BY <2>2
    <3> QED
      BY <2>5, <3>1
  <2> HIDE DEF part
  <2>8. /\ Len(v) \in Nat /\ part(k) \in Seq(X) /\ Len(part(k)) = 2 + Len(v)
        /\ part(k)[1] = t /\ part(k)[2] = Len(v)
        /\ \A j \in 1 .. Len(v) : part(k)[2 + j] = v[j]
    BY <2>2, <2>4, <2>5, <2>6, <2>7
  <2> QED
    BY <2>8 DEF t, v
<1>3. parts \in Seq(Seq(X)) /\ Len(parts) = m /\ \A k \in 1 .. m : parts[k] = part(k)
  <2> HIDE DEF part, m
  <2> QED
    BY <1>1, <1>2
<1>4. PICK f \in [0 .. m -> Seq(X)] : Joins(f, parts) /\ Encode(fields) = f[m]
  <2>1. Encode(fields) = FlattenSeq(parts)
    BY Zenon DEF Encode
  <2> HIDE DEF parts, m, part
  <2>2. \E f \in [0 .. Len(parts) -> Seq(X)] :
            Joins(f, parts) /\ FlattenSeq(parts) = f[Len(parts)]
    BY <1>3, Flattened
  <2> QED
    BY <1>3, <2>1, <2>2
<1>5. ASSUME NEW k \in 1 .. m
      PROVE  /\ Len(f[k]) = Len(f[k - 1]) + Len(part(k))
             /\ \A j \in 1 .. Len(part(k)) : f[m][Len(f[k - 1]) + j] = part(k)[j]
  <2> HIDE DEF parts, m, part
  <2>1. parts \in Seq(Seq(X)) /\ f \in [0 .. Len(parts) -> Seq(X)] /\ Joins(f, parts)
    BY <1>3, <1>4
  <2>2. Holds(f, parts)
    BY <2>1, JoinedHolds
  <2>3. \A n \in 1 .. Len(parts) :
            /\ Len(f[n]) = Len(f[n - 1]) + Len(parts[n])
            /\ \A j \in 1 .. Len(parts[n]) : f[Len(parts)][Len(f[n - 1]) + j] = parts[n][j]
    BY <2>2 DEF Holds
  <2> QED
    BY <1>3, <2>3
<1>6. ASSUME NEW k \in 0 .. m PROVE f[k] \in Seq(X) /\ Len(f[k]) \in Nat
  BY <1>4, LenProperties
<1> DEFINE e == [k \in 0 .. m |-> Len(f[k])]
           text == Encode(fields)
<1>7. e \in [0 .. m -> Nat] /\ e[m] = Len(text) /\ e[0] = 0 /\ text \in Seq(X)
  <2>1. 0 \in 0 .. m /\ m \in 0 .. m /\ f[0] = <<>>
    BY <1>1, <1>4 DEF Joins
  <2> HIDE DEF m
  <2> QED
    BY <1>4, <1>6, <2>1
<1>8. ASSUME NEW k \in 1 .. m
      PROVE  LET value == fields[k].value IN
             /\ e[k] = e[k - 1] + 2 + Len(value)
             /\ text[e[k - 1] + 1] = fields[k].tag
             /\ text[e[k - 1] + 2] = Len(value)
             /\ \A j \in 1 .. Len(value) : text[e[k - 1] + 2 + j] = value[j]
  <2>1. k - 1 \in 0 .. m /\ k \in 0 .. m
    BY <1>1
  <2> DEFINE v == fields[k].value
             l == Len(v)
             b == Len(f[k - 1])
             c == Len(f[k])
             t == fields[k].tag
  <2>2. e[k] = c /\ e[k - 1] = b /\ text = f[m]
    BY <1>4, <2>1
  <2>3. /\ c = b + Len(part(k)) /\ b \in Nat
        /\ \A j \in 1 .. Len(part(k)) : f[m][b + j] = part(k)[j]
    BY <1>5, <1>6, <2>1
  <2>4. /\ l \in Nat /\ Len(part(k)) = 2 + l
        /\ part(k)[1] = t /\ part(k)[2] = l
        /\ \A j \in 1 .. l : part(k)[2 + j] = v[j]
    BY <1>2
  <2> HIDE DEF part, b, v, l, c, t, e, text
  <2>5. 1 \in 1 .. 2 + l /\ 2 \in 1 .. 2 + l /\ c = b + 2 + l
    BY <2>3, <2>4
  <2>6. ASSUME NEW j \in 1 .. l PROVE text[b + 2 + j] = v[j]
    <3>1. 2 + j \in 1 .. 2 + l /\ b + (2 + j) = b + 2 + j
      <4>1. b \in Nat /\ l \in Nat /\ j \in 1 .. l
        BY <2>3, <2>4
      <4> QED
        BY ONLY <4>1
    <3>2. text[b + (2 + j)] = part(k)[2 + j]
      BY <2>2, <2>3, <2>4, <3>1
    <3> QED
      BY <2>4, <3>1, <3>2
  <2>7. text[b + 1] = t /\ text[b + 2] = l
    BY <2>2, <2>3, <2>4, <2>5
  <2>8. /\ e[k] = e[k - 1] + 2 + l
        /\ text[e[k - 1] + 1] = t
        /\ text[e[k - 1] + 2] = l
        /\ \A j \in 1 .. l : text[e[k - 1] + 2 + j] = v[j]
    BY <2>2, <2>5, <2>6, <2>7
  <2> QED
    BY <2>8 DEF v, l, t
<1>9. Laid(text, fields, e)
  <2> HIDE DEF e, text
  <2> QED
    BY <1>7, <1>8 DEF Laid, LaidFrom
<1> HIDE DEF e
<1> QED
  BY <1>7, <1>9

\* The fields and the CRC of a code, as sequences of cells.
LEMMA CodeFields ==
    ASSUME NEW code \in Codes
    PROVE  LET X == Cells \cup Nat IN
           /\ code.fields \in Seq([tag : X, value : Seq(X)])
           /\ code.seal \in Seq(X) /\ Len(code.seal) = 2
<1> DEFINE X == Cells \cup Nat
<1>1. /\ code.fields \in Seq([tag : Digits, value : Seq(Cells)])
      /\ code.seal \in Seq(Cells) /\ Len(code.seal) = 2
  BY CodesAssumption DEF CrcCells
<1>2. Cells \subseteq X /\ Digits \subseteq X
  <2>1. \A d \in Digits : d \in Nat
    BY DEF Digits
  <2> QED
    BY <2>1
<1> HIDE DEF X
<1>3. \A s \in Seq(Cells) : s \in Seq(X)
  BY <1>2, SeqMonotonic
<1>4. [tag : Digits, value : Seq(Cells)] \subseteq [tag : X, value : Seq(X)]
  BY <1>2, <1>3
<1>5. code.fields \in Seq([tag : X, value : Seq(X)])
  <2> DEFINE F == [tag : Digits, value : Seq(Cells)]
             G == [tag : X, value : Seq(X)]
             fields == code.fields
  <2>1. fields \in Seq(F) /\ F \subseteq G
    BY <1>1, <1>4
  <2> HIDE DEF F, G, fields
  <2>2. fields \in Seq(G)
    BY ONLY <2>1, SeqMonotonic
  <2> QED
    BY <2>2 DEF fields, G
<1> QED
  BY <1>1, <1>3, <1>5 DEF X

\* What was laid is there in all that begins with it.
LEMMA LaidOn ==
    ASSUME NEW cells, NEW other, NEW fields, Len(fields) \in Nat,
           \A k \in 1 .. Len(fields) : Len(fields[k].value) \in Nat,
           NEW e \in [0 .. Len(fields) -> Nat], Laid(cells, fields, e),
           \A i \in 1 .. e[Len(fields)] : other[i] = cells[i]
    PROVE  Laid(other, fields, e)
<1> DEFINE m == Len(fields)
           l(k) == Len(fields[k].value)
<1>1. /\ e[0] = 0
      /\ \A k \in 1 .. m : /\ e[k] = e[k - 1] + 2 + l(k)
                           /\ cells[e[k - 1] + 1] = fields[k].tag
                           /\ cells[e[k - 1] + 2] = l(k)
                           /\ \A j \in 1 .. l(k) :
                                 cells[e[k - 1] + 2 + j] = fields[k].value[j]
  BY Zenon DEF Laid, LaidFrom
<1>2. ASSUME NEW k \in 1 .. m PROVE e[k - 1] \in Nat /\ l(k) \in Nat /\ e[k - 1] <= e[k] /\ e[k] \in Nat
  <2>1. k - 1 \in 0 .. m /\ k \in 0 .. m
    OBVIOUS
  <2>2. e[k - 1] \in Nat /\ l(k) \in Nat /\ e[k] = e[k - 1] + 2 + l(k) /\ e[k] \in Nat
    BY <1>1, <2>1
  <2> HIDE DEF l
  <2> QED
    BY <2>2
<1>3. \A k \in 0 .. m : e[k] <= e[m]
  <2>1. \A k \in 1 .. m : e[k - 1] <= e[k]
    BY <1>2
  <2>2. m \in Nat /\ e \in [0 .. m -> Nat]
    OBVIOUS
  <2> HIDE DEF m
  <2> QED
    BY <2>1, <2>2, EndsGrow
<1>4. ASSUME NEW k \in 1 .. m
      PROVE  /\ other[e[k - 1] + 1] = cells[e[k - 1] + 1]
             /\ other[e[k - 1] + 2] = cells[e[k - 1] + 2]
             /\ \A j \in 1 .. l(k) : other[e[k - 1] + 2 + j] = cells[e[k - 1] + 2 + j]
  <2> DEFINE a == e[k - 1]
             b == l(k)
             c == e[k]
             E == e[m]
  <2>1. a \in Nat /\ b \in Nat /\ c = a + 2 + b /\ c <= E /\ E \in Nat
    <3>1. k \in 0 .. m /\ m \in 0 .. m
      OBVIOUS
    <3> HIDE DEF l, m
    <3> QED
      BY <1>1, <1>2, <1>3, <3>1
  <2>2. \A i \in 1 .. E : other[i] = cells[i]
    OBVIOUS
  <2> HIDE DEF a, b, c, E
  <2>3. a + 1 \in 1 .. E /\ a + 2 \in 1 .. E /\ \A j \in 1 .. b : a + 2 + j \in 1 .. E
    BY <2>1
  <2>4. /\ other[a + 1] = cells[a + 1] /\ other[a + 2] = cells[a + 2]
        /\ \A j \in 1 .. b : other[a + 2 + j] = cells[a + 2 + j]
    BY <2>2, <2>3
  <2> QED
    BY <2>4 DEF a, b
<1>5. \A k \in 1 .. m : /\ e[k] = e[k - 1] + 2 + l(k)
                        /\ other[e[k - 1] + 1] = fields[k].tag
                        /\ other[e[k - 1] + 2] = l(k)
                        /\ \A j \in 1 .. l(k) : other[e[k - 1] + 2 + j] = fields[k].value[j]
  BY <1>1, <1>4
<1> QED
  BY <1>1, <1>5, Zenon DEF Laid, LaidFrom

\* The fields of a code and the one of its CRC.
AllFields(code) == Append(code.fields, Field(63, code.seal))

\* The CRC is the last of all fields.
LEMMA AllFieldsAre ==
    ASSUME NEW code \in Codes
    PROVE  LET m == Len(code.fields) IN
           /\ m \in Nat /\ DOMAIN code.fields = 1 .. m
           /\ Len(AllFields(code)) = m + 1 /\ DOMAIN AllFields(code) = 1 .. m + 1
           /\ \A k \in 1 .. m : AllFields(code)[k] = code.fields[k]
           /\ AllFields(code)[m + 1] = Field(63, code.seal)
<1> DEFINE fields == code.fields
           m == Len(fields)
           c == Field(63, code.seal)
           F == [tag : Digits, value : Seq(Cells)]
<1>1. fields \in Seq(F) /\ m \in Nat /\ DOMAIN fields = 1 .. m
  BY CodesAssumption, LenProperties
<1>2. c \in F
  <2>1. code.seal \in Seq(Cells)
    BY CodesAssumption
  <2>2. 63 \in Digits
    BY DEF Digits
  <2> QED
    BY <2>1, <2>2 DEF Field
<1>3. AllFields(code) = Append(fields, c)
  BY DEF AllFields
<1>e. m = Len(fields)
  OBVIOUS
<1> HIDE DEF c, F, fields, m
<1>4. /\ Append(fields, c) \in Seq(F) /\ Len(Append(fields, c)) = m + 1
      /\ \A k \in 1 .. m : Append(fields, c)[k] = fields[k]
      /\ Append(fields, c)[m + 1] = c
  BY <1>1, <1>2, <1>e
<1>5. DOMAIN Append(fields, c) = 1 .. Len(Append(fields, c))
  BY <1>4, LenProperties
<1> QED
  BY <1>1, <1>3, <1>4, <1>5, <1>e DEF c, fields, m

\* A code is made of its fields and the field of its CRC.
LEMMA CodeIsLaid ==
    ASSUME NEW code \in Codes
    PROVE  LET all == AllFields(code)
               X   == Cells \cup Nat
           IN  /\ all \in Seq([tag : X, value : Seq(X)])
               /\ Whole(code) \in Seq(X)
               /\ \E e \in [0 .. Len(all) -> Nat] :
                      Laid(Whole(code), all, e) /\ e[Len(all)] = Len(Whole(code))
<1> DEFINE X == Cells \cup Nat
           F == [tag : X, value : Seq(X)]
           fields == code.fields
           m == Len(fields)
           all == AllFields(code)
           seal == code.seal
           text == Encode(fields)
           whole == Whole(code)
<1>1. /\ fields \in Seq(F) /\ m \in Nat
      /\ seal \in Seq(X) /\ Len(seal) = 2
      /\ Nat \subseteq X
  BY CodeFields, LenProperties
<1>2. /\ Len(all) = m + 1 /\ \A k \in 1 .. m : all[k] = fields[k]
      /\ all[m + 1] = Field(63, seal)
  BY AllFieldsAre
<1>3. all \in Seq(F)
  <2>1. Field(63, seal) \in F
    <3>1. 63 \in X
      BY <1>1
    <3> QED
      BY <1>1, <3>1 DEF Field
  <2>2. all = Append(fields, Field(63, seal))
    BY DEF AllFields
  <2> HIDE DEF F, fields
  <2> QED
    BY <1>1, <2>1, <2>2
<1> HIDE DEF X, F, fields
<1>4. PICK f \in [0 .. m -> Nat] : Laid(text, fields, f) /\ f[m] = Len(text)
  BY <1>1, EncodedIsLaid DEF F
<1>5. text \in Seq(X) /\ Len(text) \in Nat
  BY <1>1, EncodedIsLaid, LenProperties DEF F
<1> DEFINE E == Len(text)
<1>6. /\ whole \in Seq(X) /\ Len(whole) = E + 4
      /\ \A i \in 1 .. E : whole[i] = text[i]
      /\ whole[E + 1] = 63 /\ whole[E + 2] = 2
      /\ whole[E + 3] = seal[1] /\ whole[E + 4] = seal[2]
  <2> DEFINE b == CrcTag
             c == text \o b
  <2>1. b \in Seq(X) /\ Len(b) = 2 /\ b[1] = 63 /\ b[2] = 2
    <3>1. 63 \in X /\ 2 \in X
      BY <1>1
    <3> QED
      BY <3>1 DEF CrcTag, CrcCells
  <2>2. whole = c \o seal
    BY DEF Whole, Original, fields
  <2> HIDE DEF b, whole, seal, c, text
  <2>3. /\ c \in Seq(X) /\ Len(c) = E + 2
        /\ \A i \in 1 .. E + 2 : c[i] = IF i <= E THEN text[i] ELSE b[i - E]
    <3>1. text \in Seq(X) /\ b \in Seq(X)
      BY <1>5, <2>1
    <3>2. /\ text \o b \in Seq(X) /\ Len(text \o b) = E + Len(b)
          /\ \A i \in 1 .. E + Len(b) : (text \o b)[i] = IF i <= E THEN text[i] ELSE b[i - E]
      BY ONLY <3>1, ConcatProperties DEF E
    <3> HIDE DEF E
    <3> QED
      BY <2>1, <3>2 DEF c
  <2> HIDE DEF E
  <2>4. /\ whole \in Seq(X) /\ Len(whole) = E + 4
        /\ \A i \in 1 .. E + 4 : whole[i] = IF i <= E + 2 THEN c[i] ELSE seal[i - (E + 2)]
    <3>1. /\ c \o seal \in Seq(X) /\ Len(c \o seal) = Len(c) + Len(seal)
          /\ \A i \in 1 .. Len(c) + Len(seal) :
                (c \o seal)[i] = IF i <= Len(c) THEN c[i] ELSE seal[i - Len(c)]
      <4>1. c \in Seq(X) /\ seal \in Seq(X)
        BY <1>1, <2>3
      <4> QED
        BY ONLY <4>1, ConcatProperties
    <3>2. Len(c) = E + 2 /\ Len(c) + Len(seal) = E + 4
      BY <1>1, <1>5, <2>3 DEF E
    <3> QED
      BY <2>2, <3>1, <3>2
  <2>5. E \in Nat
    BY <1>5 DEF E
  <2>6. ASSUME NEW i \in 1 .. E PROVE whole[i] = text[i]
    <3>1. i \in 1 .. E + 4 /\ i \in 1 .. E + 2 /\ i <= E /\ i <= E + 2
      BY <2>5
    <3> QED
      BY <2>3, <2>4, <3>1
  <2>7. /\ E + 1 \in 1 .. E + 2 /\ E + 2 \in 1 .. E + 2 /\ ~ (E + 1 <= E) /\ ~ (E + 2 <= E)
        /\ (E + 1) - E = 1 /\ (E + 2) - E = 2
        /\ E + 1 \in 1 .. E + 4 /\ E + 2 \in 1 .. E + 4 /\ E + 1 <= E + 2 /\ E + 2 <= E + 2
        /\ E + 3 \in 1 .. E + 4 /\ E + 4 \in 1 .. E + 4 /\ ~ (E + 3 <= E + 2) /\ ~ (E + 4 <= E + 2)
        /\ (E + 3) - (E + 2) = 1 /\ (E + 4) - (E + 2) = 2
    BY <2>5
  <2>8. whole[E + 1] = 63 /\ whole[E + 2] = 2
    BY <2>1, <2>3, <2>4, <2>7
  <2>9. whole[E + 3] = seal[1] /\ whole[E + 4] = seal[2]
    BY <2>4, <2>7
  <2> QED
    BY <2>4, <2>6, <2>8, <2>9
<1> HIDE DEF all, whole, seal, text
<1> DEFINE e == [k \in 0 .. m + 1 |-> IF k = m + 1 THEN E + 4 ELSE f[k]]
<1>7. /\ e \in [0 .. m + 1 -> Nat] /\ e[m + 1] = E + 4 /\ E \in Nat
      /\ \A k \in 0 .. m : e[k] = f[k]
      /\ e[0] = 0 /\ e[m] = E
  <2>1. \A k \in 0 .. m + 1 : k # m + 1 => k \in 0 .. m
    BY <1>1
  <2>2. /\ m + 1 \in 0 .. m + 1 /\ \A k \in 0 .. m : k \in 0 .. m + 1 /\ k # m + 1
        /\ 0 \in 0 .. m /\ m \in 0 .. m
    BY <1>1
  <2>3. E \in Nat /\ E + 4 \in Nat
    BY <1>5
  <2>4. f[0] = 0 /\ f[m] = E
    BY <1>4 DEF Laid
  <2> HIDE DEF m, E
  <2> QED
    BY <2>1, <2>2, <2>3, <2>4
<1> HIDE DEF e, E
<1>8. LaidFrom(whole, fields, f)
  <2>1. \A k \in 1 .. m : Len(fields[k].value) \in Nat
    <3>1. ASSUME NEW k \in 1 .. m PROVE Len(fields[k].value) \in Nat
      <4>1. fields[k] \in F
        BY <1>1, ElementOfSeq
      <4> QED
        BY <4>1, LenProperties DEF F
    <3> QED
      BY <3>1
  <2>2. \A i \in 1 .. f[m] : whole[i] = text[i]
    BY <1>4, <1>6 DEF E
  <2>3. Laid(whole, fields, f)
    BY <1>1, <1>4, <2>1, <2>2, LaidOn
  <2> QED
    BY <2>3 DEF Laid
<1>9. ASSUME NEW k \in 1 .. m + 1
      PROVE  LET value == all[k].value IN
             /\ e[k] = e[k - 1] + 2 + Len(value)
             /\ whole[e[k - 1] + 1] = all[k].tag
             /\ whole[e[k - 1] + 2] = Len(value)
             /\ \A j \in 1 .. Len(value) : whole[e[k - 1] + 2 + j] = value[j]
  <2>1. CASE k = m + 1
    <3>1. all[k].value = seal /\ all[k].tag = 63
      BY <1>2, <2>1 DEF Field
    <3>2. k - 1 = m
      BY <1>1, <2>1
    <3>3. \A j \in 1 .. 2 : whole[E + 2 + j] = seal[j]
      <4>1. E + 2 + 1 = E + 3 /\ E + 2 + 2 = E + 4 /\ 1 .. 2 = {1, 2}
        BY <1>7
      <4> QED
        BY <1>6, <4>1
    <3>4. E + 4 = E + 2 + 2
      BY <1>7
    <3> HIDE DEF m
    <3> QED
      BY <1>1, <1>6, <1>7, <2>1, <3>1, <3>2, <3>3, <3>4
  <2>2. CASE k # m + 1
    <3>1. k \in 1 .. m /\ k - 1 \in 0 .. m /\ k \in 0 .. m
      BY <1>1, <2>2
    <3>2. all[k] = fields[k] /\ e[k] = f[k] /\ e[k - 1] = f[k - 1]
      BY <1>2, <1>7, <3>1
    <3>3. LET value == fields[k].value IN
          /\ f[k] = f[k - 1] + 2 + Len(value)
          /\ whole[f[k - 1] + 1] = fields[k].tag
          /\ whole[f[k - 1] + 2] = Len(value)
          /\ \A j \in 1 .. Len(value) : whole[f[k - 1] + 2 + j] = value[j]
      BY <1>8, <3>1, Zenon DEF LaidFrom, m
    <3> QED
      BY <3>2, <3>3
  <2> QED
    BY <2>1, <2>2
<1>10. Laid(whole, all, e) /\ e \in [0 .. Len(all) -> Nat] /\ e[Len(all)] = Len(whole)
  <2> HIDE DEF m
  <2> QED
    BY <1>2, <1>6, <1>7, <1>9 DEF Laid, LaidFrom
<1> QED
  BY <1>3, <1>6, <1>10 DEF whole, all, X, F

\* How a code ends: with the digits 6304 and its CRC.
LEMMA WholeEnds ==
    ASSUME NEW code \in Codes
    PROVE  LET whole == Whole(code)
               n == Len(whole)
               X == Cells \cup Nat
           IN  /\ whole \in Seq(X) /\ n \in Nat /\ n >= 4
               /\ Original(code) \in Seq(X) /\ Len(Original(code)) = n - 2
               /\ \A i \in 1 .. n - 2 : whole[i] = Original(code)[i]
               /\ whole[n - 3] = 63 /\ whole[n - 2] = 2
               /\ whole[n - 1] = code.seal[1] /\ whole[n] = code.seal[2]
               /\ code.seal \in Seq(X) /\ Len(code.seal) = 2
<1> DEFINE X == Cells \cup Nat
           whole == Whole(code)
           n == Len(whole)
           a == Encode(code.fields)
           b == CrcTag
           c == a \o b
           d == code.seal
<1>1. c \in Seq(X) /\ d \in Seq(X) /\ Len(d) = 2 /\ c = Original(code) /\ whole = c \o d
  BY OriginalIsSeq DEF Original, Whole
<1>2. a \in Seq(X) /\ b \in Seq(X) /\ Len(b) = 2 /\ b[1] = 63 /\ b[2] = 2
  <2>1. a \in Seq(X)
    BY OriginalIsSeq
  <2>2. 63 \in X /\ 2 \in X
    OBVIOUS
  <2> HIDE DEF X, a
  <2> QED
    BY <2>1, <2>2 DEF CrcTag, CrcCells
<1>e. n = Len(whole)
  OBVIOUS
<1> HIDE DEF X, a, b, d, whole, n
<1>3. Len(a) \in Nat
  BY <1>2, LenProperties
<1>4. /\ Len(c) = Len(a) + 2
      /\ \A i \in 1 .. Len(a) + 2 : c[i] = IF i <= Len(a) THEN a[i] ELSE b[i - Len(a)]
  <2>1. /\ Len(a \o b) = Len(a) + Len(b)
        /\ \A i \in 1 .. Len(a) + Len(b) : (a \o b)[i] = IF i <= Len(a) THEN a[i] ELSE b[i - Len(a)]
    <3>1. a \in Seq(X) /\ b \in Seq(X)
      BY <1>2
    <3> QED
      BY ONLY <3>1, ConcatProperties
  <2> QED
    BY <1>2, <2>1
<1> HIDE DEF c
<1>5. /\ whole \in Seq(X) /\ Len(whole) = Len(c) + 2
      /\ \A i \in 1 .. Len(c) + 2 : whole[i] = IF i <= Len(c) THEN c[i] ELSE d[i - Len(c)]
  <2>1. /\ c \o d \in Seq(X) /\ Len(c \o d) = Len(c) + Len(d)
        /\ \A i \in 1 .. Len(c) + Len(d) : (c \o d)[i] = IF i <= Len(c) THEN c[i] ELSE d[i - Len(c)]
    <3>1. c \in Seq(X) /\ d \in Seq(X)
      BY <1>1
    <3> QED
      BY ONLY <3>1, ConcatProperties
  <2> QED
    BY <1>1, <2>1
<1>6. n \in Nat /\ n >= 4 /\ Len(c) = n - 2 /\ Len(a) = n - 4
  <2> DEFINE x == Len(a)
             y == Len(c)
  <2>1. x \in Nat /\ y = x + 2 /\ n = y + 2
    BY <1>3, <1>4, <1>5, <1>e
  <2> HIDE DEF x, y
  <2>2. n \in Nat /\ n >= 4 /\ y = n - 2 /\ x = n - 4
    BY <2>1
  <2> QED
    BY <2>2 DEF x, y
<1>7. ASSUME NEW i \in 1 .. n - 2 PROVE whole[i] = c[i]
  <2>1. i \in 1 .. Len(c) + 2 /\ i <= Len(c)
    BY <1>6
  <2> QED
    BY <1>5, <2>1
<1>8. c[n - 3] = 63 /\ c[n - 2] = 2
  <2>1. /\ n - 3 \in 1 .. Len(a) + 2 /\ ~ (n - 3 <= Len(a)) /\ (n - 3) - Len(a) = 1
        /\ n - 2 \in 1 .. Len(a) + 2 /\ ~ (n - 2 <= Len(a)) /\ (n - 2) - Len(a) = 2
    BY <1>6
  <2> QED
    BY <1>2, <1>4, <2>1
<1>9. whole[n - 3] = 63 /\ whole[n - 2] = 2
  <2>1. n - 3 \in 1 .. n - 2 /\ n - 2 \in 1 .. n - 2
    BY <1>6
  <2> QED
    BY <1>7, <1>8, <2>1
<1>10. whole[n - 1] = d[1] /\ whole[n] = d[2]
  <2>1. /\ n - 1 \in 1 .. Len(c) + 2 /\ ~ (n - 1 <= Len(c)) /\ (n - 1) - Len(c) = 1
        /\ n \in 1 .. Len(c) + 2 /\ ~ (n <= Len(c)) /\ n - Len(c) = 2
    BY <1>6
  <2> QED
    BY <1>5, <2>1
<1> QED
  BY <1>1, <1>5, <1>6, <1>7, <1>9, <1>10 DEF whole, n, d, X

\* The backend finds the CRC of an intact code, unless it reads 6304 itself.
LEMMA IntactChecks ==
    ASSUME NEW code \in Codes, NEW p, p.cells = Whole(code), p.orig = Original(code),
           p.seal = code.seal
    PROVE  verifyCRC(p) <=> code.seal # CrcTag
<1> DEFINE X == Cells \cup Nat
           cells == p.cells
           n == Len(cells)
           orig == p.orig
           seal == p.seal
           at == {k \in 1 .. n - 1 : SubSeq(cells, k, k + 1) = CrcTag}
           k0 == Greatest(at)
<1>1. /\ cells \in Seq(X) /\ n \in Nat /\ n >= 4
      /\ orig \in Seq(X) /\ Len(orig) = n - 2
      /\ \A i \in 1 .. n - 2 : cells[i] = orig[i]
      /\ cells[n - 3] = 63 /\ cells[n - 2] = 2
      /\ cells[n - 1] = seal[1] /\ cells[n] = seal[2]
      /\ seal \in Seq(X) /\ Len(seal) = 2
  BY WholeEnds
<1>v. verifyCRC(p) <=> /\ at # {} /\ k0 + 3 <= n
                       /\ SubSeq(cells, 1, k0 + 1) = orig
                       /\ SubSeq(cells, k0 + 2, k0 + 3) = seal
  BY DEF verifyCRC, CrcMatches
<1>e. n = Len(cells) /\ seal = code.seal
  OBVIOUS
<1> HIDE DEF X, cells, n, orig, seal
<1>2. ASSUME NEW k \in 1 .. n - 1
      PROVE  /\ SubSeq(cells, k, k + 1) \in Seq(X) /\ Len(SubSeq(cells, k, k + 1)) = 2
             /\ SubSeq(cells, k, k + 1)[1] = cells[k]
             /\ SubSeq(cells, k, k + 1)[2] = cells[k + 1]
  <2>1. \A i \in k .. k + 1 : cells[i] \in X
    <3>1. \A i \in k .. k + 1 : i \in 1 .. n
      BY <1>1
    <3> QED
      BY <1>1, <1>e, <3>1, ElementOfSeq
  <2>2. /\ k \in Int /\ k + 1 \in Int /\ k <= k + 1 /\ (k + 1) - k + 1 = 2
        /\ k + 1 - 1 = k /\ k + 2 - 1 = k + 1
    BY <1>1
  <2>3. /\ SubSeq(cells, k, k + 1) \in Seq(X)
        /\ Len(SubSeq(cells, k, k + 1)) = IF k <= k + 1 THEN (k + 1) - k + 1 ELSE 0
        /\ \A i \in 1 .. (k + 1) - k + 1 : SubSeq(cells, k, k + 1)[i] = cells[k + i - 1]
    BY <2>1, <2>2, SubSeqProperties
  <2>4. 1 \in 1 .. 2 /\ 2 \in 1 .. 2
    OBVIOUS
  <2> QED
    BY <2>2, <2>3, <2>4
<1>3. CrcTag \in Seq(X) /\ Len(CrcTag) = 2 /\ CrcTag[1] = 63 /\ CrcTag[2] = 2
  <2>1. 63 \in X /\ 2 \in X
    BY DEF X
  <2> QED
    BY <2>1 DEF CrcTag, CrcCells
<1>4. ASSUME NEW s \in Seq(X), NEW t \in Seq(X), Len(s) = 2, Len(t) = 2,
             s[1] = t[1], s[2] = t[2]
      PROVE  s = t
  <2>1. \A i \in 1 .. Len(s) : s[i] = t[i]
    <3>1. \A i \in 1 .. 2 : i = 1 \/ i = 2
      OBVIOUS
    <3> QED
      BY <1>4, <3>1
  <2> QED
    BY <1>4, <2>1, SeqEqual
<1>5. \A k \in 1 .. n - 1 : SubSeq(cells, k, k + 1) = CrcTag <=> cells[k] = 63 /\ cells[k + 1] = 2
  BY <1>2, <1>3, <1>4
<1>6. at \subseteq 1 .. n /\ \A k \in at : k \in 1 .. n - 1 /\ cells[k] = 63 /\ cells[k + 1] = 2
  BY <1>1, <1>5
<1>7. n - 3 \in at
  <2>1. n - 3 \in 1 .. n - 1 /\ (n - 3) + 1 = n - 2
    BY <1>1
  <2> QED
    BY <1>1, <1>5, <2>1
<1>8. n - 1 \in at <=> seal = CrcTag
  <2>1. n - 1 \in 1 .. n - 1 /\ (n - 1) + 1 = n
    BY <1>1
  <2>2. n - 1 \in at <=> seal[1] = 63 /\ seal[2] = 2
    BY <1>1, <1>5, <2>1
  <2>3. seal[1] = 63 /\ seal[2] = 2 <=> seal = CrcTag
    BY <1>1, <1>3, <1>4
  <2> QED
    BY <2>2, <2>3
<1> HIDE DEF at
<1>9. k0 \in at /\ \A k \in at : k <= k0
  BY <1>1, <1>6, <1>7, GreatestNumber
<1> HIDE DEF k0
<1>10. k0 \in 1 .. n - 1 /\ k0 >= n - 3 /\ cells[k0] = 63
  BY <1>6, <1>7, <1>9
<1>11. CASE seal = CrcTag
  <2>1. n - 1 <= k0
    BY <1>8, <1>9, <1>11
  <2>2. ~ (k0 + 3 <= n)
    BY <1>1, <1>10, <2>1
  <2> QED
    BY <1>v, <1>e, <1>11, <2>2
<1>12. CASE seal # CrcTag
  <2>1. k0 = n - 3
    <3>1. k0 # n - 1
      BY <1>8, <1>9, <1>12
    <3>2. k0 # n - 2
      <4>1. cells[n - 2] # 63
        BY <1>1
      <4> QED
        BY <1>10, <4>1
    <3> QED
      BY <1>1, <1>10, <3>1, <3>2
  <2>2. k0 + 1 = n - 2 /\ k0 + 2 = n - 1 /\ k0 + 3 = n
    BY <1>1, <2>1
  <2>3. SubSeq(cells, 1, n - 2) = orig
    <3>1. \A i \in 1 .. n - 2 : cells[i] \in X
      <4>1. \A i \in 1 .. n - 2 : i \in 1 .. n
        BY <1>1
      <4> QED
        BY <1>1, <1>e, <4>1, ElementOfSeq
    <3>2. 1 \in Int /\ n - 2 \in Int /\ 1 <= n - 2 /\ (n - 2) - 1 + 1 = n - 2
      BY <1>1
    <3>3. /\ SubSeq(cells, 1, n - 2) \in Seq(X)
          /\ Len(SubSeq(cells, 1, n - 2)) = n - 2
          /\ \A i \in 1 .. n - 2 : SubSeq(cells, 1, n - 2)[i] = cells[1 + i - 1]
      BY <3>1, <3>2, SubSeqProperties
    <3>4. \A i \in 1 .. n - 2 : 1 + i - 1 = i
      BY <1>1
    <3>5. \A i \in 1 .. n - 2 : SubSeq(cells, 1, n - 2)[i] = orig[i]
      BY <1>1, <3>3, <3>4
    <3> QED
      BY <1>1, <3>3, <3>5, SeqEqual
  <2>4. SubSeq(cells, n - 1, n) = seal
    <3>1. n - 1 \in 1 .. n - 1 /\ (n - 1) + 1 = n
      BY <1>1
    <3>2. /\ SubSeq(cells, n - 1, n) \in Seq(X) /\ Len(SubSeq(cells, n - 1, n)) = 2
          /\ SubSeq(cells, n - 1, n)[1] = cells[n - 1]
          /\ SubSeq(cells, n - 1, n)[2] = cells[n]
      BY <1>2, <3>1
    <3> QED
      BY <1>1, <1>4, <3>2
  <2>5. verifyCRC(p)
    <3>1. at # {} /\ k0 + 3 <= n
      BY <1>1, <1>7, <2>2
    <3> QED
      BY <1>v, <2>2, <2>3, <2>4, <3>1
  <2> QED
    BY <1>e, <1>12, <2>5
<1> QED
  BY <1>11, <1>12

\* The fields of a code with a tag.
Written(code, tag) == {k \in DOMAIN code.fields : code.fields[k].tag = tag}

\* A property of the decoded object is the last field with the tag, and that of
\* tag 63 the CRC.
LEMMA LastIsRead ==
    ASSUME NEW code \in Codes
    PROVE  /\ Value(AllFields(code), 63) = code.seal
           /\ \A tag : tag # 63 =>
                  Value(AllFields(code), tag) =
                      IF Written(code, tag) = {} THEN Nil
                      ELSE code.fields[Greatest(Written(code, tag))].value
<1> DEFINE fields == code.fields
           m == Len(fields)
           all == AllFields(code)
           At(tag) == {k \in DOMAIN all : all[k].tag = tag}
<1>1. fields \in Seq([tag : Digits, value : Seq(Cells)]) /\ m \in Nat /\ DOMAIN fields = 1 .. m
  BY CodesAssumption, LenProperties
<1>2. /\ DOMAIN all = 1 .. m + 1
      /\ \A k \in 1 .. m : all[k] = fields[k]
      /\ all[m + 1] = Field(63, code.seal)
  BY AllFieldsAre
<1>3. \A tag : Value(all, tag) = IF At(tag) = {} THEN Nil ELSE all[Greatest(At(tag))].value
  BY DEF Value
<1> HIDE DEF all
<1>4. Value(all, 63) = code.seal
  <2>1. At(63) \subseteq 1 .. m + 1 /\ m + 1 \in At(63) /\ m + 1 \in Nat
    <3>1. m + 1 \in 1 .. m + 1 /\ m + 1 \in Nat
      BY <1>1
    <3>2. all[m + 1].tag = 63
      BY <1>2 DEF Field
    <3> QED
      BY <1>2, <3>1, <3>2
  <2> DEFINE T == At(63)
             g == Greatest(T)
  <2> HIDE DEF T
  <2>2. g \in T /\ \A k \in T : k <= g
    BY <2>1, GreatestNumber DEF T
  <2>3. g \in 1 .. m + 1 /\ m + 1 <= g
    BY <2>1, <2>2 DEF T
  <2> HIDE DEF g
  <2>4. g = m + 1
    BY <1>1, <2>3
  <2>5. Value(all, 63) = all[g].value
    BY <1>3, <2>1 DEF T, g
  <2> QED
    BY <1>2, <2>4, <2>5 DEF Field
<1>5. ASSUME NEW tag, tag # 63
      PROVE  Value(all, tag) = IF Written(code, tag) = {} THEN Nil
                               ELSE fields[Greatest(Written(code, tag))].value
  <2> DEFINE T == Written(code, tag)
  <2>1. At(tag) = T
    <3>1. all[m + 1].tag = 63
      BY <1>2 DEF Field
    <3>2. \A k \in 1 .. m + 1 : k \in 1 .. m \/ k = m + 1
      BY <1>1
    <3>3. \A k \in 1 .. m : k \in 1 .. m + 1
      BY <1>1
    <3>4. T = {k \in 1 .. m : fields[k].tag = tag}
      BY <1>1 DEF Written
    <3> HIDE DEF T, m, fields
    <3> QED
      BY <1>2, <1>5, <3>1, <3>2, <3>3, <3>4
  <2>2. Value(all, tag) = IF T = {} THEN Nil ELSE all[Greatest(T)].value
    BY <1>3, <2>1
  <2>3. ASSUME T # {} PROVE all[Greatest(T)] = fields[Greatest(T)]
    <3>1. T \subseteq 1 .. m
      BY <1>1 DEF Written
    <3> HIDE DEF T, m, fields
    <3>2. Greatest(T) \in T
      BY <1>1, <2>3, <3>1, GreatestNumber
    <3>3. Greatest(T) \in 1 .. m
      BY <3>1, <3>2
    <3> QED
      BY <1>2, <3>3
  <2> HIDE DEF T
  <2>4. Value(all, tag) = IF T = {} THEN Nil ELSE fields[Greatest(T)].value
    BY <2>2, <2>3
  <2> QED
    BY <2>4 DEF T
<1> QED
  BY <1>4, <1>5 DEF all

\* The walks of both decoders over a code, and over a code and one cell more, read
\* its fields and its CRC.
LEMMA CodeIsRead ==
    ASSUME NEW code \in Codes, NEW cells,
           cells = Whole(code) \/ cells = Append(Whole(code), BLANK)
    PROVE  WalkTo(cells, 1) = AllFields(code) /\ Walk(cells) = AllFields(code)
<1> DEFINE Y == Cells \cup Nat
           X == Y \cup {BLANK}
           all == AllFields(code)
           m == Len(code.fields)
           s == Whole(code)
<1>1. /\ all \in Seq([tag : Y, value : Seq(Y)]) /\ s \in Seq(Y)
      /\ \E e \in [0 .. Len(all) -> Nat] : Laid(s, all, e) /\ e[Len(all)] = Len(s)
  BY CodeIsLaid
<1>2. PICK e \in [0 .. Len(all) -> Nat] : Laid(s, all, e) /\ e[Len(all)] = Len(s)
  BY <1>1
<1>3. /\ m \in Nat /\ DOMAIN code.fields = 1 .. m /\ Len(all) = m + 1
      /\ \A k \in 1 .. m : all[k] = code.fields[k]
      /\ all[m + 1] = Field(63, code.seal)
  BY AllFieldsAre
<1>4. Len(code.seal) = 2 /\ \A k \in 1 .. m : Len(code.fields[k].value) \in Digits
  BY <1>3, CodesAssumption DEF CrcCells
<1>5. Len(all[m + 1].value) = 2
  BY <1>3, <1>4 DEF Field
<1>6. \A k \in 1 .. Len(all) : Len(all[k].value) \in Digits
  <2>1. 2 \in Digits
    BY DEF Digits
  <2>2. \A k \in 1 .. m + 1 : k \in 1 .. m \/ k = m + 1
    BY <1>3
  <2> HIDE DEF all, m
  <2> QED
    BY <1>3, <1>4, <1>5, <2>1, <2>2
<1>7. all # <<>> /\ Len(all[Len(all)].value) >= 1
  <2>1. Len(all) # 0
    BY <1>3
  <2>2. Len(all[Len(all)].value) = 2
    BY <1>3, <1>5
  <2> HIDE DEF all
  <2> QED
    BY <1>1, <2>1, <2>2, EmptySeq
<1> HIDE DEF all, s
<1>8. /\ all \in Seq([tag : X, value : Seq(X)]) /\ s \in Seq(X) /\ Len(s) \in Nat /\ BLANK \in X
  <2>1. Y \subseteq X
    OBVIOUS
  <2> HIDE DEF Y, X
  <2>2. \A t \in Seq(Y) : t \in Seq(X)
    BY <2>1, SeqMonotonic
  <2>3. [tag : Y, value : Seq(Y)] \subseteq [tag : X, value : Seq(X)]
    BY <2>1, <2>2
  <2>4. all \in Seq([tag : X, value : Seq(X)])
    BY <1>1, <2>3, SeqMonotonic
  <2> QED
    BY <1>1, <2>2, <2>4, LenProperties DEF X
<1> HIDE DEF X
<1>9. /\ cells \in Seq(X) /\ Len(cells) \in Len(s) .. Len(s) + 1
      /\ \A i \in 1 .. Len(s) : cells[i] = s[i]
  <2>1. CASE cells = s
    BY <1>8, <2>1
  <2>2. CASE cells = Append(s, BLANK)
    BY <1>8, <2>2
  <2> QED
    BY <2>1, <2>2 DEF s
<1>10. Laid(cells, all, e)
  <2>1. \A d \in Digits : d \in Nat
    BY DEF Digits
  <2>2. \A k \in 1 .. Len(all) : Len(all[k].value) \in Nat
    BY <1>6, <2>1
  <2>3. \A i \in 1 .. e[Len(all)] : cells[i] = s[i]
    BY <1>2, <1>9
  <2>4. Len(all) \in Nat
    BY <1>3
  <2> QED
    BY <1>2, <2>2, <2>3, <2>4, LaidOn
<1>11. WalkTo(cells, 1) = all /\ Walk(cells) = all
  <2>1. Len(cells) \in e[Len(all)] .. e[Len(all)] + 1
    BY <1>2, <1>9
  <2>2. 1 \in {0, 1}
    OBVIOUS
  <2> QED
    BY <1>2, <1>6, <1>7, <1>8, <1>9, <1>10, <2>1, <2>2, WalksRead
<1> QED
  BY <1>11 DEF all

\* What is left of a text without the white space around it.
LEMMA Trimmed ==
    ASSUME NEW X, NEW v \in Seq(X), Trim(v) # Nil
    PROVE  \E a \in 1 .. Len(v), b \in 1 .. Len(v) :
              /\ a <= b /\ v[a] # BLANK /\ Trim(v) = SubSeq(v, a, b)
              /\ \A k \in 1 .. Len(v) : v[k] # BLANK => a <= k
<1> DEFINE n == Len(v)
           solid == {k \in DOMAIN v : v[k] # BLANK}
           a == Least(solid)
           b == Greatest(solid)
<1>1. n \in Nat /\ DOMAIN v = 1 .. n
  BY LenProperties
<1>2. solid # {} /\ Trim(v) = SubSeq(v, a, b)
  BY DEF Trim
<1>3. solid \subseteq 1 .. n /\ solid \subseteq Nat
  BY <1>1
<1>s. \A k \in 1 .. n : k \in solid <=> v[k] # BLANK
  BY <1>1
<1> HIDE DEF solid, n
<1>4. a \in solid /\ \A k \in solid : a <= k
  <2>1. \E x \in solid : \A y \in solid : x <= y
    BY <1>2, <1>3, LeastNumber
  <2> QED
    BY <2>1 DEF Least
<1>5. b \in solid /\ \A k \in solid : k <= b
  BY <1>1, <1>2, <1>3, GreatestNumber
<1> HIDE DEF a, b
<1>6. /\ a \in 1 .. n /\ b \in 1 .. n /\ a <= b /\ v[a] # BLANK /\ Trim(v) = SubSeq(v, a, b)
      /\ \A k \in 1 .. n : v[k] # BLANK => a <= k
  BY <1>2, <1>3, <1>4, <1>5, <1>s
<1> QED
  BY <1>6 DEF n

\* The name is the text without the white space around it, up to the 25th character.
LEMMA NameIsPrefix ==
    ASSUME NEW X, NEW v \in Seq(X), Trim(v) # Nil
    PROVE  IsPrefix(BackendName(v), Trim(v)) /\ Len(BackendName(v)) <= NameCells
<1> DEFINE name == Trim(v)
           n == Len(name)
           c == Least({n, NameCells})
           w == SubSeq(name, 1, c)
           t == Trim(w)
<1>1. NameCells \in Nat
  BY CellAssumption
<1>2. name \in Seq(X) /\ n \in Nat /\ n >= 1 /\ name[1] # BLANK
  <2>1. PICK a \in 1 .. Len(v), b \in 1 .. Len(v) :
            /\ a <= b /\ v[a] # BLANK /\ name = SubSeq(v, a, b)
    BY Trimmed
  <2>2. \A i \in a .. b : v[i] \in X
    <3>1. Len(v) \in Nat
      BY LenProperties
    <3>2. \A i \in a .. b : i \in 1 .. Len(v)
      BY <3>1
    <3> QED
      BY <3>2, ElementOfSeq
  <2>3. a \in Int /\ b \in Int /\ b - a + 1 \in Nat /\ 1 \in 1 .. b - a + 1 /\ a + 1 - 1 = a
    <3>1. Len(v) \in Nat
      BY LenProperties
    <3> QED
      BY <2>1, <3>1
  <2>4. /\ SubSeq(v, a, b) \in Seq(X)
        /\ Len(SubSeq(v, a, b)) = IF a <= b THEN b - a + 1 ELSE 0
        /\ \A i \in 1 .. b - a + 1 : SubSeq(v, a, b)[i] = v[a + i - 1]
    BY <2>2, <2>3, SubSeqProperties
  <2>5. SubSeq(v, a, b)[1] = v[a] /\ Len(SubSeq(v, a, b)) = b - a + 1
    BY <2>1, <2>3, <2>4
  <2> HIDE DEF name
  <2>6. n = b - a + 1 /\ name \in Seq(X) /\ name[1] = v[a]
    BY <2>1, <2>4, <2>5
  <2> QED
    BY <2>1, <2>3, <2>6
<1>3. c \in Nat /\ c <= n /\ c <= NameCells
  <2> HIDE DEF n
  <2>1. \E x \in {n, NameCells} : \A y \in {n, NameCells} : x <= y
    BY <1>1, <1>2
  <2>2. c \in {n, NameCells} /\ \A y \in {n, NameCells} : c <= y
    BY <2>1 DEF Least
  <2> HIDE DEF c
  <2> QED
    BY <1>1, <1>2, <2>2
<1>b. BackendName(v) = t
  BY DEF BackendName
<1>n. n = Len(name)
  OBVIOUS
<1> HIDE DEF name, c, n
<1>4. \A k \in 0 .. n : /\ SubSeq(name, 1, k) \in Seq(X) /\ Len(SubSeq(name, 1, k)) = k
                        /\ \A i \in 1 .. k : SubSeq(name, 1, k)[i] = name[i]
  <2>1. ASSUME NEW k \in 0 .. n
        PROVE  /\ SubSeq(name, 1, k) \in Seq(X) /\ Len(SubSeq(name, 1, k)) = k
               /\ \A i \in 1 .. k : SubSeq(name, 1, k)[i] = name[i]
    <3>1. \A i \in 1 .. k : name[i] \in X
      <4>1. \A i \in 1 .. k : i \in 1 .. n
        BY <1>2
      <4> QED
        BY <1>2, <1>n, <4>1, ElementOfSeq
    <3>2. /\ 1 \in Int /\ k \in Int /\ k - 1 + 1 = k /\ (IF 1 <= k THEN k - 1 + 1 ELSE 0) = k
          /\ \A i \in 1 .. k : 1 + i - 1 = i
      BY <1>2
    <3>3. /\ SubSeq(name, 1, k) \in Seq(X)
          /\ Len(SubSeq(name, 1, k)) = IF 1 <= k THEN k - 1 + 1 ELSE 0
          /\ \A i \in 1 .. k - 1 + 1 : SubSeq(name, 1, k)[i] = name[1 + i - 1]
      BY <3>1, <3>2, SubSeqProperties
    <3> QED
      BY <3>2, <3>3
  <2> QED
    BY <2>1
<1>5. c \in 0 .. n
  BY <1>2, <1>3
<1>6. PICK g \in 0 .. c : t = SubSeq(name, 1, g)
  <2>1. CASE t = Nil
    <3>1. 0 \in 0 .. c
      BY <1>3
    <3>2. SubSeq(name, 1, 0) = <<>>
      BY SubSeqEmpty
    <3> QED
      BY <2>1, <3>1, <3>2 DEF Nil
  <2>2. CASE t # Nil
    <3>1. w \in Seq(X) /\ Len(w) = c /\ \A i \in 1 .. c : w[i] = name[i]
      BY <1>4, <1>5
    <3> HIDE DEF w
    <3>2. PICK a \in 1 .. Len(w), b \in 1 .. Len(w) :
              /\ a <= b /\ w[a] # BLANK /\ t = SubSeq(w, a, b)
              /\ \A k \in 1 .. Len(w) : w[k] # BLANK => a <= k
      BY <2>2, <3>1, Trimmed
    <3>3. a = 1
      <4>1. 1 \in 1 .. c /\ a \in 1 .. c
        BY <1>3, <3>1, <3>2
      <4>2. w[1] # BLANK
        BY <1>2, <3>1, <4>1
      <4>3. a <= 1
        BY <3>1, <3>2, <4>1, <4>2
      <4> QED
        BY <4>1, <4>3
    <3>4. b \in 1 .. c /\ b \in 0 .. c /\ b \in 0 .. n
      BY <1>2, <1>3, <3>1, <3>2
    <3>5. SubSeq(w, 1, b) = SubSeq(name, 1, b)
      <4> DEFINE x == SubSeq(w, 1, b)
                 y == SubSeq(name, 1, b)
      <4>1. y \in Seq(X) /\ Len(y) = b /\ \A i \in 1 .. b : y[i] = name[i]
        BY <1>4, <3>4
      <4>2. \A i \in 1 .. b : i \in 1 .. c
        BY <1>3, <3>4
      <4>3. /\ 1 \in Int /\ b \in Int /\ b - 1 + 1 = b /\ (IF 1 <= b THEN b - 1 + 1 ELSE 0) = b
            /\ \A i \in 1 .. b : 1 + i - 1 = i
        BY <3>4
      <4>4. \A i \in 1 .. b : w[i] \in X
        BY <3>1, <4>2, ElementOfSeq
      <4>5. /\ x \in Seq(X) /\ Len(x) = IF 1 <= b THEN b - 1 + 1 ELSE 0
            /\ \A i \in 1 .. b - 1 + 1 : x[i] = w[1 + i - 1]
        BY <4>3, <4>4, SubSeqProperties
      <4> HIDE DEF x, y
      <4>6. Len(x) = b /\ \A i \in 1 .. b : x[i] = y[i]
        BY <3>1, <4>1, <4>2, <4>3, <4>5
      <4>7. x = y
        BY <4>1, <4>5, <4>6, SeqEqual
      <4> QED
        BY <4>7 DEF x, y
    <3> QED
      BY <3>2, <3>3, <3>4, <3>5
  <2> QED
    BY <2>1, <2>2
<1> HIDE DEF t
<1>7. g \in 0 .. n /\ g <= n /\ g <= NameCells
  BY <1>1, <1>2, <1>3
<1>8. t \in Seq(X) /\ Len(t) = g
  BY <1>4, <1>6, <1>7
<1>9. IsPrefix(t, name)
  <2>1. SubSeq(t, 1, Len(t)) = t
    BY <1>8, SubSeqFull
  <2>2. Len(t) <= Len(name) /\ SubSeq(name, 1, Len(t)) = t
    BY <1>6, <1>7, <1>8, <1>n
  <2> QED
    BY <2>1, <2>2 DEF IsPrefix
<1> QED
  BY <1>7, <1>8, <1>9, <1>b DEF name

\* The backend reads of an intact code what its maker wrote, for codes of any
\* number of fields and any values, and refuses it only for its mandatory fields or
\* for a CRC that reads 6304.
THEOREM BackendReads == Spec => []BackendReadsCode
<1>1. InputOK => BackendReadsCode
  <2> SUFFICES ASSUME InputOK, Intact
               PROVE  BackendReadsCode
    BY DEF BackendReadsCode
  <2>1. input.code \in Codes /\ input.damage.kind = "none"
    BY InputKinds DEF Intact
  <2>2. PICK code \in Codes : code = input.code
    BY <2>1
  <2>3. PICK p : p = Scanned
    OBVIOUS
  <2>4. p.cells = Whole(code) /\ p.orig = Original(code) /\ p.seal = code.seal
    BY <2>1, <2>2, <2>3 DEF Scanned, Payload
  <2>5. WalkTo(p.cells, 1) = AllFields(code)
    BY <2>4, CodeIsRead
  <2>6. verifyCRC(p) <=> code.seal # CrcTag
    BY <2>4, IntactChecks
  <2> DEFINE all == AllFields(code)
             got == BackendDecode(p)
             LastOf(tag) == code.fields[Greatest(Written(code, tag))].value
             Mandatory ==
                /\ \A t \in {0, 53, 58} : Written(code, t) # {}
                /\ LastOf(0) = <<1>> /\ LastOf(53) = <<IDR>> /\ LastOf(58) = <<ID>>
  <2>7. \A tag : tag # 63 => Value(all, tag) = IF Written(code, tag) = {} THEN Nil ELSE LastOf(tag)
    BY LastIsRead
  <2>8. SchemaHolds(all) <=> Mandatory
    <3>1. Value(all, 63) = code.seal /\ Len(code.seal) = CrcCells
      BY LastIsRead, CodesAssumption
    <3>2. /\ Value(all, 0) = IF Written(code, 0) = {} THEN Nil ELSE LastOf(0)
          /\ Value(all, 53) = IF Written(code, 53) = {} THEN Nil ELSE LastOf(53)
          /\ Value(all, 58) = IF Written(code, 58) = {} THEN Nil ELSE LastOf(58)
      BY <2>7
    <3>3. Nil # <<1>> /\ Nil # <<IDR>> /\ Nil # <<ID>>
      BY DEF Nil
    <3>4. SchemaHolds(all) <=> /\ Value(all, 0) = <<1>> /\ Value(all, 53) = <<IDR>>
                               /\ Value(all, 58) = <<ID>>
      BY <3>1 DEF SchemaHolds, INDONESIA
    <3> HIDE DEF all, LastOf
    <3> QED
      BY <3>2, <3>3, <3>4
  <2>9. /\ got.ok <=> verifyCRC(p) /\ SchemaHolds(all)
        /\ got.ok => /\ got.amount = Value(all, 54)
                     /\ got.name = BackendName(Value(all, 59))
    <3> HIDE DEF all
    <3>1. CASE ~ verifyCRC(p) \/ ~ SchemaHolds(all)
      <4>1. got = Rejected
        BY <2>5, <3>1 DEF BackendDecode, all
      <4> QED
        BY <3>1, <4>1 DEF Rejected
    <3>2. CASE verifyCRC(p) /\ SchemaHolds(all)
      <4>1. got = [ok |-> TRUE, name |-> BackendName(Value(all, 59)),
                   amount |-> Value(all, 54), account |-> BackendAccount(all),
                   bank |-> BackendBank(all)]
        BY <2>5, <3>2 DEF BackendDecode, all
      <4> HIDE DEF got
      <4> QED
        BY <3>2, <4>1
    <3> QED
      BY <3>1, <3>2
  <2> HIDE DEF got, all
  <2>10. ASSUME got.ok, Written(code, 59) # {}, Trim(LastOf(59)) # Nil
         PROVE  IsPrefix(got.name, Trim(LastOf(59))) /\ Len(got.name) <= NameCells
    <3>1. got.name = BackendName(LastOf(59))
      BY <2>7, <2>9, <2>10
    <3>2. LastOf(59) \in Seq(Cells)
      <4> DEFINE m == Len(code.fields)
                 T == Written(code, 59)
      <4>1. /\ code.fields \in Seq([tag : Digits, value : Seq(Cells)])
            /\ m \in Nat /\ DOMAIN code.fields = 1 .. m
        BY CodesAssumption, LenProperties
      <4>2. T \subseteq 1 .. m
        BY <4>1 DEF Written
      <4> HIDE DEF T, m
      <4>3. Greatest(T) \in 1 .. m
        BY <2>10, <4>1, <4>2, GreatestNumber DEF T
      <4>4. code.fields[Greatest(T)] \in [tag : Digits, value : Seq(Cells)]
        BY <4>1, <4>3, ElementOfSeq DEF m
      <4> QED
        BY <4>4 DEF T
    <3> HIDE DEF LastOf
    <3> QED
      BY <2>10, <3>1, <3>2, NameIsPrefix
  <2>11. /\ got.ok <=> code.seal # CrcTag /\ Mandatory
         /\ got.ok => got.amount = IF Written(code, 54) = {} THEN Nil ELSE LastOf(54)
    BY <2>6, <2>7, <2>8, <2>9
  <2> HIDE DEF LastOf
  <2> QED
    BY <2>2, <2>3, <2>10, <2>11 DEF BackendReadsCode, got, LastOf, Written
<1> QED
  BY <1>1, Picked, PTL

-----------------------------------------------------------------------------
(***************************************************************************)
(* What the two decoders read alike.                                       *)
(***************************************************************************)
\* fields are what is read of v from cell i on, and end with it at the latest.
Reads(v, X, fields, i) ==
    /\ fields \in Seq([tag : X, value : Seq(X)])
    /\ \A k \in 1 .. Len(fields) : Len(fields[k].value) \in Digits
    /\ \E e \in [0 .. Len(fields) -> Nat] :
           e[0] = i - 1 /\ LaidFrom(v, fields, e) /\ e[Len(fields)] <= Len(v)

\* No fields are read anywhere.
LEMMA ReadsNone ==
    ASSUME NEW X, NEW v \in Seq(X), NEW i \in 1 .. Len(v) + 1
    PROVE  Reads(v, X, Nil, i)
<1> DEFINE e == [k \in 0 .. 0 |-> i - 1]
<1>1. Len(v) \in Nat /\ i - 1 \in Nat /\ i - 1 <= Len(v)
  <2>1. Len(v) \in Nat
    BY LenProperties
  <2> QED
    BY <2>1
<1>2. Nil \in Seq([tag : X, value : Seq(X)]) /\ Len(Nil) = 0
  BY EmptySeq DEF Nil
<1>3. e \in [0 .. 0 -> Nat] /\ e[0] = i - 1
  BY <1>1
<1> HIDE DEF e
<1>4. \A k \in 1 .. 0 : FALSE
  OBVIOUS
<1>5. LaidFrom(v, Nil, e)
  BY <1>2, <1>4 DEF LaidFrom
<1> QED
  BY <1>1, <1>2, <1>3, <1>4, <1>5 DEF Reads

\* A field, and then those read from its end on.
LEMMA ReadsOneMore ==
    ASSUME NEW X, NEW v \in Seq(X), NEW i \in 1 .. Len(v) + 1,
           i + 1 <= Len(v), v[i + 1] \in Digits, i + 1 + v[i + 1] <= Len(v),
           NEW rest, Reads(v, X, rest, i + 2 + v[i + 1])
    PROVE  Reads(v, X, <<Field(v[i], SubSeq(v, i + 2, i + 1 + v[i + 1]))>> \o rest, i)
<1> DEFINE L == Len(v)
           l == v[i + 1]
           w == SubSeq(v, i + 2, i + 1 + l)
           one == <<Field(v[i], w)>>
           fields == one \o rest
           m == Len(rest)
           F == [tag : X, value : Seq(X)]
<1>1. L \in Nat /\ l \in Nat /\ l \in Digits /\ i \in Nat /\ i >= 1 /\ i + 1 + l <= L
  <2>1. L \in Nat
    BY LenProperties
  <2>2. l \in Digits /\ i + 1 + l <= L /\ i \in 1 .. L + 1
    OBVIOUS
  <2> HIDE DEF l, L
  <2>3. l \in Nat
    BY <2>2 DEF Digits
  <2> QED
    BY <2>1, <2>2, <2>3
<1>2. /\ rest \in Seq(F) /\ m \in Nat
      /\ \A k \in 1 .. m : Len(rest[k].value) \in Digits
  BY LenProperties DEF Reads
<1>3. PICK e \in [0 .. m -> Nat] : e[0] = i + 1 + l /\ LaidFrom(v, rest, e) /\ e[m] <= L
  <2>1. PICK e \in [0 .. m -> Nat] : e[0] = i + 2 + l - 1 /\ LaidFrom(v, rest, e) /\ e[m] <= L
    <3> DEFINE at == i + 2 + l
    <3>1. Reads(v, X, rest, at)
      OBVIOUS
    <3> HIDE DEF at
    <3>2. \E e \in [0 .. m -> Nat] : e[0] = at - 1 /\ LaidFrom(v, rest, e) /\ e[m] <= L
      BY <3>1 DEF Reads
    <3> QED
      BY <3>2 DEF at
  <2>2. i + 2 + l - 1 = i + 1 + l
    BY <1>1
  <2> QED
    BY <2>1, <2>2
<1>l. L = Len(v) /\ l = v[i + 1]
  OBVIOUS
<1> HIDE DEF L, l
<1>4. w \in Seq(X) /\ Len(w) = l /\ \A j \in 1 .. l : w[j] = v[i + 1 + j]
  <2>1. \A j \in i + 2 .. i + 1 + l : v[j] \in X
    <3>1. \A j \in i + 2 .. i + 1 + l : j \in 1 .. L
      BY <1>1
    <3> QED
      BY <1>l, <3>1, ElementOfSeq
  <2>2. /\ i + 2 \in Int /\ i + 1 + l \in Int /\ (i + 1 + l) - (i + 2) + 1 = l
        /\ (IF i + 2 <= i + 1 + l THEN l ELSE 0) = l
        /\ \A j \in 1 .. l : i + 2 + j - 1 = i + 1 + j
    BY <1>1
  <2>3. /\ w \in Seq(X)
        /\ Len(w) = IF i + 2 <= i + 1 + l THEN (i + 1 + l) - (i + 2) + 1 ELSE 0
        /\ \A j \in 1 .. (i + 1 + l) - (i + 2) + 1 : w[j] = v[i + 2 + j - 1]
    BY ONLY <2>1, <2>2, SubSeqProperties
  <2> HIDE DEF w
  <2> QED
    BY <2>2, <2>3
<1> HIDE DEF w
<1>5. v[i] \in X
  <2>1. i \in 1 .. L
    BY <1>1
  <2> QED
    BY <1>l, <2>1, ElementOfSeq
<1>6. one \in Seq(F) /\ Len(one) = 1 /\ one[1] = Field(v[i], w)
  <2>1. Field(v[i], w) \in F
    BY <1>4, <1>5 DEF Field
  <2> HIDE DEF F
  <2> QED
    BY <2>1
<1> HIDE DEF one, m, F
<1>7. /\ fields \in Seq(F) /\ Len(fields) = m + 1 /\ fields[1] = Field(v[i], w)
      /\ \A k \in 2 .. m + 1 : fields[k] = rest[k - 1]
  <2>1. /\ fields \in Seq(F) /\ Len(fields) = Len(one) + Len(rest)
        /\ \A k \in 1 .. Len(one) + Len(rest) :
              fields[k] = IF k <= Len(one) THEN one[k] ELSE rest[k - Len(one)]
    BY <1>2, <1>6, ConcatProperties
  <2>2. Len(rest) = m
    BY DEF m
  <2>3. \A k \in 2 .. m + 1 : ~ (k <= 1) /\ k \in 1 .. 1 + m
    BY <1>2
  <2>4. 1 \in 1 .. 1 + m /\ 1 <= 1 /\ 1 + m = m + 1
    BY <1>2
  <2> HIDE DEF fields
  <2>5. fields \in Seq(F) /\ Len(fields) = m + 1
    BY <1>6, <2>1, <2>2, <2>4
  <2>6. \A k \in 1 .. 1 + m : fields[k] = IF k <= 1 THEN one[k] ELSE rest[k - 1]
    BY <1>6, <2>1, <2>2
  <2> QED
    BY <1>6, <2>3, <2>4, <2>5, <2>6
<1> HIDE DEF fields
<1> DEFINE f == [k \in 0 .. m + 1 |-> IF k = 0 THEN i - 1 ELSE e[k - 1]]
<1>8. f \in [0 .. m + 1 -> Nat] /\ f[0] = i - 1 /\ \A k \in 1 .. m + 1 : f[k] = e[k - 1]
  BY <1>1, <1>2, <1>3
<1> HIDE DEF f
<1>9. \A k \in 1 .. m + 1 : Len(fields[k].value) \in Digits
  <2>1. CASE TRUE
    <3>1. Len(fields[1].value) \in Digits
      BY <1>1, <1>4, <1>7 DEF Field
    <3>2. ASSUME NEW k \in 2 .. m + 1 PROVE Len(fields[k].value) \in Digits
      <4>1. k - 1 \in 1 .. m
        BY <1>2
      <4> QED
        BY <1>2, <1>7, <4>1
    <3>3. \A k \in 1 .. m + 1 : k = 1 \/ k \in 2 .. m + 1
      BY <1>2
    <3> QED
      BY <3>1, <3>2, <3>3
  <2> QED
    BY <2>1
<1>10. LaidFrom(v, fields, f)
  <2>1. /\ f[1] = f[0] + 2 + Len(fields[1].value)
        /\ v[f[0] + 1] = fields[1].tag
        /\ v[f[0] + 2] = Len(fields[1].value)
        /\ \A j \in 1 .. Len(fields[1].value) : v[f[0] + 2 + j] = fields[1].value[j]
    <3>1. fields[1].tag = v[i] /\ fields[1].value = w
      BY <1>7 DEF Field
    <3>2. f[1] = i + 1 + l
      BY <1>2, <1>3, <1>8
    <3>3. /\ f[0] + 1 = i /\ f[0] + 2 = i + 1 /\ f[0] + 2 + l = i + 1 + l
          /\ \A j \in 1 .. l : f[0] + 2 + j = i + 1 + j
      BY <1>1, <1>8
    <3> QED
      BY <1>4, <1>l, <3>1, <3>2, <3>3
  <2>2. ASSUME NEW k \in 2 .. m + 1
        PROVE  /\ f[k] = f[k - 1] + 2 + Len(fields[k].value)
               /\ v[f[k - 1] + 1] = fields[k].tag
               /\ v[f[k - 1] + 2] = Len(fields[k].value)
               /\ \A j \in 1 .. Len(fields[k].value) :
                     v[f[k - 1] + 2 + j] = fields[k].value[j]
    <3> DEFINE h == k - 1
    <3>1. h \in 1 .. m /\ k - 1 \in 1 .. m + 1 /\ k \in 1 .. m + 1
      BY <1>2
    <3>2. f[k] = e[h] /\ f[k - 1] = e[h - 1] /\ fields[k] = rest[h]
      BY <1>7, <1>8, <3>1
    <3> HIDE DEF h
    <3>3. /\ e[h] = e[h - 1] + 2 + Len(rest[h].value)
          /\ v[e[h - 1] + 1] = rest[h].tag
          /\ v[e[h - 1] + 2] = Len(rest[h].value)
          /\ \A j \in 1 .. Len(rest[h].value) : v[e[h - 1] + 2 + j] = rest[h].value[j]
      BY <1>3, <3>1, Zenon DEF LaidFrom, m
    <3> QED
      BY <3>2, <3>3
  <2>3. \A k \in 1 .. m + 1 : k = 1 \/ k \in 2 .. m + 1
    BY <1>2
  <2>4. 1 - 1 = 0
    OBVIOUS
  <2> QED
    BY <1>7, <2>1, <2>2, <2>3, <2>4, Zenon DEF LaidFrom
<1>11. f[m + 1] <= L
  <2>1. m + 1 \in 1 .. m + 1 /\ m + 1 - 1 = m
    BY <1>2
  <2> QED
    BY <1>3, <1>8, <2>1
<1>12. Reads(v, X, fields, i)
  BY <1>7, <1>8, <1>9, <1>10, <1>11, <1>l DEF Reads, F
<1> QED
  BY <1>12 DEF fields, one, w, l

\* What the walk of the serverless decoder reads of any text is laid in it.
LEMMA WalkIsLaid ==
    ASSUME NEW X, NEW v \in Seq(X)
    PROVE  /\ Walk(v) \in Seq([tag : X, value : Seq(X)])
           /\ \A k \in 1 .. Len(Walk(v)) : Len(Walk(v)[k].value) \in Digits
           /\ \E e \in [0 .. Len(Walk(v)) -> Nat] :
                  Laid(v, Walk(v), e) /\ e[Len(Walk(v))] <= Len(v)
<1> DEFINE L == Len(v)
<1>1. L \in Nat
  BY LenProperties
<1>2. PICK W : /\ Walk(v) = W[1]
               /\ \A i \in Nat :
                     W[i] = IF WalkEnds(v, i) THEN Nil
                            ELSE <<Field(v[i], SubSeq(v, i + 2, i + 1 + v[i + 1]))>>
                                     \o W[i + 2 + v[i + 1]]
  BY WalkSteps
<1> DEFINE Bad == {i \in 1 .. L + 1 : ~ Reads(v, X, W[i], i)}
<1>3. ASSUME Bad # {} PROVE FALSE
  <2> DEFINE g == Greatest(Bad)
  <2>1. g \in Bad /\ \A i \in Bad : i <= g
    <3>1. Bad \subseteq 1 .. L + 1 /\ L + 1 \in Nat
      BY <1>1
    <3> HIDE DEF Bad
    <3> QED
      BY <1>3, <3>1, GreatestNumber
  <2> HIDE DEF g
  <2>2. g \in 1 .. L + 1 /\ g \in Nat /\ ~ Reads(v, X, W[g], g)
    BY <1>1, <2>1
  <2>3. CASE WalkEnds(v, g)
    <3>1. W[g] = Nil
      BY <1>2, <2>2, <2>3
    <3> QED
      BY <2>2, <3>1, ReadsNone
  <2>4. CASE ~ WalkEnds(v, g)
    <3> DEFINE j == g + 2 + v[g + 1]
    <3>1. g + 1 <= L /\ v[g + 1] \in Digits /\ v[g + 1] \in Nat /\ g + 1 + v[g + 1] <= L
      <4>1. v[g + 1] \in Digits
        BY ONLY <2>4 DEF WalkEnds
      <4>2. \A d \in Digits : d \in Nat
        BY DEF Digits
      <4> QED
        BY <1>1, <2>2, <2>4, <4>1, <4>2 DEF WalkEnds
    <3>2. j \in 1 .. L + 1 /\ j > g
      BY <1>1, <2>2, <3>1
    <3>3. Reads(v, X, W[j], j)
      <4>1. j \notin Bad
        BY <2>1, <2>2, <3>2
      <4> QED
        BY <3>2, <4>1
    <3>4. W[g] = <<Field(v[g], SubSeq(v, g + 2, g + 1 + v[g + 1]))>> \o W[j]
      BY <1>2, <2>2, <2>4
    <3> QED
      BY <2>2, <3>1, <3>3, <3>4, ReadsOneMore
  <2> QED
    BY <2>3, <2>4
<1>4. Reads(v, X, W[1], 1)
  <2>1. 1 \in 1 .. L + 1
    BY <1>1
  <2> QED
    BY <1>3, <2>1
<1>5. 1 - 1 = 0
  OBVIOUS
<1> QED
  BY <1>2, <1>4, <1>5 DEF Reads, Laid
\* Where fields end depends on the fields only.
LEMMA EndsAgree ==
    ASSUME NEW a, NEW b, NEW fields, Len(fields) \in Nat,
           \A k \in 1 .. Len(fields) : Len(fields[k].value) \in Nat,
           NEW e \in [0 .. Len(fields) -> Nat], Laid(a, fields, e),
           NEW f \in [0 .. Len(fields) -> Nat], Laid(b, fields, f)
    PROVE  e[Len(fields)] = f[Len(fields)]
<1> DEFINE m == Len(fields)
           G == {k \in 0 .. m : e[k] = f[k]}
<1>1. e[0] = 0 /\ f[0] = 0
  BY DEF Laid
<1>2. \A k \in 1 .. m : /\ e[k] = e[k - 1] + 2 + Len(fields[k].value)
                        /\ f[k] = f[k - 1] + 2 + Len(fields[k].value)
  BY Zenon DEF Laid, LaidFrom
<1> HIDE DEF m
<1>3. m \in Nat
  BY DEF m
<1>4. 0 \in G
  BY <1>1, <1>3
<1>5. ASSUME NEW k \in 1 .. m, k - 1 \in G PROVE k \in G
  <2>1. e[k - 1] = f[k - 1] /\ k \in 0 .. m
    BY <1>3, <1>5
  <2>2. e[k] = f[k]
    BY <1>2, <2>1
  <2> QED
    BY <2>1, <2>2
<1> HIDE DEF G
<1>6. 0 .. m \subseteq G
  BY <1>3, <1>4, <1>5, Steps
<1>7. m \in 0 .. m
  BY <1>3
<1> QED
  BY <1>6, <1>7 DEF G, m

\* Of a text that its fields fill, and of no text, the backend reads what the
\* serverless decoder reads.
LEMMA FilledIsRead ==
    ASSUME NEW X, Nat \subseteq X, NEW v \in Seq(X), v = Nil \/ Filled(v)
    PROVE  Nested(v) = Walk(v)
<1> DEFINE fields == Walk(v)
           m == Len(fields)
<1>1. CASE v = Nil
  <2>1. \A i \in Nat : i >= 1 => i + 1 > Len(v) /\ i + 1 + 0 > Len(v)
    BY <1>1, EmptySeq DEF Nil
  <2>2. WalkEnds(v, 1) /\ WalkToEnds(v, 0, 1)
    BY <2>1 DEF WalkEnds, WalkToEnds
  <2>3. Walk(v) = Nil
    <3>1. PICK W : Walk(v) = W[1] /\ (WalkEnds(v, 1) => W[1] = Nil)
      BY WalkSteps
    <3> QED
      BY <2>2, <3>1
  <2>4. WalkTo(v, 0) = Nil
    <3>1. 0 \in Nat /\ 1 \in Nat
      OBVIOUS
    <3>2. PICK W : WalkTo(v, 0) = W[1] /\ (WalkToEnds(v, 0, 1) => W[1] = Nil)
      BY <3>1, WalkToSteps
    <3> QED
      BY <2>2, <3>2
  <2> QED
    BY <2>3, <2>4 DEF Nested
<1>2. CASE Filled(v)
  <2>1. /\ fields \in Seq([tag : X, value : Seq(X)])
        /\ \A k \in 1 .. m : Len(fields[k].value) \in Digits
        /\ \E e \in [0 .. m -> Nat] : Laid(v, fields, e) /\ e[m] <= Len(v)
    BY WalkIsLaid
  <2>2. Len(Encode(fields)) = Len(v)
    BY <1>2 DEF Filled
  <2> HIDE DEF fields, m
  <2>3. PICK e \in [0 .. m -> Nat] : Laid(v, fields, e) /\ e[m] <= Len(v)
    BY <2>1
  <2>4. PICK f \in [0 .. m -> Nat] : Laid(Encode(fields), fields, f) /\ f[m] = Len(Encode(fields))
    BY <2>1, EncodedIsLaid DEF m
  <2>5. \A k \in 1 .. m : Len(fields[k].value) \in Nat
    <3>1. \A d \in Digits : d \in Nat
      BY DEF Digits
    <3> QED
      BY <2>1, <3>1
  <2>6. m \in Nat
    BY <2>1, LenProperties DEF m
  <2>7. e[m] = f[m]
    BY <2>3, <2>4, <2>5, <2>6, EndsAgree DEF m
  <2>8. Len(v) \in e[m] .. e[m] + 1
    <3>1. Len(v) \in Nat
      BY LenProperties
    <3> QED
      BY <2>2, <2>4, <2>7, <3>1
  <2>9. 0 \in {0, 1} /\ ~ (0 = 1)
    OBVIOUS
  <2>10. WalkTo(v, 0) = fields
    BY <2>1, <2>3, <2>8, <2>9, WalksRead DEF m
  <2> QED
    BY <2>10 DEF fields, Nested
<1> QED
  BY <1>1, <1>2

\* What is read of a code under a tag is a value that its maker wrote under it, or
\* nothing.
LEMMA ValueIsWritten ==
    ASSUME NEW code \in Codes, NEW tag, tag # 63
    PROVE  LET v == Value(AllFields(code), tag) IN
           /\ v \in Seq(Cells) /\ v = Value(code.fields, tag)
           /\ v = Nil \/ \E k \in DOMAIN code.fields :
                            code.fields[k].tag = tag /\ code.fields[k].value = v
<1> DEFINE v == Value(AllFields(code), tag)
           fields == code.fields
           m == Len(fields)
           T == Written(code, tag)
           g == Greatest(T)
<1>1. /\ fields \in Seq([tag : Digits, value : Seq(Cells)])
      /\ m \in Nat /\ DOMAIN fields = 1 .. m
  BY CodesAssumption, LenProperties
<1>2. v = IF T = {} THEN Nil ELSE fields[g].value
  BY LastIsRead
<1>3. Value(fields, tag) = IF T = {} THEN Nil ELSE fields[g].value
  BY DEF Value, Written
<1>m. m = Len(fields)
  OBVIOUS
<1>4. \A k \in T : k \in DOMAIN fields /\ fields[k].tag = tag
  BY DEF Written
<1> HIDE DEF v, T, m, fields
<1>5. CASE T = {}
  <2>1. Nil \in Seq(Cells)
    BY EmptySeq DEF Nil
  <2> QED
    BY <1>2, <1>3, <1>5, <2>1 DEF v, fields
<1>6. CASE T # {}
  <2>1. T \subseteq 1 .. m
    BY <1>1, <1>4
  <2>2. g \in T
    BY <1>1, <1>6, <2>1, GreatestNumber
  <2> HIDE DEF g
  <2>3. fields[g] \in [tag : Digits, value : Seq(Cells)]
    <3>1. g \in 1 .. m
      BY <2>1, <2>2
    <3> QED
      BY <1>1, <1>m, <3>1, ElementOfSeq
  <2>4. fields[g].value \in Seq(Cells)
    BY <2>3
  <2>5. v = fields[g].value /\ v = Value(fields, tag)
    BY <1>2, <1>3, <1>6
  <2>6. g \in DOMAIN fields /\ fields[g].tag = tag
    BY <1>4, <2>2
  <2> QED
    BY <2>4, <2>5, <2>6 DEF v, fields
<1> QED
  BY <1>5, <1>6
\* Of such a code both decoders read the same templates and additional data, and
\* the keywords in them are those that its maker wrote.
LEMMA TemplatesAgree ==
    ASSUME NEW code \in Codes, WholeTemplates(code)
    PROVE  LET all == AllFields(code)
               values == TemplateValues(all)
           IN  /\ Templates(all) = [k \in DOMAIN values |-> Nested(values[k])]
               /\ Walk(Value(all, 62)) = Nested(Value(all, 62))
               /\ DOMAIN Templates(all) = 1 .. 26
               /\ \A k \in 1 .. 26 : Templates(all)[k] = Nested(Value(all, 25 + k))
               /\ Named(code.fields) =
                      UNION {BrandsOf(Templates(all)[k]) : k \in DOMAIN Templates(all)}
<1> DEFINE all == AllFields(code)
           values == TemplateValues(all)
           X == Cells \cup Nat
<1>1. ASSUME NEW tag \in (26 .. 51) \cup {62}
      PROVE  Walk(Value(all, tag)) = Nested(Value(all, tag))
  <2> DEFINE v == Value(all, tag)
  <2>1. tag # 63
    OBVIOUS
  <2>2. /\ v \in Seq(Cells)
        /\ v = Nil \/ \E k \in DOMAIN code.fields :
                         code.fields[k].tag = tag /\ code.fields[k].value = v
    BY <2>1, ValueIsWritten
  <2> HIDE DEF v
  <2>3. v = Nil \/ Filled(v)
    BY <1>1, <2>2 DEF WholeTemplates
  <2>4. v \in Seq(X)
    <3>1. Cells \subseteq X
      OBVIOUS
    <3> HIDE DEF X
    <3> QED
      BY <2>2, <3>1, SeqMonotonic
  <2>5. Nat \subseteq X
    OBVIOUS
  <2> HIDE DEF X
  <2>6. Nested(v) = Walk(v)
    BY <2>3, <2>4, <2>5, FilledIsRead
  <2> QED
    BY <2>6 DEF v
<1>2. /\ DOMAIN values = 1 .. 26 /\ \A k \in 1 .. 26 : values[k] = Value(all, 25 + k)
  BY DEF TemplateValues
<1>3. \A k \in 1 .. 26 : TemplateValues(code.fields)[k] = values[k]
  <2>1. ASSUME NEW k \in 1 .. 26 PROVE Value(code.fields, 25 + k) = Value(all, 25 + k)
    <3>1. 25 + k # 63
      OBVIOUS
    <3> DEFINE tag == 25 + k
    <3> HIDE DEF tag
    <3>2. tag # 63 => Value(code.fields, tag) = Value(all, tag)
      BY ValueIsWritten
    <3> QED
      BY <3>1, <3>2 DEF tag
  <2> QED
    BY <1>2, <2>1 DEF TemplateValues
<1>4. DOMAIN TemplateValues(code.fields) = 1 .. 26
  BY DEF TemplateValues
<1> HIDE DEF values, all
<1>5. \A k \in 1 .. 26 : 25 + k \in (26 .. 51) \cup {62} /\ Walk(values[k]) = Nested(values[k])
  <2>1. \A k \in 1 .. 26 : 25 + k \in (26 .. 51) \cup {62}
    OBVIOUS
  <2> QED
    BY <1>1, <1>2, <2>1
<1>6. /\ Templates(all) = [k \in 1 .. 26 |-> Walk(values[k])]
      /\ [k \in DOMAIN values |-> Nested(values[k])] = [k \in 1 .. 26 |-> Nested(values[k])]
  BY <1>2, Zenon DEF Templates, values
<1>7. Templates(all) = [k \in 1 .. 26 |-> Nested(values[k])]
  BY <1>5, <1>6
<1>8. /\ DOMAIN Templates(all) = 1 .. 26
      /\ \A k \in 1 .. 26 : Templates(all)[k] = Nested(values[k])
  BY <1>7
<1>9. Named(code.fields) = UNION {BrandsOf(Templates(all)[k]) : k \in DOMAIN Templates(all)}
  <2>1. Named(code.fields) = UNION {BrandsOf(Nested(TemplateValues(code.fields)[k])) : k \in 1 .. 26}
    BY <1>4 DEF Named
  <2>2. {BrandsOf(Nested(TemplateValues(code.fields)[k])) : k \in 1 .. 26}
            = {BrandsOf(Templates(all)[k]) : k \in 1 .. 26}
    BY <1>3, <1>8
  <2> QED
    BY <1>8, <2>1, <2>2
<1>10. Walk(Value(all, 62)) = Nested(Value(all, 62))
  BY <1>1
<1> QED
  BY <1>2, <1>6, <1>7, <1>8, <1>9, <1>10 DEF all, values

\* The first keyword in the order of the tables is one of those that were found.
LEMMA FirstBrandIsFound ==
    ASSUME NEW found, found \subseteq Brands, found # {}
    PROVE  FirstBrand(found) \in found
<1> DEFINE n == Len(BrandOrder)
           at == {k \in DOMAIN BrandOrder : BrandOrder[k] \in found}
<1>1. n \in Nat /\ DOMAIN BrandOrder = 1 .. n
  BY CellAssumption, LenProperties
<1>2. at # {} /\ at \subseteq Nat
  <2>1. PICK b \in found : b \in Brands
    OBVIOUS
  <2>2. PICK k \in DOMAIN BrandOrder : BrandOrder[k] = b
    BY <2>1, CellAssumption
  <2> QED
    BY <1>1, <2>1, <2>2
<1> HIDE DEF at
<1>3. Least(at) \in at
  <2>1. \E x \in at : \A y \in at : x <= y
    BY <1>2, LeastNumber
  <2> QED
    BY <2>1 DEF Least
<1> QED
  BY <1>3 DEF FirstBrand, at

\* Keywords that were found in a template are keywords.
LEMMA BrandsAreBrands ==
    ASSUME NEW template
    PROVE  BrandsOf(template) \subseteq Brands
<1>1. \A b \in Brands : Within[b] \subseteq Brands
  BY CellAssumption
<1> QED
  BY <1>1 DEF BrandsOf

\* What arrives of a code that the backend accepts begins with all of it, and is
\* followed by one cell at most.
LEMMA AcceptedIsWhole ==
    ASSUME InputOK, DamageRejected, input.kind = "code", BackendDecode(Scanned).ok
    PROVE  /\ Scanned.orig = Original(input.code) /\ Scanned.seal = input.code.seal
           /\ \/ Scanned.cells = Whole(input.code)
              \/ Scanned.cells = Append(Whole(input.code), BLANK)
           /\ Intact => Scanned.cells = Whole(input.code)
<1> DEFINE kind == input.damage.kind
<1>1. kind \in {"none", "cell", "cut", "more"}
  BY InputKinds, CodesAssumption
<1>2. /\ Scanned.orig = Original(input.code) /\ Scanned.seal = input.code.seal
      /\ kind = "none" => Scanned.cells = Whole(input.code)
      /\ kind = "more" => Scanned.cells = Append(Whole(input.code), BLANK)
  BY DEF Scanned, Payload
<1>3. kind \in {"cell", "cut"} => Scanned.cells = Whole(input.code)
  BY DEF DamageRejected
<1> QED
  BY <1>1, <1>2, <1>3 DEF Intact
\* Two cells next to each other.
LEMMA PairIs ==
    ASSUME NEW X, NEW s \in Seq(X), NEW k \in 1 .. Len(s) - 1,
           NEW t \in Seq(X), Len(t) = 2, t[1] = s[k], t[2] = s[k + 1]
    PROVE  SubSeq(s, k, k + 1) = t
<1> DEFINE u == SubSeq(s, k, k + 1)
<1>1. Len(s) \in Nat
  BY LenProperties
<1>2. \A i \in k .. k + 1 : s[i] \in X
  <2>1. \A i \in k .. k + 1 : i \in 1 .. Len(s)
    BY <1>1
  <2> QED
    BY <2>1, ElementOfSeq
<1>3. /\ k \in Int /\ k + 1 \in Int /\ k <= k + 1 /\ (k + 1) - k + 1 = 2
      /\ k + 1 - 1 = k /\ k + 2 - 1 = k + 1
  BY <1>1
<1>4. /\ u \in Seq(X) /\ Len(u) = IF k <= k + 1 THEN (k + 1) - k + 1 ELSE 0
      /\ \A i \in 1 .. (k + 1) - k + 1 : u[i] = s[k + i - 1]
  BY <1>2, <1>3, SubSeqProperties
<1>5. 1 \in 1 .. 2 /\ 2 \in 1 .. 2 /\ \A i \in 1 .. 2 : i = 1 \/ i = 2
  OBVIOUS
<1> HIDE DEF u
<1>6. Len(u) = 2 /\ u[1] = t[1] /\ u[2] = t[2]
  BY <1>3, <1>4, <1>5
<1>7. \A i \in 1 .. Len(u) : u[i] = t[i]
  BY <1>5, <1>6
<1>8. u = t
  BY <1>4, <1>6, <1>7, SeqEqual
<1> QED
  BY <1>8 DEF u

\* The serverless decoder finds the CRC of an intact code where it should be.
LEMMA IntactCrc ==
    ASSUME NEW code \in Codes, NEW p, p.cells = Whole(code), p.orig = Original(code),
           p.seal = code.seal
    PROVE  LET n == Len(p.cells) IN
           n >= 4 /\ SubSeq(p.cells, n - 3, n - 2) = CrcTag /\ verifyCrc(p)
<1> DEFINE X == Cells \cup Nat
           s == Whole(code)
           n == Len(s)
           orig == Original(code)
           seal == code.seal
<1>1. /\ s \in Seq(X) /\ n \in Nat /\ n >= 4 /\ orig \in Seq(X) /\ Len(orig) = n - 2
      /\ \A i \in 1 .. n - 2 : s[i] = orig[i]
      /\ s[n - 3] = 63 /\ s[n - 2] = 2
      /\ s[n - 1] = seal[1] /\ s[n] = seal[2]
      /\ seal \in Seq(X) /\ Len(seal) = 2
  BY WholeEnds
<1>2. CrcTag \in Seq(X) /\ Len(CrcTag) = 2 /\ CrcTag[1] = 63 /\ CrcTag[2] = 2
  <2>1. 63 \in X /\ 2 \in X
    OBVIOUS
  <2> HIDE DEF X
  <2> QED
    BY <2>1 DEF CrcTag, CrcCells
<1>n. n = Len(s)
  OBVIOUS
<1>p. p.cells = s /\ p.orig = orig /\ p.seal = seal
  OBVIOUS
<1> HIDE DEF X, s, n, orig, seal
<1>3. SubSeq(s, n - 3, n - 2) = CrcTag
  <2> DEFINE k == n - 3
  <2>1. k \in 1 .. n - 1 /\ k + 1 = n - 2 /\ s[k] = 63 /\ s[k + 1] = 2
    BY <1>1
  <2> HIDE DEF k
  <2>2. SubSeq(s, k, k + 1) = CrcTag
    BY <1>1, <1>2, <1>n, <2>1, PairIs
  <2> QED
    BY <2>1, <2>2 DEF k
<1>4. SubSeq(s, n - 1, n) = seal
  <2> DEFINE k == n - 1
  <2>1. k \in 1 .. n - 1 /\ k + 1 = n /\ s[k] = seal[1] /\ s[k + 1] = seal[2]
    BY <1>1
  <2> HIDE DEF k
  <2>2. SubSeq(s, k, k + 1) = seal
    BY <1>1, <1>n, <2>1, PairIs
  <2> QED
    BY <2>1, <2>2 DEF k
<1>5. SubSeq(s, 1, n - 2) = orig
  <2> DEFINE k == n - 2
             u == SubSeq(s, 1, k)
  <2>1. k \in Nat /\ k <= n /\ k \in Int /\ 1 \in Int /\ k - 1 + 1 = k
        /\ (IF 1 <= k THEN k ELSE 0) = k /\ \A i \in 1 .. k : 1 + i - 1 = i /\ i \in 1 .. n
    BY <1>1
  <2>2. Len(orig) = k /\ \A i \in 1 .. k : s[i] = orig[i]
    BY <1>1
  <2> HIDE DEF k
  <2>3. \A i \in 1 .. k : s[i] \in X
    BY <1>1, <1>n, <2>1, ElementOfSeq
  <2>4. /\ u \in Seq(X) /\ Len(u) = IF 1 <= k THEN k - 1 + 1 ELSE 0
        /\ \A i \in 1 .. k - 1 + 1 : u[i] = s[1 + i - 1]
    BY <2>1, <2>3, SubSeqProperties
  <2> HIDE DEF u
  <2>5. Len(u) = k /\ \A i \in 1 .. Len(u) : u[i] = orig[i]
    BY <2>1, <2>2, <2>4
  <2>6. u = orig
    BY <1>1, <2>2, <2>4, <2>5, SeqEqual
  <2> QED
    BY <2>6 DEF k, u
<1>6. verifyCrc(p)
  BY <1>1, <1>4, <1>5, <1>n, <1>p DEF verifyCrc, CrcMatches
<1> QED
  BY <1>1, <1>3, <1>6, <1>n, <1>p

\* What the serverless decoder warns of in a code that the backend accepts.
LEMMA WarnsOfTheEnd ==
    ASSUME NEW p, NEW fields,
           Value(fields, 53) = <<IDR>>, Value(fields, 58) = <<INDONESIA>>
    PROVE  LET n == Len(p.cells) IN
           /\ Warnings(fields, p) \subseteq {"placement", "checksum"}
           /\ n \in Nat /\ n >= 4 /\ SubSeq(p.cells, n - 3, n - 2) = CrcTag /\ verifyCrc(p)
                  => Warnings(fields, p) = {}
<1> DEFINE n == Len(p.cells)
           Warned(w) ==
              CASE w = "currency"  -> <<IDR>> \notin {Value(fields, 53), Loose(p.cells, 53)}
                [] w = "country"   -> <<INDONESIA>> \notin {Value(fields, 58), Trim(Loose(p.cells, 58))}
                [] w = "placement" -> n < 4 \/ SubSeq(p.cells, n - 3, n - 2) # CrcTag
                [] w = "checksum"  -> ~verifyCrc(p)
<1>1. Warnings(fields, p) = {w \in {"currency", "country", "placement", "checksum"} : Warned(w)}
  BY DEF Warnings
<1>2. /\ Warned("currency") <=> <<IDR>> \notin {Value(fields, 53), Loose(p.cells, 53)}
      /\ Warned("country") <=> <<INDONESIA>> \notin {Value(fields, 58), Trim(Loose(p.cells, 58))}
      /\ Warned("placement") <=> (n < 4 \/ SubSeq(p.cells, n - 3, n - 2) # CrcTag)
      /\ Warned("checksum") <=> ~verifyCrc(p)
  OBVIOUS
<1> HIDE DEF Warned
<1>3. ~ Warned("currency") /\ ~ Warned("country")
  BY <1>2
<1>4. n \in Nat /\ n >= 4 /\ SubSeq(p.cells, n - 3, n - 2) = CrcTag /\ verifyCrc(p)
          => ~ Warned("placement") /\ ~ Warned("checksum")
  <2> HIDE DEF n
  <2> QED
    BY <1>2
<1> HIDE DEF n
<1> QED
  BY <1>1, <1>3, <1>4 DEF n
\* If the backend finds an institution in a whole template and all keywords of the
\* code are that one's, the serverless decoder finds it too.
LEMMA BanksAgree ==
    ASSUME NEW code \in Codes, WholeTemplates(code), NEW s,
           BackendBank(AllFields(code)) # "UNKNOWN",
           \A b \in Named(code.fields) : BackendBrand[b] = BackendBank(AllFields(code))
    PROVE  LET bank == detectBank(AllFields(code), s) IN
           bank # Nil /\ BackendBrand[bank[1]] = BackendBank(AllFields(code))
<1> DEFINE all == AllFields(code)
           templates == Templates(all)
           found == UNION {BrandsOf(templates[k]) : k \in DOMAIN templates}
           tag == IF \E k \in DOMAIN all : all[k].tag = 26 THEN 26 ELSE 27
           known == {b \in BrandsOf(Nested(Value(all, tag))) : BackendBrand[b] # "UNKNOWN"}
<1>1. /\ DOMAIN templates = 1 .. 26
      /\ \A k \in 1 .. 26 : templates[k] = Nested(Value(all, 25 + k))
      /\ Named(code.fields) = found
  BY TemplatesAgree
<1>2. BackendBank(all) = IF known = {} THEN "UNKNOWN" ELSE BackendBrand[FirstBrand(known)]
  BY DEF BackendBank
<1>3. found # {}
  <2>1. PICK b \in known : TRUE
    BY <1>2
  <2>2. b \in BrandsOf(Nested(Value(all, tag)))
    BY <2>1
  <2>3. tag = 26 \/ tag = 27
    OBVIOUS
  <2> HIDE DEF tag, all, templates, known
  <2>4. PICK k \in 1 .. 26 : Value(all, tag) = Value(all, 25 + k)
    <3>1. 1 \in 1 .. 26 /\ 2 \in 1 .. 26 /\ 25 + 1 = 26 /\ 25 + 2 = 27
      OBVIOUS
    <3> QED
      BY <2>3, <3>1
  <2>5. b \in BrandsOf(templates[k])
    BY <1>1, <2>2, <2>4
  <2> QED
    BY <1>1, <2>5
<1>4. found \subseteq Brands
  BY BrandsAreBrands
<1>5. detectBank(all, s) = <<FirstBrand(found)>>
  BY <1>3 DEF detectBank
<1> HIDE DEF found, all, templates, known
<1>6. FirstBrand(found) \in found
  BY <1>3, <1>4, FirstBrandIsFound
<1>7. BackendBrand[FirstBrand(found)] = BackendBank(all)
  BY <1>1, <1>6 DEF all
<1>8. <<FirstBrand(found)>> # Nil /\ <<FirstBrand(found)>>[1] = FirstBrand(found)
  BY DEF Nil
<1> QED
  BY <1>5, <1>7, <1>8 DEF all

\* What the two decoders read of a code that the backend accepts is the same, for
\* codes of any fields and values whose templates are filled.
THEOREM DecodersReadAlike == Spec => []DecodersAgree
<1>1. InputOK /\ DamageRejected => DecodersAgree
  <2> SUFFICES ASSUME InputOK, DamageRejected, input.kind = "code",
                      BackendDecode(Scanned).ok, WholeTemplates(input.code)
               PROVE  DecodersAgree
    BY DEF DecodersAgree, WholeTemplates
  <2>1. PICK code \in Codes : code = input.code
    BY InputKinds
  <2>2. PICK p : p = Scanned
    OBVIOUS
  <2>3. /\ p.orig = Original(code) /\ p.seal = code.seal
        /\ p.cells = Whole(code) \/ p.cells = Append(Whole(code), BLANK)
        /\ Intact => p.cells = Whole(code)
    BY <2>1, <2>2, AcceptedIsWhole
  <2> DEFINE all == AllFields(code)
             one == BackendDecode(p)
             two == DecodeQris(p)
  <2>4. WalkTo(p.cells, 1) = all /\ Walk(p.cells) = all
    BY <2>3, CodeIsRead
  <2>5. /\ SchemaHolds(all)
        /\ one.name = BackendName(Value(all, 59)) /\ one.amount = Value(all, 54)
        /\ one.account = BackendAccount(all) /\ one.bank = BackendBank(all)
    <3> HIDE DEF all
    <3>1. BackendDecode(p).ok
      BY <2>2
    <3>2. verifyCRC(p) /\ SchemaHolds(all)
      <4>1. ~ (verifyCRC(p) /\ SchemaHolds(all)) => BackendDecode(p) = Rejected
        BY <2>4 DEF BackendDecode
      <4>2. ~ Rejected.ok
        BY DEF Rejected
      <4> QED
        BY <3>1, <4>1, <4>2
    <3>3. one = [ok |-> TRUE, name |-> BackendName(Value(all, 59)),
                 amount |-> Value(all, 54), account |-> BackendAccount(all),
                 bank |-> BackendBank(all)]
      BY <2>4, <3>2 DEF BackendDecode
    <3> HIDE DEF one
    <3> QED
      BY <3>2, <3>3
  <2>6. /\ Value(all, 0) = <<1>> /\ Value(all, 53) = <<IDR>> /\ Value(all, 58) = <<INDONESIA>>
    BY <2>5 DEF SchemaHolds
  <2> HIDE DEF all
  <2>7. /\ two.ok /\ two.amount = Amount(all, p.cells)
        /\ Trim(Value(all, 59)) # Nil => two.name = Trim(Value(all, 59))
        /\ two.account = Account(Templates(all), Walk(Value(all, 62)))
        /\ two.bank = detectBank(all, p.cells) /\ two.warnings = Warnings(all, p)
    <3> DEFINE looseName == Trim(Loose(p.cells, 59))
               name == IF Trim(Value(all, 59)) # Nil THEN Trim(Value(all, 59))
                       ELSE IF looseName # Nil THEN looseName ELSE UnknownMerchant
               amount == Amount(all, p.cells)
    <3>1. two = [ok |-> TRUE, name |-> name, amount |-> amount,
                 account |-> Account(Templates(all), Walk(Value(all, 62))),
                 merchantId |-> extractMerchantId(all, p.cells),
                 bank |-> detectBank(all, p.cells), warnings |-> Warnings(all, p),
                 amountMode |-> IF amount # Nil THEN "LOCKED_FROM_QR" ELSE "INPUT_REQUIRED"]
      BY <2>4, <2>6, Zenon DEF DecodeQris
    <3>2. Trim(Value(all, 59)) # Nil => name = Trim(Value(all, 59))
      OBVIOUS
    <3> HIDE DEF name, two, amount
    <3>3. /\ two.ok /\ two.amount = amount /\ two.name = name
          /\ two.account = Account(Templates(all), Walk(Value(all, 62)))
          /\ two.bank = detectBank(all, p.cells) /\ two.warnings = Warnings(all, p)
      BY <3>1
    <3> QED
      BY <3>2, <3>3 DEF amount
  <2> HIDE DEF one, two
  <2>8. two.account = one.account
    <3> DEFINE values == TemplateValues(all)
    <3>1. /\ Templates(all) = [k \in DOMAIN values |-> Nested(values[k])]
          /\ Walk(Value(all, 62)) = Nested(Value(all, 62))
      BY <2>1, TemplatesAgree DEF all
    <3>2. BackendAccount(all)
              = Account([k \in DOMAIN values |-> Nested(values[k])], Nested(Value(all, 62)))
      BY DEF BackendAccount
    <3> QED
      BY <2>5, <2>7, <3>1, <3>2
  <2>9. one.amount # Nil => two.amount = one.amount
    BY <2>5, <2>7 DEF Amount
  <2>10. one.name # UnknownMerchant => IsPrefix(one.name, two.name)
    <3>1. ASSUME one.name # UnknownMerchant PROVE Trim(Value(all, 59)) # Nil
      BY <2>5, <3>1 DEF BackendName
    <3>2. Value(all, 59) \in Seq(Cells)
      BY ValueIsWritten DEF all
    <3>3. Trim(Value(all, 59)) # Nil => IsPrefix(one.name, Trim(Value(all, 59)))
      BY <2>5, <3>2, NameIsPrefix
    <3> QED
      BY <2>7, <3>1, <3>3
  <2>11. /\ Intact => two.warnings = {}
         /\ two.warnings \subseteq {"placement", "checksum"}
    <3> DEFINE n == Len(p.cells)
    <3>1. Warnings(all, p) \subseteq {"placement", "checksum"}
      BY <2>6, WarnsOfTheEnd
    <3>2. ASSUME Intact PROVE Warnings(all, p) = {}
      <4>1. p.cells = Whole(code) /\ n \in Nat
        <5>1. p.cells = Whole(code)
          BY <2>3, <3>2
        <5>2. Len(Whole(code)) \in Nat
          BY WholeEnds
        <5> QED
          BY <5>1, <5>2
      <4>2. n >= 4 /\ SubSeq(p.cells, n - 3, n - 2) = CrcTag /\ verifyCrc(p)
        BY <2>3, <4>1, IntactCrc
      <4> QED
        BY <2>6, <4>1, <4>2, WarnsOfTheEnd
    <3> QED
      BY <2>7, <3>1, <3>2
  <2>12. one.bank # "UNKNOWN" /\ (\A b \in Named(code.fields) : BackendBrand[b] = one.bank)
             => two.bank # Nil /\ BackendBrand[two.bank[1]] = one.bank
    <3> SUFFICES ASSUME one.bank # "UNKNOWN",
                        \A b \in Named(code.fields) : BackendBrand[b] = one.bank
                 PROVE  two.bank # Nil /\ BackendBrand[two.bank[1]] = one.bank
      OBVIOUS
    <3>1. one.bank = BackendBank(AllFields(code)) /\ two.bank = detectBank(AllFields(code), p.cells)
      BY <2>5, <2>7 DEF all
    <3>2. WholeTemplates(code)
      BY <2>1
    <3> DEFINE cells == p.cells
    <3> HIDE DEF cells
    <3>3. /\ detectBank(AllFields(code), cells) # Nil
          /\ BackendBrand[detectBank(AllFields(code), cells)[1]] = BackendBank(AllFields(code))
      BY <3>1, <3>2, BanksAgree
    <3> QED
      BY <3>1, <3>3 DEF cells
  <2>13. one = BackendDecode(Scanned) /\ two = DecodeQris(Scanned)
    BY <2>2 DEF one, two
  <2> QED
    BY <2>1, <2>7, <2>8, <2>9, <2>10, <2>11, <2>12, <2>13 DEF DecodersAgree
<1> QED
  BY <1>1, Picked, DamageNeverPasses, PTL

===============================================================================
