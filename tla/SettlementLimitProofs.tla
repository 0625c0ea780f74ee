------------------------- MODULE SettlementLimitProofs -------------------------
(***************************************************************************)
(* Theorems of SettlementQueue about the daily limit, that is the counter  *)
(* in Redis and the money Xendit accepted to pay; and about both lanes at  *)
(* work below the limit, on a day on which nothing fails.                  *)
(***************************************************************************)
EXTENDS SettlementQueueProofs, SumsProofs

-----------------------------------------------------------------------------
(***************************************************************************)
(* The money that was accepted, as a sum.                                  *)
(***************************************************************************)
Weight == [o \in Orders |-> Amount[o] * Disbursements(o)]

\* Accepted is the sum of what the orders weigh.
LEMMA AcceptedIsSum ==
    TypeInv => /\ Weight \in [Orders -> Nat]
               /\ \E it : Sums(it, Weight, Orders) /\ Accepted = it[Orders]
<1> SUFFICES ASSUME TypeInv PROVE /\ Weight \in [Orders -> Nat]
                                  /\ \E it : Sums(it, Weight, Orders) /\ Accepted = it[Orders]
  OBVIOUS
<1>1. Weight \in [Orders -> Nat]
  <2>1. \A o \in Orders : Disbursements(o) \in Nat
    BY ConstantTypes DEF TypeInv, TypeOK, Disbursements
  <2>2. \A m, n \in Nat : m * n \in Nat
    OBVIOUS
  <2> QED
    BY <2>1, <2>2, ConstantTypes DEF Weight
<1> DEFINE F(it) == [s \in SUBSET Orders |->
                        IF s = {} THEN 0
                        ELSE LET x == CHOOSE x \in s : TRUE
                             IN Amount[x] * Disbursements(x) + it[s \ {x}]]
           sum == CHOOSE it : it = F(it)
<1>2. Accepted = sum[Orders]
  BY DEF Accepted, MapThenSumSet, MapThenFoldSet
<1>3. ASSUME NEW it PROVE Sums(it, Weight, Orders) <=> it = F(it)
  <2>1. ASSUME NEW s \in SUBSET Orders, s # {}
        PROVE  Weight[AnyOf(s)] = Amount[AnyOf(s)] * Disbursements(AnyOf(s))
    BY <2>1 DEF Weight, AnyOf
  <2>2. F(it) = [s \in SUBSET Orders |->
                    IF s = {} THEN 0 ELSE Weight[AnyOf(s)] + it[s \ {AnyOf(s)}]]
    <3>1. ASSUME NEW s \in SUBSET Orders
          PROVE  F(it)[s] = IF s = {} THEN 0 ELSE Weight[AnyOf(s)] + it[s \ {AnyOf(s)}]
      <4>1. CASE s = {}
        BY <4>1
      <4>2. CASE s # {}
        BY <2>1, <4>2 DEF AnyOf
      <4> QED
        BY <4>1, <4>2
    <3> QED
      BY <3>1
  <2> HIDE DEF F
  <2> QED
    BY <2>2 DEF Sums
<1>4. PICK it : Sums(it, Weight, Orders)
  BY AmountAssumption, SumsExist
<1> HIDE DEF F
<1>5. sum = F(sum)
  BY <1>3, <1>4
<1>6. Sums(sum, Weight, Orders)
  BY <1>3, <1>5
<1> QED
  BY <1>1, <1>2, <1>6

\* Accepted is a number; it stays while no order gets a disbursement, and grows
\* by the amount of an order that gets one.
LEMMA AcceptedMoves ==
    ASSUME TypeInv, TypeInv'
    PROVE  /\ Accepted \in Nat
           /\ (\A q \in Orders : Disbursements(q)' = Disbursements(q)) => Accepted' = Accepted
           /\ \A o \in Orders :
                 (\A q \in Orders : Disbursements(q)' = IF q = o THEN Disbursements(q) + 1
                                                       ELSE Disbursements(q))
                    => Accepted' = Accepted + Amount[o]
<1>1. /\ Weight \in [Orders -> Nat]
      /\ \E it : Sums(it, Weight, Orders) /\ Accepted = it[Orders]
  BY AcceptedIsSum
<1>2. (TypeInv => /\ Weight \in [Orders -> Nat]
                  /\ \E it : Sums(it, Weight, Orders) /\ Accepted = it[Orders])'
  BY AcceptedIsSum, PTL
<1>3. PICK it : Sums(it, Weight, Orders) /\ Accepted = it[Orders]
  BY <1>1
<1> DEFINE w == Weight
           v == Weight'
<1>4. v \in [Orders -> Nat] /\ \E jt : Sums(jt, v, Orders) /\ Accepted' = jt[Orders]
  <2>1. (Weight \in [Orders -> Nat])' /\ (\E jt : Sums(jt, Weight, Orders) /\ Accepted = jt[Orders])'
    BY <1>2
  <2> QED
    BY <2>1 DEF Sums
<1>5. PICK jt : Sums(jt, v, Orders) /\ Accepted' = jt[Orders]
  BY <1>4
<1>6. IsFiniteSet(Orders)
  BY AmountAssumption
<1>7. Accepted \in Nat
  BY <1>1, <1>3, <1>6, SumsTyped
<1>w. \A q \in Orders : w[q] = Amount[q] * Disbursements(q) /\ v[q] = Amount[q] * Disbursements(q)'
  BY DEF Weight
<1>n. \A q \in Orders : Disbursements(q) \in Nat /\ Amount[q] \in Nat
  BY ConstantTypes DEF TypeInv, TypeOK, Disbursements
<1>8. ASSUME \A q \in Orders : Disbursements(q)' = Disbursements(q)
      PROVE  Accepted' = Accepted
  <2>1. \A q \in Orders : w[q] = v[q]
    BY <1>8, <1>w
  <2> HIDE DEF w, v
  <2>2. Sums(it, w, Orders)
    BY <1>3 DEF w
  <2>3. it[Orders] = jt[Orders]
    BY <1>5, <1>6, <2>1, <2>2, SumsAgree
  <2> QED
    BY <1>3, <1>5, <2>3
<1>9. ASSUME NEW o \in Orders,
             \A q \in Orders : Disbursements(q)' = IF q = o THEN Disbursements(q) + 1
                                                   ELSE Disbursements(q)
      PROVE  Accepted' = Accepted + Amount[o]
  <2>1. \A q \in Orders \ {o} : v[q] = w[q]
    BY <1>9, <1>w
  <2>2. v[o] = w[o] + Amount[o] /\ w[o] \in Nat
    <3>1. \A m, n \in Nat : m * (n + 1) = m * n + m /\ m * n \in Nat
      OBVIOUS
    <3>2. w[o] = Amount[o] * Disbursements(o) /\ v[o] = Amount[o] * (Disbursements(o) + 1)
      BY <1>9, <1>w
    <3> QED
      BY <3>1, <3>2, <1>n
  <2>3. Sums(it, w, Orders) /\ w \in [Orders -> Nat]
    BY <1>1, <1>3
  <2> HIDE DEF w, v
  <2>4. jt[Orders] + w[o] = it[Orders] + v[o]
    BY <1>4, <1>5, <1>6, <2>1, <2>3, SumsChange
  <2>5. jt[Orders] \in Nat /\ it[Orders] \in Nat /\ Amount[o] \in Nat
    BY <1>4, <1>5, <1>6, <1>n, <2>3, SumsTyped
  <2> QED
    BY <1>3, <1>5, <2>2, <2>4, <2>5
<1> QED
  BY <1>7, <1>8, <1>9

-----------------------------------------------------------------------------
(***************************************************************************)
(* The counter is ahead of the money.                                      *)
(***************************************************************************)
\* A call whose answer is lost is repeated, and then paid twice unless Xendit
\* tells the second from a new one.
NoSecondPayment == "lost" \notin Faults \/ Dedupes

\* Disbursements that Xendit may still create for the call a worker is at: one,
\* or one for each attempt that is left where a lost answer is not recognised.
AttemptsLeft(l) == IF NoSecondPayment THEN 1 ELSE XENDIT_RETRIES - worker[l].tries

\* What a worker has counted for the call before it, which Xendit may accept.
Reserved(l) ==
    IF worker[l].at = "pay" /\ ~ (Dedupes /\ Disbursements(worker[l].cur) > 0)
    THEN AttemptsLeft(l) * Amount[worker[l].cur] ELSE 0

CountInv ==
    Accepted + Reserved("FAST_LANE") + Reserved("EFFICIENT_LANE") <= PerCount * outflow

\* Arithmetic of products, which the other proofs cite.
LEMMA Products ==
    /\ \A m, n \in Nat : m * n \in Nat
    /\ \A m, n, k \in Nat : m * (n + k) = m * n + m * k /\ (m + n) * k = m * k + n * k
    /\ \A m, n, k \in Nat : m <= n => m * k <= n * k /\ k * m <= k * n
    /\ \A m \in Nat : 1 * m = m
<1>1. \A m, n \in Nat : m * n \in Nat
  OBVIOUS
<1>2. \A m, n, k \in Nat : m * (n + k) = m * n + m * k /\ (m + n) * k = m * k + n * k
  OBVIOUS
<1>3. ASSUME NEW m \in Nat, NEW n \in Nat, NEW k \in Nat, m <= n
      PROVE  m * k <= n * k /\ k * m <= k * n
  <2>1. PICK d \in Nat : n = m + d
    <3>1. n - m \in Nat /\ n = m + (n - m)
      BY <1>3
    <3> QED
      BY <3>1
  <2>2. n * k = m * k + d * k /\ k * n = k * m + k * d
    BY <1>2, <2>1
  <2>3. m * k \in Nat /\ d * k \in Nat /\ k * m \in Nat /\ k * d \in Nat
    BY <1>1
  <2> QED
    BY <2>2, <2>3
<1> QED
  BY <1>1, <1>2, <1>3

\* A worker has at least one attempt left, and no more than a count stands for.
LEMMA AttemptsBounded ==
    ASSUME TypeInv, NEW l \in Lanes
    PROVE  /\ AttemptsLeft(l) \in Nat /\ AttemptsLeft(l) >= 1 /\ AttemptsLeft(l) <= PerCount
           /\ PerCount \in Nat /\ PerCount >= 1
<1>1. worker[l].tries \in Nat /\ worker[l].tries < XENDIT_RETRIES
  BY ConstantTypes DEF TypeInv, TypeOK, Worker
<1> QED
  BY <1>1, ConstantTypes DEF AttemptsLeft, PerCount, NoSecondPayment

\* The disbursements of an order in the next state.
Made(q) == xendit'[q]["PENDING"] + xendit'[q]["COMPLETED"] + xendit'[q]["FAILED"]

\* What is reserved, in the next state.
LEMMA ReservedNext ==
    ASSUME NEW l
    PROVE  /\ Reserved(l)' =
               IF worker'[l].at = "pay" /\ ~ (Dedupes /\ Made(worker'[l].cur) > 0)
               THEN AttemptsLeft(l)' * Amount[worker'[l].cur] ELSE 0
           /\ \A q \in Orders : Made(q) = Disbursements(q)'
BY DEF Reserved, Disbursements, Made

\* A worker that does not come to a call has no more reserved than before.
LEMMA ReservedFalls ==
    ASSUME TypeInv, TypeInv', NEW l \in Lanes,
           worker'[l].at = "pay" => /\ worker[l].at = "pay" /\ worker'[l].cur = worker[l].cur
                                    /\ worker[l].tries <= worker'[l].tries,
           \A q \in Orders : Disbursements(q)' \in Nat /\ Disbursements(q)' >= Disbursements(q)
    PROVE  Reserved(l) \in Nat /\ Reserved(l)' \in Nat /\ Reserved(l)' <= Reserved(l)
<1> DEFINE a == Amount[worker[l].cur]
           n == AttemptsLeft(l)
           m == AttemptsLeft(l)'
<1>1. worker[l].at = "pay" => worker[l].cur \in Orders /\ a \in Nat
  BY ConstantTypes DEF TypeInv, WorkerBusy
<1>2. \A q \in Orders : Disbursements(q) \in Nat /\ Made(q) \in Nat /\ Made(q) >= Disbursements(q)
  BY ConstantTypes, ReservedNext DEF TypeInv, TypeOK, Disbursements
<1>3. n \in Nat /\ m \in Nat
  <2>1. n \in Nat
    BY AttemptsBounded
  <2>2. m \in Nat
    <3>1. worker'[l].tries \in Nat /\ worker'[l].tries < XENDIT_RETRIES
      BY ConstantTypes DEF TypeInv, TypeOK, Worker
    <3> QED
      BY <3>1, ConstantTypes DEF AttemptsLeft, NoSecondPayment
  <2> QED
    BY <2>1, <2>2
<1>4. worker'[l].at = "pay" => m <= n
  <2>1. worker[l].tries \in Nat /\ worker'[l].tries \in Nat
    BY ConstantTypes DEF TypeInv, TypeOK, Worker
  <2> QED
    BY <2>1, ConstantTypes DEF AttemptsLeft, NoSecondPayment
<1>5. Reserved(l)' = IF worker'[l].at = "pay" /\ ~ (Dedupes /\ Made(worker'[l].cur) > 0)
                     THEN m * Amount[worker'[l].cur] ELSE 0
  BY ReservedNext
<1>6. Reserved(l) = IF worker[l].at = "pay" /\ ~ (Dedupes /\ Disbursements(worker[l].cur) > 0)
                    THEN n * a ELSE 0
  BY DEF Reserved
<1>7. a \in Nat => n * a \in Nat /\ m * a \in Nat /\ (m <= n => m * a <= n * a)
  BY <1>3, Products
<1>8. worker'[l].at = "pay" => worker[l].at = "pay" /\ worker'[l].cur = worker[l].cur
  OBVIOUS
<1> HIDE DEF n, m
<1>9. CASE worker'[l].at = "pay" /\ ~ (Dedupes /\ Made(worker'[l].cur) > 0)
  <2>1. ~ (Dedupes /\ Disbursements(worker[l].cur) > 0)
    BY <1>1, <1>2, <1>8, <1>9
  <2>2. Reserved(l)' = m * a /\ Reserved(l) = n * a
    BY <1>5, <1>6, <1>8, <1>9, <2>1
  <2> QED
    BY <1>1, <1>4, <1>7, <1>8, <1>9, <2>2
<1>10. CASE ~ (worker'[l].at = "pay" /\ ~ (Dedupes /\ Made(worker'[l].cur) > 0))
  <2>1. Reserved(l)' = 0
    BY <1>5, <1>10
  <2>2. Reserved(l) \in Nat
    BY <1>1, <1>6, <1>7
  <2> QED
    BY <2>1, <2>2
<1> QED
  BY <1>9, <1>10

\* A call that Xendit takes uses some of what was reserved for it.
LEMMA AcceptCounts ==
    ASSUME TypeInv, TypeInv', NEW l \in Lanes, worker[l].at = "pay", Accept(worker[l].cur),
           worker'[l].at = "pay" => /\ "lost" \in Faults
                                    /\ worker'[l].cur = worker[l].cur
                                    /\ worker'[l].tries = worker[l].tries + 1
    PROVE  /\ \A q \in Orders : Disbursements(q)' \in Nat /\ Disbursements(q)' >= Disbursements(q)
           /\ Accepted \in Nat /\ Accepted' \in Nat /\ Reserved(l) \in Nat /\ Reserved(l)' \in Nat
           /\ Accepted' + Reserved(l)' <= Accepted + Reserved(l)
<1> DEFINE o == worker[l].cur
           n == AttemptsLeft(l)
           m == AttemptsLeft(l)'
<1>1. o \in Orders /\ Amount[o] \in Nat
  BY ConstantTypes DEF TypeInv, WorkerBusy
<1>2. \A q \in Orders : Disbursements(q) \in Nat /\ Amount[q] \in Nat
  BY ConstantTypes DEF TypeInv, TypeOK, Disbursements
<1>n. n \in Nat /\ n >= 1
  BY AttemptsBounded
<1>5. Reserved(l)' = IF worker'[l].at = "pay" /\ ~ (Dedupes /\ Made(worker'[l].cur) > 0)
                     THEN m * Amount[worker'[l].cur] ELSE 0
  BY ReservedNext
<1>3. CASE Dedupes /\ Disbursements(o) > 0
  <2>1. UNCHANGED xendit
    BY <1>3 DEF Accept
  <2>2. \A q \in Orders : Disbursements(q)' = Disbursements(q)
    BY <2>1 DEF Disbursements
  <2>3. Accepted' = Accepted /\ Accepted \in Nat
    BY <2>2, AcceptedMoves
  <2>4. Reserved(l) = 0
    BY <1>3 DEF Reserved
  <2>5. Reserved(l)' = 0
    <3>1. worker'[l].at = "pay" => Made(worker'[l].cur) > 0
      BY <1>1, <1>3, <2>2, ReservedNext
    <3> HIDE DEF m
    <3> QED
      BY <1>3, <1>5, <3>1
  <2> QED
    BY <1>2, <2>2, <2>3, <2>4, <2>5
<1>4. CASE ~ (Dedupes /\ Disbursements(o) > 0)
  <2>1. xendit' = [xendit EXCEPT ![o] = [xendit[o] EXCEPT !["PENDING"] = xendit[o]["PENDING"] + 1]]
    BY <1>4 DEF Accept
  <2>2. \A q \in Orders : Disbursements(q)' = IF q = o THEN Disbursements(q) + 1
                                              ELSE Disbursements(q)
    BY <1>1, <2>1, ConstantTypes DEF Disbursements, TypeInv, TypeOK
  <2>3. Accepted' = Accepted + Amount[o] /\ Accepted \in Nat
    BY <1>1, <2>2, AcceptedMoves
  <2>4. Reserved(l) = n * Amount[o] /\ n * Amount[o] \in Nat
    <3>1. Reserved(l) = n * Amount[o]
      BY <1>4 DEF Reserved
    <3> HIDE DEF n
    <3> QED
      BY <1>1, <1>n, <3>1, Products
  <2>5. Amount[o] <= Reserved(l)
    <3> HIDE DEF n
    <3>1. 1 * Amount[o] <= n * Amount[o] /\ 1 * Amount[o] = Amount[o]
      BY <1>1, <1>n, Products
    <3> QED
      BY <2>4, <3>1
  <2>6. CASE worker'[l].at = "pay" /\ ~ Dedupes
    <3>1. n = m + 1 /\ m \in Nat
      <4>1. /\ worker[l].tries \in Nat /\ worker'[l].tries \in Nat
            /\ worker'[l].tries < XENDIT_RETRIES
        BY ConstantTypes DEF TypeInv, TypeOK, Worker
      <4>2. n = XENDIT_RETRIES - worker[l].tries /\ m = XENDIT_RETRIES - worker'[l].tries
        BY <2>6 DEF AttemptsLeft, NoSecondPayment
      <4> HIDE DEF n, m
      <4> QED
        BY <2>6, <4>1, <4>2, ConstantTypes
    <3>2. Reserved(l)' = m * Amount[o]
      <4> HIDE DEF m
      <4> QED
        BY <1>5, <2>6
    <3> HIDE DEF n, m
    <3>3. n * Amount[o] = m * Amount[o] + 1 * Amount[o] /\ m * Amount[o] \in Nat
          /\ 1 * Amount[o] = Amount[o]
      <4> DEFINE a == Amount[o]
      <4>1. a \in Nat
        BY <1>1
      <4> HIDE DEF a
      <4>2. (m + 1) * a = m * a + 1 * a /\ 1 * a = a /\ m * a \in Nat
        BY <3>1, <4>1, Products
      <4> QED
        BY ONLY <3>1, <4>2 DEF a
    <3>4. Accepted' + Reserved(l)' = Accepted + Reserved(l)
      BY <1>1, <2>3, <2>4, <3>2, <3>3
    <3> QED
      BY <1>1, <1>2, <2>2, <2>3, <2>4, <3>2, <3>3, <3>4
  <2>7. CASE ~ (worker'[l].at = "pay" /\ ~ Dedupes)
    <3>0. Made(o) > 0
      BY <1>1, <1>2, <2>2, ReservedNext
    <3> HIDE DEF m
    <3>1. Reserved(l)' = 0
      BY <1>5, <2>7, <3>0
    <3> QED
      BY <1>1, <1>2, <2>2, <2>3, <2>4, <2>5, <3>1
  <2> QED
    BY <2>6, <2>7
<1> QED
  BY <1>3, <1>4

\* Each step keeps the counter ahead.
LEMMA CountInductive ==
    ASSUME TypeInv, CountInv, [Next]_vars
    PROVE  CountInv'
<1> DEFINE F == "FAST_LANE"
           E == "EFFICIENT_LANE"
<1>0. /\ worker \in [Lanes -> Worker] /\ outflow \in Nat /\ TypeInv' /\ Lanes = {F, E}
      /\ xendit \in [Orders -> [{"PENDING", "COMPLETED", "FAILED"} -> Nat]]
      /\ \A q \in Orders : Disbursements(q) \in Nat /\ Amount[q] \in Nat
  BY TypeInductive, ConstantTypes DEF TypeInv, TypeOK, Lanes, Disbursements
<1>d. Accepted \in Nat
  BY <1>0, AcceptedMoves
<1>p. /\ PerCount \in Nat /\ \A n \in Nat : PerCount * n \in Nat
      /\ \A n \in Nat : outflow <= n => PerCount * outflow <= PerCount * n
  BY <1>0, AttemptsBounded, Products
<1>t. \A m \in Lanes : worker[m].tries \in Nat /\ worker[m].tries <= worker[m].tries
  BY <1>0 DEF Worker
<1>1. ASSUME outflow' \in Nat, outflow' >= outflow,
             \A q \in Orders : Disbursements(q)' = Disbursements(q),
             \A l \in Lanes : worker'[l].at = "pay" => /\ worker[l].at = "pay"
                                                      /\ worker'[l].cur = worker[l].cur
                                                      /\ worker[l].tries <= worker'[l].tries
      PROVE  CountInv'
  <2>1. Accepted' = Accepted
    BY <1>0, <1>1, AcceptedMoves
  <2>2. \A l \in Lanes : Reserved(l) \in Nat /\ Reserved(l)' \in Nat /\ Reserved(l)' <= Reserved(l)
    BY <1>0, <1>1, ReservedFalls
  <2>3. /\ Reserved(F) \in Nat /\ Reserved(F)' \in Nat /\ Reserved(F)' <= Reserved(F)
        /\ Reserved(E) \in Nat /\ Reserved(E)' \in Nat /\ Reserved(E)' <= Reserved(E)
    BY <1>0, <2>2
  <2> DEFINE had == PerCount * outflow
             has == PerCount * outflow'
  <2>4. had \in Nat /\ has \in Nat /\ had <= has
    BY <1>0, <1>1, <1>p
  <2>5. Accepted + Reserved(F) + Reserved(E) <= had
    BY DEF CountInv
  <2> HIDE DEF had
  <2>6. Accepted' + Reserved(F)' + Reserved(E)' <= has
    <3> HIDE DEF has
    <3> QED
      BY <1>d, <2>1, <2>3, <2>4, <2>5
  <2> QED
    BY <2>6 DEF CountInv, PerCount
<1>2. ASSUME NEW l \in Lanes, AddOutflow(l), worker[l].read + Amount[worker[l].cur] <= DAILY_LIMIT_IDR
      PROVE  CountInv'
  <2> DEFINE a == Amount[worker[l].cur]
  <2>1. /\ worker[l].at = "incr" /\ worker' = [worker EXCEPT ![l].at = "pay"]
        /\ outflow' = outflow + a /\ UNCHANGED xendit
    BY <1>2, ConstantTypes, <1>0 DEF AddOutflow, Move, At, TypeInv, WorkerBusy, Worker
  <2>2. a \in Nat
    BY <1>0, <2>1 DEF TypeInv, WorkerBusy
  <2>3. Accepted' = Accepted
    BY <1>0, <2>1, AcceptedMoves DEF Disbursements
  <2>4. Reserved(l) = 0 /\ Reserved(l)' \in Nat /\ Reserved(l)' <= PerCount * a
    <3>1. /\ worker'[l].at = "pay" /\ worker'[l].cur = worker[l].cur
          /\ worker'[l].tries = worker[l].tries
      BY <1>0, <2>1 DEF Worker
    <3>2. AttemptsLeft(l)' = AttemptsLeft(l)
      BY <3>1 DEF AttemptsLeft
    <3>3. Reserved(l)' \in {0, AttemptsLeft(l) * a}
      BY <3>1, <3>2, ReservedNext
    <3>4. Reserved(l) = 0
      BY <2>1 DEF Reserved
    <3> HIDE DEF a
    <3>5. AttemptsLeft(l) * a \in Nat /\ AttemptsLeft(l) * a <= PerCount * a
      BY <1>p, <2>2, AttemptsBounded, Products
    <3>6. PerCount * a \in Nat
      BY <1>p, <2>2
    <3> QED
      BY <3>3, <3>4, <3>5, <3>6
  <2>5. ASSUME NEW m \in Lanes, m # l
        PROVE  Reserved(m) \in Nat /\ Reserved(m)' \in Nat /\ Reserved(m)' <= Reserved(m)
    <3>1. worker'[m] = worker[m]
      BY <1>0, <2>1, <2>5
    <3>2. \A q \in Orders : Disbursements(q)' = Disbursements(q)
      BY <2>1 DEF Disbursements
    <3> QED
      BY <1>0, <1>t, <2>5, <3>1, <3>2, ReservedFalls
  <2>6. /\ PerCount * outflow' = PerCount * outflow + PerCount * a
        /\ PerCount * outflow \in Nat /\ PerCount * a \in Nat
    <3> HIDE DEF a
    <3> QED
      BY <1>0, <1>p, <2>1, <2>2, Products
  <2>7. Reserved(F) + Reserved(E) \in Nat /\ Reserved(F)' + Reserved(E)' \in Nat
        /\ Reserved(F)' + Reserved(E)' <= Reserved(F) + Reserved(E) + PerCount * a
    <3> HIDE DEF a
    <3>1. CASE l = F
      BY <1>0, <2>4, <2>5, <2>6, <3>1
    <3>2. CASE l = E
      BY <1>0, <2>4, <2>5, <2>6, <3>2
    <3> QED
      BY <1>0, <3>1, <3>2
  <2>8. Reserved(F) \in Nat /\ Reserved(E) \in Nat /\ Reserved(F)' \in Nat /\ Reserved(E)' \in Nat
    BY <1>0, <2>4, <2>5
  <2> HIDE DEF a
  <2>9. Accepted' + Reserved(F)' + Reserved(E)' <= PerCount * outflow'
    BY <1>d, <2>3, <2>6, <2>7, <2>8 DEF CountInv
  <2> QED
    BY <2>9 DEF CountInv, PerCount
<1>3. ASSUME NEW l \in Lanes, PayOk(l) \/ PayLost(l)
      PROVE  CountInv'
  <2>1. /\ worker[l].at = "pay" /\ Accept(worker[l].cur) /\ UNCHANGED outflow
        /\ \A m \in Lanes \ {l} : worker'[m] = worker[m]
        /\ worker'[l].at = "pay" => /\ "lost" \in Faults
                                    /\ worker'[l].cur = worker[l].cur
                                    /\ worker'[l].tries = worker[l].tries + 1
    <3>1. CASE PayOk(l)
      BY <3>1, <1>0 DEF PayOk, At, Worker
    <3>2. CASE PayLost(l)
      BY <3>2, <1>0 DEF PayLost, At, TryAgain, Worker
    <3> QED
      BY <1>3, <3>1, <3>2
  <2>2. /\ \A q \in Orders : Disbursements(q)' \in Nat /\ Disbursements(q)' >= Disbursements(q)
        /\ Accepted \in Nat /\ Accepted' \in Nat /\ Reserved(l) \in Nat /\ Reserved(l)' \in Nat
        /\ Accepted' + Reserved(l)' <= Accepted + Reserved(l)
    BY <1>0, <2>1, AcceptCounts
  <2>3. \A m \in Lanes \ {l} :
            Reserved(m) \in Nat /\ Reserved(m)' \in Nat /\ Reserved(m)' <= Reserved(m)
    <3>1. \A m \in Lanes : worker[m].tries <= worker[m].tries
      BY <1>0 DEF Worker
    <3> QED
      BY <1>0, <2>1, <2>2, <3>1, ReservedFalls
  <2> DEFINE had == PerCount * outflow
  <2>4. had \in Nat /\ Accepted + Reserved(F) + Reserved(E) <= had
    BY <1>0, <1>p DEF CountInv
  <2>5. PerCount' = PerCount /\ outflow' = outflow
    BY <2>1 DEF PerCount
  <2> HIDE DEF had
  <2>6. Accepted' + Reserved(F)' + Reserved(E)' <= had
    BY <1>0, <2>2, <2>3, <2>4
  <2> QED
    BY <2>5, <2>6 DEF CountInv, had
<1>4. ASSUME NEW l \in Lanes, WorkerStep(l), ~ PayOk(l), ~ PayLost(l),
             ~ (AddOutflow(l) /\ worker[l].read + Amount[worker[l].cur] <= DAILY_LIMIT_IDR)
      PROVE  CountInv'
  <2>1. UNCHANGED xendit
    BY <1>4 DEF WorkerStep, FindOrder, Batch, Requeue, NextSettlement, ReadOutflow, AddOutflow,
                PayRefused, UpdateRow, StoreFail, RecordError, RecordFail, CompleteJob, FailJob
  <2>2. outflow' \in Nat /\ outflow' >= outflow
    <3>1. CASE StoreFail(l)
      <4>1. worker[l].at = "incr" => Amount[worker[l].cur] \in Nat
        BY <1>0 DEF TypeInv, WorkerBusy
      <4> QED
        BY <3>1, <4>1, <1>0 DEF StoreFail, At
    <3>2. CASE UNCHANGED outflow
      BY <3>2, <1>0
    <3>3. AddOutflow(l) => UNCHANGED outflow
      <4>1. worker[l].at = "incr" => worker[l].read \in Nat /\ Amount[worker[l].cur] \in Nat
        BY <1>0 DEF TypeInv, WorkerBusy, Worker
      <4> QED
        BY <1>4, <4>1, ConstantTypes DEF AddOutflow, At
    <3> QED
      BY <1>4, <3>1, <3>2, <3>3
         DEF WorkerStep, FindOrder, Batch, Requeue, NextSettlement, ReadOutflow,
             PayRefused, UpdateRow, RecordError, RecordFail, CompleteJob, FailJob
  <2>3. \A m \in Lanes \ {l} : worker'[m] = worker[m]
    BY <1>0, <1>4 DEF WorkerStep, FindOrder, Batch, Requeue, NextSettlement, ReadOutflow, AddOutflow,
                PayRefused, UpdateRow, StoreFail, RecordError, RecordFail, CompleteJob, FailJob,
                Move, TryAgain
  <2>4. worker'[l].at = "pay" => /\ worker[l].at = "pay" /\ worker'[l].cur = worker[l].cur
                                 /\ worker[l].tries <= worker'[l].tries
    <3>1. CASE PayRefused(l)
      BY <3>1, <1>0 DEF PayRefused, TryAgain, At, Worker
    <3>2. CASE AddOutflow(l)
      <4>1. worker[l].at = "incr" => worker[l].read \in Nat /\ Amount[worker[l].cur] \in Nat
        BY <1>0 DEF TypeInv, WorkerBusy, Worker
      <4>2. Move(l, "record")
        BY <1>4, <3>2, <4>1, ConstantTypes DEF AddOutflow, At
      <4> QED
        BY <4>2, <1>0 DEF Move, Worker
    <3>3. CASE FindOrder(l) \/ Batch(l) \/ Requeue(l) \/ NextSettlement(l) \/ ReadOutflow(l)
      BY <3>3, <1>0 DEF FindOrder, Batch, Requeue, NextSettlement, ReadOutflow, Move, Worker
    <3>4. CASE UpdateRow(l) \/ StoreFail(l) \/ RecordError(l) \/ RecordFail(l) \/ CompleteJob(l)
               \/ FailJob(l)
      BY <3>4, <1>0 DEF UpdateRow, StoreFail, RecordError, RecordFail, CompleteJob, FailJob,
                        Move, Worker, Idle
    <3> QED
      BY <1>4, <3>1, <3>2, <3>3, <3>4 DEF WorkerStep
  <2>5. \A q \in Orders : Disbursements(q)' = Disbursements(q)
    BY <2>1 DEF Disbursements
  <2>6. \A m \in Lanes : worker'[m].at = "pay" => /\ worker[m].at = "pay"
                                                  /\ worker'[m].cur = worker[m].cur
                                                  /\ worker[m].tries <= worker'[m].tries
    BY <1>4, <1>t, <2>3, <2>4
  <2> QED
    BY <1>1, <2>2, <2>5, <2>6
<1>5. ASSUME NEW o \in Orders, NEW s \in {"COMPLETED", "FAILED"}, XenditEnds(o, s)
      PROVE  CountInv'
  <2>1. /\ UNCHANGED <<worker, outflow>>
        /\ xendit' = [xendit EXCEPT ![o]["PENDING"] = xendit[o]["PENDING"] - 1,
                                    ![o][s] = xendit[o][s] + 1]
    BY <1>5 DEF XenditEnds
  <2>2. \A q \in Orders : Disbursements(q)' = Disbursements(q)
    <3>1. xendit[o] \in [{"PENDING", "COMPLETED", "FAILED"} -> Int]
      BY <1>0
    <3>2. \A q \in Orders \ {o} : xendit'[q] = xendit[q]
      BY <1>0, <2>1
    <3>3. Disbursements(o)' = Disbursements(o)
      BY <1>0, <2>1, <3>1, EndsOne DEF Disbursements
    <3> QED
      BY <3>2, <3>3 DEF Disbursements
  <2> QED
    BY <1>0, <1>1, <1>t, <2>1, <2>2
<1>6. ASSUME NEW l \in Lanes, NEW j \in jobs, Take(l, j)
      PROVE  CountInv'
  <2>1. /\ UNCHANGED <<outflow, xendit>> /\ \A m \in Lanes : worker'[m].at = "pay" => worker'[m] = worker[m]
    BY <1>6, <1>0 DEF Take, Idle
  <2>2. \A q \in Orders : Disbursements(q)' = Disbursements(q)
    BY <2>1 DEF Disbursements
  <2>3. \A m \in Lanes : worker'[m].at = "pay" => /\ worker[m].at = "pay"
                                                  /\ worker'[m].cur = worker[m].cur
                                                  /\ worker[m].tries <= worker'[m].tries
    BY <1>t, <2>1
  <2> QED
    BY <1>0, <1>1, <2>1, <2>2, <2>3
<1>7. ASSUME Crash PROVE CountInv'
  <2>1. UNCHANGED <<outflow, xendit>> /\ \A m \in Lanes : worker'[m].at # "pay"
    BY <1>7 DEF Crash, Idle
  <2> QED
    BY <1>0, <1>1, <2>1 DEF Disbursements
<1>8. ASSUME UNCHANGED <<worker, outflow, xendit>> PROVE CountInv'
  BY <1>0, <1>1, <1>t, <1>8 DEF Disbursements
<1> QED
  BY <1>2, <1>3, <1>4, <1>5, <1>6, <1>7, <1>8
     DEF Next, vars, AddJob, Enqueue, CreateRow, CreateFail, Callback, Rest

\* The counter is ahead in every reachable state.
LEMMA CountInvariant == Spec => [](TypeInv /\ CountInv)
<1>1. Init => TypeInv
  BY ConstantTypes, IdleTyped
  DEF Init, TypeInv, TypeOK, WorkerBusy, Bounded, Disbursements, Row, Idle
<1>2. ASSUME Init PROVE CountInv
  <2>1. Reserved("FAST_LANE") = 0 /\ Reserved("EFFICIENT_LANE") = 0
    BY <1>2 DEF Init, Reserved, Idle, Lanes
  <2>2. \A o \in Orders : Weight[o] = 0
    <3>1. \A o \in Orders : Disbursements(o) = 0 /\ Amount[o] \in Nat
      BY <1>2, ConstantTypes DEF Init, Disbursements
    <3> QED
      BY <3>1 DEF Weight
  <2>3. PICK it : Sums(it, Weight, Orders) /\ Accepted = it[Orders]
    BY <1>1, <1>2, AcceptedIsSum
  <2>4. it[Orders] = 0
    <3> DEFINE zero == [s \in SUBSET Orders |-> 0]
               w == Weight
    <3>1. Sums(zero, [o \in Orders |-> 0], Orders)
      <4>1. ASSUME NEW s \in SUBSET Orders, s # {}
            PROVE  [o \in Orders |-> 0][AnyOf(s)] + zero[s \ {AnyOf(s)}] = 0
        BY <4>1 DEF AnyOf
      <4> QED
        BY <4>1 DEF Sums
    <3>2. \A o \in Orders : w[o] = [q \in Orders |-> 0][o]
      BY <2>2
    <3>3. Sums(it, w, Orders)
      BY <2>3
    <3> HIDE DEF zero, w
    <3>4. it[Orders] = zero[Orders]
      BY <3>1, <3>2, <3>3, AmountAssumption, SumsAgree
    <3> QED
      BY <3>4 DEF zero
  <2>5. PerCount * outflow = 0
    <3>1. outflow = 0
      BY <1>2 DEF Init
    <3>2. PerCount \in Nat
      BY ConstantTypes DEF PerCount
    <3> QED
      BY <3>1, <3>2
  <2> QED
    BY <2>1, <2>3, <2>4, <2>5 DEF CountInv
<1>3. TypeInv /\ CountInv /\ [Next]_vars => (TypeInv /\ CountInv)'
  BY TypeInductive, CountInductive
<1> QED
  BY <1>1, <1>2, <1>3, PTL DEF Spec

\* checkDailyWithdrawalLimit counts before Xendit is called: through crashes,
\* refusals, lost answers, database errors, callbacks and both lanes at work the
\* money that was accepted is at most what the attempts of one createDisbursement
\* can pay for each count; and at most the counter, where no answer is lost or
\* Xendit recognises the repetition of a call.
THEOREM OutflowNeverBehind == Spec => []OutflowCounted
<1>1. TypeInv /\ CountInv => OutflowCounted
  <2>1. ASSUME TypeInv, CountInv PROVE OutflowCounted
    <3>1. ASSUME NEW l \in Lanes PROVE Reserved(l) \in Nat
      <4>1. worker[l].at = "pay" => Amount[worker[l].cur] \in Nat
        BY <2>1, ConstantTypes DEF TypeInv, WorkerBusy
      <4>2. AttemptsLeft(l) \in Nat
        BY <2>1, AttemptsBounded
      <4> QED
        BY <4>1, <4>2, Products DEF Reserved
    <3>2. Accepted \in Nat /\ PerCount * outflow \in Nat
      <4>1. PICK it : Sums(it, Weight, Orders) /\ Accepted = it[Orders]
        BY <2>1, AcceptedIsSum
      <4>2. Weight \in [Orders -> Nat]
        BY <2>1, AcceptedIsSum
      <4>3. PerCount \in Nat /\ outflow \in Nat
        BY <2>1, ConstantTypes DEF TypeInv, TypeOK, PerCount
      <4>4. PerCount * outflow \in Nat
        BY <4>3, Products
      <4> QED
        BY <4>1, <4>2, <4>4, AmountAssumption, SumsTyped
    <3>3. Reserved("FAST_LANE") \in Nat /\ Reserved("EFFICIENT_LANE") \in Nat
      BY <3>1 DEF Lanes
    <3> QED
      BY <2>1, <3>2, <3>3 DEF CountInv, OutflowCounted
  <2> QED
    BY <2>1
<1> QED
  BY <1>1, CountInvariant, PTL

-----------------------------------------------------------------------------
(***************************************************************************)
(* The hard cap, where one worker reads and adds to the counter.           *)
(***************************************************************************)
OneLane(l) == \A o \in Orders : Track(o) = l

\* What the worker read is still in the counter when it adds.
CapInv(l) ==
    /\ \A m \in Lanes \ {l} : worker[m].at = "idle"
    /\ outflow <= DAILY_LIMIT_IDR
    /\ worker[l].at = "incr" => worker[l].read = outflow

\* Each step of the worker, a crash and a taken job keep the counter in its limit.
LEMMA CapInductive ==
    ASSUME NEW l \in Lanes, OneLane(l), TypeInv, CapInv(l), [Next]_vars
    PROVE  CapInv(l)'
<1>0. /\ worker \in [Lanes -> Worker] /\ outflow \in Nat /\ jobs \subseteq Job
      /\ DAILY_LIMIT_IDR \in Nat
  BY ConstantTypes DEF TypeInv, TypeOK
<1>1. ASSUME NEW m \in Lanes, WorkerStep(m) PROVE CapInv(l)'
  <2>1. m = l
    BY <1>1 DEF CapInv, WorkerStep, FindOrder, Batch, Requeue, NextSettlement, ReadOutflow,
                AddOutflow, PayOk, PayRefused, PayLost, UpdateRow, StoreFail, RecordError,
                RecordFail, CompleteJob, FailJob, At
  <2>2. \A k \in Lanes \ {l} : worker'[k] = worker[k]
    BY <1>0, <1>1, <2>1
       DEF WorkerStep, FindOrder, Batch, Requeue, NextSettlement, ReadOutflow, AddOutflow, PayOk,
           PayRefused, PayLost, UpdateRow, StoreFail, RecordError, RecordFail, CompleteJob,
           FailJob, Move, TryAgain
  <2>3. worker[l].at = "incr" => worker[l].read = outflow /\ Amount[worker[l].cur] \in Nat
    BY ConstantTypes DEF CapInv, TypeInv, WorkerBusy
  <2>4. outflow' <= DAILY_LIMIT_IDR
    <3>1. CASE AddOutflow(l)
      BY <1>0, <2>3, <3>1 DEF AddOutflow, At, CapInv
    <3>2. CASE StoreFail(l)
      BY <1>0, <2>3, <3>2 DEF StoreFail, At, CapInv
    <3>3. CASE UNCHANGED outflow
      BY <3>3 DEF CapInv
    <3> QED
      BY <1>1, <2>1, <3>1, <3>2, <3>3
         DEF WorkerStep, FindOrder, Batch, Requeue, NextSettlement, ReadOutflow, PayOk, PayRefused,
             PayLost, UpdateRow, RecordError, RecordFail, CompleteJob, FailJob
  <2>5. worker'[l].at = "incr" => worker'[l].read = outflow'
    <3>1. CASE ReadOutflow(l)
      BY <1>0, <3>1 DEF ReadOutflow, Worker
    <3>2. CASE FindOrder(l) \/ Batch(l) \/ Requeue(l) \/ NextSettlement(l) \/ AddOutflow(l)
      BY <1>0, <3>2 DEF FindOrder, Batch, Requeue, NextSettlement, AddOutflow, Move, Worker
    <3>3. CASE PayOk(l) \/ PayRefused(l) \/ PayLost(l) \/ UpdateRow(l)
      BY <1>0, <3>3 DEF PayOk, PayRefused, PayLost, UpdateRow, At, TryAgain, Worker
    <3>4. CASE StoreFail(l) \/ RecordError(l) \/ RecordFail(l) \/ CompleteJob(l) \/ FailJob(l)
      BY <1>0, <3>4 DEF StoreFail, RecordError, RecordFail, CompleteJob, FailJob, Move, Idle, Worker
    <3> QED
      BY <1>1, <2>1, <3>1, <3>2, <3>3, <3>4 DEF WorkerStep
  <2> QED
    BY <2>2, <2>4, <2>5 DEF CapInv
<1>2. ASSUME NEW m \in Lanes, NEW j \in jobs, Take(m, j) PROVE CapInv(l)'
  <2>1. m = l
    BY <1>0, <1>2 DEF Take, OneLane, Job
  <2> QED
    BY <1>0, <1>2, <2>1 DEF Take, Idle, CapInv
<1>3. ASSUME Crash PROVE CapInv(l)'
  BY <1>3 DEF Crash, Idle, CapInv
<1>4. ASSUME UNCHANGED <<worker, outflow>> PROVE CapInv(l)'
  BY <1>4 DEF CapInv
<1> QED
  BY <1>1, <1>2, <1>3, <1>4
     DEF Next, vars, AddJob, Enqueue, CreateRow, CreateFail, XenditEnds, Callback, Rest

\* Where all orders are of one lane the "hard cap" of checkDailyWithdrawalLimit
\* holds: the read and the increment, two calls to Redis, have no other worker
\* between them, and the money accepted is never ahead of the counter.
THEOREM OneLaneHardCap ==
    ASSUME NEW l \in Lanes, OneLane(l), NoSecondPayment PROVE Spec => []HardCap
<1>1. Init => TypeInv /\ CapInv(l)
  <2>1. Init => TypeInv
    BY ConstantTypes, IdleTyped
    DEF Init, TypeInv, TypeOK, WorkerBusy, Bounded, Disbursements, Row, Idle
  <2>2. Init => CapInv(l)
    BY ConstantTypes DEF Init, Idle, CapInv
  <2> QED
    BY <2>1, <2>2
<1>2. TypeInv /\ CapInv(l) /\ [Next]_vars => (TypeInv /\ CapInv(l))'
  BY TypeInductive, CapInductive
<1>3. Spec => [](TypeInv /\ CapInv(l))
  BY <1>1, <1>2, PTL DEF Spec
<1>4. TypeInv /\ CapInv(l) /\ OutflowCounted => HardCap
  <2> SUFFICES ASSUME TypeInv, CapInv(l), OutflowCounted PROVE HardCap
    OBVIOUS
  <2>1. Accepted \in Nat
    <3>1. PICK it : Sums(it, Weight, Orders) /\ Accepted = it[Orders]
      BY AcceptedIsSum
    <3>2. Weight \in [Orders -> Nat]
      BY AcceptedIsSum
    <3> QED
      BY <3>1, <3>2, AmountAssumption, SumsTyped
  <2> QED
    BY <2>1, ConstantTypes
    DEF TypeInv, TypeOK, CapInv, OutflowCounted, HardCap, PerCount, NoSecondPayment
<1> QED
  <2>1. Spec => []OutflowCounted
    BY OutflowNeverBehind
  <2> QED
    BY <1>3, <1>4, <2>1, PTL

-----------------------------------------------------------------------------
(***************************************************************************)
(* Totals over the orders.                                                 *)
(***************************************************************************)
Total(w) == MapThenSumSet(LAMBDA o : w[o], Orders)

\* A total is one of the sums of SumsProofs.
LEMMA TotalIsSum ==
    ASSUME NEW w \in [Orders -> Nat]
    PROVE  \E it : Sums(it, w, Orders) /\ Total(w) = it[Orders]
<1> DEFINE F(it) == [s \in SUBSET Orders |->
                        IF s = {} THEN 0
                        ELSE LET x == CHOOSE x \in s : TRUE
                             IN w[x] + it[s \ {x}]]
           sum == CHOOSE it : it = F(it)
<1>2. Total(w) = sum[Orders]
  BY DEF Total, MapThenSumSet, MapThenFoldSet
<1>3. ASSUME NEW it PROVE Sums(it, w, Orders) <=> it = F(it)
  BY DEF Sums, AnyOf
<1>4. PICK it : Sums(it, w, Orders)
  BY AmountAssumption, SumsExist
<1> HIDE DEF F
<1>5. sum = F(sum)
  BY <1>3, <1>4
<1>6. Sums(sum, w, Orders)
  BY <1>3, <1>5
<1> QED
  BY <1>2, <1>6

\* Totals of equal terms are equal; of terms that are no smaller, no smaller; and
\* a term that was zero adds to a total.
LEMMA TotalMoves ==
    ASSUME NEW w \in [Orders -> Nat], NEW v \in [Orders -> Nat]
    PROVE  /\ Total(w) \in Nat
           /\ (\A q \in Orders : w[q] = v[q]) => Total(w) = Total(v)
           /\ (\A q \in Orders : w[q] <= v[q]) => Total(w) <= Total(v)
           /\ \A o \in Orders : w[o] = 0 /\ (\A q \in Orders \ {o} : v[q] = w[q])
                                    => Total(v) = Total(w) + v[o]
<1>1. PICK it : Sums(it, w, Orders) /\ Total(w) = it[Orders]
  BY TotalIsSum
<1>2. PICK jt : Sums(jt, v, Orders) /\ Total(v) = jt[Orders]
  BY TotalIsSum
<1>3. IsFiniteSet(Orders)
  BY AmountAssumption
<1>4. it[Orders] \in Nat /\ jt[Orders] \in Nat
  BY <1>1, <1>2, <1>3, SumsTyped
<1>5. (\A q \in Orders : w[q] <= v[q]) => it[Orders] <= jt[Orders]
  BY <1>1, <1>2, <1>3, SumsGrow
<1>6. (\A q \in Orders : w[q] = v[q]) => it[Orders] = jt[Orders]
  BY <1>1, <1>2, <1>3, SumsAgree
<1>7. ASSUME NEW o \in Orders, w[o] = 0, \A q \in Orders \ {o} : v[q] = w[q]
      PROVE  jt[Orders] = it[Orders] + v[o]
  <2>1. jt[Orders] + w[o] = it[Orders] + v[o]
    BY <1>1, <1>2, <1>3, <1>7, SumsChange
  <2> QED
    BY <1>4, <1>7, <2>1
<1> QED
  BY <1>1, <1>2, <1>4, <1>5, <1>6, <1>7

-----------------------------------------------------------------------------
(***************************************************************************)
(* Both lanes at work, on a day on which nothing fails and all orders are  *)
(* below the limit.                                                        *)
(***************************************************************************)
NothingFails == Faults \subseteq {"callback"}
BatchesValid == \A o \in Orders : Track(o) = "EFFICIENT_LANE" => o \in Disbursable
UnderLimit == Total(Amount) <= DAILY_LIMIT_IDR

\* The orders whose amount is in the counter, and their amounts.
InCounter(o) == Disbursements(o) > 0 \/ \E l \in Lanes : At(l, "pay") /\ worker[l].cur = o
CountedDue == [o \in Orders |-> IF InCounter(o) THEN Amount[o] ELSE 0]

\* An order without a row is not paid, and a COMPLETED row was.
RowsTrue ==
    \A o \in Orders :
        /\ enqueue[o] # "done" => row[o].status = "NONE"
        /\ row[o].status = "NONE" => Disbursements(o) = 0
        /\ row[o].status = "COMPLETED" => xendit[o]["COMPLETED"] > 0

\* What a batch would take is not paid: the answer to a payment is stored before
\* the next batch, as no handler of the lane fails between the two.
BatchOnce ==
    /\ worker["EFFICIENT_LANE"].at \notin {"record", "throw"}
    /\ \A o \in Orders :
           /\ Track(o) = "EFFICIENT_LANE" /\ row[o].status = "PENDING"
           /\ ~ (At("EFFICIENT_LANE", "update") /\ worker["EFFICIENT_LANE"].cur = o)
           => Disbursements(o) = 0

\* The fast lane does not look at the status; a fast order has one job, until it
\* is paid.
FastOnce ==
    /\ \A j \in jobs : Track(j.order) = "FAST_LANE" =>
           /\ enqueue[j.order] # "none" /\ Disbursements(j.order) = 0
           /\ \A k \in jobs : k.order = j.order => k = j
           /\ ~ At("FAST_LANE", "idle") => Fast.job.order # j.order
    /\ ~ At("FAST_LANE", "idle") => enqueue[Fast.job.order] # "none"
    /\ Fast.at \in {"find", "record", "throw"} => Disbursements(Fast.job.order) = 0
    /\ Fast.at \in {"next", "get", "incr", "pay", "update"} => Fast.todo \subseteq {Fast.job.order}

\* What a handler has before it belongs to its lane and is not paid, but for the
\* order whose answer it is storing.
Handles(l) ==
    /\ ~ At(l, "idle") => Track(worker[l].job.order) = l
    /\ worker[l].at \in {"next", "get", "incr", "pay", "update"} =>
           \A o \in worker[l].todo :
               /\ Track(o) = l /\ row[o].status # "NONE"
               /\ Disbursements(o) = 0 \/ (At(l, "update") /\ worker[l].cur = o)
    /\ worker[l].at \in {"get", "incr", "pay", "update"} => worker[l].cur \in worker[l].todo
    /\ At(l, "incr") => worker[l].read <= outflow
    /\ CallbackLate /\ At(l, "update") => row[worker[l].cur].status # "COMPLETED"

CalmInv ==
    /\ RowsTrue /\ BatchOnce /\ FastOnce /\ PaidOnce
    /\ \A l \in Lanes : Handles(l)
    /\ outflow <= Total(CountedDue)

\* Before the amount of an order is added it is in the counter no more than the
\* other orders', so that the limit does not stop it.
LEMMA LimitFar ==
    ASSUME UnderLimit, TypeInv, CalmInv, NEW l \in Lanes, At(l, "incr")
    PROVE  /\ worker[l].cur \in Orders /\ ~ InCounter(worker[l].cur)
           /\ worker[l].read + Amount[worker[l].cur] <= DAILY_LIMIT_IDR
<1> DEFINE o == worker[l].cur
           v == [CountedDue EXCEPT ![o] = Amount[o]]
<1>1. o \in Orders /\ worker \in [Lanes -> Worker] /\ worker[l].read \in Nat /\ outflow \in Nat
  BY DEF At, TypeInv, TypeOK, WorkerBusy, Worker
<1>2. Handles(l) /\ o \in worker[l].todo
  BY DEF CalmInv, Handles, At
<1>3. Track(o) = l /\ Disbursements(o) = 0 /\ worker[l].read <= outflow
  BY <1>2 DEF Handles, At
<1>4. ~ InCounter(o)
  <2>1. ASSUME NEW m \in Lanes, At(m, "pay"), worker[m].cur = o PROVE FALSE
    <3>1. Handles(m) /\ worker[m].at = "pay"
      BY <2>1 DEF CalmInv, At
    <3>2. Track(o) = m
      BY <2>1, <3>1 DEF Handles
    <3> QED
      BY <1>3, <2>1, <3>2 DEF At
  <2> QED
    BY <1>3, <2>1 DEF InCounter
<1>5. /\ CountedDue \in [Orders -> Nat] /\ Amount \in [Orders -> Nat]
      /\ \A q \in Orders : CountedDue[q] <= Amount[q]
  <2>1. Amount \in [Orders -> Nat]
    BY AmountAssumption
  <2> QED
    BY <2>1 DEF CountedDue
<1>6. /\ v \in [Orders -> Nat] /\ v[o] = Amount[o] /\ CountedDue[o] = 0
      /\ \A q \in Orders \ {o} : v[q] = CountedDue[q]
      /\ \A q \in Orders : v[q] <= Amount[q]
  <2>1. CountedDue[o] = 0
    BY <1>1, <1>4 DEF CountedDue
  <2>2. Amount[o] \in Nat
    BY <1>1, <1>5
  <2> HIDE DEF o
  <2> QED
    BY <1>1, <1>5, <2>1, <2>2
<1> HIDE DEF v, o
<1>7. Total(v) = Total(CountedDue) + v[o] /\ Total(CountedDue) \in Nat
  BY <1>1, <1>5, <1>6, TotalMoves
<1>8. Total(v) <= Total(Amount) /\ Total(Amount) \in Nat
  BY <1>5, <1>6, TotalMoves
<1>9. outflow + Amount[o] <= DAILY_LIMIT_IDR
  BY <1>1, <1>5, <1>6, <1>7, <1>8, ConstantTypes DEF UnderLimit, CalmInv
<1> QED
  BY <1>1, <1>3, <1>4, <1>5, <1>9, ConstantTypes DEF o

\* A handler that stands still keeps what it has before it, unless its orders are
\* paid or lose their rows, or the callback overtakes its answer.
LEMMA HandlesKept ==
    ASSUME TypeInv, TypeInv', NEW l \in Lanes, Handles(l), worker'[l] = worker[l],
           outflow' >= outflow,
           \A q \in Orders : Track(q) = l => Disbursements(q)' = Disbursements(q),
           \A q \in Orders : row[q].status # "NONE" => row'[q].status # "NONE",
           CallbackLate /\ At(l, "update") => row'[worker[l].cur].status # "COMPLETED"
    PROVE  Handles(l)'
<1>1. /\ worker \in [Lanes -> Worker] /\ worker[l].todo \subseteq Orders
      /\ worker[l].read \in Nat /\ outflow \in Nat /\ outflow' \in Nat
  BY DEF TypeInv, TypeOK, Worker
<1>2. worker[l].read <= outflow => worker'[l].read <= outflow'
  BY <1>1
<1>3. \A s : At(l, s)' <=> At(l, s)
  BY DEF At
<1>4. worker[l].at \in {"next", "get", "incr", "pay", "update"} =>
          \A o \in worker[l].todo :
              /\ Track(o) = l /\ row'[o].status # "NONE"
              /\ Disbursements(o)' = 0 \/ (At(l, "update") /\ worker[l].cur = o)
  BY <1>1 DEF Handles
<1> QED
  BY <1>2, <1>3, <1>4 DEF Handles

\* The counter stays below the same total if the same amounts are in it.
LEMMA TotalKept ==
    ASSUME TypeInv, outflow <= Total(CountedDue), outflow' = outflow,
           \A q \in Orders : InCounter(q)' <=> InCounter(q)
    PROVE  (outflow <= Total(CountedDue))'
<1> DEFINE w == CountedDue
           v == CountedDue'
<1>1. /\ w \in [Orders -> Nat] /\ v \in [Orders -> Nat]
      /\ \A q \in Orders : w[q] = v[q]
  BY ConstantTypes DEF CountedDue
<1> HIDE DEF w, v
<1>2. Total(w) = Total(v)
  BY <1>1, TotalMoves
<1>3. Total(CountedDue)' = Total(v)
  BY DEF v, Total, MapThenSumSet, MapThenFoldSet
<1> QED
  BY <1>2, <1>3 DEF w

\* A step of a handler away from its payment, which leaves rows, counter and
\* Xendit as they are.
LEMMA CalmQuiet ==
    ASSUME TypeInv, TypeInv', CalmInv, NEW l \in Lanes,
           UNCHANGED <<enqueue, row, outflow, xendit>>,
           \A m \in Lanes \ {l} : worker'[m] = worker[m],
           worker[l].at \notin {"pay", "update"}, worker'[l].at \notin {"pay", "update"},
           l = "EFFICIENT_LANE" => worker'[l].at \notin {"record", "throw"},
           FastOnce', Handles(l)'
    PROVE  CalmInv'
<1>1. \A q \in Orders : Disbursements(q)' = Disbursements(q)
  BY DEF Disbursements
<1>2. RowsTrue' /\ PaidOnce'
  BY <1>1 DEF CalmInv, RowsTrue, PaidOnce
<1>3. BatchOnce'
  <2>1. CASE l = "EFFICIENT_LANE"
    BY <1>1, <2>1 DEF CalmInv, BatchOnce, At
  <2>2. CASE l # "EFFICIENT_LANE"
    <3>1. worker'["EFFICIENT_LANE"] = worker["EFFICIENT_LANE"]
      BY <2>2 DEF Lanes
    <3> QED
      BY <1>1, <3>1 DEF CalmInv, BatchOnce, At
  <2> QED
    BY <2>1, <2>2
<1>4. ASSUME NEW m \in Lanes PROVE Handles(m)'
  <2>1. CASE m = l
    BY <2>1
  <2>2. CASE m # l
    <3>1. outflow' >= outflow
      BY DEF TypeInv, TypeOK
    <3> QED
      BY <1>1, <2>2, <3>1, HandlesKept DEF CalmInv, Handles
  <2> QED
    BY <2>1, <2>2
<1>5. \A q \in Orders : InCounter(q)' <=> InCounter(q)
  <2>1. \A m \in Lanes, q \in Orders :
            (worker'[m].at = "pay" /\ worker'[m].cur = q) <=> (worker[m].at = "pay" /\ worker[m].cur = q)
    OBVIOUS
  <2> QED
    BY <1>1, <2>1 DEF InCounter, At
<1>6. (outflow <= Total(CountedDue))'
  BY <1>5, TotalKept DEF CalmInv
<1> QED
  BY <1>2, <1>3, <1>4, <1>6 DEF CalmInv

\* What the fast lane has before it is not touched by the steps of others.
LEMMA FastOnceKept ==
    ASSUME CalmInv, worker'["FAST_LANE"] = worker["FAST_LANE"],
           \A q \in Orders : enqueue[q] # "none" => enqueue'[q] # "none",
           \A q \in Orders : Track(q) = "FAST_LANE" => Disbursements(q)' = Disbursements(q),
           \A j \in jobs' : Track(j.order) = "FAST_LANE" => j \in jobs,
           TypeInv, TypeInv'
    PROVE  FastOnce'
<1>1. /\ jobs \subseteq Job /\ jobs' \subseteq Job
      /\ Fast.at # "idle" => Fast.job \in Job /\ Track(Fast.job.order) = "FAST_LANE"
  BY DEF CalmInv, Handles, At, TypeInv, TypeOK, WorkerBusy, Fast, Lanes
<1>2. \A j \in Job : j.order \in Orders
  BY DEF Job
<1>3. Fast' = Fast /\ (\A s : At("FAST_LANE", s)' <=> At("FAST_LANE", s))
  BY DEF Fast, At
<1>4. FastOnce
  BY DEF CalmInv
<1>5. \A j \in jobs' : Track(j.order) = "FAST_LANE" =>
          /\ enqueue'[j.order] # "none" /\ Disbursements(j.order)' = 0
          /\ \A k \in jobs' : k.order = j.order => k = j
          /\ ~ At("FAST_LANE", "idle") => Fast.job.order # j.order
  BY <1>1, <1>2, <1>4 DEF FastOnce
<1>6. ~ At("FAST_LANE", "idle") => enqueue'[Fast.job.order] # "none"
  BY <1>1, <1>2, <1>4 DEF FastOnce, At, Fast
<1>7. Fast.at \in {"find", "record", "throw"} => Disbursements(Fast.job.order)' = 0
  <2> SUFFICES ASSUME Fast.at \in {"find", "record", "throw"}
               PROVE  Disbursements(Fast.job.order)' = 0
    OBVIOUS
  <2>1. Disbursements(Fast.job.order) = 0 /\ Fast.job.order \in Orders
    BY <1>1, <1>2, <1>4 DEF FastOnce
  <2> QED
    BY <1>1, <1>3, <2>1
<1> QED
  BY <1>3, <1>4, <1>5, <1>6, <1>7 DEF FastOnce

\* A step of the producers, the callback or Xendit, at which both handlers and
\* the counter stand still and no order is paid.
LEMMA CalmOutside ==
    ASSUME TypeInv, TypeInv', CalmInv, UNCHANGED <<worker, outflow>>,
           \A q \in Orders : Disbursements(q)' = Disbursements(q),
           \A q \in Orders : row[q].status # "NONE" => row'[q].status # "NONE",
           \A l \in Lanes : CallbackLate /\ At(l, "update") =>
                                row'[worker[l].cur].status # "COMPLETED",
           \A q \in Orders : row'[q].status = "PENDING" /\ row[q].status # "PENDING" =>
                                 Disbursements(q) = 0,
           RowsTrue', FastOnce'
    PROVE  CalmInv'
<1>1. PaidOnce'
  BY DEF CalmInv, PaidOnce
<1>2. BatchOnce'
  BY DEF CalmInv, BatchOnce, At
<1>3. ASSUME NEW l \in Lanes PROVE Handles(l)'
  <2>1. outflow' >= outflow
    BY DEF TypeInv, TypeOK
  <2> QED
    BY <2>1, HandlesKept DEF CalmInv
<1>4. (outflow <= Total(CountedDue))'
  <2>1. \A q \in Orders : InCounter(q)' <=> InCounter(q)
    BY DEF InCounter, At
  <2> QED
    BY <2>1, TotalKept DEF CalmInv
<1> QED
  BY <1>1, <1>2, <1>3, <1>4 DEF CalmInv

\* The steps of enqueueSettlement.
LEMMA CalmEnqueue ==
    ASSUME TypeInv, TypeInv', CalmInv, NEW o \in Orders, AddJob(o) \/ Enqueue(o)
    PROVE  CalmInv'
<1>0. /\ enqueue \in [Orders -> {"none", "added", "done", "failed", "lost"}]
      /\ row \in [Orders -> Row] /\ jobs \subseteq Job
      /\ \A j \in Job : j.order \in Orders
  BY DEF TypeInv, TypeOK, Job
<1>1. UNCHANGED <<worker, outflow, xendit>>
  BY DEF AddJob, Enqueue, CreateRow, CreateFail
<1>2. \A q \in Orders : Disbursements(q)' = Disbursements(q)
  BY <1>1 DEF Disbursements
<1>3. RowsTrue
  BY DEF CalmInv
<1>4. CASE AddJob(o)
  <2>1. /\ enqueue[o] = "none" /\ enqueue' = [enqueue EXCEPT ![o] = "added"]
        /\ jobs' = jobs \cup {NewJob(o)} /\ row' = row /\ NewJob(o).order = o
    BY <1>4 DEF AddJob, NewJob
  <2>2. RowsTrue'
    BY <1>0, <1>1, <1>2, <1>3, <2>1 DEF RowsTrue
  <2>3. FastOnce'
    <3>1. FastOnce /\ Disbursements(o) = 0
      BY <1>3, <2>1 DEF CalmInv, RowsTrue
    <3>2. Fast' = Fast /\ (\A s : At("FAST_LANE", s)' <=> At("FAST_LANE", s))
      BY <1>1 DEF Fast, At
    <3>3. Fast.at # "idle" => Fast.job \in Job /\ Fast.job.order # o
      BY <2>1, <3>1 DEF FastOnce, At, Fast, TypeInv, WorkerBusy, Lanes
    <3>4. \A j \in jobs : Track(j.order) = "FAST_LANE" => j.order # o
      BY <2>1, <3>1 DEF FastOnce
    <3>5. \A j \in jobs' : Track(j.order) = "FAST_LANE" =>
          /\ enqueue'[j.order] # "none" /\ Disbursements(j.order)' = 0
          /\ \A k \in jobs' : k.order = j.order => k = j
          /\ ~ At("FAST_LANE", "idle") => Fast.job.order # j.order
      <4> SUFFICES ASSUME NEW j \in jobs', Track(j.order) = "FAST_LANE"
                   PROVE  /\ enqueue'[j.order] # "none" /\ Disbursements(j.order)' = 0
                          /\ \A k \in jobs' : k.order = j.order => k = j
                          /\ ~ At("FAST_LANE", "idle") => Fast.job.order # j.order
        OBVIOUS
      <4>1. CASE j = NewJob(o)
        BY <1>0, <1>2, <2>1, <3>1, <3>3, <3>4, <4>1 DEF At, Fast
      <4>2. CASE j \in jobs
        BY <1>0, <1>2, <2>1, <3>1, <3>4, <4>2 DEF FastOnce
      <4> QED
        BY <2>1, <4>1, <4>2
    <3>6. ~ At("FAST_LANE", "idle") => enqueue'[Fast.job.order] # "none"
      BY <1>0, <2>1, <3>1, <3>3 DEF FastOnce, At, Fast
    <3>7. Fast.at \in {"find", "record", "throw"} => Disbursements(Fast.job.order)' = 0
      BY <1>0, <1>2, <3>1, <3>2, <3>3 DEF FastOnce
    <3> QED
      BY <3>1, <3>2, <3>5, <3>6, <3>7 DEF FastOnce
  <2>4. \A l \in Lanes : CallbackLate /\ At(l, "update") => row'[worker[l].cur].status # "COMPLETED"
    BY <2>1 DEF CalmInv, Handles
  <2> QED
    BY <1>1, <1>2, <2>1, <2>2, <2>3, <2>4, CalmOutside
<1>5. CASE Enqueue(o)
  <2>1. /\ enqueue[o] = "added" /\ \E e \in {"done", "failed"} : enqueue' = [enqueue EXCEPT ![o] = e]
        /\ jobs' = jobs
    BY <1>5 DEF Enqueue, CreateRow, CreateFail
  <2>2. row[o].status = "NONE" /\ Disbursements(o) = 0
    BY <1>3, <2>1 DEF RowsTrue
  <2>3. \A q \in Orders \ {o} : row'[q] = row[q]
    BY <1>0, <1>5 DEF Enqueue, CreateRow, CreateFail
  <2>4. row'[o] = row[o] \/ (row'[o].status = "PENDING" /\ enqueue'[o] = "done")
    BY <1>0, <1>5 DEF Enqueue, CreateRow, CreateFail
  <2>5. RowsTrue'
    BY <1>0, <1>1, <1>2, <1>3, <2>1, <2>2, <2>3, <2>4 DEF RowsTrue
  <2>6. FastOnce'
    BY <1>0, <1>1, <1>2, <2>1, FastOnceKept
  <2>7. \A l \in Lanes : CallbackLate /\ At(l, "update") => row'[worker[l].cur].status # "COMPLETED"
    BY <2>3, <2>4 DEF CalmInv, Handles, At, TypeInv, WorkerBusy
  <2> QED
    BY <1>1, <1>2, <2>2, <2>3, <2>4, <2>5, <2>6, <2>7, CalmOutside
<1> QED
  BY <1>4, <1>5

\* Xendit ends a disbursement, and calls back.
LEMMA CalmXendit ==
    ASSUME TypeInv, TypeInv', CalmInv, NEW o \in Orders, NEW s \in {"COMPLETED", "FAILED"},
           XenditEnds(o, s) \/ Callback(o, s)
    PROVE  CalmInv'
<1>0. /\ row \in [Orders -> Row] /\ row' \in [Orders -> Row]
      /\ xendit \in [Orders -> [{"PENDING", "COMPLETED", "FAILED"} -> Nat]]
      /\ \A l \in Lanes : worker[l].at = "update" => worker[l].cur \in Orders
  BY ConstantTypes DEF TypeInv, TypeOK, WorkerBusy
<1>1. UNCHANGED <<enqueue, jobs, worker, outflow>>
  BY DEF XenditEnds, Callback
<1>2. RowsTrue
  BY DEF CalmInv
<1>3. CASE XenditEnds(o, s)
  <2> DEFINE x == [xendit[o] EXCEPT !["PENDING"] = xendit[o]["PENDING"] - 1,
                                    ![s] = xendit[o][s] + 1]
  <2>1. xendit' = [xendit EXCEPT ![o] = x] /\ row' = row
    BY <1>3 DEF XenditEnds
  <2>2. x["PENDING"] + x["COMPLETED"] + x["FAILED"] = Disbursements(o)
    <3>1. xendit[o] \in [{"PENDING", "COMPLETED", "FAILED"} -> Int]
      BY <1>0
    <3> QED
      BY <3>1, EndsOne DEF Disbursements
  <2>3. x["COMPLETED"] >= xendit[o]["COMPLETED"]
    BY <1>0
  <2> HIDE DEF x
  <2>4. \A q \in Orders : Disbursements(q)' = Disbursements(q)
    BY <1>0, <2>1, <2>2 DEF Disbursements
  <2>5. \A q \in Orders : xendit[q]["COMPLETED"] > 0 => xendit'[q]["COMPLETED"] > 0
    <3>1. xendit'[o] = x /\ \A q \in Orders \ {o} : xendit'[q] = xendit[q]
      BY <1>0, <2>1
    <3>2. x["COMPLETED"] \in Int
      BY <1>0 DEF x
    <3> QED
      BY <1>0, <2>3, <3>1, <3>2
  <2>6. RowsTrue'
    BY <1>1, <1>2, <2>1, <2>4, <2>5 DEF RowsTrue
  <2>7. FastOnce'
    BY <1>1, <2>4, FastOnceKept
  <2>8. \A l \in Lanes : CallbackLate /\ At(l, "update") => row'[worker[l].cur].status # "COMPLETED"
    BY <2>1 DEF CalmInv, Handles
  <2> QED
    BY <1>1, <2>1, <2>4, <2>6, <2>7, <2>8, CalmOutside
<1>4. CASE Callback(o, s)
  <2>1. /\ xendit' = xendit /\ xendit[o][s] > 0 /\ row[o].status # "NONE"
        /\ CallbackLate => \A l \in Lanes : worker[l].cur # o
    BY <1>4 DEF Callback
  <2>2. row'[o].status = s /\ \A q \in Orders \ {o} : row'[q] = row[q]
    BY <1>0, <1>4 DEF Callback, Row
  <2>3. \A q \in Orders : Disbursements(q)' = Disbursements(q)
    BY <2>1 DEF Disbursements
  <2>4. RowsTrue'
    BY <1>1, <1>2, <2>1, <2>2, <2>3 DEF RowsTrue
  <2>5. FastOnce'
    BY <1>1, <2>3, FastOnceKept
  <2>6. \A l \in Lanes : CallbackLate /\ At(l, "update") => row'[worker[l].cur].status # "COMPLETED"
    BY <1>0, <2>1, <2>2 DEF CalmInv, Handles, At
  <2>7. \A q \in Orders : row[q].status # "NONE" => row'[q].status # "NONE"
    BY <2>2
  <2>8. \A q \in Orders : row'[q].status = "PENDING" /\ row[q].status # "PENDING" =>
                              Disbursements(q) = 0
    BY <2>2
  <2> QED
    BY <1>1, <2>3, <2>4, <2>5, <2>6, <2>7, <2>8, CalmOutside
<1> QED
  BY <1>3, <1>4

\* A worker takes a job.
LEMMA CalmTake ==
    ASSUME TypeInv, TypeInv', CalmInv, NEW l \in Lanes, NEW j \in jobs, Take(l, j)
    PROVE  CalmInv'
<1>0. /\ worker \in [Lanes -> Worker] /\ jobs \subseteq Job /\ jobs' \subseteq jobs
  BY DEF TypeInv, TypeOK, Take
<1>1. /\ worker'[l].at = "find" /\ worker'[l].job = j /\ worker[l].at = "idle"
      /\ jobs' = jobs \ {j} /\ Track(j.order) = l /\ j \in Job
      /\ UNCHANGED <<enqueue, row, outflow, xendit>>
      /\ \A m \in Lanes \ {l} : worker'[m] = worker[m]
  BY <1>0 DEF Take, At, Idle
<1>2. \A q \in Orders : Disbursements(q)' = Disbursements(q)
  BY <1>1 DEF Disbursements
<1>3. FastOnce'
  <2>1. CASE l = "EFFICIENT_LANE"
    <3>1. worker'["FAST_LANE"] = worker["FAST_LANE"]
      BY <1>1, <2>1 DEF Lanes
    <3> QED
      BY <1>0, <1>1, <1>2, <3>1, FastOnceKept
  <2>2. CASE l = "FAST_LANE"
    <3>1. FastOnce
      BY DEF CalmInv
    <3>2. Fast'.at = "find" /\ Fast'.job = j
      BY <1>1, <2>2 DEF Fast
    <3>3. /\ enqueue[j.order] # "none" /\ Disbursements(j.order) = 0
          /\ \A k \in jobs' : k.order # j.order
      BY <1>1, <2>2, <3>1 DEF FastOnce
    <3>4. \A q \in Job : q.order \in Orders
      BY DEF Job
    <3>5. \A k \in jobs' : Track(k.order) = "FAST_LANE" =>
            /\ enqueue'[k.order] # "none" /\ Disbursements(k.order)' = 0
            /\ \A i \in jobs' : i.order = k.order => i = k
            /\ Fast'.job.order # k.order
      BY <1>0, <1>1, <1>2, <3>1, <3>2, <3>3, <3>4 DEF FastOnce
    <3>6. enqueue'[Fast'.job.order] # "none"
      BY <1>1, <3>2, <3>3
    <3>7. Disbursements(Fast.job.order)' = 0
      BY <1>1, <1>2, <3>2, <3>3, <3>4
    <3> QED
      BY <3>2, <3>5, <3>6, <3>7 DEF FastOnce
  <2> QED
    BY <2>1, <2>2 DEF Lanes
<1>4. Handles(l)'
  BY <1>1 DEF Handles, At
<1> QED
  BY <1>1, <1>3, <1>4, CalmQuiet

\* The fast handler moves on and its job is not handed back.
LEMMA FastMoved ==
    ASSUME TypeInv, CalmInv, ~ At("FAST_LANE", "idle"),
           UNCHANGED <<enqueue, jobs, xendit>>, Fast'.job = Fast.job,
           Fast'.at \in {"find", "record", "throw"} => Disbursements(Fast.job.order) = 0,
           Fast'.at \in {"next", "get", "incr", "pay", "update"} =>
               Fast'.todo \subseteq {Fast.job.order}
    PROVE  FastOnce'
<1>1. FastOnce
  BY DEF CalmInv
<1>2. \A q : Disbursements(q)' = Disbursements(q)
  BY DEF Disbursements
<1>3. \A j \in jobs' : Track(j.order) = "FAST_LANE" =>
          /\ enqueue'[j.order] # "none" /\ Disbursements(j.order)' = 0
          /\ \A k \in jobs' : k.order = j.order => k = j
          /\ Fast'.job.order # j.order
  BY <1>1, <1>2 DEF FastOnce
<1>4. enqueue'[Fast'.job.order] # "none"
  BY <1>1 DEF FastOnce
<1>5. Fast'.at \in {"find", "record", "throw"} => Disbursements(Fast.job.order)' = 0
  BY <1>2
<1> QED
  BY <1>3, <1>4, <1>5 DEF FastOnce

\* The handlers' steps before a payment: looking up what there is to pay, and
\* reading the counter.
LEMMA CalmLook ==
    ASSUME NothingFails, BatchesValid, TypeInv, TypeInv', CalmInv, NEW l \in Lanes,
           FindOrder(l) \/ Batch(l) \/ NextSettlement(l) \/ ReadOutflow(l)
    PROVE  CalmInv'
<1>0. /\ worker \in [Lanes -> Worker] /\ worker' \in [Lanes -> Worker] /\ outflow \in Nat
      /\ worker[l].job \in Job /\ worker[l].job.order \in Orders
      /\ worker[l].todo \subseteq Orders
  <2>1. worker \in [Lanes -> Worker] /\ worker' \in [Lanes -> Worker] /\ outflow \in Nat
    BY DEF TypeInv, TypeOK
  <2>2. worker[l].job \in Job
    BY DEF TypeInv, WorkerBusy, FindOrder, Batch, NextSettlement, ReadOutflow, At
  <2> QED
    BY <2>1, <2>2 DEF Worker, Job
<1>1. /\ UNCHANGED <<enqueue, jobs, row, outflow, xendit>>
      /\ \A m \in Lanes \ {l} : worker'[m] = worker[m]
  BY <1>0 DEF FindOrder, Batch, NextSettlement, ReadOutflow, Move
<1>2. Handles(l) /\ Track(worker[l].job.order) = l
  BY DEF CalmInv, Handles, FindOrder, Batch, NextSettlement, ReadOutflow, At
<1>3. \A q \in Orders : Disbursements(q)' = Disbursements(q)
  BY <1>1 DEF Disbursements
<1>4. worker'[l].job = worker[l].job /\ worker[l].at \in {"find", "next", "get"}
  BY <1>0 DEF FindOrder, Batch, NextSettlement, ReadOutflow, Move, At, Worker
<1> DEFINE Looked == /\ worker'[l].at \in {"next", "get", "incr", "record", "return"}
                     /\ l = "EFFICIENT_LANE" => worker'[l].at # "record"
                     /\ l = "FAST_LANE" =>
                            /\ worker'[l].at = "record" => Disbursements(worker[l].job.order) = 0
                            /\ worker'[l].at \in {"next", "get", "incr"} =>
                                   worker'[l].todo \subseteq {worker[l].job.order}
                     /\ worker'[l].at \in {"next", "get", "incr"} =>
                            \A o \in worker'[l].todo :
                                Track(o) = l /\ row[o].status # "NONE" /\ Disbursements(o) = 0
                     /\ worker'[l].at \in {"get", "incr"} => worker'[l].cur \in worker'[l].todo
                     /\ worker'[l].at = "incr" => worker'[l].read <= outflow
<1>5. ASSUME Looked PROVE CalmInv'
  <2>1. Handles(l)'
    <3>1. \A o \in Orders : Disbursements(o) = 0 => Disbursements(o)' = 0
      BY <1>3
    <3>2. worker'[l].todo \subseteq Orders
      BY <1>0 DEF Worker
    <3>3. worker'[l].at \in {"next", "get", "incr"} =>
              \A o \in worker'[l].todo :
                  Track(o) = l /\ row'[o].status # "NONE" /\ Disbursements(o)' = 0
      BY <1>1, <1>5, <3>1, <3>2
    <3>4. Track(worker'[l].job.order) = l
      BY <1>2, <1>4
    <3> QED
      BY <1>1, <1>5, <3>3, <3>4 DEF Handles, At
  <2>2. FastOnce'
    <3>1. CASE l = "EFFICIENT_LANE"
      <4>1. worker'["FAST_LANE"] = worker["FAST_LANE"]
        BY <1>1, <3>1 DEF Lanes
      <4> QED
        BY <1>1, <1>3, <4>1, FastOnceKept
    <3>2. CASE l = "FAST_LANE"
      BY <1>1, <1>4, <1>5, <3>2, FastMoved DEF Fast, At
    <3> QED
      BY <3>1, <3>2 DEF Lanes
  <2> QED
    BY <1>1, <1>4, <1>5, <2>1, <2>2, CalmQuiet
<1>6. ASSUME FindOrder(l) PROVE Looked
  <2>1. l = "FAST_LANE" /\ worker[l].at = "find" /\ Disbursements(worker[l].job.order) = 0
    BY <1>6 DEF FindOrder, At, CalmInv, FastOnce, Fast
  <2>2. CASE row[worker[l].job.order].status = "NONE"
    <3>1. worker' = [worker EXCEPT ![l].at = "record"]
      BY <1>6, <2>2 DEF FindOrder, Move
    <3>2. worker'[l].at = "record"
      BY ONLY <1>0, <3>1 DEF Worker
    <3> QED
      BY <2>1, <3>2
  <2>3. CASE row[worker[l].job.order].status # "NONE"
    <3>1. worker' = [worker EXCEPT ![l].at = "next", ![l].todo = {worker[l].job.order}]
      BY <1>6, <2>3 DEF FindOrder
    <3>2. worker'[l].at = "next" /\ worker'[l].todo = {worker[l].job.order}
      BY ONLY <1>0, <3>1 DEF Worker
    <3> QED
      BY <1>2, <2>1, <2>3, <3>2
  <2> QED
    BY <2>2, <2>3
<1>7. ASSUME Batch(l) PROVE Looked
  <2>1. /\ l = "EFFICIENT_LANE" /\ worker[l].at = "find" /\ worker'[l].at = "next"
        /\ worker'[l].todo = {o \in Orders : Track(o) = l /\ row[o].status = "PENDING"}
    BY <1>0, <1>7 DEF Batch, At
  <2>2. \A o \in worker'[l].todo : Disbursements(o) = 0
    BY <2>1 DEF CalmInv, BatchOnce, At
  <2> QED
    BY <2>1, <2>2
<1>8. ASSUME NextSettlement(l) PROVE Looked
  <2>1. /\ worker[l].at = "next"
        /\ \A o \in worker[l].todo :
               Track(o) = l /\ row[o].status # "NONE" /\ Disbursements(o) = 0
        /\ l = "FAST_LANE" => worker[l].todo \subseteq {worker[l].job.order}
    BY <1>2, <1>8 DEF NextSettlement, At, Handles, CalmInv, FastOnce, Fast
  <2>2. CASE worker[l].todo = {} /\ Move(l, "return")
    BY <1>0, <2>2 DEF Move
  <2>3. ASSUME NEW o \in worker[l].todo,
               worker' = [worker EXCEPT ![l].at = "get", ![l].cur = o]
        PROVE  /\ worker'[l].at = "get" /\ worker'[l].cur = o
               /\ worker'[l].todo = worker[l].todo
    BY <1>0, <2>3 DEF Worker
  <2>4. CASE worker[l].todo \ Disbursable # {} /\ Move(l, "record")
    <3>1. PICK o \in worker[l].todo : o \notin Disbursable
      BY <2>4
    <3>2. l = "FAST_LANE" /\ worker'[l].at = "record"
      BY <1>0, <2>1, <2>4, <3>1 DEF BatchesValid, Move, Lanes
    <3>3. Disbursements(worker[l].job.order) = 0
      BY <2>1, <3>1, <3>2
    <3> QED
      BY <3>2, <3>3
  <2>5. CASE \E o \in worker[l].todo \cap Disbursable :
                worker' = [worker EXCEPT ![l].at = "get", ![l].cur = o]
    <3>1. PICK o \in worker[l].todo : worker' = [worker EXCEPT ![l].at = "get", ![l].cur = o]
      BY <2>5
    <3>2. /\ worker'[l].at = "get" /\ worker'[l].cur = o
          /\ worker'[l].todo = worker[l].todo
      BY <2>3, <3>1
    <3> QED
      BY <2>1, <3>2
  <2> QED
    BY <1>8, <2>2, <2>4, <2>5 DEF NextSettlement
<1>9. ASSUME ReadOutflow(l) PROVE Looked
  <2>1. /\ worker[l].at = "get" /\ worker'[l].at = "incr" /\ worker'[l].read = outflow
        /\ worker'[l].todo = worker[l].todo /\ worker'[l].cur = worker[l].cur
    BY <1>0, <1>9 DEF ReadOutflow, At, Worker
  <2>2. /\ \A o \in worker[l].todo :
               Track(o) = l /\ row[o].status # "NONE" /\ Disbursements(o) = 0
        /\ worker[l].cur \in worker[l].todo
        /\ l = "FAST_LANE" => worker[l].todo \subseteq {worker[l].job.order}
    BY <1>2, <2>1 DEF At, Handles, CalmInv, FastOnce, Fast
  <2> QED
    BY <1>0, <2>1, <2>2
<1> QED
  BY <1>5, <1>6, <1>7, <1>8, <1>9

\* A handler ends, with its job done, added again for later or handed back.
LEMMA CalmQuit ==
    ASSUME TypeInv, TypeInv', CalmInv, NEW l \in Lanes,
           Requeue(l) \/ CompleteJob(l) \/ FailJob(l)
    PROVE  CalmInv'
<1>0. /\ worker \in [Lanes -> Worker] /\ jobs \subseteq Job /\ jobs' \subseteq Job
      /\ worker[l].job \in Job /\ worker[l].job.order \in Orders
      /\ \A j \in Job : j.order \in Orders
  <2>1. worker \in [Lanes -> Worker] /\ jobs \subseteq Job /\ jobs' \subseteq Job
    BY DEF TypeInv, TypeOK
  <2>2. worker[l].job \in Job
    BY DEF TypeInv, WorkerBusy, Requeue, CompleteJob, FailJob, At
  <2> QED
    BY <2>1, <2>2 DEF Job
<1>1. /\ UNCHANGED <<enqueue, row, outflow, xendit>>
      /\ \A m \in Lanes \ {l} : worker'[m] = worker[m]
      /\ worker[l].at \in {"find", "return", "throw"} /\ worker'[l].at \in {"idle", "return"}
  BY <1>0 DEF Requeue, CompleteJob, FailJob, Move, At, Idle, Worker
<1>2. Handles(l) /\ Track(worker[l].job.order) = l
  BY <1>1 DEF CalmInv, Handles, At
<1>3. \A q \in Orders : Disbursements(q)' = Disbursements(q)
  BY <1>1 DEF Disbursements
<1>4. Handles(l)'
  <2>1. worker'[l].at # "idle" => worker'[l].job = worker[l].job
    <3>1. Requeue(l) => worker'[l].job = worker[l].job
      BY <1>0 DEF Requeue, Move, Worker
    <3>2. CompleteJob(l) \/ FailJob(l) => worker'[l].at = "idle"
      BY <1>0 DEF CompleteJob, FailJob, Idle
    <3> QED
      BY <3>1, <3>2
  <2> QED
    BY <1>1, <1>2, <2>1 DEF Handles, At
<1>5. FastOnce'
  <2>1. CASE l = "EFFICIENT_LANE"
    <3>1. worker'["FAST_LANE"] = worker["FAST_LANE"]
      BY <1>1, <2>1 DEF Lanes
    <3>2. ~ FailJob(l)
      BY <2>1 DEF CalmInv, BatchOnce, FailJob, At
    <3>3. jobs' \subseteq jobs \cup {NewJob(worker[l].job.order)}
      BY <3>2 DEF Requeue, CompleteJob
    <3>4. NewJob(worker[l].job.order).order = worker[l].job.order
      BY DEF NewJob
    <3>5. \A j \in jobs' : Track(j.order) = "FAST_LANE" => j \in jobs
      BY <1>2, <2>1, <3>3, <3>4
    <3> QED
      BY <1>1, <1>3, <3>1, <3>5, FastOnceKept
  <2>2. CASE l = "FAST_LANE"
    <3>1. FastOnce /\ ~ Requeue(l)
      BY <2>2 DEF CalmInv, Requeue
    <3>2. Fast = worker[l] /\ Fast'.at = "idle" /\ Fast.at \in {"return", "throw"}
      BY <1>0, <2>2, <3>1 DEF CompleteJob, FailJob, Idle, Fast, At
    <3>3. ~ At("FAST_LANE", "idle") /\ At("FAST_LANE", "idle")'
      BY <3>2 DEF At, Fast
    <3>4. /\ enqueue[Fast.job.order] # "none"
          /\ \A j \in jobs : Track(j.order) = "FAST_LANE" => j.order # Fast.job.order
      BY <3>1, <3>3 DEF FastOnce
    <3>5. CASE jobs' \subseteq jobs
      <4>1. \A j \in jobs' : Track(j.order) = "FAST_LANE" =>
                /\ enqueue'[j.order] # "none" /\ Disbursements(j.order)' = 0
                /\ \A k \in jobs' : k.order = j.order => k = j
        BY <1>0, <1>1, <1>3, <3>1, <3>5 DEF FastOnce
      <4> QED
        BY <3>2, <3>3, <4>1 DEF FastOnce
    <3>6. CASE ~ (jobs' \subseteq jobs)
      <4> DEFINE again == [Fast.job EXCEPT !.failures = @ + 1]
      <4>1. jobs' = jobs \cup {again} /\ Fast.at = "throw"
        BY <3>1, <3>2, <3>6 DEF FailJob, CompleteJob, At
      <4>2. again.order = Fast.job.order
        BY <1>0, <3>2 DEF Job
      <4>3. Disbursements(Fast.job.order) = 0
        BY <3>1, <4>1 DEF FastOnce
      <4> HIDE DEF again
      <4>4. \A j \in jobs' : Track(j.order) = "FAST_LANE" =>
                /\ enqueue'[j.order] # "none" /\ Disbursements(j.order)' = 0
                /\ \A k \in jobs' : k.order = j.order => k = j
        <5> SUFFICES ASSUME NEW j \in jobs', Track(j.order) = "FAST_LANE"
                     PROVE  /\ enqueue'[j.order] # "none" /\ Disbursements(j.order)' = 0
                            /\ \A k \in jobs' : k.order = j.order => k = j
          OBVIOUS
        <5>1. CASE j = again
          <6>1. Disbursements(j.order) = 0 /\ j.order \in Orders
            BY <1>0, <4>2, <4>3, <5>1
          <6>2. Disbursements(j.order)' = 0
            BY <1>3, <6>1
          <6> QED
            BY <1>1, <3>4, <4>1, <4>2, <5>1, <6>2
        <5>2. CASE j \in jobs
          <6>1. Disbursements(j.order) = 0 /\ j.order \in Orders
            BY <1>0, <3>1, <5>2 DEF FastOnce
          <6>2. Disbursements(j.order)' = 0
            BY <1>3, <6>1
          <6> QED
            BY <1>1, <3>1, <3>4, <4>1, <4>2, <5>2, <6>2 DEF FastOnce
        <5> QED
          BY <4>1, <5>1, <5>2
      <4> QED
        BY <3>2, <3>3, <4>4 DEF FastOnce
    <3> QED
      BY <3>5, <3>6
  <2> QED
    BY <2>1, <2>2 DEF Lanes
<1> QED
  BY <1>1, <1>4, <1>5, CalmQuiet

\* The fast lane records an error: the order of the job is not paid.
LEMMA CalmError ==
    ASSUME TypeInv, TypeInv', CalmInv, NEW l \in Lanes, RecordError(l)
    PROVE  CalmInv'
<1> DEFINE o == worker[l].job.order
<1>0. /\ worker \in [Lanes -> Worker] /\ row \in [Orders -> Row] /\ row' \in [Orders -> Row]
      /\ worker[l].at = "record" /\ worker[l].job \in Job /\ o \in Orders
  <2>1. worker \in [Lanes -> Worker] /\ row \in [Orders -> Row] /\ row' \in [Orders -> Row]
    BY DEF TypeInv, TypeOK
  <2>2. worker[l].job \in Job /\ worker[l].at = "record"
    BY DEF TypeInv, WorkerBusy, RecordError, At
  <2> QED
    BY <2>1, <2>2 DEF Job
<1>1. /\ UNCHANGED <<enqueue, jobs, outflow, xendit>>
      /\ \A m \in Lanes \ {l} : worker'[m] = worker[m]
      /\ worker'[l].at = "throw" /\ worker'[l].job = worker[l].job
  BY <1>0 DEF RecordError, Move, Worker
<1>2. /\ \A q \in Orders \ {o} : row'[q] = row[q]
      /\ row[o].status = "NONE" => row'[o] = row[o]
      /\ row[o].status # "NONE" => row'[o].status \in {"PENDING", "FAILED"}
  BY <1>0 DEF RecordError, Row
<1>3. l = "FAST_LANE" /\ Track(o) = l /\ Disbursements(o) = 0
  <2>1. l = "FAST_LANE"
    BY <1>0 DEF CalmInv, BatchOnce, Lanes
  <2> QED
    BY <1>0, <2>1 DEF CalmInv, Handles, FastOnce, At, Fast
<1> HIDE DEF o
<1>4. \A q \in Orders : Disbursements(q)' = Disbursements(q)
  BY <1>1 DEF Disbursements
<1>5. RowsTrue /\ BatchOnce /\ FastOnce /\ PaidOnce
  BY DEF CalmInv
<1>6. RowsTrue' /\ PaidOnce'
  BY <1>1, <1>2, <1>4, <1>5 DEF RowsTrue, PaidOnce
<1>7. worker'["EFFICIENT_LANE"] = worker["EFFICIENT_LANE"]
  BY <1>1, <1>3 DEF Lanes
<1>8. BatchOnce'
  <2>1. \A q \in Orders : Track(q) = "EFFICIENT_LANE" => row'[q] = row[q]
    BY <1>2, <1>3
  <2> QED
    BY <1>4, <1>5, <1>7, <2>1 DEF BatchOnce, At
<1>9. FastOnce'
  BY <1>0, <1>1, <1>3, FastMoved DEF Fast, At, o
<1>10. Handles(l)'
  BY <1>1, <1>3 DEF Handles, At, o
<1>11. ASSUME NEW m \in Lanes, m # l PROVE Handles(m)'
  <2>1. Handles(m) /\ worker'[m] = worker[m] /\ outflow' >= outflow
    BY <1>1, <1>11 DEF CalmInv, TypeInv, TypeOK
  <2>2. CallbackLate /\ At(m, "update") => row'[worker[m].cur].status # "COMPLETED"
    BY <1>2, <2>1 DEF Handles, At, TypeInv, WorkerBusy
  <2>3. \A q \in Orders : row[q].status # "NONE" => row'[q].status # "NONE"
    BY <1>2
  <2> QED
    BY <1>4, <2>1, <2>2, <2>3, HandlesKept
<1>12. (outflow <= Total(CountedDue))'
  <2>1. \A m \in Lanes, q \in Orders :
            (worker'[m].at = "pay" /\ worker'[m].cur = q) <=> (worker[m].at = "pay" /\ worker[m].cur = q)
    BY <1>0, <1>1
  <2>2. \A q \in Orders : InCounter(q)' <=> InCounter(q)
    BY <1>4, <2>1 DEF InCounter, At
  <2> QED
    BY <1>1, <2>2, TotalKept DEF CalmInv
<1> QED
  BY <1>6, <1>8, <1>9, <1>10, <1>11, <1>12 DEF CalmInv

\* The counter takes the amount of an order that is not in it yet.
LEMMA CalmCount ==
    ASSUME UnderLimit, TypeInv, TypeInv', CalmInv, NEW l \in Lanes, AddOutflow(l),
           NEW o, o = worker[l].cur
    PROVE  CalmInv'
<1> DEFINE w == CountedDue
           v == CountedDue'
<1>0. /\ worker \in [Lanes -> Worker] /\ outflow \in Nat /\ o \in Orders
      /\ worker[l].at = "incr" /\ Amount[o] \in Nat
  BY ConstantTypes DEF TypeInv, TypeOK, WorkerBusy, AddOutflow, At
<1>1. ~ InCounter(o) /\ worker[l].read + Amount[o] <= DAILY_LIMIT_IDR
  BY <1>0, LimitFar DEF At
<1>2. /\ Move(l, "pay") /\ outflow' = outflow + Amount[o]
      /\ UNCHANGED <<enqueue, jobs, row, xendit>>
  <2>1. worker[l].read \in Nat /\ DAILY_LIMIT_IDR \in Nat
    BY <1>0, ConstantTypes DEF Worker
  <2> QED
    BY <1>0, <1>1, <2>1 DEF AddOutflow
<1>3. /\ worker'[l].at = "pay" /\ worker'[l].cur = o /\ worker'[l].todo = worker[l].todo
      /\ worker'[l].job = worker[l].job
      /\ \A m \in Lanes \ {l} : worker'[m] = worker[m]
  BY <1>0, <1>2 DEF Move, Worker
<1>4. \A q \in Orders : Disbursements(q)' = Disbursements(q)
  BY <1>2 DEF Disbursements
<1>5. RowsTrue /\ BatchOnce /\ FastOnce /\ PaidOnce /\ Handles(l) /\ outflow <= Total(CountedDue)
  BY DEF CalmInv
<1>6. RowsTrue' /\ PaidOnce'
  BY <1>2, <1>4, <1>5 DEF RowsTrue, PaidOnce
<1>7. BatchOnce'
  <2>1. worker'["EFFICIENT_LANE"].at \notin {"record", "throw"}
    BY <1>3, <1>5 DEF BatchOnce, Lanes
  <2>2. \A q \in Orders :
            At("EFFICIENT_LANE", "update") /\ worker["EFFICIENT_LANE"].cur = q
                => (At("EFFICIENT_LANE", "update") /\ worker["EFFICIENT_LANE"].cur = q)'
    BY <1>0, <1>3 DEF At, Lanes
  <2> QED
    BY <1>2, <1>4, <1>5, <2>1, <2>2 DEF BatchOnce
<1>8. FastOnce'
  <2>1. CASE l = "EFFICIENT_LANE"
    <3>1. worker'["FAST_LANE"] = worker["FAST_LANE"]
      BY <1>3, <2>1 DEF Lanes
    <3> QED
      BY <1>2, <1>4, <3>1, FastOnceKept
  <2>2. CASE l = "FAST_LANE"
    <3>1. worker[l].todo \subseteq {worker[l].job.order}
      BY <1>0, <1>5, <2>2 DEF FastOnce, Fast
    <3> QED
      BY <1>0, <1>2, <1>3, <2>2, <3>1, FastMoved DEF Fast, At
  <2> QED
    BY <2>1, <2>2 DEF Lanes
<1>9. Handles(l)'
  <2>1. /\ o \in worker[l].todo /\ worker[l].todo \subseteq Orders
        /\ \A q \in worker[l].todo : Track(q) = l /\ row[q].status # "NONE" /\ Disbursements(q) = 0
    BY <1>0, <1>5 DEF Handles, At, Worker
  <2>2. \A q \in worker'[l].todo : Track(q) = l /\ row'[q].status # "NONE" /\ Disbursements(q)' = 0
    BY <1>2, <1>3, <1>4, <2>1
  <2>3. Track(worker'[l].job.order) = l
    BY <1>0, <1>3, <1>5 DEF Handles, At
  <2> QED
    BY <1>3, <2>1, <2>2, <2>3 DEF Handles, At
<1>10. ASSUME NEW m \in Lanes, m # l PROVE Handles(m)'
  <2>1. Handles(m) /\ worker'[m] = worker[m] /\ outflow' >= outflow
    BY <1>0, <1>2, <1>3, <1>10 DEF CalmInv
  <2>2. CallbackLate /\ At(m, "update") => row'[worker[m].cur].status # "COMPLETED"
    BY <1>2, <2>1 DEF Handles
  <2> QED
    BY <1>2, <1>4, <2>1, <2>2, HandlesKept
<1>11. (outflow <= Total(CountedDue))'
  <2>1. InCounter(o)' /\ \A q \in Orders \ {o} : InCounter(q)' <=> InCounter(q)
    <3>1. InCounter(o)'
      BY <1>3 DEF InCounter, At
    <3>2. \A m \in Lanes, q \in Orders \ {o} :
            (worker'[m].at = "pay" /\ worker'[m].cur = q) <=> (worker[m].at = "pay" /\ worker[m].cur = q)
      BY <1>0, <1>3
    <3>3. \A q \in Orders \ {o} : InCounter(q)' <=> InCounter(q)
      BY <1>4, <3>2 DEF InCounter, At
    <3> QED
      BY <3>1, <3>3
  <2>2. /\ w \in [Orders -> Nat] /\ v \in [Orders -> Nat]
        /\ w[o] = 0 /\ v[o] = Amount[o] /\ \A q \in Orders \ {o} : v[q] = w[q]
    BY <1>0, <1>1, <2>1, ConstantTypes DEF CountedDue
  <2>3. Total(CountedDue)' = Total(v)
    BY DEF v, Total, MapThenSumSet, MapThenFoldSet
  <2>4. outflow <= Total(w)
    BY <1>5 DEF w
  <2> HIDE DEF w, v
  <2>5. Total(v) = Total(w) + v[o] /\ Total(w) \in Nat
    BY <1>0, <2>2, TotalMoves
  <2> QED
    BY <1>0, <1>2, <2>2, <2>3, <2>4, <2>5
<1> QED
  BY <1>6, <1>7, <1>8, <1>9, <1>10, <1>11 DEF CalmInv

\* A payment is the first of its order.
LEMMA CalmPays ==
    ASSUME TypeInv, TypeInv', CalmInv, NEW l \in Lanes, PayOk(l), NEW o, o = worker[l].cur
    PROVE  /\ o \in Orders /\ Track(o) = l /\ row[o].status # "NONE" /\ o \in worker[l].todo
           /\ Disbursements(o) = 0 /\ Disbursements(o)' = 1
           /\ \A q \in Orders \ {o} : Disbursements(q)' = Disbursements(q)
           /\ \A q \in Orders : xendit'[q]["COMPLETED"] = xendit[q]["COMPLETED"]
           /\ row[o].status # "COMPLETED"
<1>1. worker[l].at = "pay" /\ o \in Orders /\ Accept(o)
  BY DEF TypeInv, WorkerBusy, PayOk, At
<1>2. /\ Track(o) = l /\ row[o].status # "NONE" /\ o \in worker[l].todo /\ Disbursements(o) = 0
  BY <1>1 DEF CalmInv, Handles, At
<1>3. /\ \A q \in Orders : Disbursements(q)' = IF q = o THEN 1 ELSE Disbursements(q)
      /\ \A q \in Orders \ {o} : xendit'[q] = xendit[q]
      /\ xendit[o]["COMPLETED"] = 0 /\ xendit'[o]["COMPLETED"] = 0
  BY <1>1, <1>2, FirstPayment
<1>4. row[o].status # "COMPLETED"
  BY <1>1, <1>3 DEF CalmInv, RowsTrue
<1> QED
  BY <1>1, <1>2, <1>3, <1>4

\* Xendit accepts a payment.
LEMMA CalmAccepted ==
    ASSUME TypeInv, TypeInv', CalmInv, NEW l \in Lanes, PayOk(l)
    PROVE  CalmInv'
<1>1. PICK o : o = worker[l].cur
  OBVIOUS
<1>2. /\ o \in Orders /\ Track(o) = l /\ row[o].status # "NONE" /\ o \in worker[l].todo
      /\ Disbursements(o) = 0 /\ Disbursements(o)' = 1
      /\ \A q \in Orders \ {o} : Disbursements(q)' = Disbursements(q)
      /\ \A q \in Orders : xendit'[q]["COMPLETED"] = xendit[q]["COMPLETED"]
      /\ row[o].status # "COMPLETED"
  BY <1>1, CalmPays
<1>3. /\ worker \in [Lanes -> Worker] /\ outflow \in Nat /\ worker[l].at = "pay"
      /\ UNCHANGED <<enqueue, jobs, row, outflow>>
  BY DEF TypeInv, TypeOK, PayOk, At
<1>4. /\ worker'[l].at = "update" /\ worker'[l].cur = o /\ worker'[l].todo = worker[l].todo
      /\ worker'[l].job = worker[l].job
      /\ \A m \in Lanes \ {l} : worker'[m] = worker[m]
  BY <1>1, <1>3 DEF PayOk, Worker
<1>5. RowsTrue /\ BatchOnce /\ FastOnce /\ PaidOnce /\ Handles(l)
  BY DEF CalmInv
<1>6. RowsTrue' /\ PaidOnce'
  <2>1. RowsTrue'
    BY <1>2, <1>3, <1>5 DEF RowsTrue
  <2>2. PaidOnce'
    BY <1>2, <1>5 DEF PaidOnce
  <2> QED
    BY <2>1, <2>2
<1>7. BatchOnce'
  <2>1. worker'["EFFICIENT_LANE"].at \notin {"record", "throw"}
    BY <1>4, <1>5 DEF BatchOnce, Lanes
  <2>2. \A q \in Orders \ {o} :
            At("EFFICIENT_LANE", "update") /\ worker["EFFICIENT_LANE"].cur = q
                => (At("EFFICIENT_LANE", "update") /\ worker["EFFICIENT_LANE"].cur = q)'
    BY <1>3, <1>4 DEF At, Lanes
  <2>3. Track(o) = "EFFICIENT_LANE"
            => (At("EFFICIENT_LANE", "update") /\ worker["EFFICIENT_LANE"].cur = o)'
    BY <1>2, <1>4 DEF At
  <2> QED
    BY <1>2, <1>3, <1>5, <2>1, <2>2, <2>3 DEF BatchOnce
<1>8. FastOnce'
  <2>1. CASE l = "EFFICIENT_LANE"
    <3>1. worker'["FAST_LANE"] = worker["FAST_LANE"]
      BY <1>4, <2>1 DEF Lanes
    <3>2. \A q \in Orders : Track(q) = "FAST_LANE" => Disbursements(q)' = Disbursements(q)
      BY <1>2, <2>1
    <3> QED
      BY <1>3, <3>1, <3>2, FastOnceKept
  <2>2. CASE l = "FAST_LANE"
    <3>1. Fast = worker[l] /\ Fast' = worker'[l]
      BY <2>2 DEF Fast
    <3>2. ~ At("FAST_LANE", "idle") /\ ~ At("FAST_LANE", "idle")'
      BY <1>3, <1>4, <2>2 DEF At
    <3>3. /\ worker[l].todo \subseteq {worker[l].job.order}
          /\ enqueue[worker[l].job.order] # "none"
          /\ \A j \in jobs : Track(j.order) = "FAST_LANE" => worker[l].job.order # j.order
      BY <1>3, <1>5, <3>1, <3>2 DEF FastOnce
    <3>4. o = worker[l].job.order
      BY <1>2, <3>3
    <3>5. \A j \in jobs : j.order \in Orders
      BY DEF TypeInv, TypeOK, Job
    <3>6. \A j \in jobs' : Track(j.order) = "FAST_LANE" =>
              /\ enqueue'[j.order] # "none" /\ Disbursements(j.order)' = 0
              /\ \A k \in jobs' : k.order = j.order => k = j
              /\ worker'[l].job.order # j.order
      <4> SUFFICES ASSUME NEW j \in jobs, Track(j.order) = "FAST_LANE"
                   PROVE  /\ enqueue[j.order] # "none" /\ Disbursements(j.order)' = 0
                          /\ \A k \in jobs : k.order = j.order => k = j
                          /\ worker[l].job.order # j.order
        BY <1>3, <1>4
      <4>1. /\ enqueue[j.order] # "none" /\ Disbursements(j.order) = 0
            /\ \A k \in jobs : k.order = j.order => k = j
        BY <1>5 DEF FastOnce
      <4>2. j.order \in Orders \ {o}
        BY <3>3, <3>4, <3>5
      <4> QED
        BY <1>2, <3>3, <4>1, <4>2
    <3> QED
      BY <1>3, <1>4, <3>1, <3>2, <3>3, <3>6 DEF FastOnce
  <2> QED
    BY <2>1, <2>2 DEF Lanes
<1>9. Handles(l)'
  <2>1. /\ worker[l].todo \subseteq Orders
        /\ \A q \in worker[l].todo : Track(q) = l /\ row[q].status # "NONE" /\ Disbursements(q) = 0
    BY <1>3, <1>5 DEF Handles, At, Worker
  <2>2. \A q \in worker'[l].todo : /\ Track(q) = l /\ row'[q].status # "NONE"
                                   /\ Disbursements(q)' = 0 \/ q = o
    BY <1>2, <1>3, <1>4, <2>1
  <2>3. Track(worker'[l].job.order) = l
    BY <1>3, <1>4, <1>5 DEF Handles, At
  <2>4. o \in worker'[l].todo /\ row'[o].status # "COMPLETED"
    BY <1>2, <1>3, <1>4
  <2> QED
    BY <1>4, <2>2, <2>3, <2>4 DEF Handles, At
<1>10. ASSUME NEW m \in Lanes, m # l PROVE Handles(m)'
  <2>1. Handles(m) /\ worker'[m] = worker[m] /\ outflow' >= outflow
    BY <1>3, <1>4, <1>10 DEF CalmInv
  <2>2. CallbackLate /\ At(m, "update") => row'[worker[m].cur].status # "COMPLETED"
    BY <1>3, <2>1 DEF Handles
  <2>3. \A q \in Orders : Track(q) = m => Disbursements(q)' = Disbursements(q)
    BY <1>2, <1>10
  <2> QED
    BY <1>3, <2>1, <2>2, <2>3, HandlesKept
<1>11. (outflow <= Total(CountedDue))'
  <2>1. InCounter(o)' /\ InCounter(o)
    BY <1>1, <1>2, <1>3 DEF InCounter, At
  <2>2. \A m \in Lanes, q \in Orders \ {o} :
            (worker'[m].at = "pay" /\ worker'[m].cur = q) <=> (worker[m].at = "pay" /\ worker[m].cur = q)
    BY <1>1, <1>3, <1>4
  <2>3. \A q \in Orders \ {o} : InCounter(q)' <=> InCounter(q)
    BY <1>2, <2>2 DEF InCounter, At
  <2> QED
    BY <1>3, <2>1, <2>3, TotalKept DEF CalmInv
<1> QED
  BY <1>6, <1>7, <1>8, <1>9, <1>10, <1>11 DEF CalmInv

\* The answer is stored.
LEMMA CalmStored ==
    ASSUME TypeInv, TypeInv', CalmInv, NEW l \in Lanes, UpdateRow(l)
    PROVE  CalmInv'
<1>1. PICK o : o = worker[l].cur
  OBVIOUS
<1>2. /\ worker \in [Lanes -> Worker] /\ row \in [Orders -> Row] /\ outflow \in Nat
      /\ worker[l].at = "update" /\ o \in Orders
      /\ UNCHANGED <<enqueue, jobs, outflow, xendit>>
  BY <1>1 DEF TypeInv, TypeOK, WorkerBusy, UpdateRow, At
<1>3. /\ worker'[l].at = "next" /\ worker'[l].todo = worker[l].todo \ {o}
      /\ worker'[l].job = worker[l].job
      /\ \A m \in Lanes \ {l} : worker'[m] = worker[m]
  BY <1>1, <1>2 DEF UpdateRow, Worker
<1>4. row'[o].status = "PROCESSING" /\ \A q \in Orders \ {o} : row'[q] = row[q]
  BY <1>1, <1>2 DEF UpdateRow
<1>5. RowsTrue /\ BatchOnce /\ FastOnce /\ PaidOnce /\ Handles(l)
  BY DEF CalmInv
<1>6. Track(o) = l /\ row[o].status # "NONE" /\ o \in worker[l].todo
  BY <1>1, <1>2, <1>5 DEF Handles, At
<1>7. \A q \in Orders : Disbursements(q)' = Disbursements(q)
  BY <1>2 DEF Disbursements
<1>8. RowsTrue' /\ PaidOnce'
  BY <1>2, <1>4, <1>5, <1>6, <1>7 DEF RowsTrue, PaidOnce
<1>9. BatchOnce'
  <2>1. worker'["EFFICIENT_LANE"].at \notin {"record", "throw"}
    BY <1>3, <1>5 DEF BatchOnce, Lanes
  <2>2. \A q \in Orders \ {o} :
            At("EFFICIENT_LANE", "update") /\ worker["EFFICIENT_LANE"].cur = q
                => (At("EFFICIENT_LANE", "update") /\ worker["EFFICIENT_LANE"].cur = q)'
    BY <1>1, <1>3 DEF At, Lanes
  <2> QED
    BY <1>2, <1>4, <1>5, <1>7, <2>1, <2>2 DEF BatchOnce
<1>10. FastOnce'
  <2>1. CASE l = "EFFICIENT_LANE"
    <3>1. worker'["FAST_LANE"] = worker["FAST_LANE"]
      BY <1>3, <2>1 DEF Lanes
    <3> QED
      BY <1>2, <1>7, <3>1, FastOnceKept
  <2>2. CASE l = "FAST_LANE"
    <3>1. worker[l].todo \subseteq {worker[l].job.order}
      BY <1>2, <1>5, <2>2 DEF FastOnce, Fast
    <3> QED
      BY <1>2, <1>3, <2>2, <3>1, FastMoved DEF Fast, At
  <2> QED
    BY <2>1, <2>2 DEF Lanes
<1>11. Handles(l)'
  <2>1. /\ worker[l].todo \subseteq Orders
        /\ \A q \in worker[l].todo \ {o} :
               Track(q) = l /\ row[q].status # "NONE" /\ Disbursements(q) = 0
    BY <1>1, <1>2, <1>5 DEF Handles, At, Worker
  <2>2. \A q \in worker'[l].todo : Track(q) = l /\ row'[q].status # "NONE" /\ Disbursements(q)' = 0
    BY <1>3, <1>4, <1>7, <2>1
  <2>3. Track(worker'[l].job.order) = l
    BY <1>2, <1>3, <1>5 DEF Handles, At
  <2> QED
    BY <1>3, <2>2, <2>3 DEF Handles, At
<1>12. ASSUME NEW m \in Lanes, m # l PROVE Handles(m)'
  <2>1. Handles(m) /\ worker'[m] = worker[m] /\ outflow' >= outflow
    BY <1>2, <1>3, <1>12 DEF CalmInv
  <2>2. CallbackLate /\ At(m, "update") => row'[worker[m].cur].status # "COMPLETED"
    BY <1>4, <2>1 DEF Handles, At, TypeInv, WorkerBusy
  <2>3. \A q \in Orders : row[q].status # "NONE" => row'[q].status # "NONE"
    BY <1>4
  <2> QED
    BY <1>7, <2>1, <2>2, <2>3, HandlesKept
<1>13. (outflow <= Total(CountedDue))'
  <2>1. \A m \in Lanes, q \in Orders :
            (worker'[m].at = "pay" /\ worker'[m].cur = q) <=> (worker[m].at = "pay" /\ worker[m].cur = q)
    BY <1>2, <1>3
  <2>2. \A q \in Orders : InCounter(q)' <=> InCounter(q)
    BY <1>7, <2>1 DEF InCounter, At
  <2> QED
    BY <1>2, <2>2, TotalKept DEF CalmInv
<1> QED
  BY <1>8, <1>9, <1>10, <1>11, <1>12, <1>13 DEF CalmInv

\* Every step of a calm day keeps CalmInv.
LEMMA CalmInductive ==
    ASSUME NothingFails, BatchesValid, UnderLimit, TypeInv, CalmInv, [Next]_vars
    PROVE  CalmInv'
<1>0. TypeInv'
  BY TypeInductive
<1>1. ASSUME NEW o \in Orders, AddJob(o) \/ Enqueue(o) PROVE CalmInv'
  BY <1>0, <1>1, CalmEnqueue
<1>2. ASSUME NEW l \in Lanes, WorkerStep(l) PROVE CalmInv'
  <2>1. ~ PayRefused(l) /\ ~ PayLost(l) /\ ~ StoreFail(l) /\ ~ RecordFail(l)
    BY DEF NothingFails, PayRefused, PayLost, StoreFail, RecordFail
  <2>2. CASE FindOrder(l) \/ Batch(l) \/ NextSettlement(l) \/ ReadOutflow(l)
    BY <1>0, <2>2, CalmLook
  <2>3. CASE Requeue(l) \/ CompleteJob(l) \/ FailJob(l)
    BY <1>0, <2>3, CalmQuit
  <2>4. CASE AddOutflow(l)
    <3>1. PICK o : o = worker[l].cur
      OBVIOUS
    <3> QED
      BY <1>0, <2>4, <3>1, CalmCount
  <2>5. CASE PayOk(l)
    BY <1>0, <2>5, CalmAccepted
  <2>6. CASE UpdateRow(l)
    BY <1>0, <2>6, CalmStored
  <2>7. CASE RecordError(l)
    BY <1>0, <2>7, CalmError
  <2> QED
    BY <1>2, <2>1, <2>2, <2>3, <2>4, <2>5, <2>6, <2>7 DEF WorkerStep
<1>3. ASSUME NEW l \in Lanes, NEW j \in jobs, Take(l, j) PROVE CalmInv'
  BY <1>0, <1>3, CalmTake
<1>4. ASSUME NEW o \in Orders, NEW s \in {"COMPLETED", "FAILED"}, XenditEnds(o, s) \/ Callback(o, s)
      PROVE  CalmInv'
  BY <1>0, <1>4, CalmXendit
<1>5. ~ Crash
  BY DEF NothingFails, Crash
<1>6. CASE UNCHANGED vars
  <2>1. UNCHANGED <<enqueue, jobs, worker, row, outflow, xendit>>
    BY <1>6 DEF vars
  <2>2. \A q \in Orders : Disbursements(q)' = Disbursements(q)
    BY <2>1 DEF Disbursements
  <2>3. RowsTrue'
    BY <2>1, <2>2 DEF CalmInv, RowsTrue
  <2>4. FastOnce'
    BY <1>0, <2>1, <2>2, FastOnceKept
  <2>5. \A l \in Lanes : CallbackLate /\ At(l, "update") => row'[worker[l].cur].status # "COMPLETED"
    BY <2>1 DEF CalmInv, Handles
  <2> QED
    BY <1>0, <2>1, <2>2, <2>3, <2>4, <2>5, CalmOutside
<1> QED
  BY <1>1, <1>2, <1>3, <1>4, <1>5, <1>6 DEF Next, Rest

\* CalmInv holds in every reachable state of a calm day.
LEMMA CalmInvariant ==
    ASSUME NothingFails, BatchesValid, UnderLimit PROVE Spec => [](TypeInv /\ CalmInv)
<1>1. Init => TypeInv
  BY ConstantTypes, IdleTyped
  DEF Init, TypeInv, TypeOK, WorkerBusy, Bounded, Disbursements, Row, Idle
<1>2. Init => CalmInv
  <2> SUFFICES ASSUME Init PROVE CalmInv
    OBVIOUS
  <2>1. \A o \in Orders : Disbursements(o) = 0 /\ row[o].status = "NONE"
    BY DEF Init, Disbursements
  <2>2. jobs = {} /\ outflow = 0 /\ \A l \in Lanes : worker[l].at = "idle"
    BY DEF Init, Idle
  <2>3. RowsTrue /\ PaidOnce /\ BatchOnce /\ \A l \in Lanes : Handles(l)
    BY <2>1, <2>2 DEF RowsTrue, PaidOnce, BatchOnce, Handles, At, Lanes
  <2>4. FastOnce
    BY <2>2 DEF FastOnce, At, Fast, Lanes
  <2>5. outflow <= Total(CountedDue)
    <3> DEFINE w == CountedDue
    <3>1. w \in [Orders -> Nat]
      BY ConstantTypes DEF CountedDue
    <3> HIDE DEF w
    <3>2. Total(w) \in Nat
      BY <3>1, TotalMoves
    <3> QED
      BY <2>2, <3>2 DEF w
  <2> QED
    BY <2>3, <2>4, <2>5 DEF CalmInv
<1>3. TypeInv /\ CalmInv /\ [Next]_vars => (TypeInv /\ CalmInv)'
  BY TypeInductive, CalmInductive
<1> QED
  BY <1>1, <1>2, <1>3, PTL DEF Spec

\* On a day on which nothing fails and the orders fit in the limit, whatever the
\* two workers, requeues and batches of other orders interleave, Xendit is asked
\* for an order once.
THEOREM CalmPaidOnce ==
    ASSUME NothingFails, BatchesValid, UnderLimit PROVE Spec => []PaidOnce
<1>1. TypeInv /\ CalmInv => PaidOnce
  BY DEF CalmInv
<1> QED
  BY <1>1, CalmInvariant, PTL

\* On such a day a settlement Xendit reported as completed stays completed in
\* both lanes, if the callback waits for the answer to be stored.
THEOREM CalmCompletedStays ==
    ASSUME NothingFails, BatchesValid, UnderLimit, CallbackLate PROVE Spec => CompletedStays
<1> DEFINE Kept == \A o \in Orders : row[o].status = "COMPLETED" => row'[o].status = "COMPLETED"
<1>1. ASSUME TypeInv, CalmInv, [Next]_vars PROVE [Kept]_vars
  <2> SUFFICES ASSUME NEW o \in Orders, row[o].status = "COMPLETED"
               PROVE  row'[o].status = "COMPLETED"
    OBVIOUS
  <2>0. /\ row \in [Orders -> Row]
        /\ xendit \in [Orders -> [{"PENDING", "COMPLETED", "FAILED"} -> Nat]]
    BY <1>1, ConstantTypes DEF TypeInv, TypeOK
  <2>1. /\ enqueue[o] = "done" /\ xendit[o]["COMPLETED"] > 0
        /\ xendit[o]["FAILED"] = 0 /\ Disbursements(o) # 0
    <3>1. enqueue[o] = "done" /\ xendit[o]["COMPLETED"] > 0 /\ Disbursements(o) <= 1
      BY <1>1 DEF CalmInv, RowsTrue, PaidOnce
    <3>2. /\ xendit[o]["PENDING"] \in Nat /\ xendit[o]["COMPLETED"] \in Nat
          /\ xendit[o]["FAILED"] \in Nat
      BY <2>0
    <3>3. Disbursements(o) = xendit[o]["PENDING"] + xendit[o]["COMPLETED"] + xendit[o]["FAILED"]
      BY DEF Disbursements
    <3> QED
      BY <3>1, <3>2, <3>3
  <2>2. CASE row' = row
    BY <2>2
  <2>3. ASSUME NEW q \in Orders, CreateRow(q) PROVE row'[o] = row[o]
    BY <2>0, <2>1, <2>3 DEF CreateRow
  <2>4. ASSUME NEW l \in Lanes, UpdateRow(l) PROVE row'[o] = row[o]
    <3>1. worker[l].cur # o
      BY <1>1, <2>4 DEF CalmInv, Handles, UpdateRow, At
    <3> QED
      BY <2>0, <2>4, <3>1 DEF UpdateRow
  <2>5. ASSUME NEW l \in Lanes, RecordError(l) PROVE row'[o] = row[o]
    <3>1. l = "FAST_LANE" /\ Fast.at = "record"
      BY <1>1, <2>5 DEF CalmInv, BatchOnce, RecordError, At, Lanes, Fast
    <3>2. worker[l].job.order # o
      BY <1>1, <2>1, <3>1 DEF CalmInv, FastOnce, Fast
    <3> QED
      BY <2>0, <2>5, <3>2 DEF RecordError
  <2>6. ASSUME NEW q \in Orders, NEW s \in {"COMPLETED", "FAILED"}, Callback(q, s)
        PROVE  row'[o].status = "COMPLETED"
    <3>1. CASE q = o
      BY <2>0, <2>1, <2>6, <3>1 DEF Callback, Row
    <3>2. CASE q # o
      BY <2>0, <2>6, <3>2 DEF Callback
    <3> QED
      BY <3>1, <3>2
  <2> QED
    BY <1>1, <2>2, <2>3, <2>4, <2>5, <2>6
       DEF Next, vars, AddJob, Enqueue, CreateFail, WorkerStep, FindOrder, Batch, Requeue,
           NextSettlement, ReadOutflow, AddOutflow, PayOk, PayRefused, PayLost, StoreFail,
           RecordFail, CompleteJob, FailJob, Take, XenditEnds, Crash, Rest
<1>2. TypeInv /\ CalmInv /\ [Next]_vars => [Kept]_vars
  BY <1>1
<1> QED
  BY <1>2, CalmInvariant, PTL DEF Spec, CompletedStays

-----------------------------------------------------------------------------
(***************************************************************************)
(* Both lanes pay what is due, and what they give up is not paid later.    *)
(***************************************************************************)
\* While a fast order has work ahead, its row is not FAILED and has seen no more
\* failures than its job; the batches give nothing up.
StillToPay ==
    /\ \A o \in Orders :
           /\ enqueue[o] # "done" => row[o].attempts = 0
           /\ Track(o) = "EFFICIENT_LANE" /\ row[o].status = "FAILED" => Disbursements(o) > 0
    /\ \A j \in jobs : Track(j.order) = "FAST_LANE" => Pristine(j.order, j.failures)
    /\ MayPay => Pristine(Fast.job.order, Fast.job.failures)
    /\ Fast.at = "throw" =>
           /\ row[Fast.job.order].attempts <= Fast.job.failures + 1
           /\ row[Fast.job.order].status = "FAILED" => Fast.job.failures + 1 >= MAX_RETRIES
    /\ \A l \in Lanes : At(l, "update") => Disbursements(worker[l].cur) > 0
    /\ FailedIsUnpaid

\* So both lanes pay what is due.
LEMMA CalmPaysWhatIsDue ==
    ASSUME TypeInv, CalmInv, StillToPay PROVE PaysWhatIsDue
<1>1. \A o \in Orders : enqueue[o] = "added" => row[o].status = "NONE"
  BY DEF CalmInv, RowsTrue
<1>2. ASSUME NEW l \in Lanes, At(l, "pay")
      PROVE  /\ Disbursements(worker[l].cur) = 0
             /\ row[worker[l].cur].status \notin {"NONE", "FAILED"}
  <2>1. /\ worker[l].cur \in Orders /\ worker[l].cur \in worker[l].todo
        /\ Track(worker[l].cur) = l /\ Disbursements(worker[l].cur) = 0
        /\ row[worker[l].cur].status # "NONE"
    BY <1>2 DEF CalmInv, Handles, At, TypeInv, WorkerBusy
  <2>2. CASE l = "EFFICIENT_LANE"
    BY <2>1, <2>2 DEF StillToPay
  <2>3. CASE l = "FAST_LANE"
    <3>1. Fast = worker[l] /\ Fast.at = "pay" /\ Fast.todo \subseteq {Fast.job.order}
      BY <1>2, <2>3 DEF CalmInv, FastOnce, At, Fast
    <3>2. row[Fast.job.order].status # "FAILED"
      BY <3>1 DEF StillToPay, MayPay, Pristine
    <3> QED
      BY <2>1, <3>1, <3>2
  <2> QED
    BY <2>2, <2>3 DEF Lanes
<1>3. ASSUME NEW l \in Lanes, At(l, "update")
      PROVE  Disbursements(worker[l].cur) > 0 /\ row[worker[l].cur].status # "NONE"
  BY <1>3 DEF StillToPay, CalmInv, Handles, At
<1>4. ASSUME NEW l \in Lanes, At(l, "record")
      PROVE  /\ Disbursements(worker[l].job.order) = 0
             /\ row[worker[l].job.order].status # "FAILED"
  <2>1. Fast = worker[l] /\ Fast.at = "record"
    BY <1>4 DEF CalmInv, BatchOnce, At, Lanes, Fast
  <2> QED
    BY <2>1 DEF StillToPay, MayPay, Pristine
<1> QED
  BY <1>1, <1>2, <1>3, <1>4 DEF PaysWhatIsDue

\* A step away from rows and from Xendit.
LEMMA ToPayQuiet ==
    ASSUME StillToPay, UNCHANGED <<row, xendit>>,
           \A q \in Orders : enqueue'[q] # "done" => enqueue[q] # "done",
           \A j \in jobs' : Track(j.order) = "FAST_LANE" => Pristine(j.order, j.failures),
           MayPay' => Pristine(Fast'.job.order, Fast'.job.failures),
           Fast'.at = "throw" => Fast' = Fast,
           \A l \in Lanes : worker'[l].at = "update" => worker'[l] = worker[l]
    PROVE  StillToPay'
<1>1. \A q : Disbursements(q)' = Disbursements(q)
  BY DEF Disbursements
<1>2. \A q, n : Pristine(q, n)' <=> Pristine(q, n)
  BY <1>1 DEF Pristine
<1>3. \A q \in Orders :
          /\ enqueue'[q] # "done" => row'[q].attempts = 0
          /\ Track(q) = "EFFICIENT_LANE" /\ row'[q].status = "FAILED" => Disbursements(q)' > 0
  BY <1>1 DEF StillToPay
<1>4. \A j \in jobs' : Track(j.order) = "FAST_LANE" => Pristine(j.order, j.failures)'
  BY <1>2
<1>5. (MayPay => Pristine(Fast.job.order, Fast.job.failures))'
  BY <1>2
<1>6. Fast'.at = "throw" =>
           /\ row'[Fast'.job.order].attempts <= Fast'.job.failures + 1
           /\ row'[Fast'.job.order].status = "FAILED" => Fast'.job.failures + 1 >= MAX_RETRIES
  BY DEF StillToPay
<1>7. \A l \in Lanes : worker'[l].at = "update" => (Disbursements(worker[l].cur) > 0)'
  BY <1>1 DEF StillToPay, At
<1>8. FailedIsUnpaid'
  BY DEF StillToPay, FailedIsUnpaid
<1> QED
  BY <1>3, <1>4, <1>5, <1>6, <1>7, <1>8 DEF StillToPay, At

\* A step of the producers, the callback or Xendit.
LEMMA ToPayOutside ==
    ASSUME TypeInv, TypeInv', CalmInv, StillToPay, UNCHANGED <<worker, jobs>>,
           \A q \in Orders : Disbursements(q)' = Disbursements(q),
           \A q \in Orders : enqueue'[q] # "done" => enqueue[q] # "done",
           \A q \in Orders :
               /\ row'[q].attempts <= row[q].attempts
               /\ Disbursements(q) = 0 /\ row'[q].status = "FAILED" => row[q].status = "FAILED",
           FailedIsUnpaid'
    PROVE  StillToPay'
<1>0. /\ row \in [Orders -> Row] /\ row' \in [Orders -> Row] /\ jobs \subseteq Job
      /\ \A j \in Job : j.order \in Orders /\ j.failures \in Nat
      /\ Fast.at # "idle" => Fast.job \in Job
      /\ \A l \in Lanes : worker[l].at = "update" => worker[l].cur \in Orders
  BY DEF TypeInv, TypeOK, Job, WorkerBusy, Fast, Lanes
<1>1. \A q \in Orders : row[q].attempts \in Nat /\ row'[q].attempts \in Nat
  BY <1>0, ConstantTypes DEF Row
<1>2. \A q \in Orders : \A n \in Nat : Pristine(q, n) => Pristine(q, n)'
  BY <1>1 DEF Pristine
<1>3. Fast' = Fast /\ (MayPay' <=> MayPay)
  BY DEF Fast, MayPay
<1>4. \A q \in Orders :
          /\ enqueue'[q] # "done" => row'[q].attempts = 0
          /\ Track(q) = "EFFICIENT_LANE" /\ row'[q].status = "FAILED" => Disbursements(q)' > 0
  <2>1. \A q \in Orders : Disbursements(q) \in Nat
    BY ConstantTypes DEF TypeInv, TypeOK, Disbursements
  <2> QED
    BY <1>1, <2>1 DEF StillToPay
<1>5. \A j \in jobs' : Track(j.order) = "FAST_LANE" => Pristine(j.order, j.failures)'
  BY <1>0, <1>2 DEF StillToPay
<1>6. (MayPay => Pristine(Fast.job.order, Fast.job.failures))'
  <2>1. MayPay => Fast.at # "idle"
    BY DEF MayPay
  <2> QED
    BY <1>0, <1>2, <1>3, <2>1 DEF StillToPay
<1>7. Fast.at = "throw" =>
           /\ row'[Fast.job.order].attempts <= Fast.job.failures + 1
           /\ row'[Fast.job.order].status = "FAILED" => Fast.job.failures + 1 >= MAX_RETRIES
  BY <1>0, <1>1 DEF StillToPay, CalmInv, FastOnce
<1>8. \A l \in Lanes : worker'[l].at = "update" => (Disbursements(worker[l].cur) > 0)'
  BY <1>0 DEF StillToPay, At
<1> QED
  BY <1>3, <1>4, <1>5, <1>6, <1>7, <1>8 DEF StillToPay, At

\* The steps of the producers, of Xendit and of its callback.
LEMMA ToPayProduced ==
    ASSUME TypeInv, TypeInv', CalmInv, StillToPay,
           \/ \E o \in Orders : AddJob(o) \/ Enqueue(o)
           \/ \E o \in Orders, s \in {"COMPLETED", "FAILED"} : XenditEnds(o, s) \/ Callback(o, s)
    PROVE  StillToPay'
<1>0. /\ row \in [Orders -> Row] /\ row' \in [Orders -> Row]
      /\ enqueue \in [Orders -> {"none", "added", "done", "failed", "lost"}]
      /\ xendit \in [Orders -> [{"PENDING", "COMPLETED", "FAILED"} -> Nat]]
      /\ \A q \in Orders : row[q].attempts \in Nat /\ row'[q].attempts \in Nat
  BY ConstantTypes DEF TypeInv, TypeOK, Row
<1>1. ASSUME NEW o \in Orders, AddJob(o) PROVE StillToPay'
  <2>1. /\ enqueue[o] = "none" /\ enqueue' = [enqueue EXCEPT ![o] = "added"]
        /\ jobs' = jobs \cup {NewJob(o)} /\ UNCHANGED <<worker, row, xendit>>
    BY <1>1 DEF AddJob
  <2>2. Pristine(o, 0)
    BY <2>1 DEF CalmInv, RowsTrue, StillToPay, Pristine
  <2>3. NewJob(o).order = o /\ NewJob(o).failures = 0
    BY DEF NewJob
  <2>4. \A j \in jobs' : Track(j.order) = "FAST_LANE" => Pristine(j.order, j.failures)
    BY <2>1, <2>2, <2>3 DEF StillToPay
  <2>5. Fast' = Fast /\ (MayPay' <=> MayPay)
    BY <2>1 DEF Fast, MayPay
  <2>6. \A q \in Orders : enqueue'[q] # "done" => enqueue[q] # "done"
    BY <1>0, <2>1
  <2> QED
    BY <2>1, <2>4, <2>5, <2>6, ToPayQuiet DEF StillToPay
<1>2. ASSUME NEW o \in Orders, CreateFail(o) PROVE StillToPay'
  <2>1. /\ enqueue[o] = "added" /\ enqueue' = [enqueue EXCEPT ![o] = "failed"]
        /\ UNCHANGED <<jobs, worker, row, xendit>>
    BY <1>2 DEF CreateFail
  <2>2. Fast' = Fast /\ (MayPay' <=> MayPay)
    BY <2>1 DEF Fast, MayPay
  <2>3. \A q \in Orders : enqueue'[q] # "done" => enqueue[q] # "done"
    BY <1>0, <2>1
  <2> QED
    BY <2>1, <2>2, <2>3, ToPayQuiet DEF StillToPay
<1>3. ASSUME NEW o \in Orders, CreateRow(o) PROVE StillToPay'
  <2>1. /\ enqueue[o] = "added" /\ enqueue' = [enqueue EXCEPT ![o] = "done"]
        /\ UNCHANGED <<jobs, worker, xendit>>
        /\ row'[o].status = "PENDING" /\ row'[o].attempts = 0
        /\ \A q \in Orders \ {o} : row'[q] = row[q]
    BY <1>0, <1>3 DEF CreateRow
  <2>2. \A q \in Orders : Disbursements(q)' = Disbursements(q)
    BY <2>1 DEF Disbursements
  <2>3. \A q \in Orders : enqueue'[q] # "done" => enqueue[q] # "done"
    BY <1>0, <2>1
  <2>4. FailedIsUnpaid'
    BY <2>1 DEF StillToPay, FailedIsUnpaid
  <2>5. \A q \in Orders : row'[q].attempts <= row[q].attempts
    BY <1>0, <2>1
  <2>6. \A q \in Orders : row'[q].status = "FAILED" => row[q].status = "FAILED"
    BY <2>1
  <2> QED
    BY <2>1, <2>2, <2>3, <2>4, <2>5, <2>6, ToPayOutside
<1>4. ASSUME NEW o \in Orders, NEW s \in {"COMPLETED", "FAILED"}, XenditEnds(o, s)
      PROVE  StillToPay'
  <2> DEFINE x == [xendit[o] EXCEPT !["PENDING"] = xendit[o]["PENDING"] - 1,
                                    ![s] = xendit[o][s] + 1]
  <2>1. /\ xendit' = [xendit EXCEPT ![o] = x] /\ xendit[o]["PENDING"] > 0
        /\ UNCHANGED <<enqueue, jobs, worker, row>>
    BY <1>4 DEF XenditEnds
  <2>2. x["PENDING"] + x["COMPLETED"] + x["FAILED"] = Disbursements(o)
    <3>1. xendit[o] \in [{"PENDING", "COMPLETED", "FAILED"} -> Int]
      BY <1>0
    <3> QED
      BY <3>1, EndsOne DEF Disbursements
  <2> HIDE DEF x
  <2>3. \A q \in Orders : Disbursements(q)' = Disbursements(q)
    BY <1>0, <2>1, <2>2 DEF Disbursements
  <2>4. row[o].status # "FAILED"
    <3>1. xendit[o]["PENDING"] + xendit[o]["COMPLETED"] # 0
      BY <1>0, <2>1
    <3> QED
      BY <3>1 DEF StillToPay, FailedIsUnpaid
  <2>5. FailedIsUnpaid'
    BY <1>0, <2>1, <2>4 DEF StillToPay, FailedIsUnpaid
  <2> QED
    BY <1>0, <2>1, <2>3, <2>5, ToPayOutside
<1>5. ASSUME NEW o \in Orders, NEW s \in {"COMPLETED", "FAILED"}, Callback(o, s)
      PROVE  StillToPay'
  <2>1. /\ xendit[o][s] > 0 /\ UNCHANGED <<enqueue, jobs, worker, xendit>>
        /\ row'[o].status = s /\ row'[o].attempts = row[o].attempts
        /\ \A q \in Orders \ {o} : row'[q] = row[q]
    BY <1>0, <1>5 DEF Callback, Row
  <2>2. \A q \in Orders : Disbursements(q)' = Disbursements(q)
    BY <2>1 DEF Disbursements
  <2>3. /\ xendit[o]["PENDING"] \in Nat /\ xendit[o]["COMPLETED"] \in Nat
        /\ xendit[o]["FAILED"] \in Nat
        /\ xendit[o]["PENDING"] + xendit[o]["COMPLETED"] + xendit[o]["FAILED"] <= 1
    BY <1>0 DEF CalmInv, PaidOnce, Disbursements
  <2>4. Disbursements(o) # 0
    <3>1. xendit[o]["COMPLETED"] > 0 \/ xendit[o]["FAILED"] > 0
      BY <2>1
    <3>2. \A a, b, c \in Nat : b > 0 \/ c > 0 => a + b + c # 0
      OBVIOUS
    <3> QED
      BY <2>3, <3>1, <3>2 DEF Disbursements
  <2>5. FailedIsUnpaid'
    <3>1. s = "FAILED" => xendit[o]["PENDING"] + xendit[o]["COMPLETED"] = 0
      BY <2>1, <2>3
    <3> QED
      BY <2>1, <3>1 DEF StillToPay, FailedIsUnpaid
  <2>6. \A q \in Orders :
            /\ row'[q].attempts <= row[q].attempts
            /\ Disbursements(q) = 0 /\ row'[q].status = "FAILED" => row[q].status = "FAILED"
    BY <1>0, <2>1, <2>4
  <2> QED
    BY <2>1, <2>2, <2>5, <2>6, ToPayOutside
<1> QED
  BY <1>1, <1>2, <1>3, <1>4, <1>5 DEF Enqueue

\* The worker's steps that change neither rows nor Xendit.
LEMMA ToPayLook ==
    ASSUME TypeInv, TypeInv', CalmInv, StillToPay, NEW l \in Lanes,
           \/ FindOrder(l) \/ Batch(l) \/ Requeue(l) \/ NextSettlement(l) \/ ReadOutflow(l)
           \/ AddOutflow(l) \/ CompleteJob(l) \/ FailJob(l)
    PROVE  StillToPay'
<1>0. /\ worker \in [Lanes -> Worker] /\ worker[l].job \in Job /\ jobs \subseteq Job
      /\ worker[l].job.order \in Orders /\ worker[l].job.failures \in Nat
  <2>1. worker \in [Lanes -> Worker] /\ jobs \subseteq Job
    BY DEF TypeInv, TypeOK
  <2>2. worker[l].job \in Job
    BY DEF TypeInv, WorkerBusy, FindOrder, Batch, Requeue, NextSettlement, ReadOutflow,
           AddOutflow, CompleteJob, FailJob, At
  <2> QED
    BY <2>1, <2>2 DEF Job
<1>1. /\ UNCHANGED <<enqueue, row, xendit>> /\ \A m \in Lanes \ {l} : worker'[m] = worker[m]
  BY <1>0 DEF FindOrder, Batch, Requeue, NextSettlement, ReadOutflow, AddOutflow, CompleteJob,
              FailJob, Move
<1>2. worker'[l].at \notin {"update", "throw"}
  <2>1. CASE FindOrder(l) \/ Batch(l) \/ Requeue(l) \/ NextSettlement(l)
    BY <1>0, <2>1 DEF FindOrder, Batch, Requeue, NextSettlement, Move, Worker
  <2>2. CASE ReadOutflow(l) \/ AddOutflow(l)
    BY <1>0, <2>2 DEF ReadOutflow, AddOutflow, Move, Worker
  <2>3. CASE CompleteJob(l) \/ FailJob(l)
    BY <1>0, <2>3 DEF CompleteJob, FailJob, Idle
  <2> QED
    BY <2>1, <2>2, <2>3
<1>3. Handles(l) /\ Track(worker[l].job.order) = l
  BY DEF CalmInv, Handles, FindOrder, Batch, Requeue, NextSettlement, ReadOutflow, AddOutflow,
         CompleteJob, FailJob, At
<1>4. SUFFICES /\ \A j \in jobs' : Track(j.order) = "FAST_LANE" => Pristine(j.order, j.failures)
               /\ MayPay' => Pristine(Fast'.job.order, Fast'.job.failures)
  <2>1. Fast'.at = "throw" => Fast' = Fast
    BY <1>1, <1>2 DEF Fast, Lanes
  <2>2. \A m \in Lanes : worker'[m].at = "update" => worker'[m] = worker[m]
    BY <1>1, <1>2
  <2> QED
    BY <1>1, <2>1, <2>2, ToPayQuiet
<1>5. CASE l = "EFFICIENT_LANE"
  <2>1. Fast' = Fast /\ (MayPay' <=> MayPay)
    BY <1>1, <1>5 DEF Fast, MayPay, Lanes
  <2>2. ~ FailJob(l)
    BY <1>5 DEF CalmInv, BatchOnce, FailJob, At
  <2>3. jobs' \subseteq jobs \cup {NewJob(worker[l].job.order)}
    BY <2>2 DEF FindOrder, Batch, Requeue, NextSettlement, ReadOutflow, AddOutflow, CompleteJob
  <2>4. NewJob(worker[l].job.order).order = worker[l].job.order
    BY DEF NewJob
  <2> QED
    BY <1>3, <1>5, <2>1, <2>3, <2>4 DEF StillToPay
<1>6. CASE l = "FAST_LANE"
  <2>0. Fast = worker[l] /\ Fast' = worker'[l] /\ ~ Batch(l) /\ ~ Requeue(l)
    BY <1>6 DEF Fast, Batch, Requeue
  <2>1. CASE FindOrder(l) \/ NextSettlement(l) \/ ReadOutflow(l) \/ AddOutflow(l)
    <3>1. jobs' = jobs /\ Fast'.job = Fast.job
      BY <1>0, <2>0, <2>1 DEF FindOrder, NextSettlement, ReadOutflow, AddOutflow, Move, Worker
    <3>2. MayPay' => MayPay
      <4>1. CASE NextSettlement(l)
        BY <1>0, <2>0, <4>1 DEF NextSettlement, MayPay, Move, At, Worker
      <4>2. CASE ~ NextSettlement(l)
        BY <2>0, <2>1, <4>2 DEF FindOrder, ReadOutflow, AddOutflow, At, MayPay
      <4> QED
        BY <4>1, <4>2
    <3> QED
      BY <3>1, <3>2 DEF StillToPay
  <2>2. CASE CompleteJob(l) \/ FailJob(l)
    <3>1. ~ MayPay'
      BY <1>0, <2>0, <2>2 DEF CompleteJob, FailJob, Idle, MayPay
    <3>2. CASE jobs' \subseteq jobs
      BY <3>1, <3>2 DEF StillToPay
    <3>3. CASE ~ (jobs' \subseteq jobs)
      <4> DEFINE again == [Fast.job EXCEPT !.failures = @ + 1]
      <4>1. /\ jobs' = jobs \cup {again} /\ Fast.at = "throw"
            /\ Fast.job.failures + 1 < MAX_RETRIES
        BY <2>0, <2>2, <3>3 DEF FailJob, CompleteJob, At
      <4>2. again.order = Fast.job.order /\ again.failures = Fast.job.failures + 1
        BY <1>0, <2>0 DEF Job
      <4>3. Disbursements(Fast.job.order) = 0
        BY <4>1 DEF CalmInv, FastOnce
      <4>4. /\ row[Fast.job.order].attempts <= Fast.job.failures + 1
            /\ row[Fast.job.order].status = "FAILED" => Fast.job.failures + 1 >= MAX_RETRIES
        BY <4>1 DEF StillToPay
      <4>5. row[Fast.job.order].status # "FAILED"
        BY <1>0, <2>0, <4>1, <4>4, ConstantTypes
      <4> HIDE DEF again
      <4>6. Pristine(again.order, again.failures)
        BY <4>2, <4>3, <4>4, <4>5 DEF Pristine
      <4> QED
        BY <3>1, <4>1, <4>6 DEF StillToPay
    <3> QED
      BY <3>2, <3>3
  <2> QED
    BY <2>0, <2>1, <2>2
<1> QED
  BY <1>5, <1>6 DEF Lanes

\* A payment, its answer and an error.
LEMMA ToPayPays ==
    ASSUME TypeInv, TypeInv', CalmInv, CalmInv', StillToPay, NEW l \in Lanes, PayOk(l)
    PROVE  StillToPay'
<1>1. PICK o : o = worker[l].cur
  OBVIOUS
<1>2. /\ o \in Orders /\ Track(o) = l /\ o \in worker[l].todo
      /\ Disbursements(o) = 0 /\ Disbursements(o)' = 1
      /\ \A q \in Orders \ {o} : Disbursements(q)' = Disbursements(q)
  BY <1>1, CalmPays
<1>3. /\ worker \in [Lanes -> Worker] /\ worker[l].at = "pay" /\ Accept(o)
      /\ UNCHANGED <<enqueue, jobs, row>>
  BY <1>1 DEF TypeInv, TypeOK, PayOk, At
<1>4. /\ worker'[l].at = "update" /\ worker'[l].cur = o
      /\ \A m \in Lanes \ {l} : worker'[m] = worker[m]
  BY <1>1, <1>3 DEF PayOk, Worker
<1>5. \A q \in Orders : Disbursements(q) \in Nat
  BY ConstantTypes DEF TypeInv, TypeOK, Disbursements
<1>6. \A q \in Orders :
          /\ enqueue'[q] # "done" => row'[q].attempts = 0
          /\ Track(q) = "EFFICIENT_LANE" /\ row'[q].status = "FAILED" => Disbursements(q)' > 0
  BY <1>2, <1>3, <1>5 DEF StillToPay
<1>7. \A j \in jobs' : Track(j.order) = "FAST_LANE" => Pristine(j.order, j.failures)'
  <2> SUFFICES ASSUME NEW j \in jobs, Track(j.order) = "FAST_LANE"
               PROVE  Pristine(j.order, j.failures)'
    BY <1>3
  <2>1. j.order \in Orders /\ Disbursements(j.order)' = 0
    BY <1>3 DEF TypeInv, TypeOK, Job, CalmInv, FastOnce
  <2>2. Pristine(j.order, j.failures)
    BY DEF StillToPay
  <2> QED
    BY <1>3, <2>1, <2>2 DEF Pristine
<1>8. (MayPay => Pristine(Fast.job.order, Fast.job.failures))'
  <2>1. CASE l = "FAST_LANE"
    BY <1>4, <2>1 DEF MayPay, Fast
  <2>2. CASE l = "EFFICIENT_LANE"
    <3>1. Fast' = Fast /\ (MayPay' <=> MayPay)
      BY <1>4, <2>2 DEF Fast, MayPay, Lanes
    <3>2. MayPay => Fast.job.order \in Orders /\ Track(Fast.job.order) = "FAST_LANE"
      BY DEF MayPay, Fast, CalmInv, Handles, At, Lanes, TypeInv, WorkerBusy, Job
    <3>3. MayPay => Disbursements(Fast.job.order)' = Disbursements(Fast.job.order)
      BY <1>2, <2>2, <3>1, <3>2
    <3> QED
      BY <1>3, <3>1, <3>3 DEF StillToPay, Pristine
  <2> QED
    BY <2>1, <2>2 DEF Lanes
<1>9. Fast'.at = "throw" =>
           /\ row'[Fast'.job.order].attempts <= Fast'.job.failures + 1
           /\ row'[Fast'.job.order].status = "FAILED" => Fast'.job.failures + 1 >= MAX_RETRIES
  BY <1>3, <1>4 DEF StillToPay, Fast, Lanes
<1>10. ASSUME NEW m \in Lanes, worker'[m].at = "update" PROVE (Disbursements(worker[m].cur) > 0)'
  <2>1. CASE m = l
    BY <1>2, <1>4, <2>1
  <2>2. CASE m # l
    <3>1. worker'[m] = worker[m] /\ worker[m].cur \in Orders /\ Disbursements(worker[m].cur) > 0
      BY <1>4, <1>10, <2>2 DEF StillToPay, At, TypeInv, WorkerBusy
    <3> QED
      BY <1>2, <3>1
  <2> QED
    BY <2>1, <2>2
<1>11. FailedIsUnpaid'
  <2>1. row[o].status # "FAILED"
    <3>1. PaysWhatIsDue
      BY CalmPaysWhatIsDue
    <3> QED
      BY <1>1, <1>3, <3>1 DEF PaysWhatIsDue, At
  <2>2. \A q \in Orders \ {o} : xendit'[q] = xendit[q]
    BY <1>2, <1>3, FirstPayment
  <2> QED
    BY <1>3, <2>1, <2>2 DEF StillToPay, FailedIsUnpaid
<1> QED
  BY <1>6, <1>7, <1>8, <1>9, <1>10, <1>11 DEF StillToPay, At

\* The answer is stored: the row is of an order that was paid.
LEMMA ToPayStored ==
    ASSUME TypeInv, TypeInv', CalmInv, CalmInv', StillToPay, NEW l \in Lanes, UpdateRow(l)
    PROVE  StillToPay'
<1>1. PICK o : o = worker[l].cur
  OBVIOUS
<1>2. /\ worker \in [Lanes -> Worker] /\ row \in [Orders -> Row] /\ o \in Orders
      /\ worker[l].at = "update" /\ UNCHANGED <<enqueue, jobs, xendit>>
  BY <1>1 DEF TypeInv, TypeOK, WorkerBusy, UpdateRow, At
<1>3. /\ worker'[l].at = "next" /\ worker'[l].todo = worker[l].todo \ {o}
      /\ \A m \in Lanes \ {l} : worker'[m] = worker[m]
  BY <1>1, <1>2 DEF UpdateRow, Worker
<1>4. row'[o].status = "PROCESSING" /\ \A q \in Orders \ {o} : row'[q] = row[q]
  BY <1>1, <1>2 DEF UpdateRow
<1>5. \A q : Disbursements(q)' = Disbursements(q)
  BY <1>2 DEF Disbursements
<1>6. Disbursements(o) > 0 /\ Track(o) = l /\ enqueue[o] = "done" /\ o \in worker[l].todo
  BY <1>1, <1>2 DEF StillToPay, CalmInv, Handles, RowsTrue, At
<1>7. \A q \in Orders : \A n : Pristine(q, n) => Pristine(q, n)'
  <2>1. ~ \E n : Pristine(o, n)
    BY <1>6 DEF Pristine
  <2> QED
    BY <1>4, <1>5, <2>1 DEF Pristine
<1>8. \A q \in Orders :
          /\ enqueue'[q] # "done" => row'[q].attempts = 0
          /\ Track(q) = "EFFICIENT_LANE" /\ row'[q].status = "FAILED" => Disbursements(q)' > 0
  BY <1>2, <1>4, <1>5, <1>6 DEF StillToPay
<1>9. \A j \in jobs' : Track(j.order) = "FAST_LANE" => Pristine(j.order, j.failures)'
  <2>1. \A j \in jobs : j.order \in Orders
    BY DEF TypeInv, TypeOK, Job
  <2> QED
    BY <1>2, <1>7, <2>1 DEF StillToPay
<1>10. /\ (MayPay => Pristine(Fast.job.order, Fast.job.failures))'
       /\ Fast'.at = "throw" =>
              /\ row'[Fast'.job.order].attempts <= Fast'.job.failures + 1
              /\ row'[Fast'.job.order].status = "FAILED" => Fast'.job.failures + 1 >= MAX_RETRIES
  <2>1. CASE l = "FAST_LANE"
    <3>1. Fast.todo \subseteq {Fast.job.order} /\ Fast = worker[l] /\ Fast' = worker'[l]
      BY <1>2, <2>1 DEF CalmInv, FastOnce, Fast
    <3>2. worker'[l].todo = {}
      BY <1>3, <1>6, <3>1
    <3> QED
      BY <1>3, <3>1, <3>2 DEF MayPay
  <2>2. CASE l = "EFFICIENT_LANE"
    <3>1. Fast' = Fast /\ (MayPay' <=> MayPay)
      BY <1>3, <2>2 DEF Fast, MayPay, Lanes
    <3>2. Fast.at # "idle" => Fast.job.order \in Orders /\ Track(Fast.job.order) = "FAST_LANE"
      BY DEF Fast, CalmInv, Handles, At, Lanes, TypeInv, WorkerBusy, Job
    <3>3. Fast.at # "idle" => row'[Fast.job.order] = row[Fast.job.order]
      BY <1>4, <1>6, <2>2, <3>2
    <3>4. MayPay => Fast.at # "idle"
      BY DEF MayPay
    <3> QED
      BY <1>7, <3>1, <3>2, <3>3, <3>4 DEF StillToPay
  <2> QED
    BY <2>1, <2>2 DEF Lanes
<1>11. \A m \in Lanes : worker'[m].at = "update" => (Disbursements(worker[m].cur) > 0)'
  BY <1>3, <1>5 DEF StillToPay, At
<1>12. FailedIsUnpaid'
  BY <1>2, <1>4 DEF StillToPay, FailedIsUnpaid
<1> QED
  BY <1>8, <1>9, <1>10, <1>11, <1>12 DEF StillToPay, At

\* An error counts for the order of the job, which has no other job.
LEMMA ToPayRecords ==
    ASSUME TypeInv, TypeInv', CalmInv, StillToPay, NEW l \in Lanes, RecordError(l)
    PROVE  StillToPay'
<1>1. PICK o : o = worker[l].job.order
  OBVIOUS
<1>2. l = "FAST_LANE" /\ Fast = worker[l] /\ Fast.at = "record"
  BY DEF CalmInv, BatchOnce, RecordError, At, Lanes, Fast
<1>3. /\ worker \in [Lanes -> Worker] /\ row \in [Orders -> Row] /\ o \in Orders
      /\ Fast.job.failures \in Nat /\ UNCHANGED <<enqueue, jobs, xendit>>
  BY <1>1, <1>2 DEF TypeInv, TypeOK, WorkerBusy, RecordError, Job
<1>4. /\ Fast'.at = "throw" /\ Fast'.job = Fast.job
      /\ \A m \in Lanes \ {l} : worker'[m] = worker[m]
  BY <1>2, <1>3 DEF RecordError, Move, Worker, Fast
<1>5. /\ Disbursements(o) = 0 /\ row[o].attempts <= Fast.job.failures
      /\ row[o].status # "FAILED" /\ row[o].attempts \in Nat
      /\ Track(o) = "FAST_LANE" /\ \A j \in jobs : Track(j.order) = "FAST_LANE" => j.order # o
  <2>1. Pristine(o, Fast.job.failures)
    BY <1>1, <1>2 DEF StillToPay, MayPay
  <2>2. Track(o) = "FAST_LANE" /\ \A j \in jobs : Track(j.order) = "FAST_LANE" => j.order # o
    BY <1>1, <1>2 DEF CalmInv, Handles, FastOnce, At, Lanes
  <2>3. row[o].attempts \in Nat
    BY <1>3, ConstantTypes DEF Row
  <2> QED
    BY <2>1, <2>2, <2>3 DEF Pristine
<1>6. \A q \in Orders \ {o} : row'[q] = row[q]
  BY <1>1, <1>3 DEF RecordError
<1>7. /\ row'[o].attempts <= Fast.job.failures + 1
      /\ row'[o].status = "FAILED" => Fast.job.failures + 1 >= MAX_RETRIES
      /\ row[o].status = "NONE" => row'[o] = row[o]
  <2> DEFINE n == CountUp(row[o].attempts)
  <2>1. n \in Nat /\ n <= Fast.job.failures + 1
    BY <1>3, <1>5, ConstantTypes DEF CountUp
  <2>2. CASE row[o].status = "NONE"
    BY <1>1, <1>3, <1>5, <2>2 DEF RecordError
  <2>3. CASE row[o].status # "NONE"
    <3>1. row'[o] = [status |-> IF n >= MAX_RETRIES THEN "FAILED" ELSE "PENDING", attempts |-> n]
      BY <1>1, <1>3, <2>3 DEF RecordError
    <3> HIDE DEF n
    <3> QED
      BY <1>3, <2>1, <2>3, <3>1, ConstantTypes
  <2> QED
    BY <2>2, <2>3
<1>8. \A q \in Orders : Disbursements(q)' = Disbursements(q)
  BY <1>3 DEF Disbursements
<1>9. \A q \in Orders :
          /\ enqueue'[q] # "done" => row'[q].attempts = 0
          /\ Track(q) = "EFFICIENT_LANE" /\ row'[q].status = "FAILED" => Disbursements(q)' > 0
  <2>1. enqueue[o] # "done" => row[o].status = "NONE"
    BY <1>3 DEF CalmInv, RowsTrue
  <2> QED
    BY <1>3, <1>5, <1>6, <1>7, <1>8, <2>1 DEF StillToPay
<1>10. \A j \in jobs' : Track(j.order) = "FAST_LANE" => Pristine(j.order, j.failures)'
  <2>1. \A j \in jobs : j.order \in Orders
    BY DEF TypeInv, TypeOK, Job
  <2> QED
    BY <1>3, <1>5, <1>6, <1>8, <2>1 DEF StillToPay, Pristine
<1>11. /\ ~ MayPay'
       /\ row'[Fast'.job.order].attempts <= Fast'.job.failures + 1
       /\ row'[Fast'.job.order].status = "FAILED" => Fast'.job.failures + 1 >= MAX_RETRIES
  BY <1>1, <1>2, <1>4, <1>7 DEF MayPay
<1>12. \A m \in Lanes : worker'[m].at = "update" => (Disbursements(worker[m].cur) > 0)'
  <2> SUFFICES ASSUME NEW m \in Lanes, worker'[m].at = "update"
               PROVE  (Disbursements(worker[m].cur) > 0)'
    OBVIOUS
  <2>1. m # l
    BY <1>2, <1>4 DEF Fast
  <2>2. worker'[m] = worker[m] /\ worker[m].cur \in Orders /\ Disbursements(worker[m].cur) > 0
    BY <1>4, <2>1 DEF StillToPay, At, TypeInv, WorkerBusy
  <2> QED
    BY <1>8, <2>2
<1>13. FailedIsUnpaid'
  <2>1. /\ xendit[o]["PENDING"] \in Nat /\ xendit[o]["COMPLETED"] \in Nat
        /\ xendit[o]["FAILED"] \in Nat
    BY <1>3, ConstantTypes DEF TypeInv, TypeOK
  <2>2. xendit[o]["PENDING"] + xendit[o]["COMPLETED"] = 0
    BY <1>5, <2>1 DEF Disbursements
  <2> QED
    BY <1>3, <1>6, <2>2 DEF StillToPay, FailedIsUnpaid
<1> QED
  BY <1>9, <1>10, <1>11, <1>12, <1>13 DEF StillToPay, At

\* A worker takes a job.
LEMMA ToPayTakes ==
    ASSUME TypeInv, CalmInv, StillToPay, NEW l \in Lanes, NEW j \in jobs, Take(l, j)
    PROVE  StillToPay'
<1>1. /\ worker'[l].at = "find" /\ worker'[l].job = j /\ Track(j.order) = l
      /\ jobs' = jobs \ {j} /\ UNCHANGED <<enqueue, row, xendit>>
      /\ \A m \in Lanes \ {l} : worker'[m] = worker[m]
  BY DEF Take, Idle, TypeInv, TypeOK
<1>2. MayPay' => Pristine(Fast'.job.order, Fast'.job.failures)
  <2>1. CASE l = "FAST_LANE"
    BY <1>1, <2>1 DEF StillToPay, Fast
  <2>2. CASE l = "EFFICIENT_LANE"
    <3>1. Fast' = Fast /\ (MayPay' <=> MayPay)
      BY <1>1, <2>2 DEF Fast, MayPay, Lanes
    <3> QED
      BY <3>1 DEF StillToPay
  <2> QED
    BY <2>1, <2>2 DEF Lanes
<1>3. Fast'.at = "throw" => Fast' = Fast
  BY <1>1 DEF Fast, Lanes
<1>4. \A m \in Lanes : worker'[m].at = "update" => worker'[m] = worker[m]
  BY <1>1
<1> QED
  BY <1>1, <1>2, <1>3, <1>4, ToPayQuiet DEF StillToPay

\* Every step of a calm day keeps StillToPay.
LEMMA ToPayInductive ==
    ASSUME NothingFails, BatchesValid, UnderLimit, TypeInv, CalmInv, StillToPay, [Next]_vars
    PROVE  StillToPay'
<1>0. TypeInv' /\ CalmInv'
  BY TypeInductive, CalmInductive
<1>1. ASSUME \/ \E o \in Orders : AddJob(o) \/ Enqueue(o)
             \/ \E o \in Orders, s \in {"COMPLETED", "FAILED"} : XenditEnds(o, s) \/ Callback(o, s)
      PROVE  StillToPay'
  BY <1>0, <1>1, ToPayProduced
<1>2. ASSUME NEW l \in Lanes, WorkerStep(l) PROVE StillToPay'
  <2>1. ~ PayRefused(l) /\ ~ PayLost(l) /\ ~ StoreFail(l) /\ ~ RecordFail(l)
    BY DEF NothingFails, PayRefused, PayLost, StoreFail, RecordFail
  <2>2. CASE \/ FindOrder(l) \/ Batch(l) \/ Requeue(l) \/ NextSettlement(l) \/ ReadOutflow(l)
             \/ AddOutflow(l) \/ CompleteJob(l) \/ FailJob(l)
    BY <1>0, <2>2, ToPayLook
  <2>3. CASE PayOk(l)
    BY <1>0, <2>3, ToPayPays
  <2>4. CASE UpdateRow(l)
    BY <1>0, <2>4, ToPayStored
  <2>5. CASE RecordError(l)
    BY <1>0, <2>5, ToPayRecords
  <2> QED
    BY <1>2, <2>1, <2>2, <2>3, <2>4, <2>5 DEF WorkerStep
<1>3. ASSUME NEW l \in Lanes, NEW j \in jobs, Take(l, j) PROVE StillToPay'
  BY <1>3, ToPayTakes
<1>4. ~ Crash
  BY DEF NothingFails, Crash
<1>5. CASE UNCHANGED vars
  <2>1. UNCHANGED <<enqueue, jobs, worker, row, xendit>>
    BY <1>5 DEF vars
  <2>2. Fast' = Fast /\ (MayPay' <=> MayPay)
    BY <2>1 DEF Fast, MayPay
  <2> QED
    BY <2>1, <2>2, ToPayQuiet DEF StillToPay
<1> QED
  BY <1>1, <1>2, <1>3, <1>4, <1>5 DEF Next, Rest

\* StillToPay holds in every reachable state of a calm day.
LEMMA ToPayInvariant ==
    ASSUME NothingFails, BatchesValid, UnderLimit
    PROVE  Spec => [](TypeInv /\ CalmInv /\ StillToPay)
<1>1. Init => StillToPay
  <2> SUFFICES ASSUME Init PROVE StillToPay
    OBVIOUS
  <2>1. \A o \in Orders : row[o].status = "NONE" /\ row[o].attempts = 0
    BY DEF Init
  <2>2. jobs = {} /\ \A l \in Lanes : worker[l].at = "idle"
    BY DEF Init, Idle
  <2>3. FailedIsUnpaid
    BY <2>1 DEF FailedIsUnpaid
  <2>4. ~ MayPay /\ Fast.at # "throw"
    BY <2>2 DEF MayPay, Fast, Lanes
  <2> QED
    BY <2>1, <2>2, <2>3, <2>4 DEF StillToPay, At
<1>2. TypeInv /\ CalmInv /\ StillToPay /\ [Next]_vars => StillToPay'
  BY ToPayInductive
<1>3. Spec => []StillToPay
  <2>1. Spec => [](TypeInv /\ CalmInv)
    BY CalmInvariant
  <2> QED
    BY <1>1, <1>2, <2>1, PTL DEF Spec
<1> QED
  BY <1>3, CalmInvariant, PTL

\* On a calm day a settlement that the table calls FAILED was not paid and is not
\* being paid, in either lane and with callbacks at any time.
THEOREM CalmFailedIsUnpaid ==
    ASSUME NothingFails, BatchesValid, UnderLimit PROVE Spec => []FailedIsUnpaid
<1>1. StillToPay => FailedIsUnpaid
  BY DEF StillToPay
<1> QED
  BY <1>1, ToPayInvariant, PTL

\* On a calm day the two lanes together implement Payout: an order that falls due
\* is paid once or given up unpaid, whichever lane it is in, and one given up is
\* not paid later.
THEOREM CalmImplementsPayout ==
    ASSUME NothingFails, BatchesValid, UnderLimit PROVE Spec => PayoutSpec
<1>1. Init => PayoutOf!PayoutInit
  BY DEF Init, PayoutOf!PayoutInit, Disbursements
<1>2. TypeInv /\ CalmInv /\ StillToPay /\ TypeInv' /\ [Next]_vars
        => [PayoutOf!PayoutNext]_<<Due, Paid, GivenUp>>
  <2>1. OnlyRefusals
    BY DEF NothingFails, OnlyRefusals
  <2> QED
    BY <2>1, CalmPaysWhatIsDue, PayoutStep
       DEF CalmInv, PayoutOf!PayoutNext, PayoutOf!FallDue, PayoutOf!Pay, PayoutOf!GiveUp,
           Due, Paid, GivenUp
<1> QED
  BY <1>1, <1>2, ToPayInvariant, PTL
  DEF Spec, PayoutSpec, PayoutOf!PayoutSpec, Due, Paid, GivenUp
=============================================================================
