------------------------------ MODULE RiskEngine ------------------------------
(***************************************************************************)
(* The rules of riskEngine.ts: the score of a payment and the velocity of  *)
(* a wallet.  Amounts are in millions of rupiah times ten, so that the     *)
(* smallest limit is 1; times are in minutes.                              *)
(***************************************************************************)
EXTENDS Integers, Sequences

VELOCITY_WINDOW == 60
MAX_AMOUNT_PER_HOUR_IDR == 500

\* A wallet nobody has used: windowStart is set when it is first recorded.
NoVelocity == [count |-> 0, total |-> 0, windowStart |-> 0]

\* Mutant: a window that has ended is still counted.
getVelocityForever(v, now) ==
    IF v.count = 0 THEN [NoVelocity EXCEPT !.windowStart = now] ELSE v

\* The window is fixed: it begins with its first payment.
getVelocity(v, now) ==
    IF v.count = 0 \/ now - v.windowStart > VELOCITY_WINDOW
    THEN [NoVelocity EXCEPT !.windowStart = now]
    ELSE v

recordVelocity(v, amount, now) ==
    LET w == getVelocity(v, now) IN
    [w EXCEPT !.count = @ + 1, !.total = @ + amount]

\* Rule 2, in days.  Without history, or when the RPC does not answer (-1),
\* the wallet counts as new.
AgeScore(age) ==
    IF age < 1 THEN 45 ELSE IF age < 7 THEN 30 ELSE IF age < 30 THEN 15
    ELSE IF age < 90 THEN 5 ELSE 0

\* txCount is -1 when the RPC does not answer.
FewTransactionsScore(txCount) == IF txCount > 0 /\ txCount < 5 THEN 10 ELSE 0

\* Mutant: the tier of ten millions has the weight of the next.
AmountScoreSteep(amount) ==
    IF amount > 100 THEN 40 ELSE IF amount > 10 THEN 5 ELSE IF amount < 1 THEN 5 ELSE 0

\* Rule 3, up to the hundred millions that are blocked outright.
AmountScore(amount) ==
    IF amount > 500 THEN 40 ELSE IF amount > 100 THEN 25 ELSE IF amount > 10 THEN 5
    ELSE IF amount < 1 THEN 5 ELSE 0

\* Rule 4.  The burst of three is tried after the ten: ten payments score less
\* than three.
VelocityScore(count) == IF count >= 10 THEN 15 ELSE IF count >= 3 THEN 20 ELSE 0

VolumeScore(total, amount) == IF total + amount > MAX_AMOUNT_PER_HOUR_IDR THEN 15 ELSE 0

\* Rules 5 to 7.
StaticScore(static, amount) == IF static /\ amount > 50 THEN 10 ELSE 0
NmidScore(nmid) == IF nmid THEN 0 ELSE 8
RoundScore(amount) == IF amount >= 10 /\ amount % 10 = 0 THEN 5 ELSE 0

\* A payment: of a wallet of some age and history, with or without an NMID, of
\* a static code or not.  v is the wallet's velocity.
Score(x, v) ==
    LET sum == AgeScore(x.age) + FewTransactionsScore(x.txCount) + AmountScore(x.amount)
               + VelocityScore(v.count) + VolumeScore(v.total, x.amount)
               + StaticScore(x.static, x.amount) + NmidScore(x.nmid) + RoundScore(x.amount)
    IN  IF x.amount > 1000 \/ x.denied THEN 100 ELSE IF sum > 100 THEN 100 ELSE sum

Level(score) ==
    IF score <= 30 THEN "LOW" ELSE IF score <= 60 THEN "MEDIUM"
    ELSE IF score <= 85 THEN "HIGH" ELSE "BLOCK"

Allow(score) == Level(score) # "BLOCK"

\* RiskEngine.evaluate: the score, and the velocity after it; what is not
\* allowed is not recorded.
Evaluate(x, stored, now) ==
    LET score == Score(x, getVelocity(stored, now))
    IN  [score |-> score,
         velocity |-> IF Allow(score) THEN recordVelocity(stored, x.amount, now) ELSE stored]

\* A history of payments of one wallet, each with its time: the velocity stored
\* after each payment, and what was allowed by then.
History(xs) ==
    LET f[n \in 0 .. Len(xs)] ==
          IF n = 0 THEN [velocity |-> NoVelocity, allowed |-> {}]
          ELSE LET e == Evaluate(xs[n], f[n - 1].velocity, xs[n].time)
               IN  [velocity |-> e.velocity,
                    allowed |-> f[n - 1].allowed \cup IF Allow(e.score) THEN {n} ELSE {}]
    IN  f

=============================================================================
