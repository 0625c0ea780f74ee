--------------------------- MODULE MCPaymentConfirm ---------------------------
(***************************************************************************)
(* Values of the constants of PaymentConfirm for TLC.  Each transaction    *)
(* has a signer of its own, and t2 moves less than an intent asks for.     *)
(***************************************************************************)
EXTENDS PaymentConfirm, TLC

CONSTANTS i1, i2, r1, r2, t1, t2, w1, w2

MCSigner == t1 :> w1 @@ t2 :> w2
MCDelivered == [t \in Txs |-> IF t = t1 THEN 2 ELSE 1]
SameDue == [i \in Intents |-> 2]

\* One wallet signs everything.
OneSigner == [t \in Txs |-> w1]

Interchangeable == Permutations({r1, r2})
InterchangeableAll == Permutations({r1, r2}) \cup Permutations({i1, i2})
=============================================================================
