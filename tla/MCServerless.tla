---------------------------- MODULE MCServerless ----------------------------
(***************************************************************************)
(* Values of the constants of Serverless for TLC.  Amounts are counted so  *)
(* that 2 is the minimum of a disbursement and 3 that of IDRX.             *)
(***************************************************************************)
EXTENDS Serverless, TLC

CONSTANTS t1, t2, w1, s1, s2, p1, p2, i1

OneSigner == [t \in Txs |-> w1]

\* t1 names the intent, t2 does not.
OneMemo == [t \in Txs |-> IF t = t1 THEN i1 ELSE NoIntent]

FullOrder == [amount |-> 3, bank |-> TRUE]
TwoOrders == {NoOrder, FullOrder}

\* Too small for IDRX, too small for the backend, and a static QR whose
\* amount was not entered.
AllOrders == {[amount |-> a, bank |-> TRUE] : a \in 0 .. 3} \cup {NoOrder}

Interchangeable == Permutations({s1, s2}) \cup Permutations({p1, p2})
=============================================================================
