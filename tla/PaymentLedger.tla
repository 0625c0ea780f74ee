---------------------------- MODULE PaymentLedger ----------------------------
(***************************************************************************)
(* What the confirm pipeline of the Express backend promises, with the     *)
(* handlers, locks and databases left out: an on-chain transaction pays    *)
(* for one intent, and a paid intent is handed to settlement once.         *)
(*                                                                         *)
(* claim[i] is the transaction an intent was paid with; orders is the set  *)
(* of settlement orders placed, each naming the intent it settles and the  *)
(* caller whose confirm request placed it.                                 *)
(***************************************************************************)
CONSTANTS Intents, Requests, Txs, NoTx

VARIABLES claim, orders

Order == [intent : Intents, by : Requests]

LedgerTypeOK ==
    /\ claim \in [Intents -> Txs \cup {NoTx}]
    /\ orders \subseteq Order

LedgerInit ==
    /\ claim = [i \in Intents |-> NoTx]
    /\ orders = {}

(***************************************************************************)
(* A transaction no other intent was paid with pays for an unpaid intent.  *)
(***************************************************************************)
Claim(i, t) ==
    /\ claim[i] = NoTx
    /\ \A j \in Intents : claim[j] # t
    /\ claim' = [claim EXCEPT ![i] = t]
    /\ UNCHANGED orders

(***************************************************************************)
(* A paid intent is handed to settlement, once.                            *)
(***************************************************************************)
PlaceOrder(i, r) ==
    /\ claim[i] # NoTx
    /\ \A o \in orders : o.intent # i
    /\ orders' = orders \cup {[intent |-> i, by |-> r]}
    /\ UNCHANGED claim

LedgerNext ==
    \E i \in Intents :
        \/ \E t \in Txs : Claim(i, t)
        \/ \E r \in Requests : PlaceOrder(i, r)

LedgerSpec == LedgerInit /\ [][LedgerNext]_<<claim, orders>>
=============================================================================
