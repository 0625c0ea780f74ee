-------------------------------- MODULE Payout --------------------------------
(***************************************************************************)
(* What settlement promises the merchant, with queues, retries and lanes   *)
(* left out: an order that falls due is paid once, or given up unpaid.     *)
(***************************************************************************)
CONSTANT Orders

VARIABLES due, paid, givenUp  \* paid: pairs <<order, number of the payment>>

PayoutInit == due = {} /\ paid = {} /\ givenUp = {}

FallDue(o) ==
    /\ due' = due \cup {o}
    /\ UNCHANGED <<paid, givenUp>>

Pay(o) ==
    /\ o \in due \ givenUp
    /\ \A p \in paid : p[1] # o
    /\ paid' = paid \cup {<<o, 1>>}
    /\ UNCHANGED <<due, givenUp>>

GiveUp(o) ==
    /\ o \in due
    /\ \A p \in paid : p[1] # o
    /\ givenUp' = givenUp \cup {o}
    /\ UNCHANGED <<due, paid>>

PayoutNext == \E o \in Orders : FallDue(o) \/ Pay(o) \/ GiveUp(o)

PayoutSpec == PayoutInit /\ [][PayoutNext]_<<due, paid, givenUp>>
=============================================================================
