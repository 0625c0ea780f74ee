--------------------------------- MODULE Fees ---------------------------------
(***************************************************************************)
(* The platform fee and its split, in whole rupiah: paymentRoutes.ts and   *)
(* feeDistributor.ts compute the 70 per cent separately.                   *)
(***************************************************************************)
EXTENDS Integers, TLAPS

MIN_FEE_IDR == 2500

\* Math.round of half a per cent of the amount, at least the minimum.
platformFee(amount) ==
    LET fee == (amount + 100) \div 200 IN IF fee < MIN_FEE_IDR THEN MIN_FEE_IDR ELSE fee

\* Mutant: the share is rounded up.
PlatformShareUp(fee) == (70 * fee + 99) \div 100 + 1

\* calculateFeeSplit: the platform's share, rounded down.
PlatformShare(fee) == (70 * fee) \div 100

\* platformFeeWallet70: Math.round(fee * 0.70).  A product that ends in .5 may
\* be represented by a number below it.
Rounded70(fee) ==
    IF (70 * fee) % 100 = 50 THEN {(70 * fee) \div 100, (70 * fee) \div 100 + 1}
    ELSE {(70 * fee + 50) \div 100}

\* The two splits differ by one rupiah at most, and leave the developer a share
\* that is not negative.
SharesAgree(fee) ==
    \A r \in Rounded70(fee) :
        /\ r - PlatformShare(fee) \in {0, 1}
        /\ r <= fee /\ PlatformShare(fee) <= fee

\* What the intent announces and what is recorded after the payment agree up to
\* one rupiah, whatever the fee.
THEOREM SplitsAgree == ASSUME NEW fee \in Nat PROVE SharesAgree(fee)
<1> DEFINE q == (70 * fee) \div 100
           m == (70 * fee) % 100
<1>1. q \in Int /\ m \in 0 .. 99 /\ 70 * fee = 100 * q + m
  OBVIOUS
<1>2. q <= fee
  BY <1>1
<1>3. CASE m = 50
  <2>1. Rounded70(fee) = {q, q + 1}
    BY <1>3 DEF Rounded70
  <2>2. q + 1 <= fee
    BY <1>1, <1>3
  <2> QED BY <2>1, <2>2, <1>1, <1>2 DEF SharesAgree, PlatformShare
<1>4. CASE m < 50
  <2>1. (70 * fee + 50) \div 100 = q
    BY <1>1, <1>4
  <2>2. Rounded70(fee) = {q}
    BY <2>1, <1>4 DEF Rounded70
  <2> QED BY <2>2, <1>1, <1>2 DEF SharesAgree, PlatformShare
<1>5. CASE m > 50
  <2>1. (70 * fee + 50) \div 100 = q + 1
    BY <1>1, <1>5
  <2>2. Rounded70(fee) = {q + 1}
    BY <2>1, <1>5 DEF Rounded70
  <2>3. q + 1 <= fee
    BY <1>1, <1>5
  <2> QED BY <2>2, <2>3, <1>1, <1>2 DEF SharesAgree, PlatformShare
<1> QED BY <1>1, <1>3, <1>4, <1>5

=============================================================================
