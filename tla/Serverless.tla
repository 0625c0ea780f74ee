------------------------------ MODULE Serverless ------------------------------
(***************************************************************************)
(* The serverless backend (api/): confirm, the Helius webhook and the      *)
(* Solana Pay builder, over the intent store of api/store.js.              *)
(*                                                                         *)
(* Every instance of the functions has a paymentIntents object of its own; *)
(* the KV service is shared, read only for an id the instance does not     *)
(* know, and written after the memory.  A KV request that fails is         *)
(* ignored; without a KV service every request is as if it failed.         *)
(*                                                                         *)
(* A handler is a slot: it runs from one await to the next without         *)
(* interruption, and `at' names the await.  A slot is used again once its  *)
(* handler has returned.  The events of one webhook body are calls of      *)
(* their own; the account to pay to is part of the intent's order, as if   *)
(* the registry of merchants never failed.                                 *)
(***************************************************************************)
EXTENDS Naturals, FiniteSets

CONSTANTS
    Instances,    \* instances of the serverless functions
    Intents,      \* payment intent ids
    Slots,        \* handlers that may be under way at once
    Txs,          \* Solana transactions that deposit to the gateway wallet
    Wallets,      \* wallet addresses
    NoTx,         \* txHash is undefined
    NoWallet,     \* payer_account is undefined
    NoIntent,     \* no intent is named
    Signer,       \* Signer[t]: the wallet that signed t
    Memo,         \* Memo[t]: the intent t's description names, or NoIntent
    Claims,       \* the payer_accounts that callers of confirm send
    Orders,       \* what an intent may ask for: an amount and a bank account or none
    MIN_DISBURSEMENT_IDR,
    MIN_REDEEM_IDR,  \* the literal 20000 of disburseFromInventory
    Faults,       \* which of the failures of FaultKinds occur
    MaxCalls      \* bound: calls of the handlers

FaultKinds ==
    {"rpc",       \* Solana RPC unreachable, or the transaction's details are
     "refused",   \* nothing is burned: configuration, balance, gas, Polygon
     "lost",      \* the burn is mined and the wait for it fails
     "rejected",  \* IDRX refuses the redeem request
     "unsure",    \* IDRX accepts it and the answer is lost
     "kv",        \* a KV request fails
     "kill"}      \* an instance ends, with its handlers and its memory

\* The order of an intent recovered without context.
NoOrder == [amount |-> 0, bank |-> FALSE]

ASSUME NullAssumption ==
    NoTx \notin Txs /\ NoWallet \notin Wallets /\ NoIntent \notin Intents
ASSUME ChainAssumption ==
    Signer \in [Txs -> Wallets] /\ Memo \in [Txs -> Intents \cup {NoIntent}]
ASSUME CallerAssumption ==
    /\ Claims \subseteq Wallets \cup {NoWallet}
    /\ Orders \subseteq [amount : Nat, bank : BOOLEAN] /\ NoOrder \in Orders
ASSUME HomeAssumption == Instances \cap {"unborn", "kv"} = {}
ASSUME BoundAssumption ==
    /\ MIN_DISBURSEMENT_IDR \in Nat \ {0} /\ MIN_REDEEM_IDR \in Nat
    /\ MaxCalls \in Nat
    /\ Faults \subseteq FaultKinds

VARIABLES
    mem,       \* mem[s][i]: paymentIntents of instance s
    kv,        \* kv[i]: the record of the KV service
    slot,      \* the handlers under way
    final,     \* transactions Solana has finalized
    burned,    \* intents for which IDRX was burned, once or more
    paid,      \* paid[i]: redeem requests IDRX accepted for i
    calls,     \* calls made
    home,      \* history: where the newest record of i is
    steady     \* history: each call for i came after the last and saw its record

store == <<mem, kv>>
money == <<burned, paid>>
history == <<home, steady>>
vars == <<store, slot, final, money, calls, history>>

-----------------------------------------------------------------------------
(***************************************************************************)
(* Types.                                                                  *)
(***************************************************************************)
\* burn: burn_tx_hash is set; it is set with settlement_status DISBURSED only.
Intent ==
    [status : {"NONE", "CREATED", "AUTHORIZATION_REQUESTED", "ON_CHAIN_CONFIRMED",
               "COMPLETED", "FAILED"},
     txHash : Txs \cup {NoTx},
     payer_account : Wallets \cup {NoWallet},
     order : Orders,
     settlement : {"NONE", "DISBURSED", "SETTLEMENT_PENDING", "AWAITING_MANUAL_SETTLEMENT"},
     burn : BOOLEAN]

\* The record of an id that is not there.
Absent == [status |-> "NONE", txHash |-> NoTx, payer_account |-> NoWallet,
           order |-> NoOrder, settlement |-> "NONE", burn |-> FALSE]

Known(x) == x.status # "NONE"

\* The awaits: getIntent's GET, createIntent's GET, a SET, the chain, what
\* precedes the end of the burn, the redeem request.
Stages == {"get", "create", "set", "verify", "settle", "redeem"}

\* next: where the handler is after a SET of the record `out'; done: it found
\* the intent disbursed; order: the recovery context of its body, then what the
\* intent it found asks for.
Handler ==
    [at : Stages \cup {"idle"}, kind : {"confirm", "webhook", "build", "none"},
     inst : Instances \cup {"none"}, intent : Intents \cup {NoIntent},
     tx : Txs \cup {NoTx}, payer : Wallets \cup {NoWallet}, order : Orders,
     next : {"found", "settle", "end"}, out : Intent, done : BOOLEAN]

Idle == [at |-> "idle", kind |-> "none", inst |-> "none", intent |-> NoIntent,
         tx |-> NoTx, payer |-> NoWallet, order |-> NoOrder,
         next |-> "end", out |-> Absent, done |-> FALSE]

TypeOK ==
    /\ mem \in [Instances -> [Intents -> Intent]]
    /\ kv \in [Intents -> Intent]
    /\ slot \in [Slots -> Handler]
    /\ final \subseteq Txs
    /\ burned \subseteq Intents
    /\ paid \in [Intents -> Nat]
    /\ calls \in 0 .. MaxCalls
    /\ home \in [Intents -> Instances \cup {"unborn", "kv"}]
    /\ steady \in [Intents -> BOOLEAN]

Init ==
    /\ mem = [s \in Instances |-> [i \in Intents |-> Absent]]
    /\ kv = [i \in Intents |-> Absent]
    /\ slot = [p \in Slots |-> Idle]
    /\ final = {}
    /\ burned = {}
    /\ paid = [i \in Intents |-> 0]
    /\ calls = 0
    /\ home = [i \in Intents |-> "unborn"]
    /\ steady = [i \in Intents |-> TRUE]

-----------------------------------------------------------------------------
(***************************************************************************)
(* The history variables.  steady[i] is what the comments of the code take *)
(* for granted: calls for i do not overlap, and each is served where the   *)
(* record the last one left is visible.                                    *)
(***************************************************************************)
\* What getIntent finds on s.
View(s, i) == IF Known(mem[s][i]) THEN mem[s][i] ELSE kv[i]

Latest(i) == IF home[i] \in Instances THEN View(home[i], i) ELSE kv[i]

Busy(i) == \E p \in Slots : slot[p].intent = i

\* A handler on s begins to serve i.
Serve(p, s, i) ==
    /\ home' = [home EXCEPT ![i] = s]
    /\ steady' = [steady EXCEPT ![i] = /\ @
                                       /\ \A q \in Slots \ {p} : slot[q].intent # i
                                       /\ View(s, i) = Latest(i)]

-----------------------------------------------------------------------------
(***************************************************************************)
(* The store.                                                              *)
(***************************************************************************)
At(p, stage) == slot[p].at = stage

Go(p, h) == slot' = [slot EXCEPT ![p] = h]

\* The record that updateIntent and confirmIntent patch: the handler has made
\* the id known to its instance.
Mine(h) == mem[h.inst][h.intent]

\* What a handler still needs of itself during a SET.
Rest(h, next) ==
    CASE next = "found"  -> h
      [] next = "settle" -> [h EXCEPT !.tx = NoTx, !.payer = NoWallet]
      [] next = "end"    -> [Idle EXCEPT !.inst = h.inst, !.intent = h.intent]

\* The memory is written at once, the KV service next.  m is the memory the
\* write is made in.
Write(p, h, r, next, m) ==
    /\ mem' = [m EXCEPT ![h.inst][h.intent] = r]
    /\ Go(p, [Rest(h, next) EXCEPT !.at = "set", !.next = next, !.out = r])

Put(p, h, r, next) == Write(p, h, r, next, mem)

\* A confirm ends here: the intent has this transaction already, or another
\* intent of this instance's memory has it.
Refused(h, x, m) ==
    \/ x.txHash = h.tx
    \/ \E j \in Intents \ {h.intent} : m[h.inst][j].txHash = h.tx

\* Mutant: the burn found by the webhook is not looked at.
FoundBlind(p, h, x, m) ==
    \/ /\ h.kind = "confirm"
       /\ mem' = m
       /\ Go(p, IF Refused(h, x, m) THEN Idle
                ELSE [h EXCEPT !.at = "verify", !.next = "end", !.out = Absent,
                               !.payer = IF @ = NoWallet THEN x.payer_account ELSE @,
                               !.order = x.order])
    \/ /\ h.kind = "build"
       /\ Write(p, h, [m[h.inst][h.intent] EXCEPT !.status = "AUTHORIZATION_REQUESTED",
                                                  !.payer_account = h.payer], "end", m)
    \/ /\ h.kind = "webhook" /\ x.status = "COMPLETED"
       /\ mem' = m /\ Go(p, Idle)
    \/ /\ h.kind = "webhook" /\ x.status # "COMPLETED"
       /\ Write(p, [h EXCEPT !.order = x.order],
                [x EXCEPT !.status = "ON_CHAIN_CONFIRMED",
                          !.txHash = h.tx, !.payer_account = h.payer], "settle", m)

\* The handler has the intent x; m is the memory with it.
Found(p, h, x, m) ==
    \/ /\ h.kind = "confirm"
       /\ mem' = m
       /\ Go(p, IF Refused(h, x, m) THEN Idle
                ELSE [h EXCEPT !.at = "verify", !.next = "end", !.out = Absent,
                               !.payer = IF @ = NoWallet THEN x.payer_account ELSE @,
                               !.order = x.order])
    \/ /\ h.kind = "build"
       /\ Write(p, h, [m[h.inst][h.intent] EXCEPT !.status = "AUTHORIZATION_REQUESTED",
                                                  !.payer_account = h.payer], "end", m)
    \/ /\ h.kind = "webhook" /\ x.status = "COMPLETED"
       /\ mem' = m /\ Go(p, Idle)
    \/ /\ h.kind = "webhook" /\ x.status # "COMPLETED"
       /\ Write(p, [h EXCEPT !.done = x.burn, !.order = x.order],
                [x EXCEPT !.status = "ON_CHAIN_CONFIRMED",
                          !.txHash = h.tx, !.payer_account = h.payer], "settle", m)

\* The webhook's fallback: an open intent of the sender in this instance's
\* memory.  (The latest created; which one that is is left open.)
Fallback(p, h) ==
    LET open == {i \in Intents : /\ Known(mem[h.inst][i])
                                 /\ mem[h.inst][i].payer_account = h.payer
                                 /\ mem[h.inst][i].status # "COMPLETED"}
    IN  \/ /\ open = {} /\ Go(p, Idle) /\ UNCHANGED <<mem, history>>
        \/ \E i \in open :
              /\ Found(p, [h EXCEPT !.intent = i], mem[h.inst][i], mem)
              /\ Serve(p, h.inst, i)

\* getIntent(h.intent), from memory or with a GET.
Lookup(p, h) ==
    IF Known(mem[h.inst][h.intent])
    THEN Found(p, h, mem[h.inst][h.intent], mem)
    ELSE Go(p, [h EXCEPT !.at = "get"]) /\ UNCHANGED mem

\* The id is unknown: the webhook falls back, the others create the intent
\* from what their body says.  (A KV record that was not seen is lost to it.)
Missing(p, h) ==
    IF h.kind = "webhook"
    THEN Fallback(p, [h EXCEPT !.intent = NoIntent])
    ELSE LET r == [Absent EXCEPT !.status = "CREATED", !.order = h.order,
                                 !.payer_account = IF h.kind = "confirm" THEN h.payer
                                                   ELSE NoWallet] IN
         /\ mem' = [mem EXCEPT ![h.inst][h.intent] = r]
         /\ Go(p, [h EXCEPT !.at = "create", !.out = r])
         /\ steady' = [steady EXCEPT ![h.intent] = @ /\ ~Known(kv[h.intent])]
         /\ UNCHANGED home

-----------------------------------------------------------------------------
(***************************************************************************)
(* The calls.                                                              *)
(***************************************************************************)
Call(p, kind, s, i, t, w, o) ==
    LET h == [Idle EXCEPT !.kind = kind, !.inst = s, !.intent = i, !.tx = t,
                          !.payer = w, !.order = o]
    IN  /\ At(p, "idle")
        /\ calls < MaxCalls /\ calls' = calls + 1
        /\ IF i = NoIntent THEN Fallback(p, h) ELSE Lookup(p, h) /\ Serve(p, s, i)
        /\ UNCHANGED <<kv, final, money>>

\* POST /v1/payment-intents: the id is new and leaves with the answer only.
CreateIntent(s, i, o) ==
    LET r == [Absent EXCEPT !.status = "CREATED", !.order = o] IN
    /\ home[i] = "unborn"
    /\ mem' = [mem EXCEPT ![s][i] = r]
    /\ \/ kv' = [kv EXCEPT ![i] = r]
       \/ "kv" \in Faults /\ kv' = kv
    /\ home' = [home EXCEPT ![i] = s]
    /\ UNCHANGED <<slot, final, money, calls, steady>>

\* POST /v1/payment-intents/:id, with or without the recovery context.
Confirm(p, s, i) ==
    \E t \in Txs : \E w \in Claims : \E o \in Orders :
        Call(p, "confirm", s, i, t, w, o)

\* POST /solana-pay/:id.
BuildTransaction(p, s, i) ==
    \E w \in Wallets : \E o \in Orders : Call(p, "build", s, i, NoTx, w, o)

\* POST /v1/webhooks/helius: an event, delivered once or again.
HeliusEvent(p, s) ==
    \E t \in Txs : Call(p, "webhook", s, Memo[t], t, Signer[t], NoOrder)

\* getIntent's GET is answered ...
Get(p) ==
    LET h == slot[p]
        x == kv[h.intent]
    IN  /\ At(p, "get")
        /\ \/ /\ Known(x)
              /\ Found(p, h, x, [mem EXCEPT ![h.inst][h.intent] = x])
              /\ UNCHANGED history
           \/ /\ ~Known(x)
              /\ Missing(p, h)
        /\ UNCHANGED <<kv, final, money, calls>>

\* ... or fails: an id that exists is taken for one that does not.
GetFail(p) ==
    LET h == slot[p] IN
    /\ "kv" \in Faults
    /\ At(p, "get")
    /\ Missing(p, h)
    /\ UNCHANGED <<kv, final, money, calls>>

\* createIntent's GET: an existing record replaces the new one, otherwise the
\* new one is written.
Create(p) ==
    LET h == slot[p]
        x == kv[h.intent]
    IN  /\ At(p, "create")
        /\ \/ /\ Known(x)
              /\ Found(p, h, x, [mem EXCEPT ![h.inst][h.intent] = x])
           \/ /\ ~Known(x)
              /\ Go(p, [h EXCEPT !.at = "set", !.next = "found"])
              /\ UNCHANGED mem
        /\ UNCHANGED <<kv, final, money, calls, history>>

\* It fails: nothing is written.
CreateFail(p) ==
    /\ "kv" \in Faults
    /\ At(p, "create")
    /\ Found(p, slot[p], slot[p].out, mem)
    /\ UNCHANGED <<kv, final, money, calls, history>>

\* After a SET, whether it worked or not.
Resume(p, h) ==
    \/ /\ h.next = "found"
       /\ Found(p, h, h.out, mem)
    \/ /\ h.next = "settle"
       /\ Go(p, [h EXCEPT !.at = "settle", !.next = "end", !.out = Absent])
       /\ UNCHANGED mem
    \/ /\ h.next = "end"
       /\ Go(p, Idle)
       /\ UNCHANGED mem

\* A SET writes the record as the handler had it when it sent it.
Set(p) ==
    /\ At(p, "set")
    /\ kv' = [kv EXCEPT ![slot[p].intent] = slot[p].out]
    /\ Resume(p, slot[p])
    /\ UNCHANGED <<final, money, calls, history>>

\* Mutant: a failed SET ends the handler.
SetFailThrows(p) ==
    /\ "kv" \in Faults
    /\ At(p, "set")
    /\ Go(p, Idle)
    /\ UNCHANGED <<store, final, money, calls, history>>

\* It fails, and the handler goes on.
SetFail(p) ==
    /\ "kv" \in Faults
    /\ At(p, "set")
    /\ Resume(p, slot[p])
    /\ UNCHANGED <<kv, final, money, calls, history>>

-----------------------------------------------------------------------------
(***************************************************************************)
(* Confirm: the chain.                                                     *)
(***************************************************************************)
\* verifyFinalizedSignature says no, or the RPC did not answer: the intent
\* keeps the transaction all the same.
Unverified(p) ==
    LET h == slot[p] IN
    /\ At(p, "verify")
    /\ h.tx \notin final \/ "rpc" \in Faults
    /\ Put(p, h, [Mine(h) EXCEPT !.status = "FAILED", !.txHash = h.tx,
                                 !.payer_account = h.payer], "end")
    /\ UNCHANGED <<kv, final, money, calls, history>>

\* The details of the transaction are unavailable, or do not show the transfer
\* that the intent expects.
NoFacts(p) ==
    /\ "rpc" \in Faults
    /\ At(p, "verify") /\ slot[p].tx \in final
    /\ Go(p, Idle)
    /\ UNCHANGED <<store, final, money, calls, history>>

\* confirmIntent, for the signer the chain names.
ConfirmIntent(p) ==
    LET h == slot[p]
        r == [Mine(h) EXCEPT !.status = "COMPLETED", !.txHash = h.tx,
                             !.payer_account = Signer[h.tx]]
    IN  /\ At(p, "verify") /\ h.tx \in final
        /\ Put(p, [h EXCEPT !.done = r.burn], r, "settle")
        /\ UNCHANGED <<kv, final, money, calls, history>>

-----------------------------------------------------------------------------
(***************************************************************************)
(* Both: the disbursement, disburseFromInventory and what is recorded.     *)
(***************************************************************************)
BelowMinimum(h) ==
    /\ h.order.amount > 0
    /\ h.order.amount < MIN_DISBURSEMENT_IDR

\* The amount and the bank account call for a disbursement.
Disbursable(h) ==
    h.order.bank /\ h.order.amount >= MIN_DISBURSEMENT_IDR

\* Mutant: an intent found disbursed is not answered.
SettleSkipSilent(p) ==
    LET h == slot[p] IN
    /\ At(p, "settle") /\ ~h.done
    /\ \/ h.kind = "confirm" /\ BelowMinimum(h)
       \/ h.kind = "confirm" /\ h.order.bank /\ h.order.amount = 0
    /\ Go(p, Idle)
    /\ UNCHANGED <<store, final, money, calls, history>>

\* Nothing to do: a confirm whose amount is too small is refused here, after
\* confirmIntent; or the intent was found disbursed; or there is no amount.
SettleSkip(p) ==
    LET h == slot[p] IN
    /\ At(p, "settle")
    /\ \/ h.done
       \/ h.kind = "confirm" /\ BelowMinimum(h)
       \/ h.kind = "confirm" /\ h.order.bank /\ h.order.amount = 0
    /\ Go(p, Idle)
    /\ UNCHANGED <<store, final, money, calls, history>>

\* No account to pay to; for the webhook also no amount worth paying.
SettleManually(p) ==
    LET h == slot[p] IN
    /\ At(p, "settle") /\ ~h.done /\ ~Disbursable(h)
    /\ h.kind = "confirm" => ~h.order.bank /\ ~BelowMinimum(h)
    /\ Put(p, h, [Mine(h) EXCEPT !.settlement = "AWAITING_MANUAL_SETTLEMENT"], "end")
    /\ UNCHANGED <<kv, final, money, calls, history>>

\* Mutants: burn_tx_hash is not part of the patch; the webhook writes a status
\* of its own.
OutcomeNoBurn(h, settlement) ==
    [Mine(h) EXCEPT !.settlement = settlement,
                    !.status = IF h.kind = "webhook" THEN "COMPLETED" ELSE @]
OutcomeNewStatus(h, settlement) ==
    [Mine(h) EXCEPT !.settlement = settlement,
                    !.burn = @ \/ settlement = "DISBURSED",
                    !.status = IF h.kind = "webhook" THEN "SETTLED" ELSE @]

\* What updateIntent writes when disburseFromInventory has returned; the
\* webhook also completes the intent.
Outcome(h, settlement) ==
    [Mine(h) EXCEPT !.settlement = settlement,
                    !.burn = @ \/ settlement = "DISBURSED",
                    !.status = IF h.kind = "webhook" THEN "COMPLETED" ELSE @]

\* Nothing was burned: too small an amount for IDRX, or one of the refusals.
BurnRefused(p) ==
    LET h == slot[p] IN
    /\ At(p, "settle") /\ ~h.done /\ Disbursable(h)
    /\ h.order.amount < MIN_REDEEM_IDR \/ "refused" \in Faults
    /\ Put(p, h, Outcome(h, "SETTLEMENT_PENDING"), "end")
    /\ UNCHANGED <<kv, final, money, calls, history>>

\* The burn is mined ...
Burn(p) ==
    LET h == slot[p] IN
    /\ At(p, "settle") /\ ~h.done /\ Disbursable(h)
    /\ h.order.amount >= MIN_REDEEM_IDR
    /\ burned' = burned \cup {h.intent}
    /\ \/ Go(p, [h EXCEPT !.at = "redeem"]) /\ UNCHANGED mem
       \/ /\ "lost" \in Faults   \* ... and tx.wait throws
          /\ Put(p, h, Outcome(h, "SETTLEMENT_PENDING"), "end")
    /\ UNCHANGED <<kv, final, paid, calls, history>>

\* submitIdrxRedeemRequest is accepted ...
Redeem(p) ==
    LET h == slot[p] IN
    /\ At(p, "redeem")
    /\ paid' = [paid EXCEPT ![h.intent] = @ + 1]
    /\ Put(p, h, Outcome(h, "DISBURSED"), "end")
    /\ UNCHANGED <<kv, final, burned, calls, history>>

\* Mutant: any answer of the redeem request is taken for acceptance.
RedeemFailUnchecked(p) ==
    LET h == slot[p] IN
    /\ At(p, "redeem")
    /\ \/ "rejected" \in Faults /\ UNCHANGED paid
       \/ "unsure" \in Faults /\ paid' = [paid EXCEPT ![h.intent] = @ + 1]
    /\ Put(p, h, Outcome(h, "DISBURSED"), "end")
    /\ UNCHANGED <<kv, final, burned, calls, history>>

\* ... or it throws: IDRX refused it, or accepted it and the answer was lost.
RedeemFail(p) ==
    LET h == slot[p] IN
    /\ At(p, "redeem")
    /\ \/ "rejected" \in Faults /\ UNCHANGED paid
       \/ "unsure" \in Faults /\ paid' = [paid EXCEPT ![h.intent] = @ + 1]
    /\ Put(p, h, Outcome(h, "SETTLEMENT_PENDING"), "end")
    /\ UNCHANGED <<kv, final, burned, calls, history>>

-----------------------------------------------------------------------------
(***************************************************************************)
(* The surroundings.                                                       *)
(***************************************************************************)
Finalize(t) ==
    /\ final' = final \cup {t}
    /\ UNCHANGED <<store, slot, money, calls, history>>

\* The host ends an instance, with its memory and its handlers.
Kill(s) ==
    LET Hit(i) == \E p \in Slots : slot[p].inst = s /\ slot[p].intent = i IN
    /\ "kill" \in Faults
    /\ mem' = [mem EXCEPT ![s] = [i \in Intents |-> Absent]]
    /\ slot' = [p \in Slots |-> IF slot[p].inst = s THEN Idle ELSE slot[p]]
    /\ home' = [i \in Intents |-> IF home[i] = s THEN "kv" ELSE home[i]]
    /\ steady' = [i \in Intents |->
                     steady[i] /\ ~Hit(i) /\ (home[i] = s => View(s, i) = kv[i])]
    /\ UNCHANGED <<kv, final, money, calls>>

HandlerStep(p) ==
    \/ Get(p) \/ GetFail(p) \/ Create(p) \/ CreateFail(p) \/ Set(p) \/ SetFail(p)
    \/ Unverified(p) \/ NoFacts(p) \/ ConfirmIntent(p)
    \/ SettleSkip(p) \/ SettleManually(p) \/ BurnRefused(p) \/ Burn(p)
    \/ Redeem(p) \/ RedeemFail(p)

NewCall(p) ==
    \E s \in Instances :
        \/ \E i \in Intents : Confirm(p, s, i) \/ BuildTransaction(p, s, i)
        \/ HeliusEvent(p, s)

Next ==
    \/ \E p \in Slots : NewCall(p) \/ HandlerStep(p)
    \/ \E s \in Instances, i \in Intents : \E o \in Orders : CreateIntent(s, i, o)
    \/ \E t \in Txs : Finalize(t)
    \/ \E s \in Instances : Kill(s)

Spec == Init /\ [][Next]_vars

-----------------------------------------------------------------------------
\* If the calls for an intent follow one another and each sees the record the
\* last one left, its merchant is paid once at most: by a confirm, a webhook
\* or a repeated confirm after a failed burn or redeem request.
PaidOnce == \A i \in Intents : steady[i] => paid[i] <= 1

\* A record says DISBURSED only if IDRX accepted a redeem request for the
\* intent, in every copy, whatever calls overlap and whatever fails.
DisbursedIsPaid ==
    \A i \in Intents :
        paid[i] = 0 => /\ kv[i].settlement # "DISBURSED"
                       /\ \A s \in Instances : mem[s][i].settlement # "DISBURSED"

\* Under the same assumption, between calls: a payout is in the record, and
\* IDRX burned without a payout is kept as a pending settlement.
MoneyRecorded ==
    \A i \in Intents :
        steady[i] /\ ~Busy(i) =>
            /\ paid[i] > 0 => Latest(i).burn
            /\ i \in burned => Latest(i).settlement \in {"DISBURSED", "SETTLEMENT_PENDING"}

Fairness == \A p \in Slots : WF_vars(HandlerStep(p))

LiveSpec == Spec /\ Fairness

\* Every handler returns: the outside services answer or fail, and no path of
\* the code waits for another handler.
EveryCallReturns == \A p \in Slots : ~At(p, "idle") ~> At(p, "idle")

\* A payment recorded as completed does not stay without a settlement when
\* there is an account to pay to and the calls followed one another.
CompletedIsSettled ==
    \A i \in Intents :
        /\ Latest(i).status = "COMPLETED"
        /\ Latest(i).order.bank /\ Latest(i).order.amount >= MIN_DISBURSEMENT_IDR
        ~> Latest(i).settlement # "NONE" \/ ~steady[i]

=============================================================================
