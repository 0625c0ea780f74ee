---------------------------- MODULE PaymentConfirm ----------------------------
(***************************************************************************)
(* The confirm pipeline of the Express backend (backend/src).              *)
(*                                                                         *)
(* A confirm request is a process: the handler of                          *)
(* POST /payment-intents/:id/confirm runs from one await to the next       *)
(* without interruption, and any other handler or timer may run at an      *)
(* await.  pc[r] names the await at which request r is suspended, and,     *)
(* once the handler has returned, the answer it gave.                      *)
(*                                                                         *)
(* Beside the confirm requests the model has everything else that writes   *)
(* an intent: the Solana Pay builder, the settlement partner's webhook,    *)
(* the Helius webhook, the reconciliation timer, the memory GC, the        *)
(* database expiry timer, a restart of the process and the restore that    *)
(* follows it.                                                             *)
(***************************************************************************)
EXTENDS Naturals, FiniteSets

CONSTANTS
    Intents,      \* payment intents, created as the run goes
    Requests,     \* confirm requests, each used once
    Txs,          \* on-chain transactions (their signatures)
    Wallets,      \* wallet addresses
    NoTx,         \* txHash is undefined
    NoWallet,     \* payer_account is undefined
    Signer,       \* Signer[t]: the wallet that signed t
    Delivered,    \* Delivered[t]: IDRX atoms t moves into the treasury account
    Due,          \* Due[i]: IDRX atoms the intent asks for
    Inputs,       \* which of the outside events of OutsideEvents occur
    MaxBuilds,    \* bound: Solana Pay requests under way at once
    Claims,       \* the payer_accounts callers send, NoWallet for none
    OneCallPerIntent,  \* a caller waits for an answer before confirming the intent again
    OneCallPerTx,      \* a caller waits for an answer before using the transaction again
    BuildThenConfirm   \* the intent is confirmed with a transaction built for it, after the build

OutsideEvents ==
    {"build", "partner", "helius", "reconcile", "evict", "expire", "restart",
     "syncfail", "unheard"}

ASSUME NullAssumption ==
    NoTx \notin Txs /\ NoWallet \notin Wallets /\ "webhook" \notin Requests
ASSUME ChainAssumption == Signer \in [Txs -> Wallets] /\ Delivered \in [Txs -> Nat]
ASSUME DueAssumption == Due \in [Intents -> Nat \ {0}]
ASSUME InputsAssumption ==
    /\ Inputs \subseteq OutsideEvents
    /\ Claims \subseteq Wallets \cup {NoWallet}
    /\ MaxBuilds \in Nat
ASSUME CallerAssumption ==
    /\ OneCallPerIntent \in BOOLEAN
    /\ OneCallPerTx \in BOOLEAN
    /\ BuildThenConfirm \in BOOLEAN

VARIABLES
    intent,       \* the intent objects
    live,         \* the ids present in the paymentIntents map
    confirmLocks, \* the Set of the same name
    req,          \* the parameters of each confirm request
    pc,           \* per request: the await it is at, or its answer
    expected,     \* per request: the amount verifyTransaction holds while it runs
    builds,       \* Solana Pay requests under way
    writes,       \* upserts sent to PostgreSQL and not yet executed
    db,           \* the payment_intents table
    jobs,         \* settlement jobs added to BullMQ
    rows,         \* settlement rows created in PostgreSQL
    finalized,    \* transactions the chain has finalized
    restored      \* restoreFromDatabase has run since the process started

\* What a step of the handler leaves alone; what is its own; what is durable.
env == <<live, req, builds, finalized, restored>>
handler == <<confirmLocks, pc, expected>>
disk == <<db, jobs, rows>>

vars == <<intent, writes, env, handler, disk>>

-----------------------------------------------------------------------------
(***************************************************************************)
(* Types.                                                                  *)
(***************************************************************************)
IntentStatus ==
    {"CREATED", "AUTHORIZATION_REQUESTED", "AUTHORIZED", "AWAITING_SETTLEMENT",
     "SETTLEMENT_QUEUED", "SETTLEMENT_FAILED", "COMPLETED", "FAILED"}

\* expected is expected_atomic_amount, 0 when undefined.  An intent that was
\* never created has the status "ABSENT".
IntentObject ==
    [status : IntentStatus \cup {"ABSENT"}, txHash : Txs \cup {NoTx},
     payer_account : Wallets \cup {NoWallet}, expected : Nat]

\* enum TransactionStatus of schema.prisma: what the status column accepts.
TransactionStatus ==
    {"CREATED", "RISK_EVALUATING", "QUOTE_PENDING", "QUOTE_READY", "QUOTE_EXPIRED",
     "USER_CONFIRMING", "TRANSACTION_BUILDING", "AWAITING_WALLET_SIGNATURE",
     "SIGNATURE_RECEIVED", "BROADCASTING", "BROADCAST_FAILED", "CONFIRMING",
     "CONFIRMATION_TIMEOUT", "ON_CHAIN_CONFIRMED", "SETTLEMENT_QUEUED",
     "SETTLEMENT_PROCESSING", "SETTLEMENT_COMPLETE", "SETTLEMENT_FAILED",
     "CANCELLED", "BLOCKED", "FAILED"}

\* A row of payment_intents; "NONE" is the status of a row that is not there.
DbRow == [status : TransactionStatus \cup {"NONE"}, txHash : Txs \cup {NoTx},
          payer_account : Wallets \cup {NoWallet}, deleted : BOOLEAN]

\* An upsert of sync, and who awaits it.
Write == [by : Requests \cup {"webhook"}, intent : Intents,
          status : TransactionStatus, txHash : Txs \cup {NoTx},
          payer_account : Wallets \cup {NoWallet}]

\* A Solana Pay request: before the intent's fields are set, or awaiting
\* Jupiter's swap transaction.
Build == [intent : Intents, account : Wallets, at : {"quote", "swap"}]

\* The awaits of the confirm handler.  At all but the first it took the lock.
LockedStages ==
    {"verify", "payer", "authSync", "add", "row", "queuedSync", "failSync",
     "unheardSync"}
Stages == {"risk"} \cup LockedStages

\* Its answers; "lost" when the process died first.  "failed_unheard" is the
\* answer SETTLEMENT_FAILED too: the model remembers that PostgreSQL had created
\* the settlement row all the same.
Answers ==
    {"in_progress", "not_found", "idempotent", "already_processing",
     "replay_blocked", "risk_blocked", "unverified", "payer_mismatch",
     "queued", "settlement_failed", "failed_unheard", "lost"}

\* The path and body of a confirm request.
Request == [intent : Intents, tx : Txs, claim : Claims]

Order == [intent : Intents, by : Requests]

TypeOK ==
    /\ intent \in [Intents -> IntentObject]
    /\ live \subseteq Intents
    /\ confirmLocks \subseteq Intents
    /\ req \in [Requests -> Request]
    /\ pc \in [Requests -> {"idle"} \cup Stages \cup Answers]
    /\ expected \in [Requests -> Nat]
    /\ builds \subseteq Build
    /\ writes \subseteq Write
    /\ db \in [Intents -> DbRow]
    /\ jobs \subseteq Order
    /\ rows \subseteq Order
    /\ finalized \subseteq Txs
    /\ restored \in BOOLEAN

-----------------------------------------------------------------------------
(***************************************************************************)
(* Initial state: the process runs, nothing was created.                   *)
(***************************************************************************)
Absent == [status |-> "ABSENT", txHash |-> NoTx,
           payer_account |-> NoWallet, expected |-> 0]

NoRow == [status |-> "NONE", txHash |-> NoTx, payer_account |-> NoWallet,
          deleted |-> FALSE]

Init ==
    /\ intent = [i \in Intents |-> Absent]
    /\ live = {}
    /\ confirmLocks = {}
    /\ req \in [Requests -> Request]
    /\ pc = [r \in Requests |-> "idle"]
    /\ expected = [r \in Requests |-> 0]
    /\ builds = {}
    /\ writes = {}
    /\ db = [i \in Intents |-> NoRow]
    /\ jobs = {}
    /\ rows = {}
    /\ finalized = {}
    /\ restored = TRUE

-----------------------------------------------------------------------------
(***************************************************************************)
(* Helpers.                                                                *)
(***************************************************************************)
\* Mutant: AUTHORIZED is not translated, the fallback `?? intent.status`.
UntranslatedMap ==
    [s \in IntentStatus |->
        CASE s = "AUTHORIZATION_REQUESTED" -> "USER_CONFIRMING"
          [] s = "AWAITING_SETTLEMENT" -> "SETTLEMENT_PROCESSING"
          [] s = "COMPLETED" -> "SETTLEMENT_COMPLETE"
          [] OTHER -> s]

\* A status that the map translates to itself is left to OTHER.
STATUS_MAP ==
    [s \in IntentStatus |->
        CASE s = "AUTHORIZATION_REQUESTED" -> "USER_CONFIRMING"
          [] s = "AUTHORIZED" -> "ON_CHAIN_CONFIRMED"
          [] s = "AWAITING_SETTLEMENT" -> "SETTLEMENT_PROCESSING"
          [] s = "COMPLETED" -> "SETTLEMENT_COMPLETE"
          [] OTHER -> s]

\* PrismaPaymentStore.sync(i) when the object of i is o: the upsert carries
\* what the object holds at the call, and there is none if i left the map.
Sync(by, i, o) ==
    writes' = writes \cup
        (IF i \in live
         THEN {[by |-> by, intent |-> i, status |-> STATUS_MAP[o.status],
                txHash |-> o.txHash, payer_account |-> o.payer_account]}
         ELSE {})

Synced(r) == \A w \in writes : w.by # r

Goto(r, l) == pc' = [pc EXCEPT ![r] = l]

\* The finally block: whoever took it, the lock of the intent is gone.
Unlock(r) == confirmLocks' = confirmLocks \ {req[r].intent}

SetIntent(i, o) == intent' = [intent EXCEPT ![i] = o]

OrderOf(r) == [intent |-> req[r].intent, by |-> r]

-----------------------------------------------------------------------------
(***************************************************************************)
(* POST /payment-intents, from its last synchronous step on: the intent is *)
(* in the map, its row is written or (the sync is non-fatal) is not, and   *)
(* only then does the caller learn the id.                                 *)
(***************************************************************************)
Create(i) ==
    /\ intent[i].status = "ABSENT"
    /\ SetIntent(i, [intent[i] EXCEPT !.status = "CREATED"])
    /\ live' = live \cup {i}
    /\ \/ db' = [db EXCEPT ![i] = [NoRow EXCEPT !.status = "CREATED"]]
       \/ "syncfail" \in Inputs /\ UNCHANGED db
    /\ UNCHANGED <<req, builds, writes, jobs, rows, finalized, restored, handler>>

-----------------------------------------------------------------------------
(***************************************************************************)
(* The confirm handler, up to its first await.                             *)
(***************************************************************************)

\* What a caller may do, under the assumptions chosen.
MayCall(r) ==
    LET i == req[r].intent IN
    /\ pc[r] = "idle"
    /\ OneCallPerIntent =>
           \A q \in Requests : pc[q] \in Stages => req[q].intent # i
    /\ OneCallPerTx =>
           \A q \in Requests : pc[q] \in Stages => req[q].tx # req[r].tx
    /\ BuildThenConfirm =>
           /\ i \in live => intent[i].expected > 0
           /\ \A b \in builds : b.intent # i

\* Mutant: the replay scan is gone.
EarlyReplyNoScan(i, t) ==
    IF i \in confirmLocks THEN "in_progress"
    ELSE IF i \notin live THEN "not_found"
    ELSE IF intent[i].txHash = t THEN "idempotent"
    ELSE IF intent[i].status \notin {"CREATED", "AUTHORIZATION_REQUESTED"}
         THEN "already_processing"
    ELSE "none"

\* The checks that need no await, in the handler's order.
EarlyReply(i, t) ==
    IF i \in confirmLocks THEN "in_progress"
    ELSE IF i \notin live THEN "not_found"
    ELSE IF intent[i].txHash = t THEN "idempotent"
    ELSE IF intent[i].status \notin {"CREATED", "AUTHORIZATION_REQUESTED"}
         THEN "already_processing"
    ELSE IF \E j \in live \ {i} : intent[j].txHash = t THEN "replay_blocked"
    ELSE "none"

\* Mutant: the claimed payer is stored before the intent is looked at.
RejectStoringClaim(r) ==
    LET reply == EarlyReply(req[r].intent, req[r].tx) IN
    /\ MayCall(r)
    /\ reply # "none"
    /\ Goto(r, reply)
    /\ SetIntent(req[r].intent,
                 IF req[r].claim = NoWallet THEN intent[req[r].intent]
                 ELSE [intent[req[r].intent] EXCEPT !.payer_account = req[r].claim])
    /\ UNCHANGED <<confirmLocks, expected, writes, env, disk>>

Reject(r) ==
    LET reply == EarlyReply(req[r].intent, req[r].tx) IN
    /\ MayCall(r)
    /\ reply # "none"
    /\ Goto(r, reply)
    /\ UNCHANGED <<intent, confirmLocks, expected, writes, env, disk>>

RiskWallet(r) ==
    IF req[r].claim # NoWallet THEN req[r].claim
                               ELSE intent[req[r].intent].payer_account

\* RiskEngine.evaluate is awaited, before the lock is taken.
Assess(r) ==
    /\ MayCall(r)
    /\ EarlyReply(req[r].intent, req[r].tx) = "none"
    /\ RiskWallet(r) # NoWallet
    /\ Goto(r, "risk")
    /\ UNCHANGED <<intent, confirmLocks, expected, writes, env, disk>>

\* Mutant: verifyTransaction is called without the intent's id.
BeginVerifyBlind(r) ==
    /\ confirmLocks' = confirmLocks \cup {req[r].intent}
    /\ Goto(r, "verify")
    /\ UNCHANGED <<intent, expected, writes, env, disk>>

\* confirmLocks.add, and verifyTransaction reads what it will ask of the chain.
BeginVerify(r) ==
    LET i == req[r].intent IN
    /\ confirmLocks' = confirmLocks \cup {i}
    /\ expected' = [expected EXCEPT ![r] = IF i \in live THEN intent[i].expected ELSE 0]
    /\ Goto(r, "verify")
    /\ UNCHANGED <<intent, writes, env, disk>>

\* No wallet is known: the risk engine is not asked.
SkipRisk(r) ==
    /\ MayCall(r)
    /\ EarlyReply(req[r].intent, req[r].tx) = "none"
    /\ RiskWallet(r) = NoWallet
    /\ BeginVerify(r)

-----------------------------------------------------------------------------
(***************************************************************************)
(* The confirm handler, from await to await.                               *)
(***************************************************************************)
RiskBlock(r) ==
    /\ pc[r] = "risk"
    /\ Goto(r, "risk_blocked")
    /\ UNCHANGED <<intent, confirmLocks, expected, writes, env, disk>>

\* Allowed, or the engine failed (non-fatal).
RiskPass(r) == pc[r] = "risk" /\ BeginVerify(r)

\* Not finalized yet, failed on chain, too little received, or no RPC answered.
VerifyFail(r) ==
    /\ pc[r] = "verify"
    /\ Goto(r, "unverified")
    /\ Unlock(r)
    /\ expected' = [expected EXCEPT ![r] = 0]
    /\ UNCHANGED <<intent, writes, env, disk>>

\* What verifyTransaction asks of the chain.
Inflow(t, least) ==
    t \in finalized /\ Delivered[t] > 0 /\ Delivered[t] >= least

\* The claimed payer is stored.
Verified(r) ==
    LET i == req[r].intent IN
    /\ pc[r] = "verify"
    /\ SetIntent(i, IF req[r].claim # NoWallet
                    THEN [intent[i] EXCEPT !.payer_account = req[r].claim]
                    ELSE intent[i])
    /\ Goto(r, "payer")
    /\ expected' = [expected EXCEPT ![r] = 0]
    /\ UNCHANGED <<confirmLocks, writes, env, disk>>

\* Mutant: a transaction that is not final is accepted.
VerifyOkUnfinal(r) ==
    Delivered[req[r].tx] > 0 /\ Delivered[req[r].tx] >= expected[r] /\ Verified(r)

VerifyOk(r) == Inflow(req[r].tx, expected[r]) /\ Verified(r)

\* The wallet the intent names is not the signer.
Mismatch(r, p) ==
    /\ p # NoWallet
    /\ intent[req[r].intent].payer_account \notin {NoWallet, p}

\* Mutant: the mismatch leaves without the finally block.
PayerMismatchLocked(r) ==
    /\ pc[r] = "payer"
    /\ Mismatch(r, Signer[req[r].tx])
    /\ Goto(r, "payer_mismatch")
    /\ UNCHANGED <<intent, confirmLocks, expected, writes, env, disk>>

\* extractPayerAccount answers p, NoWallet when no RPC did.
PayerMismatch(r) ==
    /\ pc[r] = "payer"
    /\ Mismatch(r, Signer[req[r].tx])
    /\ Goto(r, "payer_mismatch")
    /\ Unlock(r)
    /\ UNCHANGED <<intent, expected, writes, env, disk>>

\* Mutant: txHash is not stored.
AuthorizeNoHash(r) ==
    LET o == [intent[req[r].intent] EXCEPT !.status = "AUTHORIZED"] IN
    /\ pc[r] = "payer"
    /\ ~Mismatch(r, Signer[req[r].tx])
    /\ SetIntent(req[r].intent, o)
    /\ Sync(r, req[r].intent, o)
    /\ Goto(r, "authSync")
    /\ UNCHANGED <<confirmLocks, expected, env, disk>>

AuthorizedBy(r, p) ==
    [intent[req[r].intent] EXCEPT
        !.status = "AUTHORIZED",
        !.txHash = req[r].tx,
        !.payer_account = IF p = NoWallet THEN @ ELSE p]

AuthorizeAs(r, p) ==
    /\ pc[r] = "payer"
    /\ ~Mismatch(r, p)
    /\ SetIntent(req[r].intent, AuthorizedBy(r, p))
    /\ Sync(r, req[r].intent, AuthorizedBy(r, p))
    /\ Goto(r, "authSync")
    /\ UNCHANGED <<confirmLocks, expected, env, disk>>

Authorize(r) == \E p \in {Signer[req[r].tx], NoWallet} : AuthorizeAs(r, p)

\* The sync is over; the job is being added.
Awaiting(r) ==
    /\ pc[r] = "authSync"
    /\ Synced(r)
    /\ SetIntent(req[r].intent,
                 [intent[req[r].intent] EXCEPT !.status = "AWAITING_SETTLEMENT"])
    /\ Goto(r, "add")
    /\ UNCHANGED <<confirmLocks, expected, writes, env, disk>>

\* Mutant: the handler gives up when the status changed during its sync.
AwaitSettlementChecked(r) ==
    \/ intent[req[r].intent].status = "AUTHORIZED" /\ Awaiting(r)
    \/ /\ intent[req[r].intent].status # "AUTHORIZED"
       /\ pc[r] = "authSync"
       /\ Goto(r, "already_processing")
       /\ Unlock(r)
       /\ UNCHANGED <<intent, expected, writes, env, disk>>

AwaitSettlement(r) == Awaiting(r)

\* enqueueSettlement: queue.add, then settlement.create.
AddJob(r) ==
    /\ pc[r] = "add"
    /\ jobs' = jobs \cup {OrderOf(r)}
    /\ Goto(r, "row")
    /\ UNCHANGED <<intent, confirmLocks, expected, writes, db, rows, env>>

CreateRow(r) ==
    LET o == [intent[req[r].intent] EXCEPT !.status = "SETTLEMENT_QUEUED"] IN
    /\ pc[r] = "row"
    /\ rows' = rows \cup {OrderOf(r)}
    /\ SetIntent(req[r].intent, o)
    /\ Sync(r, req[r].intent, o)
    /\ Goto(r, "queuedSync")
    /\ UNCHANGED <<confirmLocks, expected, db, jobs, env>>

\* The catch of the enqueue: the intent becomes o, and the sync is awaited at l.
FailWith(r, o, l) ==
    /\ SetIntent(req[r].intent, o)
    /\ Sync(r, req[r].intent, o)
    /\ Goto(r, l)
    /\ UNCHANGED <<confirmLocks, expected, db, jobs, env>>

Failed(r) == [intent[req[r].intent] EXCEPT !.status = "SETTLEMENT_FAILED"]

\* Mutants: the intent is rolled back for a retry; the failure is swallowed;
\* a failing sync lands in the catch.
RefusedRollback(r) ==
    /\ pc[r] \in {"add", "row"}
    /\ FailWith(r, [intent[req[r].intent] EXCEPT !.status = "CREATED", !.txHash = NoTx],
                "failSync")
    /\ UNCHANGED rows
RefusedSwallowed(r) ==
    /\ pc[r] \in {"add", "row"}
    /\ FailWith(r, [intent[req[r].intent] EXCEPT !.status = "SETTLEMENT_QUEUED"], "failSync")
    /\ UNCHANGED rows
RefusedOnSync(r) ==
    /\ pc[r] \in {"add", "row", "queuedSync"}
    /\ FailWith(r, Failed(r), "failSync")
    /\ UNCHANGED rows

\* Redis or PostgreSQL refused.  The job may be in the queue already; an add
\* whose answer was lost is AddJob and then this.
Refused(r) ==
    /\ pc[r] \in {"add", "row"}
    /\ FailWith(r, Failed(r), "failSync")
    /\ UNCHANGED rows

\* PostgreSQL created the row and its answer was lost: the same catch, with the
\* job and the row in place.
RowUnheard(r) ==
    /\ "unheard" \in Inputs
    /\ pc[r] = "row"
    /\ rows' = rows \cup {OrderOf(r)}
    /\ FailWith(r, Failed(r), "unheardSync")

EnqueueFail(r) == Refused(r) \/ RowUnheard(r)

\* Mutant: the failure path never answers.
FinishQueued(r) ==
    /\ pc[r] = "queuedSync"
    /\ Synced(r)
    /\ Goto(r, "queued")
    /\ Unlock(r)
    /\ UNCHANGED <<intent, expected, writes, env, disk>>

Finish(r) ==
    /\ pc[r] \in {"queuedSync", "failSync", "unheardSync"}
    /\ Synced(r)
    /\ Goto(r, CASE pc[r] = "queuedSync" -> "queued"
                 [] pc[r] = "failSync" -> "settlement_failed"
                 [] OTHER -> "failed_unheard")
    /\ Unlock(r)
    /\ UNCHANGED <<intent, expected, writes, env, disk>>

-----------------------------------------------------------------------------
(***************************************************************************)
(* POST /solana-pay/:intentId.  The object of the intent is fetched at the *)
(* start; createPaymentTransaction sets its fields before Jupiter's swap   *)
(* answer, the route its status after.                                     *)
(***************************************************************************)
BuildStart(i, w) ==
    /\ "build" \in Inputs
    /\ i \in live
    /\ BuildThenConfirm =>
           \A r \in Requests : req[r].intent = i => pc[r] \in {"idle", "not_found"}
    /\ Cardinality(builds) < MaxBuilds
    /\ builds' = builds \cup {[intent |-> i, account |-> w, at |-> "quote"]}
    /\ UNCHANGED <<intent, live, req, writes, finalized, restored, handler, disk>>

BuildQuoted(b) ==
    /\ b.at = "quote"
    /\ SetIntent(b.intent, [intent[b.intent] EXCEPT !.payer_account = b.account,
                                                    !.expected = Due[b.intent]])
    /\ builds' = (builds \ {b}) \cup {[b EXCEPT !.at = "swap"]}
    /\ UNCHANGED <<live, req, writes, finalized, restored, handler, disk>>

BuildDone(b) ==
    /\ b.at = "swap"
    /\ SetIntent(b.intent,
                 IF b.intent \in live
                 THEN [intent[b.intent] EXCEPT !.status = "AUTHORIZATION_REQUESTED",
                                               !.payer_account = b.account]
                 ELSE intent[b.intent])
    /\ builds' = builds \ {b}
    /\ UNCHANGED <<live, req, writes, finalized, restored, handler, disk>>

\* No quote, an unsafe price, or no swap transaction.
BuildFail(b) ==
    /\ builds' = builds \ {b}
    /\ UNCHANGED <<intent, live, req, writes, finalized, restored, handler, disk>>

-----------------------------------------------------------------------------
(***************************************************************************)
(* Webhooks and timers.                                                    *)
(***************************************************************************)
Finalize(t) ==
    /\ t \notin finalized
    /\ finalized' = finalized \cup {t}
    /\ UNCHANGED <<intent, live, req, builds, writes, restored, handler, disk>>

\* POST /webhooks/settlement: the partner reports on an order it was given.
PartnerWebhook(i, s) ==
    LET o == [intent[i] EXCEPT !.status = s] IN
    /\ "partner" \in Inputs
    /\ \E j \in jobs : j.intent = i
    /\ i \in live
    /\ SetIntent(i, o)
    /\ Sync("webhook", i, o)
    /\ UNCHANGED <<env, handler, disk>>

\* POST /v1/webhooks/helius for the intent that names the transaction (the
\* first in the map; the order of the map is not modelled).  No sync.
HeliusWebhook(i) ==
    /\ "helius" \in Inputs
    /\ i \in live
    /\ intent[i].txHash \in finalized
    /\ intent[i].status # "COMPLETED"
    /\ SetIntent(i, [intent[i] EXCEPT !.status = "AWAITING_SETTLEMENT"])
    /\ UNCHANGED <<writes, env, handler, disk>>

\* ReconciliationWorker.run: S are the stuck ones, ten minutes old.  No sync.
Reconcile(S) ==
    /\ "reconcile" \in Inputs
    /\ S \subseteq live /\ S # {}
    /\ \A i \in S : intent[i].status \in {"AUTHORIZATION_REQUESTED", "AUTHORIZED"}
    /\ intent' = [i \in Intents |-> IF i \in S THEN [intent[i] EXCEPT !.status = "FAILED"]
                                               ELSE intent[i]]
    /\ UNCHANGED <<writes, env, handler, disk>>

\* The GC of store.ts: S are the intents a day old.
Evict(S) ==
    /\ "evict" \in Inputs
    /\ S \subseteq live /\ S # {}
    /\ live' = live \ S
    /\ UNCHANGED <<intent, req, builds, writes, finalized, restored, handler, disk>>

\* expireStaleIntents: S are the rows thirty minutes old.
ExpireStale(S) ==
    /\ "expire" \in Inputs
    /\ S # {}
    /\ \A i \in S : db[i].status \in {"CREATED", "USER_CONFIRMING"} /\ ~db[i].deleted
    /\ db' = [i \in Intents |-> IF i \in S
                                THEN [db[i] EXCEPT !.status = "FAILED", !.deleted = TRUE]
                                ELSE db[i]]
    /\ UNCHANGED <<intent, writes, jobs, rows, env, handler>>

\* PostgreSQL executes an upsert; the upsert fails (non-fatal).
ExecWrite(w) ==
    /\ db' = [db EXCEPT ![w.intent] =
                  [@ EXCEPT !.status = w.status, !.txHash = w.txHash,
                            !.payer_account = w.payer_account]]
    /\ writes' = writes \ {w}
    /\ UNCHANGED <<intent, jobs, rows, env, handler>>

DropWrite(w) ==
    /\ "syncfail" \in Inputs
    /\ writes' = writes \ {w}
    /\ UNCHANGED <<intent, env, handler, disk>>

-----------------------------------------------------------------------------
(***************************************************************************)
(* The process dies and starts again; restoreFromDatabase is not awaited,  *)
(* so requests are served before it has run.  It asks PostgreSQL for       *)
(* activeStatuses; Prisma refuses a query with a status that is not in the *)
(* enum, and the refusal is logged and ignored.                            *)
(***************************************************************************)
activeStatuses ==
    {"CREATED", "USER_CONFIRMING", "ON_CHAIN_CONFIRMED", "SETTLEMENT_QUEUED",
     "SETTLEMENT_PROCESSING", "FAST_LANE_PROCESSING", "EFFICIENT_LANE_QUEUED",
     "PROCESSING"}

\* The statuses of activeStatuses that a row can have, and what they become.
STATUS_REVERSE ==
    [s \in activeStatuses \cap TransactionStatus |->
        CASE s = "USER_CONFIRMING" -> "AUTHORIZATION_REQUESTED"
          [] s = "ON_CHAIN_CONFIRMED" -> "AUTHORIZED"
          [] s = "SETTLEMENT_PROCESSING" -> "AWAITING_SETTLEMENT"
          [] OTHER -> s]

Restart ==
    /\ "restart" \in Inputs
    /\ live' = {}
    /\ confirmLocks' = {}
    /\ pc' = [r \in Requests |-> IF pc[r] \in Stages THEN "lost" ELSE pc[r]]
    /\ builds' = {}
    /\ writes' = {}
    /\ restored' = FALSE
    /\ expected' = [r \in Requests |-> 0]
    /\ UNCHANGED <<intent, req, finalized, disk>>

\* The intents whose rows are active, as their rows say.
Restorable ==
    {i \in Intents : db[i].status \in DOMAIN STATUS_REVERSE /\ ~db[i].deleted}

RestoredIntent(i) ==
    [status |-> STATUS_REVERSE[db[i].status], txHash |-> db[i].txHash,
     payer_account |-> db[i].payer_account, expected |-> 0]

Restore ==
    LET S == IF activeStatuses \subseteq TransactionStatus THEN Restorable ELSE {} IN
    /\ ~restored
    /\ restored' = TRUE
    /\ live' = live \cup S
    /\ intent' = [i \in Intents |-> IF i \in S THEN RestoredIntent(i) ELSE intent[i]]
    /\ UNCHANGED <<req, builds, writes, finalized, handler, disk>>

-----------------------------------------------------------------------------
(***************************************************************************)
(* The specification.                                                      *)
(***************************************************************************)

\* A step of a handler that is under way.
HandlerStep(r) ==
    \/ RiskBlock(r) \/ RiskPass(r)
    \/ VerifyFail(r) \/ VerifyOk(r)
    \/ PayerMismatch(r) \/ Authorize(r)
    \/ AwaitSettlement(r)
    \/ AddJob(r) \/ CreateRow(r) \/ EnqueueFail(r)
    \/ Finish(r)

Call(r) == Reject(r) \/ Assess(r) \/ SkipRisk(r)

BuildStep(b) == BuildQuoted(b) \/ BuildDone(b) \/ BuildFail(b)

DbStep(w) == ExecWrite(w) \/ DropWrite(w)

Timer(S) == Reconcile(S) \/ Evict(S) \/ ExpireStale(S)

\* Every request was answered: the environment has nothing more to send.
Rest ==
    /\ \A r \in Requests : pc[r] \in Answers
    /\ UNCHANGED vars

Next ==
    \/ \E i \in Intents : Create(i)
    \/ \E r \in Requests : Call(r) \/ HandlerStep(r)
    \/ \E i \in Intents, w \in Wallets : BuildStart(i, w)
    \/ \E b \in builds : BuildStep(b)
    \/ \E t \in Txs : Finalize(t)
    \/ \E i \in Intents, s \in {"COMPLETED", "FAILED"} : PartnerWebhook(i, s)
    \/ \E i \in Intents : HeliusWebhook(i)
    \/ \E S \in SUBSET Intents : Timer(S)
    \/ \E w \in writes : DbStep(w)
    \/ Restart
    \/ Restore
    \/ Rest

Spec == Init /\ [][Next]_vars

\* Node runs a callback whose await is over; PostgreSQL, Redis and the RPCs
\* answer or fail.  Callers, timers and webhooks owe nothing.
FairSpec ==
    /\ Spec
    /\ \A r \in Requests : WF_vars(HandlerStep(r))
    /\ \A r \in Requests : WF_vars(\E w \in writes : w.by = r /\ DbStep(w))

-----------------------------------------------------------------------------
(***************************************************************************)
(* What holds whoever calls, and whatever happens around the handler.      *)
(***************************************************************************)

\* No lock is left behind: a locked intent has a confirm request between
\* confirmLocks.add and its finally block.
LockHasOwner ==
    \A i \in confirmLocks :
        \E r \in Requests : req[r].intent = i /\ pc[r] \in LockedStages

\* Settlement is ordered, and an intent marked as paid, only with a transaction
\* that is final and moved IDRX into the treasury account.
PaidOnChain ==
    /\ \A o \in jobs : Inflow(req[o.by].tx, 0)
    /\ \A i \in Intents : intent[i].txHash # NoTx => Inflow(intent[i].txHash, 0)

\* "SETTLEMENT_QUEUED", in memory or in PostgreSQL, is never a promise without
\* an order: the job was added and its settlement row created.
QueuedHasOrder ==
    \A i \in Intents :
        "SETTLEMENT_QUEUED" \in {intent[i].status, db[i].status} =>
            \E o \in jobs \cap rows : o.intent = i

(***************************************************************************)
(* What holds when a caller waits for the answer of one confirm request    *)
(* before it sends the next (OneCallPerIntent, OneCallPerTx), and confirms *)
(* an intent after its transaction was built (BuildThenConfirm).           *)
(***************************************************************************)

\* An intent is handed to settlement at most once.
JobOncePerIntent ==
    \A o, p \in jobs : o.intent = p.intent => o = p

\* The answer tells the caller the truth about what workers will pay, who find
\* a settlement row by its intent.  "queued": the call's own job and row, and no
\* other row.  "settlement_failed": no row of the intent, so that nobody pays
\* it.  Only if the answer of PostgreSQL was lost is a payment called failed
\* whose job and row are there, and then they are the call's own.
AnswersTrue ==
    \A r \in Requests :
        LET payable == {o \in rows : o.intent = req[r].intent} IN
        /\ pc[r] \in {"queued", "failed_unheard"} =>
               payable = {OrderOf(r)} /\ OrderOf(r) \in jobs
        /\ pc[r] = "settlement_failed" => payable = {}

\* A transaction pays for one intent.
TxFundsOneIntent ==
    /\ \A i, j \in Intents :
           intent[i].txHash = intent[j].txHash /\ i # j => intent[i].txHash = NoTx
    /\ \A o, p \in jobs : req[o.by].tx = req[p.by].tx => o.intent = p.intent

\* What is handed to settlement was covered by the transaction.
JobCoversDue ==
    \A o \in jobs : Delivered[req[o.by].tx] >= Due[o.intent]

\* The payer recorded when the payment was authorised is never rewritten.
PayerFixed ==
    [][\A i \in Intents :
           intent[i].txHash # NoTx =>
               intent'[i].payer_account = intent[i].payer_account]_vars

\* The pipeline implements the ledger: confirming claims, enqueueing orders.
Ledger == INSTANCE PaymentLedger WITH
    claim <- [i \in Intents |-> intent[i].txHash], orders <- jobs

LedgerSpec == Ledger!LedgerSpec

(***************************************************************************)
(* Liveness, under FairSpec.                                               *)
(***************************************************************************)

\* Every confirm request is answered (or lost with its process).
EveryCallAnswered ==
    \A r \in Requests : pc[r] \in Stages ~> pc[r] \in Answers

\* A payment that was recorded reaches settlement, or its caller is told that
\* settlement failed.
PaidIsSettled ==
    \A i \in Intents :
        intent[i].txHash # NoTx ~>
            \/ \E o \in jobs \cap rows : o.intent = i
            \/ \E r \in Requests : req[r].intent = i /\ pc[r] = "settlement_failed"
=============================================================================
