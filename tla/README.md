# Verification of SOLQ

SOLQ lets a Solana wallet pay an Indonesian QRIS merchant. The customer's
tokens are swapped to IDRX and land in a treasury account; SOLQ then pays
Rupiah to the merchant through a disbursement provider. This directory holds
TLA+ modules of the backend, TLC configurations that check them on small
instances, and TLAPS proofs of what matters most for every instance.

Paths below are relative to `src/`.

## 1. The system

| Component | Code | State it keeps | Operations |
|---|---|---|---|
| Confirm pipeline | `backend/src/routes/paymentRoutes.ts` | `confirmLocks`, the fields of each intent | `POST /payment-intents/:id/confirm` |
| Intent map | `backend/src/services/store.ts`, `backend/src/index.ts` | `paymentIntents`, in memory | creation, hourly GC of day-old intents, `restoreFromDatabase` |
| Solana Pay builder, chain verification | `backend/src/services/solanaService.ts`, `backend/src/index.ts` | fields `payer_account`, `expected_atomic_amount` of the intent | `POST /solana-pay/:intentId`, `verifyTransaction`, `extractPayerAccount` |
| Database sync | `backend/src/services/prismaPaymentStore.ts`, `backend/prisma/schema.prisma` | table `payment_intents` | `sync`, `expireStaleIntents` |
| Reconciliation | `backend/src/services/reconciliation.ts` | none | `run`, every minute |
| Webhooks | `paymentRoutes.ts`, `index.ts` | none | partner settlement report, Helius confirmation, Xendit callback |
| Settlement queue | `backend/src/services/settlementQueue.ts` | two BullMQ queues in Redis, table `settlements`, daily outflow counter | `enqueueSettlement`, fast and efficient lane workers, `handleXenditWebhook` |
| Disbursement clients | `xenditDisbursement.ts`, `bankPartnerService.ts`, `paymentGatewayService.ts` | none | HTTP calls with retry |
| Risk engine | `backend/src/services/riskEngine.ts` | velocity window per wallet | `evaluate` |
| Price oracle, swap quote | `priceService.ts`, `swapService.ts` | price cache, circuit breaker | `getPrice`, `verifyRate`, `getQuote` |
| Hot wallet monitor | `hotWalletMonitor.ts` | balance, alert level | `checkBalance`, `isCritical` |
| Fee split | `feeDistributor.ts` | none | `calculateFeeSplit` |
| QRIS decoding | `qrisDecoder.ts`, `api/utils/qris.js`, `lib/services/qris_parser.dart` | none | TLV walk, CRC-16 |
| Serverless backend | `api/` | key-value store with a memory per instance | the same API, written independently |
| Mobile client | `lib/services/orchestrator_service.dart`, `solq_service.dart` | the payment shown | create, confirm with retry, poll, deep links |
| Field encryption, audit log, admin and simulation routes | `fieldEncryption.ts`, `auditLogger.ts`, `adminRoutes.ts`, `simulationRoutes.ts` | log file | |
| User interface, wallet adapter, build output | `lib/`, `*.jsx`, `packages/`, `backend/dist/` | | |

How they meet: an intent is **created** (map, then row), its transaction is
**built** (Jupiter quote and swap, during which the handler is suspended and
the intent may change), signed and sent by the wallet, and **confirmed**: the
handler asks the risk engine, then the chain, writes `AUTHORIZED`, adds a job
to the settlement queue and a row to `settlements`, and answers. All of this is
one Node process: handlers run uninterrupted between awaits and interleave at
awaits, with each other and with three timers. Memory, PostgreSQL, Redis and
the chain each hold a part of the truth, and the process may die at any await.

What makes each part correct:

* confirm pipeline - one transaction pays for one intent, one intent is handed
  to settlement once, nothing is settled that the chain did not pay, locks do
  not leak, every caller is answered truthfully;
* database - a row never promises what was not ordered; it follows the memory;
* restart - what was in progress is still known, and what was used stays used;
* settlement queue - each order is paid once or reported as failed, within the
  daily limit;
* serverless backend - the same promises, with no shared memory at all;
* oracle, risk, fee, QRIS - boundaries, staleness and rounding.

## 2. Modules

| Module | What it is |
|---|---|
| `PaymentLedger` | abstract specification: intents are claimed by transactions and ordered once |
| `PaymentConfirm` | the confirm pipeline with everything that writes an intent |
| `MCPaymentConfirm` | values of the constants for TLC |
| `PaymentConfirmProofs` | theorems of `PaymentConfirm`, with proofs |
| `Payout` | abstract specification: an order that falls due is paid once or given up unpaid |
| `SettlementQueue` | the queues, workers, table, daily counter and Xendit calls behind the pipeline |
| `MCSettlementQueue` | values of the constants for TLC |
| `SettlementQueueProofs` | theorems of `SettlementQueue`, with proofs |
| `SumsProofs` | lemmas on sums over finite sets |
| `SettlementLimitProofs` | theorems on the daily counter of `SettlementQueue`, and on both lanes of a calm day |
| `Serverless` | the serverless backend: confirm, webhook, builder and disbursement over the intent store |
| `MCServerless` | values of the constants for TLC |
| `ServerlessProofs` | theorems of `Serverless`, with proofs |
| `Intake` | creation of intents: idempotency keys, quote, price cache, hot wallet monitor |
| `IntakeProofs` | theorems of `Intake`, with proofs |
| `Qris` | the two decoders of QRIS codes |
| `RiskEngine` | the risk score and a wallet's velocity |
| `RateLimiter` | the rate limiter of `index.ts`, for one address |
| `Fees` | the fee and the two roundings of its split, with a theorem |
| `RulesProofs` | theorems of `Rules`, with proofs |
| `Rules`, `MCRules` | the inputs on which the four above are checked, and what they should compute |

`SettlementQueue` starts where `PaymentConfirm` ends: its `Orders` are what the
confirm handler passes to `enqueueSettlement` (`AddJob`, `CreateRow` of
`PaymentConfirm`), one each. That an intent is passed once is
`JobOncePerIntent` there; what becomes of an order is checked here.

### PaymentConfirm

A confirm request `r` is a process. `pc[r]` is the await at which its handler
is suspended, or the answer it gave:

| `pc[r]` | in `paymentRoutes.ts` |
|---|---|
| `idle` | not called yet |
| `risk` | line 260, `RiskEngine.evaluate` - before the lock |
| `verify` | line 291, `verifyTransaction`; the lock is taken at line 286 |
| `payer` | line 302, `extractPayerAccount` |
| `authSync` | line 323, sync of `AUTHORIZED` |
| `add`, `row` | line 360, `enqueueSettlement`: `queue.add`, then `settlement.create` |
| `queuedSync`, `failSync`, `unheardSync` | lines 375 and 409, the last syncs |
| an answer | the reply; the finally block has removed the lock |

`intent[i]` is the object of the intent and `live` says whether it is in the
map, so that a handler may go on with an object the GC has evicted. `writes`
are upserts sent and not executed; PostgreSQL may execute those of different
handlers in any order (`ExecWrite`) or fail them (`DropWrite`, `sync` is
non-fatal). `db`, `jobs` and `rows` survive a `Restart`; `restored` says whether
`restoreFromDatabase`, which is not awaited, has run. The chain is external:
`Finalize(t)` makes a transaction final, `Signer` and `Delivered` say who signed
it and what it moved into the treasury account.

Abstracted: the risk verdict, RPC failures and Jupiter's answers are choices;
amounts are what verification compares; an intent of another merchant differs
in nothing. `PartnerWebhook` assumes a partner that reports on orders it was
given. The outer catch of the handler (`paymentRoutes.ts:421`) is not
reachable: `verifyTransaction`, `extractPayerAccount`, `sync` and the audit log
catch what they throw, and the enqueue has a catch of its own.

The catch of the enqueue (line 393) is reached in three ways: `queue.add` was
refused, `settlement.create` was refused, or PostgreSQL created the row and its
answer was lost (`RowUnheard`, an `"unheard"` input). The third answer reads like
the others in the code; here it is `failed_unheard`, because it means something
else. Workers find a row by its intent (`settlementQueue.ts:198`), and
`AnswersTrue` compares an answer with every row of the intent.

`PaymentLedger` is what is left when handlers, locks and databases are taken
away: `Claim(i, t)` and `PlaceOrder(i, r)`. The refinement maps `claim[i]` to
`txHash` and `orders` to `jobs`.

### SettlementQueue

`worker[l]` is the worker of lane `l` (BullMQ runs one job at a time) and
`worker[l].at` the await of its handler:

| `at` | in `settlementQueue.ts` |
|---|---|
| `find` | lines 198, 245-268: the order's row, or the rows of the batch |
| `next` | line 270, the loop; validation in `callXenditDisbursement` |
| `get`, `incr` | lines 316 and 330, the daily counter in Redis |
| `pay` | `createDisbursement`, which repeats the call up to `XENDIT_RETRIES` times |
| `update` | lines 215, 280: `PROCESSING` |
| `record` | lines 234, 304: `recordSettlementError`, for the order of the job |
| `return`, `throw` | the handler is over; BullMQ completes or repeats the job |

`jobs` are the waiting jobs, with the failures and stalls BullMQ counts; `row`
is the settlements table, `xendit[o]` the disbursements Xendit made for `o`, by
status. The efficient lane pays every pending row of the lane (`Batch`) or adds
its job again (`Requeue`); which of the two depends on the merchant's total and
the minute of the hour and is a choice here, as are the order in which rows
come back and the delays of jobs. The counter is that of one day. Both workers
run in one process. Callbacks with a status other than `COMPLETED` and `FAILED`
do not occur.

What the environment does is named by constants: `Faults` (Xendit refuses or
does not answer in time, the process dies, PostgreSQL or Redis fail a call,
callbacks arrive), `Dedupes` (Xendit makes one disbursement per `external_id`;
the code sends no idempotency header, so `FALSE` is the code as it is),
`RowFirst` (no job is taken before its row exists, which the code does not
ensure) and `CallbackLate` (a callback comes after the update).

`Payout` has what the merchant is promised: `Pay` once and not after `GiveUp`.

### Serverless

The functions under `api/` run in instances that share nothing but the KV
service. A handler is a slot `slot[p]` and `slot[p].at` the await at which it
is suspended:

| `at` | in the code |
|---|---|
| `get` | `getIntent`, `store.js:172`: the id is not in this instance's memory |
| `create` | `createIntent`, `store.js:140`: the same question once more, before a recovered intent is written |
| `set` | `updateIntent`, `createIntent` or `confirmIntent`: the memory is written, the SET under way; `next` says what follows it |
| `verify` | confirm, `[id].js:314`: `verifyFinalizedSignature` and `fetchTransactionFacts` |
| `settle` | `disburseFromInventory`, up to the burn on Polygon |
| `redeem` | `submitIdrxRedeemRequest`, after the burn |

`mem[s][i]` is the record of intent `i` in the memory of instance `s`, `kv[i]`
the one in the KV service. A SET writes the record as it was when it was sent;
a KV request that fails is ignored, as in `kvRequest`. `burned` and `paid` are
what happened at Polygon and IDRX, and `burn` of a record says that
`burn_tx_hash` is set. A handler keeps what it read before its awaits: `done`
(it found the intent disbursed; the webhook looks at the record it found, the
confirm at the one `confirmIntent` returned) and `order`.

`home[i]` and `steady[i]` are history. They record where the newest record of
`i` is, and whether every call for `i` so far began when no other was under way
and on an instance that sees that record. The comments in `idrx-evm.js` and
`[id].js` take this for granted. Every way in which an intent is looked up
counts as a call, `GET /payment-intents/:id` too: its lookup is that of a
confirm.

Abstracted: a KV value is read when the answer is handled; each event of a
webhook body is a call of its own; the merchant registry never fails, so the
bank account is part of the intent's order; "the transaction does not show the
transfer the intent expects" is part of the fault `rpc`. Left out: the
idempotency keys (see section 4), registry, statistics and pricing.

### Intake

`calls[c].stage` follows `POST /payment-intents`: `quote` (Jupiter's route),
`price` (`getPrice`), `sync`, and then `made`, `repeated`, `refused` or
`malformed` (no payload, which is tested before the key is looked up). The
intent's identifier is taken before the first await and is a millisecond, so
two calls may have one. `fetch` is the one oracle request in flight, which
every call that finds no fresh price joins: CoinGecko, then Jupiter's price,
then the rate of the rupiah. `cache` keeps, besides the age the code compares,
the age of the market price in it. `balance`, `level` and `checks` are the hot
wallet, the level its monitor last stored and the checks under way, which may
overlap.

A tick is 30 seconds; the idempotency keys' ten minutes are three ticks in the
run, which changes nothing but the number of states. A restart, and the
eviction of an intent after a day, are in `PaymentConfirm` and not here.

### Rules

Four pure calculations, each a function of its input; a behaviour of `Rules`
picks an input and ends. A QRIS payload is a sequence of cells: a cell is the
two digits of a tag or of a length, or a piece of a value. That is as much as
the decoders tell apart, and it keeps the case that matters, in which a scan
for the digits of a tag matches inside a value; a match that begins in the
middle of a cell is lost. The CRC is taken to distinguish texts. Risk amounts
are in units of Rp 100.000, and the rate limiter's times in seconds. An `INCR`
that the client sends again over a new connection is not modelled.

### Assumptions about callers

The code as it stands does not keep every promise against every caller (see
section 4). Three constants say what callers do: `OneCallPerIntent` (wait for
the answer before confirming the intent again), `OneCallPerTx` (the same for a
transaction) and `BuildThenConfirm` (confirm with a transaction that was built
for the intent, when the build is over). The mobile client does this in normal
use. What holds without them is checked without them.

## 3. Runs

| Run | Assumes | Around the requests | Shows |
|---|---|---|---|
| `confirm_serial` | all three | builder, both webhooks, reconciliation, creates whose answer is lost | `JobOncePerIntent`, `TxFundsOneIntent`, `JobCoversDue`, `PayerFixed`, `AnswersTrue`, and that the pipeline implements `PaymentLedger` (`LedgerSpec`) |
| `confirm_records` | nothing | partner webhook, eviction, expiry, restart, failing writes, such creates | `LockHasOwner`, `PaidOnChain`, `QueuedHasOrder` |
| `confirm_live` | nothing; `FairSpec` | reconciliation, failing writes, such creates | `EveryCallAnswered`, `PaidIsSettled` |

For the settlement queue:

| Run | Orders | Environment | Shows |
|---|---|---|---|
| `settle_fast` | three fast | refusals, callbacks | `FailedIsUnpaid`, `HardCap`, and that the lane implements `Payout` (`PayoutSpec`) |
| `settle_faults` | one in each lane | refusals, lost answers, crashes, failing PostgreSQL and Redis; `RowFirst` | `OutflowCounted` |
| `settle_ends` | two efficient, one not disbursable; `FairSpec` | refusals, callbacks; `RowFirst` | `PendingHasJob`, `EverySettlementEnds` |
| `settle_calm` | one fast, two efficient | no failures, `CallbackLate` | `PaidOnce`, `CompletedStays` |

For the other parts:

| Run | Instance | Shows |
|---|---|---|
| `serverless` | two instances, three calls of which two at once, two transactions, one intent; every failure but `refused` and `unsure` | `PaidOnce`, `DisbursedIsPaid`, `MoneyRecorded` |
| `serverless_live` | one instance that may end, two calls, every kind of order; `LiveSpec` | `EveryCallReturns`, `CompletedIsSettled` |
| `intake` | two creations, one key or none | `PriceFresh`, `RepeatGetsOne`, `LevelFollows`, `CallAnswered` |
| `rules` | 203.514 inputs | the decoders: `BackendReadsCode`, `DamageRejected`, `DecodersAgree`; the risk engine: `EstablishedNotBlocked`, `VelocityIsRecent`; the rate limiter: `LimitHolds`, `NoLockout`; the fee: `FeeSharesAgree` |

Bounds of the confirm runs: two requests, two transactions, two wallets, one or
two intents, one build at a time. Two requests give every pairing of awaits; two intents and two
transactions give both ways of crossing them (same intent, other transaction,
and the reverse); `t2` moves less than an intent asks for, so that amounts
matter; the claimed wallet may be absent, right or wrong. One intent is enough
where a property speaks of one. A third request only queues behind the two.
Requests (and intents, where no transaction distinguishes them) are
interchangeable, so symmetry is sound; the liveness run uses none.

Bounds of the settlement runs: fast orders are 2 units and efficient ones 1,
with limits that bite (`settle_calm` apart); three attempts of a job (two in
`settle_fast`, one in `settle_faults`, where a stall or a requeue repeats it)
and two of a call; `MaxDisbursements` is not
reached where a property holds. `MaxDuplicates` bounds the duplicates of
a job that crashes between a requeue and the end of the job leave behind, which
in the code have no bound. Two orders in a lane give every pairing of a job with
another order's row; one in each lane gives the race for the counter. Orders
of one lane with the same constants are interchangeable.

Bounds of `serverless`: three calls are a call that fails, one that repeats it
and one that races either of the two, in any mixture of confirm, webhook and
builder; two instances are one that knows the newest record and one that does
not; `t1` names the intent and `t2` does not, so that the webhook looks it up in
one case and falls back to the payer in the other. Calls for different intents
meet only in the replay scan and in that fallback, and both appear in the
proofs, which have any number of intents. `unsure` - IDRX accepts a redeem
request and its answer is lost - is not in the runs because `PaidOnce` fails
with it, as section 4 says; `refused` - nothing is burned - leaves less behind
than a burn without a payout and is in `serverless_live`. That run has an order for each side of the
two minima. Instances and slots are interchangeable.

Bounds of `intake`: two calls give the lost race for a key, for a millisecond
and for the oracle request; a cached price is fresh, stale but usable, or
neither, with `CACHE_DURATION` 1 and `MAX_STALENESS` 2; of balances, one that
pauses payments and one that does not. At most one check of each balance is
under way, which is enough for an old balance to be stored after a new one.

Bounds of `rules`: codes with the mandatory fields right or wrong, templates in
tags 26, 27 and 51 whole or cut off, repeated amounts, names of white space,
accounts that contain the digits of a tag, and a CRC that reads like one; each
intact, with a cell misread, cut short or with text after it. Histories have up
to four payments and traffic up to four requests, each with Redis there, away,
failing at the `EXPIRE` or losing the answer of the `INCR`, and five requests
without the last, with gaps on both sides of the window; payments take every combination of the tiers. A limit of one per
minute makes each window of five requests a full one. Fees go to Rp 20.000,
where the hundred residues of the rounding have all occurred; the theorem
`SplitsAgree` has every fee.

`CHECK_DEADLOCK` of the confirm and settlement runs is on: `Rest` lets the
system stop only when every request has its answer, so a handler that cannot go
on is a deadlock. The serverless runs end when the calls are used up and a
behaviour of `rules` ends with its input, so there it is off; that no handler
stays at an await is `EveryCallReturns`.

Fairness of the confirm pipeline (its `FairSpec`): weak fairness of each
handler's next step - Node runs a continuation whose await is over - and of the
upserts it awaits: PostgreSQL, Redis and the RPC nodes answer or fail. Nothing
is assumed of callers, webhooks or timers. The queue's Redis connection is
configured to retry without bound (`maxRetriesPerRequest: null`), so while Redis
is down this assumption fails and a handler at `queue.add` waits with its lock.

Fairness of the settlement queue: weak fairness of enqueues and workers as
above; strong fairness of taking an order's job, since BullMQ hands waiting
jobs out in turn; and strong fairness of a batch for each order's job, since
`isNearEndOfBatchWindow` holds in five minutes of every hour and a requeued job
comes back every minute.
Nothing is assumed of Xendit.

Fairness of the serverless backend: weak fairness of each handler's next step;
fetches have timeouts, and a host that does not run the handler ends it
(`Kill`). Nothing is assumed of calls or of Solana. Fairness of `Intake`: weak
fairness of the quote, the oracle request and the sync, which end by their
timeouts, and of checks, which an interval begins. `LevelFollows` says itself
that checks do not fail for ever.

## 4. Where the code and its documentation disagree

One of them is a run that TLC ends with a counterexample:

| Run | Statement | What happens |
|---|---|---|
| `settle_repay` | `xenditDisbursement.ts:6` no duplicate disbursements | a batch fails on one row after it paid others; the job's own row becomes `PENDING` again and is paid again |

The modules also have, as ordinary steps, what the sentences below leave out;
no run is kept for them.

Express backend:

* `README.md:229` rejects a used `tx_hash` permanently; two confirms both scan
  (`paymentRoutes.ts:247`) before either has stored the hash;
* `index.ts:24` restores active intents on a cold start; the query names
  statuses outside the enum, is refused, and the refusal ignored;
* `settlementQueue.ts:309` has a hard cap; both lanes read the counter before
  either increases it (`settle_fast` shows the cap for one lane);
* `settlementQueue.ts:164` stores the account number encrypted; with a key set
  its ciphertext is longer than the column and no settlement is recorded;
* `paymentRoutes.ts:212` turns a second confirm away, but the lock is tested
  (line 211) before the risk engine is awaited and taken (line 286) after it;
* `README.md:361` says that a used `tx_hash` is rejected permanently; a restart
  empties the map the scan reads;
* `prismaPaymentStore.ts:39` says that every state change is synced; the
  builder, the Helius webhook and the reconciliation do not call `sync`;
* `prismaPaymentStore.ts:18` expires pending intents; only the row expires, and
  the handlers read memory;
* a fast-lane attempt made before the row exists (`settlementQueue.ts:155`) is
  one of the three that BullMQ counts and not one of `attemptCount`, so a job
  can be given up with its row `PENDING` - hence `RowFirst` in `settle_ends`;
* `paymentRoutes.ts:393` answers `SETTLEMENT_FAILED` for whatever the enqueue
  throws. If PostgreSQL created the row and its answer was lost, or if it creates
  it later still, job and row are there and the settlement is paid - hence
  `failed_unheard`. If the row was refused, its job waits in the queue, and the
  row of an overlapping confirm of the intent lets it be paid (line 198 of
  `settlementQueue.ts`) - hence the assumptions of `AnswersAreTrue`;
* `settlementQueue.ts:330` counts before `createDisbursement`, which repeats a
  call whose answer was lost without an idempotency key
  (`xenditDisbursement.ts:187`): one count may pay `XENDIT_RETRIES` times, so
  that the counter behind the hard cap is low by up to that factor, and by no
  more (`OutflowCounted`);
* the update at lines 215 and 280 overwrites a `COMPLETED` that a callback
  wrote before it - hence `CallbackLate` in `settle_calm`;
* `paymentRoutes.ts:18` promises one intent per idempotency key; two calls that
  overlap make two, since the key is stored after the awaits, a repeat without a
  payload is answered 400 although its key is live (line 33 comes first), and two calls in
  one millisecond share an identifier, of which the map keeps the last;
* the price service aborts rather than use a silent fallback, says its header;
  a rate of 15800 stands in for one that is missing from an answer, and a cached
  price of up to two minutes for oracles that fail;
* the hot wallet monitor pauses payments at `CRITICAL` only: without its
  configuration the level stays `UNKNOWN`, and a check that answers late stores
  an old balance until the next one.

Serverless backend:

* `[id].js:456` skips an intent that the webhook disbursed; it looks after
  `confirmIntent` and before the burn, and the webhook (`helius.js:98`) at the
  record it found at first, so two calls that overlap, or two instances, both
  burn - hence `steady`;
* `getIntent` prefers the memory to the KV service, so an instance that knows an
  intent never sees what others wrote, and an answer of the KV service replaces
  a newer record in memory;
* a confirm before the transaction is final writes `FAILED` with the hash; the
  next one is answered 200 `Idempotent confirm accepted` and settles nothing;
* the replay scan sees this instance's memory only, and a redelivered event that
  names no intent takes another open intent of the payer (`README.md:229`);
* after a burn whose redeem request failed, `burn_tx_hash` is not stored, and
  the next call burns again (`idrx-evm.js:158` asks callers to prevent that);
  a redeem request whose answer was lost is paid twice - hence no `unsure`;
* an instance that ends after `confirmIntent` leaves an intent `COMPLETED` that
  no one disburses, and the builder (`[intentId].js:263`) takes a `COMPLETED`
  intent back to `AUTHORIZATION_REQUESTED`;
* the minimum is Rp 1.000 in the handlers and 20.000 in the redeem request, and
  an amount below the first is refused after the intent was completed;
* an idempotency key is never found: line 106 of `payment-intents/index.js`
  spreads the intent after the key, so that the intent's own id replaces it.

Calculations:

* the backend finds the CRC by the last `6304` of the payload, so that a code
  whose CRC is 6304 is rejected; an empty tag 59 becomes `UNKNOWN MERCHANT`
  before it is looked at, so that "tag 59 must not be empty" never fires;
* `qris.js:480` recovers user-facing fields of a malformed code; of a good one
  without an amount the scan may take digits of an account for it, so that a
  static code gets an amount;
* a name with `DANAMON` contains `DANA`, which is tried first; the backend reads
  the institution of tags 26 and 27 only, and its prefixes `ID1025` and `ID1011`
  never match. So the decoders name different institutions for a code with the
  keywords of several, and for `BCA DIGITAL`, of which the backend's table has
  only the `BCA` in it;
* `riskEngine.ts:50` says a rolling window of an hour, and `index.ts:185` a
  sliding one of a minute; both are fixed windows, so that up to twice the limit
  is served in a minute, and four times when Redis comes and goes. An `EXPIRE`
  that fails, or an `INCR` whose answer is lost (line 219), leaves a counter
  without end; `NoLockout` has the address locked out only where a whole limit
  of such failures filled it. A lost answer also counts a request in both
  counters;
* a wallet that the RPC knows nothing of, and one it was not asked about because
  it did not answer, count as new; ten payments in an hour score less than three;
* the fee's 70 per cent is rounded in the intent and cut in the record, one
  rupiah apart (`SplitsAgree`).

## 5. Proofs

`PaymentConfirmProofs` proves, for all constants that satisfy the assumptions
of `PaymentConfirm`:

| Theorem | Assumes | States |
|---|---|---|
| `TypeCorrect` | - | `Spec => []TypeOK` |
| `LocksOwned` | - | `Spec => []LockHasOwner` |
| `PaidIsOnChain` | - | `Spec => []PaidOnChain` |
| `OneOrderPerIntent` | `OneCallPerIntent`, `BuildThenConfirm` | `Spec => []JobOncePerIntent` |
| `OneIntentPerTransaction` | those, `OneCallPerTx`, no eviction or restart | `Spec => []TxFundsOneIntent` |
| `ImplementsLedger` | the same | `Spec => LedgerSpec` |
| `OrdersCovered` | `BuildThenConfirm`, no eviction | `Spec => []JobCoversDue` |
| `PayerNotRewritten` | `OneCallPerIntent`, `BuildThenConfirm` | `Spec => PayerFixed` |
| `QueuedIsOrdered` | - | `Spec => []QueuedHasOrder` |
| `AnswersAreTrue` | `OneCallPerIntent`, `BuildThenConfirm` | `Spec => []AnswersTrue` |

The argument. Type correctness is inductive and is used by every other proof.
`PaidOnChain` needs `PaidInv`: a handler past verification remembers that its
transaction was final only by where it stands. `JobOncePerIntent` needs
`OnceInv`: requests of an intent do not overlap (`OneAtATime`), a build ends
before the intent is confirmed (`BuildsFirst`), an ordered intent has left the
statuses from which it may be confirmed for good (`JobsSpent`), so that a
handler that may still order finds no order (`NoJobYet`), and the handler that
authorised keeps the intent closed although webhooks and timers write its
status (`KeptClosed`). `ClaimInv` adds that the replay scan sees every paid
intent (`ScanComplete`) and that what it found is still so when the handler
authorises (`StillFresh`); the step of `Authorize` is then a `Claim` of the
ledger, `queue.add` a `PlaceOrder`, and everything else leaves the ledger
alone. `CoverInv` follows the amount from the builder to the order. `PayerInv`
adds to `OnceInv` that no request of a paid intent is still before its payer.
`RecordInv` follows the word `SETTLEMENT_QUEUED` through its three copies: the
handler that may write it has its order recorded (`Recorded`), and an upsert on
its way says it only of an intent with an order (`WritesTrue`), so that the
order in which PostgreSQL executes the upserts does not matter. `AnswersTrue`
needs `OnceInv`, since the row of an overlapping confirm or of a reopened intent
would pay a job whose own row was refused, and `PaidCloses`: an intent with a
row has left the statuses from which it may be confirmed.

Steps are first split by who takes them (`StepCases`): the request itself, an
outside step, a restart. For outside steps one lemma each says what they cannot
touch (`OutsideFrame`, `OutsideHash`, `OutsideStatus`, `OutsideBuilds`,
`OutsideAmount`).

`SettlementQueueProofs` proves, for all constants that satisfy the assumptions
of `SettlementQueue`:

| Theorem | Assumes | States |
|---|---|---|
| `TypeCorrect` | - | `Spec => []TypeOK` |
| `FastPaidOnce` | `OnlyRefusals`, `AllFast` | `Spec => []PaidOnce` |
| `FastFailedUnpaid` | the same | `Spec => []FailedIsUnpaid` |
| `ImplementsPayout` | the same | `Spec => PayoutSpec` |
| `FastCompletedStays` | those, `CallbackLate` | `Spec => CompletedStays` |
| `PendingNotForgotten` | `NothingDies`, `RowFirst` | `Spec => []PendingHasJob` |

`SettlementLimitProofs` has six more:

| Theorem | Assumes | States |
|---|---|---|
| `OutflowNeverBehind` | - | `Spec => []OutflowCounted` |
| `OneLaneHardCap` | `NoSecondPayment`, `OneLane(l)` | `Spec => []HardCap` |
| `CalmPaidOnce` | `NothingFails`, `BatchesValid`, `UnderLimit` | `Spec => []PaidOnce` |
| `CalmFailedIsUnpaid` | the same | `Spec => []FailedIsUnpaid` |
| `CalmImplementsPayout` | the same | `Spec => PayoutSpec` |
| `CalmCompletedStays` | the same, `CallbackLate` | `Spec => CompletedStays` |

`OnlyRefusals` says that Xendit may refuse calls and call back, and that every
answer arrives and nothing else fails; `AllFast`, that every order is above the
fast-lane threshold. The theorems that assume no more hold without `RowFirst`,
`CallbackLate` and `Dedupes`. With lost answers or with batches the statements
are false of the code (`settle_repay`).

The argument. `TypeInv` adds to the types that a busy worker has a job and, from
the limit check to the update, an order. `FastInv` says why a retry may pay
although nothing in the fast lane looks at the row's status: an order has one
job at a time (`OneJob`), the handler pays the order of its own job
(`OwnOrder`), and while there is a job left, or the handler still has the
payment ahead, the order has no disbursement, its row is not `FAILED` and has
counted no more failures than the job (`WorkAhead`, `Pristine`). The last part
ties `attemptCount` to BullMQ's attempts: a row becomes `FAILED` only in the
last attempt of its job. The refinement then follows from what pays
(`FastPays`) and what gives up (`FastRecords`); every other step leaves the
payout alone (`PayoutStutters`). What the refinement needs of the lanes is
`PaysWhatIsDue`, and `PayoutStep` is proved from it alone.

`NothingDies` excludes crashes and failing stores, and nothing else, in both
lanes: Xendit may refuse, lose answers and call back early. `PendingInv` says
that a row has counted the failures of every job of its order (`Counted`) and
what a handler still owes the order of its job (`Handling`): the order is in
`todo`, or a requeued job waits, or the row has counted this failure too and is
`FAILED` when it was the last.

`OutflowNeverBehind` has every fault: `CountInv` is `OutflowCounted` with what
each worker has counted and not yet spent (`Reserved`), where one count stands
for the attempts the call has left (`AttemptsLeft`), or for one payment if a
repeated call cannot pay again (`PerCount`). `NoSecondPayment`, which only
`OneLaneHardCap` assumes, says that no answer of Xendit is lost, or that a
repeated call is recognised; crashes and failing stores remain. For one lane `CapInv` adds that what the worker read is still in
the counter when it increases it, which two lanes break (section 4). `Accepted`
is a sum over the orders; `SumsProofs` shows that such a sum does not depend on
the order of summation, and how it grows.

The last four theorems have both lanes at work, with requeues, batches that take
orders of other jobs, and callbacks. `NothingFails` leaves the callback as the
only fault; `BatchesValid` says that every efficient order is `Disbursable`, and
`UnderLimit` that all orders together fit in the daily limit. They exclude what
makes a batch record an error under the order of its job while others of the
batch are paid, after which the statements are false of the code
(`settle_repay`); fast orders may be invalid, and are then given up. Why nothing
is paid twice differs per lane (`CalmInv`): what a batch would take is not paid,
since the answer to a payment is stored before the lane's next batch
(`BatchOnce`, `Handles`); the fast lane does not look at the status, but a fast
order has one job until it is paid (`FastOnce`). That the limit never stops a
payment is no assumption on single amounts: the counter is at most the sum of the
orders that are in it (`CountedDue`), and the order about to be added is not
(`LimitFar`). `StillToPay` adds, for what is given up, that a fast row becomes
`FAILED` only in the last attempt of its job; from both follows `PaysWhatIsDue`.
`settle_calm` checks `PaidOnce` and `CompletedStays`, `settle_fast` the other
two where all orders are fast.

`ServerlessProofs` proves, for all constants that satisfy the assumptions of
`Serverless`, with any number of instances, intents, handlers and calls:

| Theorem | Assumes | States |
|---|---|---|
| `TypeCorrect` | - | `Spec => []TypeOK` |
| `DisbursedIsPaidHolds` | - | `Spec => []DisbursedIsPaid` |
| `PaidOnceHolds` | `"unsure" \notin Faults` | `Spec => []PaidOnce` |
| `MoneyRecordedHolds` | the same | `Spec => []MoneyRecorded` |

The argument. `Shape` says that a handler that has found its intent is on an
instance that knows it, and that a record that is not there is `Absent`.
`Honest` extends `DisbursedIsPaid` to the records on their way to the KV
service, since a late SET writes what its handler knew. For a steady intent,
`Safe` says why there is no second payout: its one handler (`Alone`) works on
the newest record, spends only if that record has no burn (`Suits`), and leaves
payout and burn in it. `PaidOnce` and `MoneyRecorded` are read off.

A step of a handler for intent `i` on instance `s` changes at most one slot, one
record in memory and one in the KV service (`Turned`). That frame is proved
once (`TurnedKeeps`), and per action remain two facts: the new record may follow
the old one (`Kept`), and the handler may stand where it stands (`Works`, or
`Looks` for the first lookup). Creation, the end of an instance and the
finalizing of a transaction have lemmas of their own.

`Fees` proves `SplitsAgree`: for every fee the announced and the recorded share
differ by one rupiah at most.

`IntakeProofs` proves, for all constants that satisfy the assumptions of
`Intake`, that is for any number of calls, keys and balance checks:

| Theorem | Assumes | States |
|---|---|---|
| `IntakeTyped` | - | `Spec => []TypeOK` |
| `PricesFresh` | - | `Spec => []PriceFresh` |
| `RepeatsGetOne` | - | `Spec => []RepeatGetsOne` |

The three are parts of one invariant, `IInv`. `Numbered` says why an identifier
is a number the clock has shown, and `Fresh` that a cached price was a tick old
at most when it came, which makes the age the code compares good for the age of
the price itself. `Kept` ties the map to the calls and `KeyEntry` an idempotency
key to the last call made with it: younger than any other, so that it is there
as long as any of them is young. `Repeats` is what a repeated call then got.

`RulesProofs` proves, for all inputs that satisfy the assumptions of `Rules`:

| Theorem | States | Inputs |
|---|---|---|
| `FeesAgree` | `Spec => []FeeSharesAgree` | every fee |
| `EstablishedServed` | `Spec => []EstablishedNotBlocked` | every payment and velocity |
| `SilenceServed` | `Spec => []NoLockout` | traffic of any length, Redis coming and going |
| `LimitKept` | `Spec => []LimitHolds` | the same, every limit |
| `VelocityKept` | `Spec => []VelocityIsRecent` | histories of any length |
| `DamageNeverPasses` | `Spec => []DamageRejected` | codes of any length and content |
| `BackendReads` | `Spec => []BackendReadsCode` | codes of any fields and values |
| `DecodersReadAlike` | `Spec => []DecodersAgree` | codes of any fields and values |

The assumptions say what an input is: a sequence of requests or payments in the
order of their times, a code made of tags and values, with a CRC of two cells
and no value longer than its length has digits for. `LimitKept` follows one
counter at a time: of the requests served since the `n`-th, those that Redis
counted in the current window are no more than its counter (`RedisCount`), those
of memory no more than its own (`MemoryCount`), and within a minute a counter
starts anew once at most. `VelocityKept` keeps the books of a window
(`Accounting`): its payments are exactly those allowed since it began.
`DamageNeverPasses` shows that what the backend's check accepts begins with the
code as it was made, CRC and all (`CheckedIsWhole`), wherever the digits of the
CRC's tag occur; a payload with a misread cell would then be the code itself,
and one that was cut is too short.

What the decoders read rests on one relation: `Laid` says that fields follow one
another in a text, and where each ends. A code's fields are laid in it
(`CodeIsLaid`), and both walks read what is laid, whatever the values hold, if at
most one cell follows (`WalksRead`); so both read the fields of any accepted code
(`CodeIsRead`), which is all of it and a cell at most (`AcceptedIsWhole`). Inside a
template the two loops differ at a value that is cut off. What the serverless
walk reads there is laid in the template (`WalkIsLaid`); if it fills the
template, the backend's walk reads the same (`FilledIsRead`). `DecodersReadAlike`
follows field by field: the scans of the serverless decoder are behind the fields
in every case it speaks of.

What recurs over data is a recursive function there, and induction goes over
the set of the numbers for which a claim holds (`Steps`, `Iterates`) or over the
smallest counterexample among finite sets (`Smallest`), since the provers cannot
take an operator as a parameter.

Every safety property a run checks is proved, some under the assumptions their
tables name. Only model-checked: liveness under fairness, which is out of the
provers' reach: `EveryCallAnswered`, `PaidIsSettled`, `EverySettlementEnds`,
`EveryCallReturns`, `CompletedIsSettled`, `LevelFollows`, `CallAnswered`.

## 6. Plan

1. `PaymentLedger`, `PaymentConfirm` and its proofs - done.
2. `Payout`, `SettlementQueue` and its first proofs - done.
3. `Serverless` and its proofs - done.
4. `Intake`, `Qris`, `RiskEngine`, `RateLimiter`, `Fees` and `Rules` - done.
5. To come: the client's orchestrator over the answers of the two backends; the
   statuses of an intent and of its settlement together, which `PaymentConfirm`
   and `SettlementQueue` have apart; the serverless registry and statistics;
   `bankPartnerService.ts` and the client's `qris_parser.dart`.

What an assumption or a bound keeps out of a run is said at the hazard it
concerns, in `PROJECT.json`.

Not modelled, and not planned: cryptography and audit logging (no property
speaks of them), the simulation and admin routes (canned replies), the user
interface, platform code and build output.
