---------------------------- MODULE SettlementQueue ----------------------------
(***************************************************************************)
(* The settlement queue of the Express backend (settlementQueue.ts): two   *)
(* BullMQ queues with a worker each, the settlements table, the daily      *)
(* outflow counter in Redis, and the calls to Xendit and back.             *)
(*                                                                         *)
(* An order is a payment intent handed over by enqueueSettlement.  A       *)
(* worker handles one job at a time; worker[l].at is the await at which    *)
(* its handler is suspended.                                               *)
(***************************************************************************)
EXTENDS Naturals, FiniteSets, FiniteSetsExt

CONSTANTS
    Orders,
    Amount,           \* Amount[o], in the unit of the limits
    Disbursable,      \* orders whose bank code, account and amount are valid
    FAST_LANE_THRESHOLD_IDR,
    DAILY_LIMIT_IDR,
    MAX_RETRIES,      \* attempts of a job
    XENDIT_RETRIES,   \* attempts of one createDisbursement
    AccountLength,    \* characters of a merchant's account number
    KeySet,           \* DATABASE_ENCRYPTION_KEY is set
    Dedupes,          \* Xendit creates one disbursement per external_id
    RowFirst,         \* a worker takes a job only when its enqueue has ended
    CallbackLate,     \* Xendit calls back only when its answer was stored
    Faults,           \* which of FaultKinds happen
    MaxDisbursements, \* bound: disbursements of one order
    MaxDuplicates,    \* bound: further jobs of an order beside its first; there
                      \* is one during a requeue, and more after a crash in it
    NoJob, NoOrder

FaultKinds == {"refused", "lost", "crash", "dbfail", "callback"}

ASSUME AmountAssumption ==
    /\ IsFiniteSet(Orders) /\ NoOrder \notin Orders
    /\ Amount \in [Orders -> Nat \ {0}]
    /\ Disbursable \subseteq Orders
    /\ {FAST_LANE_THRESHOLD_IDR, DAILY_LIMIT_IDR, AccountLength} \subseteq Nat
    /\ {MAX_RETRIES, XENDIT_RETRIES, MaxDisbursements, MaxDuplicates} \subseteq Nat \ {0}
ASSUME SwitchAssumption ==
    /\ {KeySet, Dedupes, RowFirst, CallbackLate} \subseteq BOOLEAN
    /\ Faults \subseteq FaultKinds

VARIABLES
    enqueue,  \* per order: where its enqueueSettlement stands
    jobs,     \* jobs waiting in the queues, delayed ones included
    worker,   \* per lane: the job being handled and the handler's locals
    row,      \* the settlements table
    outflow,  \* solq:daily_outflow of the day
    xendit    \* per order: its disbursements at Xendit, by status

vars == <<enqueue, jobs, worker, row, outflow, xendit>>

-----------------------------------------------------------------------------
Lanes == {"FAST_LANE", "EFFICIENT_LANE"}

Track(o) == IF Amount[o] > FAST_LANE_THRESHOLD_IDR THEN "FAST_LANE" ELSE "EFFICIENT_LANE"

\* gen tells apart the jobs an order has at a time.
Job == [order : Orders, gen : 0..MaxDuplicates, failures : 0..(MAX_RETRIES - 1), stalls : {0, 1}]

ASSUME NoJobAssumption == NoJob \notin Job

Row == [status : {"NONE", "PENDING", "PROCESSING", "COMPLETED", "FAILED"},
        attempts : 0..MAX_RETRIES]

Worker == [job : Job \cup {NoJob},
           at : {"idle", "find", "next", "get", "incr", "pay", "update", "record",
                 "throw", "return"},
           todo : SUBSET Orders, cur : Orders \cup {NoOrder}, read : Nat,
           tries : 0..(XENDIT_RETRIES - 1)]

TypeOK ==
    /\ enqueue \in [Orders -> {"none", "added", "done", "failed", "lost"}]
    /\ jobs \subseteq Job
    /\ worker \in [Lanes -> Worker]
    /\ row \in [Orders -> Row]
    /\ outflow \in Nat
    /\ xendit \in [Orders -> [{"PENDING", "COMPLETED", "FAILED"} -> 0..MaxDisbursements]]

Idle == [job |-> NoJob, at |-> "idle", todo |-> {}, cur |-> NoOrder, read |-> 0, tries |-> 0]

Init ==
    /\ enqueue = [o \in Orders |-> "none"]
    /\ jobs = {}
    /\ worker = [l \in Lanes |-> Idle]
    /\ row = [o \in Orders |-> [status |-> "NONE", attempts |-> 0]]
    /\ outflow = 0
    /\ xendit = [o \in Orders |-> [s \in {"PENDING", "COMPLETED", "FAILED"} |-> 0]]

-----------------------------------------------------------------------------
(***************************************************************************)
(* enqueueSettlement: the job, then the row.                               *)
(***************************************************************************)
\* Numbers no job of o has, waiting or being handled.
FreeGens(o) ==
    LET alive == jobs \cup ({worker[l].job : l \in Lanes} \ {NoJob}) IN
    {g \in 0..MaxDuplicates : \A j \in alive : j.order = o => j.gen # g}

NewJob(o) ==
    [order |-> o, gen |-> CHOOSE g \in FreeGens(o) : TRUE, failures |-> 0, stalls |-> 0]

AddJob(o) ==
    /\ enqueue[o] = "none"
    /\ FreeGens(o) # {}
    /\ enqueue' = [enqueue EXCEPT ![o] = "added"]
    /\ jobs' = jobs \cup {NewJob(o)}
    /\ UNCHANGED <<worker, row, outflow, xendit>>

\* encryptField: "enc:", 12 bytes of iv, 16 of tag and the text, in hex.
StoredLength == IF KeySet THEN 4 + 24 + 1 + 32 + 1 + 2 * AccountLength ELSE AccountLength

\* accountNumber is a VARCHAR(50).
Fits == StoredLength <= 50

CreateRow(o) ==
    /\ enqueue[o] = "added"
    /\ Fits
    /\ enqueue' = [enqueue EXCEPT ![o] = "done"]
    /\ row' = [row EXCEPT ![o] = [status |-> "PENDING", attempts |-> 0]]
    /\ UNCHANGED <<jobs, worker, outflow, xendit>>

CreateFail(o) ==
    /\ enqueue[o] = "added"
    /\ ~Fits \/ "dbfail" \in Faults
    /\ enqueue' = [enqueue EXCEPT ![o] = "failed"]
    /\ UNCHANGED <<jobs, worker, row, outflow, xendit>>

-----------------------------------------------------------------------------
(***************************************************************************)
(* A worker's handler, from await to await.  Both lanes end in the loop    *)
(* over todo: the fast lane with the order of the job, the efficient lane  *)
(* with every pending order of the lane.                                   *)
(***************************************************************************)
At(l, s) == worker[l].at = s

Move(l, s) == worker' = [worker EXCEPT ![l].at = s]

Take(l, j) ==
    /\ At(l, "idle")
    /\ Track(j.order) = l
    /\ RowFirst => enqueue[j.order] # "added"
    /\ worker' = [worker EXCEPT ![l] = [Idle EXCEPT !.job = j, !.at = "find"]]
    /\ jobs' = jobs \ {j}
    /\ UNCHANGED <<enqueue, row, outflow, xendit>>

FindOrder(l) ==
    LET o == worker[l].job.order IN
    /\ At(l, "find") /\ l = "FAST_LANE"
    /\ IF row[o].status = "NONE"
       THEN Move(l, "record")
       ELSE worker' = [worker EXCEPT ![l].at = "next", ![l].todo = {o}]
    /\ UNCHANGED <<enqueue, jobs, row, outflow, xendit>>

\* Mutant: the batch takes the lane's settlements whatever their status.
BatchAll(l) ==
    /\ At(l, "find") /\ l = "EFFICIENT_LANE"
    /\ worker' = [worker EXCEPT
                    ![l].at = "next",
                    ![l].todo = {o \in Orders : Track(o) = l /\ row[o].status # "NONE"}]
    /\ UNCHANGED <<enqueue, jobs, row, outflow, xendit>>

\* The merchant's total is large enough, or the hour is about to end.
Batch(l) ==
    /\ At(l, "find") /\ l = "EFFICIENT_LANE"
    /\ worker' = [worker EXCEPT
                    ![l].at = "next",
                    ![l].todo = {o \in Orders : Track(o) = l /\ row[o].status = "PENDING"}]
    /\ UNCHANGED <<enqueue, jobs, row, outflow, xendit>>

\* Mutant: the job is not added again.
RequeueNothing(l) ==
    /\ At(l, "find") /\ l = "EFFICIENT_LANE"
    /\ Move(l, "return")
    /\ UNCHANGED <<enqueue, jobs, row, outflow, xendit>>

\* Neither: a new job is added for later, and this one ends.
Requeue(l) ==
    /\ At(l, "find") /\ l = "EFFICIENT_LANE"
    /\ FreeGens(worker[l].job.order) # {}
    /\ jobs' = jobs \cup {NewJob(worker[l].job.order)}
    /\ Move(l, "return")
    /\ UNCHANGED <<enqueue, row, outflow, xendit>>

\* The loop takes the next settlement; callXenditDisbursement validates it.
NextSettlement(l) ==
    /\ At(l, "next")
    /\ \/ worker[l].todo = {} /\ Move(l, "return")
       \/ \E o \in worker[l].todo \cap Disbursable :
              worker' = [worker EXCEPT ![l].at = "get", ![l].cur = o]
       \/ worker[l].todo \ Disbursable # {} /\ Move(l, "record")
    /\ UNCHANGED <<enqueue, jobs, row, outflow, xendit>>

\* checkDailyWithdrawalLimit: the counter is read ...
ReadOutflow(l) ==
    /\ At(l, "get")
    /\ worker' = [worker EXCEPT ![l].at = "incr", ![l].read = outflow]
    /\ UNCHANGED <<enqueue, jobs, row, outflow, xendit>>

\* Mutants: the limit is compared without the amount; only counted, never
\* compared with what was read.
AddOutflowLate(l) ==
    LET a == Amount[worker[l].cur] IN
    /\ At(l, "incr")
    /\ IF worker[l].read > DAILY_LIMIT_IDR
       THEN Move(l, "record") /\ UNCHANGED outflow
       ELSE Move(l, "pay") /\ outflow' = outflow + a
    /\ UNCHANGED <<enqueue, jobs, row, xendit>>
AddOutflowStale(l) ==
    LET a == Amount[worker[l].cur] IN
    /\ At(l, "incr")
    /\ IF worker[l].read + a > DAILY_LIMIT_IDR
       THEN Move(l, "record") /\ UNCHANGED outflow
       ELSE Move(l, "pay") /\ outflow' = worker[l].read + a
    /\ UNCHANGED <<enqueue, jobs, row, xendit>>

\* ... compared, and increased by the amount.
AddOutflow(l) ==
    LET a == Amount[worker[l].cur] IN
    /\ At(l, "incr")
    /\ IF worker[l].read + a > DAILY_LIMIT_IDR
       THEN Move(l, "record") /\ UNCHANGED outflow
       ELSE Move(l, "pay") /\ outflow' = outflow + a
    /\ UNCHANGED <<enqueue, jobs, row, xendit>>

Disbursements(o) ==
    xendit[o]["PENDING"] + xendit[o]["COMPLETED"] + xendit[o]["FAILED"]

\* Xendit accepts the request.
Accept(o) ==
    IF Dedupes /\ Disbursements(o) > 0
    THEN UNCHANGED xendit
    ELSE /\ Disbursements(o) < MaxDisbursements
         /\ xendit' = [xendit EXCEPT ![o]["PENDING"] = @ + 1]

\* Mutant: the loop of createDisbursement does not return on success.
PayOkTwice(l) ==
    /\ At(l, "pay")
    /\ Accept(worker[l].cur)
    /\ worker' = [worker EXCEPT ![l].at = IF worker[l].tries = 0 THEN "pay" ELSE "update",
                                ![l].tries = IF @ = 0 THEN 1 ELSE 0]
    /\ UNCHANGED <<enqueue, jobs, row, outflow>>

PayOk(l) ==
    /\ At(l, "pay")
    /\ Accept(worker[l].cur)
    /\ worker' = [worker EXCEPT ![l].at = "update", ![l].tries = 0]
    /\ UNCHANGED <<enqueue, jobs, row, outflow>>

\* Mutant: the last attempt is followed by another.
TryAgainLate(l) ==
    worker' = IF worker[l].tries < XENDIT_RETRIES
              THEN [worker EXCEPT ![l].tries = @ + 1]
              ELSE [worker EXCEPT ![l].at = "record", ![l].tries = 0]

\* An attempt of createDisbursement failed; the last one gives up.
TryAgain(l) ==
    worker' = IF worker[l].tries + 1 < XENDIT_RETRIES
              THEN [worker EXCEPT ![l].tries = @ + 1]
              ELSE [worker EXCEPT ![l].at = "record", ![l].tries = 0]

PayRefused(l) ==
    /\ "refused" \in Faults
    /\ At(l, "pay")
    /\ TryAgain(l)
    /\ UNCHANGED <<enqueue, jobs, row, outflow, xendit>>

\* Accepted, but the answer did not arrive within the timeout.
PayLost(l) ==
    /\ "lost" \in Faults
    /\ At(l, "pay")
    /\ Accept(worker[l].cur)
    /\ TryAgain(l)
    /\ UNCHANGED <<enqueue, jobs, row, outflow>>

\* attempts is counted up to MAX_RETRIES, with which the code compares it.
CountUp(n) == IF n < MAX_RETRIES THEN n + 1 ELSE n

UpdateRow(l) ==
    LET o == worker[l].cur IN
    /\ At(l, "update")
    /\ row' = [row EXCEPT ![o] = [status |-> "PROCESSING", attempts |-> CountUp(@.attempts)]]
    /\ worker' = [worker EXCEPT ![l].at = "next", ![l].todo = @ \ {o}, ![l].cur = NoOrder]
    /\ UNCHANGED <<enqueue, jobs, outflow, xendit>>

\* PostgreSQL or Redis refuses a call; the counter may have been increased, as
\* setting its expiry is a call of its own.
StoreFail(l) ==
    LET a == Amount[worker[l].cur] IN
    /\ "dbfail" \in Faults
    /\ \/ worker[l].at \in {"find", "get", "incr", "update"} /\ UNCHANGED outflow
       \/ At(l, "incr") /\ worker[l].read + a <= DAILY_LIMIT_IDR /\ outflow' = outflow + a
    /\ Move(l, "record")
    /\ UNCHANGED <<enqueue, jobs, row, xendit>>

\* Mutants: the last attempt is taken for the one before; the one before for
\* the last.
RecordErrorLate(l) ==
    LET o == worker[l].job.order IN
    /\ At(l, "record")
    /\ row' = IF row[o].status = "NONE" THEN row
              ELSE [row EXCEPT ![o] = [status |-> "PENDING", attempts |-> CountUp(@.attempts)]]
    /\ Move(l, "throw")
    /\ UNCHANGED <<enqueue, jobs, outflow, xendit>>
RecordErrorEarly(l) ==
    LET o == worker[l].job.order
        n == CountUp(row[o].attempts) IN
    /\ At(l, "record")
    /\ row' = IF row[o].status = "NONE" THEN row
              ELSE [row EXCEPT ![o] = [status |-> IF n + 1 >= MAX_RETRIES THEN "FAILED" ELSE "PENDING",
                                       attempts |-> n]]
    /\ Move(l, "throw")
    /\ UNCHANGED <<enqueue, jobs, outflow, xendit>>

\* recordSettlementError, for the order of the job.
RecordError(l) ==
    LET o == worker[l].job.order
        n == CountUp(row[o].attempts) IN
    /\ At(l, "record")
    /\ row' = IF row[o].status = "NONE" THEN row
              ELSE [row EXCEPT ![o] = [status |-> IF n >= MAX_RETRIES THEN "FAILED" ELSE "PENDING",
                                       attempts |-> n]]
    /\ Move(l, "throw")
    /\ UNCHANGED <<enqueue, jobs, outflow, xendit>>

RecordFail(l) ==
    /\ "dbfail" \in Faults
    /\ At(l, "record")
    /\ Move(l, "throw")
    /\ UNCHANGED <<enqueue, jobs, row, outflow, xendit>>

-----------------------------------------------------------------------------
(***************************************************************************)
(* BullMQ: what becomes of a job when its handler ends, or dies.           *)
(***************************************************************************)
CompleteJob(l) ==
    /\ At(l, "return")
    /\ worker' = [worker EXCEPT ![l] = Idle]
    /\ UNCHANGED <<enqueue, jobs, row, outflow, xendit>>

FailJob(l) ==
    LET j == worker[l].job IN
    /\ At(l, "throw")
    /\ jobs' = IF j.failures + 1 < MAX_RETRIES
               THEN jobs \cup {[j EXCEPT !.failures = @ + 1]} ELSE jobs
    /\ worker' = [worker EXCEPT ![l] = Idle]
    /\ UNCHANGED <<enqueue, row, outflow, xendit>>

\* The process dies: what it was doing is forgotten, its jobs are found stalled
\* and handed out again, once.
Crash ==
    LET active == {worker[l].job : l \in Lanes} \ {NoJob} IN
    /\ "crash" \in Faults
    /\ enqueue' = [o \in Orders |-> IF enqueue[o] = "added" THEN "lost" ELSE enqueue[o]]
    /\ jobs' = jobs \cup {[j EXCEPT !.stalls = 1] : j \in {k \in active : k.stalls = 0}}
    /\ worker' = [l \in Lanes |-> Idle]
    /\ UNCHANGED <<row, outflow, xendit>>

-----------------------------------------------------------------------------
(***************************************************************************)
(* Xendit pays or returns the money, and calls handleXenditWebhook, maybe  *)
(* late and more than once.                                                *)
(***************************************************************************)
XenditEnds(o, s) ==
    /\ xendit[o]["PENDING"] > 0
    /\ xendit' = [xendit EXCEPT ![o]["PENDING"] = @ - 1, ![o][s] = @ + 1]
    /\ UNCHANGED <<enqueue, jobs, worker, row, outflow>>

Callback(o, s) ==
    /\ "callback" \in Faults
    /\ xendit[o][s] > 0
    /\ CallbackLate => \A l \in Lanes : worker[l].cur # o
    /\ row[o].status # "NONE"
    /\ row' = [row EXCEPT ![o].status = s]
    /\ UNCHANGED <<enqueue, jobs, worker, outflow, xendit>>

-----------------------------------------------------------------------------
Enqueue(o) == CreateRow(o) \/ CreateFail(o)

WorkerStep(l) ==
    \/ FindOrder(l) \/ Batch(l) \/ Requeue(l) \/ NextSettlement(l)
    \/ ReadOutflow(l) \/ AddOutflow(l)
    \/ PayOk(l) \/ PayRefused(l) \/ PayLost(l)
    \/ UpdateRow(l) \/ StoreFail(l) \/ RecordError(l) \/ RecordFail(l)
    \/ CompleteJob(l) \/ FailJob(l)

\* Nothing is left to do.
Rest ==
    /\ jobs = {} /\ \A l \in Lanes : At(l, "idle")
    /\ \A o \in Orders : enqueue[o] \notin {"none", "added"}
    /\ UNCHANGED vars

Next ==
    \/ \E o \in Orders : AddJob(o) \/ Enqueue(o)
    \/ \E l \in Lanes : WorkerStep(l)
    \/ \E l \in Lanes : \E j \in jobs : Take(l, j)
    \/ \E o \in Orders, s \in {"COMPLETED", "FAILED"} : XenditEnds(o, s) \/ Callback(o, s)
    \/ Crash
    \/ Rest

Spec == Init /\ [][Next]_vars

\* The worker is handling a job of o in a batch window.
BatchFor(o) ==
    /\ worker[Track(o)].job # NoJob
    /\ worker[Track(o)].job.order = o
    /\ Batch(Track(o))

\* PostgreSQL and Redis answer, BullMQ hands out every waiting job in turn, and
\* a job that comes back every minute meets the last five minutes of an hour.
FairSpec ==
    /\ Spec
    /\ \A o \in Orders : WF_vars(Enqueue(o))
    /\ \A l \in Lanes : WF_vars(WorkerStep(l))
    /\ \A o \in Orders : SF_vars(\E j \in jobs : j.order = o /\ Take(Track(o), j))
    /\ \A o \in Orders : SF_vars(BatchFor(o))

-----------------------------------------------------------------------------
(***************************************************************************)
(* Properties.                                                             *)
(***************************************************************************)
Accepted == MapThenSumSet(LAMBDA o : Amount[o] * Disbursements(o), Orders)

\* Xendit is asked to pay an order once: retries of the call and of the job,
\* requeues and batches of other orders do not pay it again.
PaidOnce == \A o \in Orders : Disbursements(o) <= 1

\* A settlement that the table calls FAILED was not paid, nor is it being paid.
FailedIsUnpaid ==
    \A o \in Orders :
        row[o].status = "FAILED" =>
            xendit[o]["PENDING"] + xendit[o]["COMPLETED"] = 0

\* The disbursements that one count of the daily counter may stand for.  The
\* counter is increased once before createDisbursement, which repeats a call
\* whose answer was lost without an idempotency key: each attempt may pay.
PerCount == IF Dedupes \/ "lost" \notin Faults THEN 1 ELSE XENDIT_RETRIES

\* Through crashes, refusals, database errors and both lanes at work the daily
\* counter falls behind the money that left by lost answers only, and then by no
\* more than the attempts of one createDisbursement for each count.
OutflowCounted == Accepted <= PerCount * outflow

\* checkDailyWithdrawalLimit, "hard cap": no more than the limit leaves a day.
HardCap == Accepted <= DAILY_LIMIT_IDR

\* A settlement is not forgotten: while it is PENDING, the queues hold a job
\* that will look at it; when they give up, it is FAILED.
PendingHasJob ==
    \A o \in Orders :
        row[o].status = "PENDING" =>
            \/ \E j \in jobs : j.order = o
            \/ \E l \in Lanes : worker[l].job # NoJob /\ worker[l].job.order = o

\* A settlement Xendit reported as completed stays completed.
CompletedStays ==
    [][\A o \in Orders : row[o].status = "COMPLETED" => row'[o].status = "COMPLETED"]_vars

\* A recorded settlement is handed to Xendit or declared failed.
EverySettlementEnds ==
    \A o \in Orders :
        enqueue[o] = "done" ~> row[o].status \in {"PROCESSING", "COMPLETED", "FAILED"}

\* The queue implements the payout: orders are paid once or given up unpaid.
PayoutOf == INSTANCE Payout WITH
    due <- {o \in Orders : row[o].status # "NONE"},
    paid <- UNION {{<<o, n>> : n \in 1..Disbursements(o)} : o \in Orders},
    givenUp <- {o \in Orders : row[o].status = "FAILED" /\ Disbursements(o) = 0}

PayoutSpec == PayoutOf!PayoutSpec
=============================================================================
