------------------------- MODULE SettlementQueueProofs -------------------------
(***************************************************************************)
(* Theorems of SettlementQueue, for every set of orders, every limit and   *)
(* every number of attempts.                                               *)
(***************************************************************************)
EXTENDS SettlementQueue, TLAPS

-----------------------------------------------------------------------------
(***************************************************************************)
(* Type correctness.                                                       *)
(***************************************************************************)

\* A handler works on a job, and from the limit check to the update on an order.
WorkerBusy ==
    \A l \in Lanes :
        /\ worker[l].at # "idle" => worker[l].job \in Job
        /\ worker[l].at \in {"get", "incr", "pay", "update"} => worker[l].cur \in Orders

\* What Xendit does with a disbursement does not change how many there are.
Bounded == \A o \in Orders : Disbursements(o) <= MaxDisbursements

TypeInv == TypeOK /\ WorkerBusy /\ Bounded

\* The constants are numbers.
LEMMA ConstantTypes ==
    /\ MAX_RETRIES \in Nat /\ MAX_RETRIES >= 1
    /\ XENDIT_RETRIES \in Nat /\ XENDIT_RETRIES >= 1
    /\ MaxDisbursements \in Nat /\ MaxDuplicates \in Nat /\ DAILY_LIMIT_IDR \in Nat
    /\ \A o \in Orders : Amount[o] \in Nat
BY AmountAssumption

\* A worker with no job.
LEMMA IdleTyped == Idle \in Worker
BY ConstantTypes DEF Idle, Worker

\* The handler of one lane moves on; the other lane is left alone.
LEMMA WorkerMoves ==
    ASSUME worker \in [Lanes -> Worker], WorkerBusy, NEW l \in Lanes, NEW w \in Worker,
           w.at # "idle" => w.job \in Job,
           w.at \in {"get", "incr", "pay", "update"} => w.cur \in Orders,
           worker' = [worker EXCEPT ![l] = w]
    PROVE  worker' \in [Lanes -> Worker] /\ WorkerBusy'
BY DEF WorkerBusy

\* The same, when only the await changes.
LEMMA MoveTyped ==
    ASSUME worker \in [Lanes -> Worker], WorkerBusy, NEW l \in Lanes,
           NEW s \in {"next", "pay", "record", "throw", "return"}, Move(l, s),
           worker[l].at # "idle",
           s = "pay" => worker[l].cur \in Orders
    PROVE  worker' \in [Lanes -> Worker] /\ WorkerBusy'
<1> DEFINE w == [worker[l] EXCEPT !.at = s]
<1>1. w \in Worker /\ w.job = worker[l].job /\ w.cur = worker[l].cur /\ w.at = s
  BY DEF Worker
<1>2. worker' = [worker EXCEPT ![l] = w]
  BY DEF Move
<1> QED
  BY <1>1, <1>2, WorkerMoves DEF WorkerBusy

\* Xendit accepting a request keeps the counts within their bound.
LEMMA AcceptTyped ==
    ASSUME TypeInv, NEW o \in Orders, Accept(o)
    PROVE  /\ xendit' \in [Orders -> [{"PENDING", "COMPLETED", "FAILED"} -> 0..MaxDisbursements]]
           /\ Bounded'
<1> USE AmountAssumption DEF TypeInv, TypeOK, Bounded, Disbursements
<1>1. CASE Dedupes /\ Disbursements(o) > 0
  BY <1>1 DEF Accept
<1>2. CASE ~(Dedupes /\ Disbursements(o) > 0)
  <2>1. /\ Disbursements(o) < MaxDisbursements
        /\ xendit' = [xendit EXCEPT
                         ![o] = [xendit[o] EXCEPT !["PENDING"] = xendit[o]["PENDING"] + 1]]
    BY <1>2 DEF Accept
  <2>2. xendit[o]["PENDING"] + 1 \in 0..MaxDisbursements
    BY <2>1
  <2> QED BY <2>1, <2>2
<1> QED BY <1>1, <1>2

\* A job added by an enqueue or a requeue.
LEMMA NewJobTyped ==
    ASSUME NEW o \in Orders, FreeGens(o) # {} PROVE NewJob(o) \in Job
<1>1. (CHOOSE g \in FreeGens(o) : TRUE) \in 0..MaxDuplicates
  BY DEF FreeGens
<1> QED BY <1>1, AmountAssumption DEF NewJob, Job

\* A disbursement that ends is counted once more as what it ended as.
LEMMA EndsOne ==
    ASSUME NEW f \in [{"PENDING", "COMPLETED", "FAILED"} -> Int],
           NEW s \in {"COMPLETED", "FAILED"}
    PROVE  LET g == [f EXCEPT !["PENDING"] = f["PENDING"] - 1, ![s] = f[s] + 1] IN
           g["PENDING"] + g["COMPLETED"] + g["FAILED"]
               = f["PENDING"] + f["COMPLETED"] + f["FAILED"]
<1>1. CASE s = "COMPLETED"
  BY <1>1
<1>2. CASE s = "FAILED"
  BY <1>2
<1> QED BY <1>1, <1>2

\* Every step keeps TypeInv.
LEMMA TypeInductive ==
    ASSUME TypeInv, [Next]_vars PROVE TypeInv'
<1> USE DEF TypeInv, TypeOK
<1>1. ASSUME NEW o \in Orders, AddJob(o) PROVE TypeInv'
  <2>1. NewJob(o) \in Job
    BY <1>1, NewJobTyped DEF AddJob
  <2> QED BY <1>1, <2>1 DEF AddJob, WorkerBusy, Bounded, Disbursements
<1>2. ASSUME NEW o \in Orders, Enqueue(o) PROVE TypeInv'
  <2>1. [status |-> "PENDING", attempts |-> 0] \in Row
    BY ConstantTypes DEF Row
  <2>2. row' \in [Orders -> Row]
    BY <1>2, <2>1 DEF Enqueue, CreateRow, CreateFail
  <2> QED
    BY <1>2, <2>2 DEF Enqueue, CreateRow, CreateFail, WorkerBusy, Bounded, Disbursements
<1>3. ASSUME NEW l \in Lanes, NEW j \in jobs, Take(l, j) PROVE TypeInv'
  <2> DEFINE w == [Idle EXCEPT !.job = j, !.at = "find"]
  <2>1. w \in Worker /\ w.job = j /\ w.at = "find"
    BY IdleTyped DEF Worker
  <2>2. worker' \in [Lanes -> Worker] /\ WorkerBusy'
    BY <1>3, <2>1, WorkerMoves DEF Take
  <2> QED BY <1>3, <2>2 DEF Take, Bounded, Disbursements
<1>4. ASSUME NEW l \in Lanes, WorkerStep(l) PROVE TypeInv'
  <2>0. worker[l] \in Worker /\ 0 \in 0..(XENDIT_RETRIES - 1)
    BY ConstantTypes
  <2>1. CASE FindOrder(l)
    <3> DEFINE o == worker[l].job.order
               w == [worker[l] EXCEPT !.at = "next", !.todo = {o}]
    <3>1. worker[l].job \in Job /\ o \in Orders
      BY <2>1 DEF FindOrder, At, WorkerBusy, Job
    <3>2. w \in Worker /\ w.at = "next" /\ w.job = worker[l].job
      BY <2>0, <3>1 DEF Worker
    <3>3. worker' = [worker EXCEPT ![l] = w] => worker' \in [Lanes -> Worker] /\ WorkerBusy'
      BY <3>1, <3>2, WorkerMoves
    <3>4. Move(l, "record") \/ worker' = [worker EXCEPT ![l] = w]
      BY <2>1 DEF FindOrder
    <3>5. worker' \in [Lanes -> Worker] /\ WorkerBusy'
      BY <2>1, <3>3, <3>4, MoveTyped DEF FindOrder, At
    <3> QED BY <2>1, <3>5 DEF FindOrder, Bounded, Disbursements
  <2>2. CASE Batch(l)
    <3> DEFINE w == [worker[l] EXCEPT !.at = "next",
                         !.todo = {o \in Orders : Track(o) = l /\ row[o].status = "PENDING"}]
    <3>1. w \in Worker /\ w.at = "next" /\ w.job = worker[l].job
      BY <2>0 DEF Worker
    <3>2. worker[l].job \in Job /\ worker' = [worker EXCEPT ![l] = w]
      BY <2>2 DEF Batch, At, WorkerBusy
    <3>3. worker' \in [Lanes -> Worker] /\ WorkerBusy'
      BY <3>1, <3>2, WorkerMoves
    <3> QED BY <2>2, <3>3 DEF Batch, Bounded, Disbursements
  <2>3. CASE Requeue(l)
    <3>1. worker[l].job.order \in Orders
      BY <2>3 DEF Requeue, At, WorkerBusy, Job
    <3>2. NewJob(worker[l].job.order) \in Job
      BY <2>3, <3>1, NewJobTyped DEF Requeue
    <3>3. worker' \in [Lanes -> Worker] /\ WorkerBusy'
      BY <2>3, MoveTyped DEF Requeue, At
    <3> QED BY <2>3, <3>2, <3>3 DEF Requeue, Bounded, Disbursements
  <2>4. CASE NextSettlement(l)
    <3>1. CASE Move(l, "return") \/ Move(l, "record")
      <4>1. worker' \in [Lanes -> Worker] /\ WorkerBusy'
        BY <2>4, <3>1, MoveTyped DEF NextSettlement, At
      <4> QED BY <2>4, <4>1 DEF NextSettlement, Bounded, Disbursements
    <3>2. ASSUME NEW o \in worker[l].todo,
                 worker' = [worker EXCEPT ![l].at = "get", ![l].cur = o]
          PROVE  TypeInv'
      <4> DEFINE w == [worker[l] EXCEPT !.at = "get", !.cur = o]
      <4>1. w \in Worker /\ w.at = "get" /\ w.job = worker[l].job /\ w.cur \in Orders
        BY <2>0 DEF Worker
      <4>2. worker[l].job \in Job /\ worker' = [worker EXCEPT ![l] = w]
        BY <2>4, <3>2 DEF NextSettlement, At, WorkerBusy
      <4>3. worker' \in [Lanes -> Worker] /\ WorkerBusy'
        BY <4>1, <4>2, WorkerMoves
      <4> QED BY <2>4, <4>3 DEF NextSettlement, Bounded, Disbursements
    <3> QED BY <2>4, <3>1, <3>2 DEF NextSettlement
  <2>5. CASE ReadOutflow(l)
    <3> DEFINE w == [worker[l] EXCEPT !.at = "incr", !.read = outflow]
    <3>1. w \in Worker /\ w.at = "incr" /\ w.job = worker[l].job /\ w.cur = worker[l].cur
      BY <2>0 DEF Worker
    <3>2. /\ worker[l].job \in Job /\ worker[l].cur \in Orders
          /\ worker' = [worker EXCEPT ![l] = w]
      BY <2>5 DEF ReadOutflow, At, WorkerBusy
    <3>3. worker' \in [Lanes -> Worker] /\ WorkerBusy'
      BY <3>1, <3>2, WorkerMoves
    <3> QED BY <2>5, <3>3 DEF ReadOutflow, Bounded, Disbursements
  <2>6. CASE AddOutflow(l)
    <3>1. worker[l].cur \in Orders /\ (Move(l, "record") \/ Move(l, "pay"))
      BY <2>6 DEF AddOutflow, At, WorkerBusy
    <3>2. worker' \in [Lanes -> Worker] /\ WorkerBusy'
      BY <2>6, <3>1, MoveTyped DEF AddOutflow, At
    <3>3. outflow' \in Nat
      BY ConstantTypes, <2>6, <3>1 DEF AddOutflow
    <3> QED BY <2>6, <3>2, <3>3 DEF AddOutflow, Bounded, Disbursements
  <2>7. CASE PayOk(l)
    <3> DEFINE w == [worker[l] EXCEPT !.at = "update", !.tries = 0]
    <3>1. w \in Worker /\ w.at = "update" /\ w.job = worker[l].job /\ w.cur = worker[l].cur
      BY <2>0 DEF Worker
    <3>2. /\ worker[l].job \in Job /\ worker[l].cur \in Orders
          /\ worker' = [worker EXCEPT ![l] = w]
      BY <2>7 DEF PayOk, At, WorkerBusy
    <3>3. worker' \in [Lanes -> Worker] /\ WorkerBusy'
      BY <3>1, <3>2, WorkerMoves
    <3> QED BY <2>7, <3>2, <3>3, AcceptTyped DEF PayOk
  <2>8. CASE PayRefused(l) \/ PayLost(l)
    <3> DEFINE again == [worker[l] EXCEPT !.tries = worker[l].tries + 1]
               over == [worker[l] EXCEPT !.at = "record", !.tries = 0]
    <3>0. worker[l].tries + 1 < XENDIT_RETRIES =>
              worker[l].tries + 1 \in 0..(XENDIT_RETRIES - 1)
      BY <2>0, ConstantTypes DEF Worker
    <3>1. /\ worker[l].tries + 1 < XENDIT_RETRIES => again \in Worker
          /\ over \in Worker /\ over.at = "record" /\ over.job = worker[l].job
          /\ again.at = worker[l].at /\ again.job = worker[l].job /\ again.cur = worker[l].cur
      BY <2>0, <3>0 DEF Worker
    <3>2. /\ TryAgain(l) /\ worker[l].at = "pay"
          /\ worker[l].job \in Job /\ worker[l].cur \in Orders
      BY <2>8 DEF PayRefused, PayLost, At, WorkerBusy
    <3>3. \/ worker[l].tries + 1 < XENDIT_RETRIES /\ worker' = [worker EXCEPT ![l] = again]
          \/ worker' = [worker EXCEPT ![l] = over]
      BY <3>2 DEF TryAgain
    <3>4. worker' \in [Lanes -> Worker] /\ WorkerBusy'
      BY <3>1, <3>2, <3>3, WorkerMoves
    <3> QED BY <2>8, <3>2, <3>4, AcceptTyped DEF PayRefused, PayLost, Bounded, Disbursements
  <2>9. CASE UpdateRow(l)
    <3> DEFINE o == worker[l].cur
               w == [worker[l] EXCEPT !.at = "next", !.todo = worker[l].todo \ {o}, !.cur = NoOrder]
    <3>1. w \in Worker /\ w.at = "next" /\ w.job = worker[l].job
      BY <2>0 DEF Worker
    <3>2. /\ worker[l].job \in Job /\ o \in Orders
          /\ worker' = [worker EXCEPT ![l] = w]
      BY <2>9 DEF UpdateRow, At, WorkerBusy
    <3>3. worker' \in [Lanes -> Worker] /\ WorkerBusy'
      BY <3>1, <3>2, WorkerMoves
    <3>4. row' \in [Orders -> Row]
      BY ConstantTypes, <2>9, <3>2 DEF UpdateRow, Row, CountUp
    <3> QED BY <2>9, <3>3, <3>4 DEF UpdateRow, Bounded, Disbursements
  <2>10. CASE StoreFail(l)
    <3>1. worker[l].at # "idle" /\ (At(l, "incr") => worker[l].cur \in Orders) /\ Move(l, "record")
      BY <2>10 DEF StoreFail, At, WorkerBusy
    <3>2. worker' \in [Lanes -> Worker] /\ WorkerBusy'
      BY <3>1, MoveTyped
    <3>3. outflow' \in Nat
      BY ConstantTypes, <2>10, <3>1 DEF StoreFail
    <3> QED BY <2>10, <3>2, <3>3 DEF StoreFail, Bounded, Disbursements
  <2>11. CASE RecordError(l) \/ RecordFail(l)
    <3>1. worker[l].at # "idle" /\ Move(l, "throw") /\ worker[l].job.order \in Orders
      BY <2>11 DEF RecordError, RecordFail, At, WorkerBusy, Job
    <3>2. worker' \in [Lanes -> Worker] /\ WorkerBusy'
      BY <3>1, MoveTyped
    <3>3. row' \in [Orders -> Row]
      BY ConstantTypes, <2>11, <3>1 DEF RecordError, RecordFail, Row, CountUp
    <3> QED BY <2>11, <3>2, <3>3 DEF RecordError, RecordFail, Bounded, Disbursements
  <2>12. CASE CompleteJob(l) \/ FailJob(l)
    <3>1. worker' = [worker EXCEPT ![l] = Idle]
      BY <2>12 DEF CompleteJob, FailJob
    <3>2. worker' \in [Lanes -> Worker] /\ WorkerBusy'
      BY <3>1, IdleTyped, WorkerMoves DEF Idle
    <3>3. jobs' \subseteq Job
      <4>1. FailJob(l) => worker[l].job \in Job
        BY DEF FailJob, At, WorkerBusy
      <4>2. \A j \in Job : j.failures + 1 < MAX_RETRIES =>
                [j EXCEPT !.failures = j.failures + 1] \in Job
        BY ConstantTypes DEF Job
      <4> QED BY <2>12, <4>1, <4>2 DEF CompleteJob, FailJob
    <3> QED BY <2>12, <3>2, <3>3 DEF CompleteJob, FailJob, Bounded, Disbursements
  <2> QED
    BY <1>4, <2>1, <2>2, <2>3, <2>4, <2>5, <2>6, <2>7, <2>8, <2>9, <2>10, <2>11, <2>12
    DEF WorkerStep
<1>5. ASSUME NEW o \in Orders, NEW s \in {"COMPLETED", "FAILED"}, XenditEnds(o, s)
      PROVE  TypeInv'
  <2> DEFINE x == [xendit[o] EXCEPT !["PENDING"] = xendit[o]["PENDING"] - 1,
                                    ![s] = xendit[o][s] + 1]
  <2>1. x["PENDING"] + x["COMPLETED"] + x["FAILED"] = Disbursements(o)
    <3>1. xendit[o] \in [{"PENDING", "COMPLETED", "FAILED"} -> Int]
      BY ConstantTypes
    <3> QED BY <3>1, EndsOne DEF Disbursements
  <2>2. x \in [{"PENDING", "COMPLETED", "FAILED"} -> 0..MaxDisbursements]
    BY <1>5, ConstantTypes DEF XenditEnds, Bounded, Disbursements
  <2>3. xendit' = [xendit EXCEPT ![o] = x]
    BY <1>5 DEF XenditEnds
  <2>4. Bounded'
    BY <2>1, <2>3 DEF Bounded, Disbursements
  <2> QED BY <1>5, <2>2, <2>3, <2>4 DEF XenditEnds, WorkerBusy
<1>6. ASSUME NEW o \in Orders, NEW s \in {"COMPLETED", "FAILED"}, Callback(o, s)
      PROVE  TypeInv'
  BY <1>6 DEF Callback, Row, WorkerBusy, Bounded, Disbursements
<1>7. CASE Crash
  <2>1. worker' \in [Lanes -> Worker] /\ WorkerBusy'
    BY <1>7, IdleTyped DEF Crash, WorkerBusy, Idle
  <2>2. \A j \in Job : [j EXCEPT !.stalls = 1] \in Job
    BY DEF Job
  <2>3. \A l \in Lanes : worker[l].job \in Job \cup {NoJob}
    BY DEF Worker
  <2>4. jobs' \subseteq Job
    BY <1>7, <2>2, <2>3 DEF Crash
  <2> QED BY <1>7, <2>1, <2>4 DEF Crash, Bounded, Disbursements
<1>8. CASE UNCHANGED vars
  BY <1>8 DEF vars, WorkerBusy, Bounded, Disbursements
<1> QED
  BY <1>1, <1>2, <1>3, <1>4, <1>5, <1>6, <1>7, <1>8 DEF Next, Rest

\* Every reachable state is well-formed: no job is tried more than MAX_RETRIES
\* times, no call more than XENDIT_RETRIES times.
THEOREM TypeCorrect == Spec => []TypeOK
<1>1. Init => TypeInv
  BY ConstantTypes, IdleTyped
  DEF Init, TypeInv, TypeOK, WorkerBusy, Bounded, Disbursements, Row, Idle
<1>2. TypeInv /\ [Next]_vars => TypeInv'
  BY TypeInductive
<1> QED
  BY <1>1, <1>2, PTL DEF Spec, TypeInv

-----------------------------------------------------------------------------
(***************************************************************************)
(* The fast lane, when calls to Xendit are refused but get answers, and    *)
(* nothing else fails.                                                     *)
(***************************************************************************)
OnlyRefusals == Faults \subseteq {"refused", "callback"}
AllFast == \A o \in Orders : Track(o) = "FAST_LANE"

Fast == worker["FAST_LANE"]

\* The handler has its order's payment before it.
MayPay ==
    \/ Fast.at \in {"find", "get", "incr", "pay", "record"}
    \/ Fast.at = "next" /\ Fast.todo # {}

\* An order has one job, waiting or being handled.
OneJob ==
    /\ \A j, k \in jobs : j.order = k.order => j = k
    /\ Fast.at # "idle" => \A j \in jobs : j.order # Fast.job.order
    /\ \A o \in Orders : enqueue[o] = "none" =>
           /\ \A j \in jobs : j.order # o
           /\ Fast.at # "idle" => Fast.job.order # o

\* The handler pays the order of its job, which has a row.
OwnOrder ==
    /\ worker["EFFICIENT_LANE"].at = "idle"
    /\ Fast.at = "next" => Fast.todo \subseteq {Fast.job.order}
    /\ Fast.at \in {"get", "incr", "pay", "update"} =>
           Fast.cur = Fast.job.order /\ Fast.todo = {Fast.job.order}
    /\ Fast.at \in {"next", "get", "incr", "pay", "update"} =>
           row[Fast.job.order].status # "NONE"
    /\ \A o \in Orders : enqueue[o] # "done" =>
           row[o].status = "NONE" /\ row[o].attempts = 0

\* An order with work ahead of it is not paid, and its row has seen no more
\* failures than its job.
Pristine(o, n) ==
    /\ Disbursements(o) = 0
    /\ row[o].status # "FAILED"
    /\ row[o].attempts <= n

\* While a job is left, its order is not paid and not given up.
WorkAhead ==
    /\ \A o \in Orders : enqueue[o] = "none" => Disbursements(o) = 0
    /\ \A j \in jobs : Pristine(j.order, j.failures)
    /\ MayPay => Pristine(Fast.job.order, Fast.job.failures)
    /\ Fast.at = "throw" =>
           /\ Disbursements(Fast.job.order) = 0
           /\ row[Fast.job.order].attempts <= Fast.job.failures + 1
           /\ row[Fast.job.order].status = "FAILED" => Fast.job.failures + 1 >= MAX_RETRIES
    /\ Fast.at = "update" => Disbursements(Fast.job.order) > 0

FastInv == OneJob /\ OwnOrder /\ WorkAhead /\ PaidOnce /\ FailedIsUnpaid

\* The fast worker's steps, by what becomes of its handler.
LEMMA FastMoves ==
    ASSUME AllFast, TypeInv, FastInv, NEW l \in Lanes, WorkerStep(l)
    PROVE  /\ l = "FAST_LANE" /\ worker'["EFFICIENT_LANE"] = worker["EFFICIENT_LANE"]
           /\ Fast.job \in Job /\ Fast.job.order \in Orders
           /\ ~Batch(l) /\ ~Requeue(l)
<1>1. l = "FAST_LANE"
  BY DEF FastInv, OwnOrder, Lanes, WorkerStep, FindOrder, Batch, Requeue, NextSettlement,
         ReadOutflow, AddOutflow, PayOk, PayRefused, PayLost, UpdateRow, StoreFail,
         RecordError, RecordFail, CompleteJob, FailJob, At
<1>2. worker'["EFFICIENT_LANE"] = worker["EFFICIENT_LANE"]
  BY <1>1 DEF TypeInv, TypeOK, Lanes, WorkerStep, FindOrder, Batch, Requeue, NextSettlement,
         ReadOutflow, AddOutflow, PayOk, PayRefused, PayLost, UpdateRow, StoreFail,
         RecordError, RecordFail, CompleteJob, FailJob, Move, TryAgain
<1>3. Fast.job \in Job
  BY <1>1 DEF Fast, TypeInv, WorkerBusy, WorkerStep, FindOrder, Batch, Requeue, NextSettlement,
         ReadOutflow, AddOutflow, PayOk, PayRefused, PayLost, UpdateRow, StoreFail,
         RecordError, RecordFail, CompleteJob, FailJob, At
<1>4. ~Batch(l) /\ ~Requeue(l)
  BY <1>1 DEF Batch, Requeue
<1> QED BY <1>1, <1>2, <1>3, <1>4 DEF Job

\* Xendit accepting an order it has not accepted yet gives it one disbursement.
LEMMA FirstPayment ==
    ASSUME TypeInv, NEW o \in Orders, Accept(o), Disbursements(o) = 0
    PROVE  /\ \A q \in Orders : Disbursements(q)' = IF q = o THEN 1 ELSE Disbursements(q)
           /\ \A q \in Orders \ {o} : xendit'[q] = xendit[q]
           /\ xendit[o]["COMPLETED"] = 0 /\ xendit'[o]["COMPLETED"] = 0
<1>0. xendit \in [Orders -> [{"PENDING", "COMPLETED", "FAILED"} -> Nat]]
  BY ConstantTypes DEF TypeInv, TypeOK
<1>1. xendit[o]["PENDING"] = 0 /\ xendit[o]["COMPLETED"] = 0 /\ xendit[o]["FAILED"] = 0
  <2>1. /\ xendit[o]["PENDING"] \in Nat /\ xendit[o]["COMPLETED"] \in Nat
        /\ xendit[o]["FAILED"] \in Nat
    BY <1>0
  <2>2. xendit[o]["PENDING"] + xendit[o]["COMPLETED"] + xendit[o]["FAILED"] = 0
    BY DEF Disbursements
  <2>3. \A a, b, c \in Nat : a + b + c = 0 => a = 0 /\ b = 0 /\ c = 0
    OBVIOUS
  <2> QED BY <2>1, <2>2, <2>3
<1>2. xendit' = [xendit EXCEPT ![o]["PENDING"] = 1]
  BY <1>0, <1>1 DEF Accept
<1>3. /\ \A q \in Orders \ {o} : xendit'[q] = xendit[q]
      /\ xendit'[o]["PENDING"] = 1 /\ xendit'[o]["COMPLETED"] = 0 /\ xendit'[o]["FAILED"] = 0
  BY <1>0, <1>1, <1>2
<1>4. \A q \in Orders : Disbursements(q)' = IF q = o THEN 1 ELSE Disbursements(q)
  BY <1>3 DEF Disbursements
<1> QED BY <1>1, <1>3, <1>4

\* Where the fast worker pays, its order has no disbursement, and gets one.
LEMMA FastPays ==
    ASSUME AllFast, TypeInv, FastInv, NEW l \in Lanes, PayOk(l), NEW o, o = Fast.job.order
    PROVE  /\ Fast.at = "pay" /\ Fast.cur = o /\ Fast.todo = {o} /\ row[o].status # "NONE"
           /\ Pristine(o, Fast.job.failures)
           /\ UNCHANGED <<enqueue, jobs, row>>
           /\ \A q \in Orders : Disbursements(q)' = IF q = o THEN 1 ELSE Disbursements(q)
           /\ \A q \in Orders \ {o} : xendit'[q] = xendit[q]
<1>0. /\ worker \in [Lanes -> Worker] /\ row \in [Orders -> Row]
      /\ xendit \in [Orders -> [{"PENDING", "COMPLETED", "FAILED"} -> Nat]]
      /\ Fast = worker[l] /\ o \in Orders /\ Fast.job.failures \in Nat
  BY FastMoves, ConstantTypes DEF TypeInv, TypeOK, WorkerStep, Fast, Job
<1>1. /\ Fast.at = "pay" /\ Fast.cur = o /\ Fast.todo = {o} /\ row[o].status # "NONE"
      /\ UNCHANGED <<enqueue, jobs, row>> /\ Accept(o)
  BY <1>0 DEF PayOk, At, FastInv, OwnOrder
<1>2. Pristine(o, Fast.job.failures)
  BY <1>1 DEF FastInv, WorkAhead, MayPay
<1>3. /\ \A q \in Orders : Disbursements(q)' = IF q = o THEN 1 ELSE Disbursements(q)
      /\ \A q \in Orders \ {o} : xendit'[q] = xendit[q]
  BY <1>0, <1>1, <1>2, FirstPayment DEF Pristine
<1> QED BY <1>1, <1>2, <1>3

\* Where the fast worker records an error, its order is not paid, and is given
\* up by the job's last attempt at the earliest.
LEMMA FastRecords ==
    ASSUME AllFast, TypeInv, FastInv, NEW l \in Lanes, RecordError(l), NEW o, o = Fast.job.order
    PROVE  /\ Fast.at = "record" /\ UNCHANGED <<enqueue, jobs, xendit>>
           /\ Pristine(o, Fast.job.failures)
           /\ \A q \in Orders \ {o} : row'[q] = row[q]
           /\ row'[o].attempts <= Fast.job.failures + 1
           /\ row'[o].status = "FAILED" => Fast.job.failures + 1 >= MAX_RETRIES
           /\ row[o].status = "NONE" => row'[o] = row[o]
           /\ row[o].status # "NONE" => row'[o].status \in {"PENDING", "FAILED"}
<1>0. /\ worker \in [Lanes -> Worker] /\ row \in [Orders -> Row]
      /\ xendit \in [Orders -> [{"PENDING", "COMPLETED", "FAILED"} -> Nat]]
      /\ Fast = worker[l] /\ o \in Orders /\ Fast.job.failures \in Nat
  BY FastMoves, ConstantTypes DEF TypeInv, TypeOK, WorkerStep, Fast, Job
<1>1. Fast.at = "record" /\ UNCHANGED <<enqueue, jobs, xendit>>
  BY <1>0 DEF RecordError, At
<1>2. Pristine(o, Fast.job.failures)
  BY <1>1 DEF FastInv, WorkAhead, MayPay
<1>3. \A q \in Orders \ {o} : row'[q] = row[q]
  BY <1>0 DEF RecordError
<1>4. row[o].attempts \in Nat /\ row[o].attempts <= Fast.job.failures /\ row[o].status # "FAILED"
  BY <1>0, <1>2, ConstantTypes DEF Row, Pristine
<1> DEFINE n == CountUp(row[o].attempts)
<1>5. n \in Nat /\ n <= Fast.job.failures + 1
  BY <1>0, <1>4, ConstantTypes DEF CountUp
<1>6. CASE row[o].status = "NONE"
  BY <1>0, <1>1, <1>2, <1>3, <1>4, <1>6 DEF RecordError
<1>7. CASE row[o].status # "NONE"
  <2>1. row'[o] = [status |-> IF n >= MAX_RETRIES THEN "FAILED" ELSE "PENDING", attempts |-> n]
    BY <1>0, <1>7 DEF RecordError
  <2> HIDE DEF n
  <2>2. /\ row'[o].attempts = n /\ (row'[o].status = "FAILED" => n >= MAX_RETRIES)
        /\ row'[o].status \in {"PENDING", "FAILED"}
    BY <2>1
  <2> QED BY <1>0, <1>1, <1>2, <1>3, <1>5, <1>7, <2>2, ConstantTypes
<1> QED BY <1>6, <1>7

\* Every step keeps FastInv.
LEMMA FastInductive ==
    ASSUME OnlyRefusals, AllFast, TypeInv, FastInv, [Next]_vars PROVE FastInv'
<1> DEFINE F == "FAST_LANE"
           E == "EFFICIENT_LANE"
<1>0. /\ worker \in [Lanes -> Worker] /\ row \in [Orders -> Row] /\ jobs \subseteq Job
      /\ xendit \in [Orders -> [{"PENDING", "COMPLETED", "FAILED"} -> Nat]]
      /\ enqueue \in [Orders -> {"none", "added", "done", "failed", "lost"}]
      /\ F \in Lanes /\ E \in Lanes /\ F # E
  BY ConstantTypes DEF TypeInv, TypeOK, Lanes
<1>j. \A j \in jobs : j.order \in Orders /\ j.failures \in Nat
  BY <1>0, ConstantTypes DEF Job
<1>w. Fast.at # "idle" => Fast.job.order \in Orders /\ Fast.job.failures \in Nat
  BY <1>0, ConstantTypes DEF TypeInv, WorkerBusy, Fast, Job
<1>m. MayPay \/ Fast.at = "throw" => Fast.at # "idle"
  BY DEF MayPay
<1>1. ASSUME NEW o \in Orders, AddJob(o) PROVE FastInv'
  <2>1. NewJob(o).order = o /\ NewJob(o).failures = 0
    BY DEF NewJob
  <2>2. jobs' = jobs \cup {NewJob(o)} /\ enqueue[o] = "none" /\ UNCHANGED <<worker, row, xendit>>
        /\ enqueue' = [enqueue EXCEPT ![o] = "added"]
    BY <1>1 DEF AddJob
  <2>3. OneJob'
    BY <1>0, <2>1, <2>2 DEF FastInv, OneJob, Fast
  <2>4. OwnOrder'
    BY <1>0, <2>2 DEF FastInv, OwnOrder, Fast
  <2>5. Pristine(o, 0)
    BY <2>2, <1>0 DEF FastInv, OwnOrder, WorkAhead, Pristine
  <2>6. WorkAhead'
    BY <1>0, <2>1, <2>2, <2>5 DEF FastInv, WorkAhead, MayPay, Pristine, Disbursements, Fast
  <2> QED BY <2>2, <2>3, <2>4, <2>6 DEF FastInv, PaidOnce, FailedIsUnpaid, Disbursements
<1>2. ASSUME NEW o \in Orders, CreateRow(o) PROVE FastInv'
  <2>1. /\ enqueue[o] = "added" /\ UNCHANGED <<jobs, worker, xendit>>
        /\ enqueue' = [enqueue EXCEPT ![o] = "done"]
        /\ row' = [row EXCEPT ![o] = [status |-> "PENDING", attempts |-> 0]]
    BY <1>2 DEF CreateRow
  <2>2. row'[o].status = "PENDING" /\ row'[o].attempts = 0
        /\ \A q \in Orders \ {o} : row'[q] = row[q]
    BY <1>0, <2>1
  <2>3. OneJob'
    BY <1>0, <2>1 DEF FastInv, OneJob, Fast
  <2>4. OwnOrder'
    BY <1>0, <2>1, <2>2 DEF FastInv, OwnOrder, Fast
  <2>5. row[o].status = "NONE" /\ row[o].attempts = 0
    BY <1>0, <2>1 DEF FastInv, OwnOrder
  <2>6. \A q \in Orders, n \in Nat : Pristine(q, n) => Pristine(q, n)'
    BY <2>1, <2>2 DEF Pristine, Disbursements
  <2>7. WorkAhead'
    <3>1. UNCHANGED <<Fast, MayPay>>
      BY <2>1 DEF Fast, MayPay
    <3> QED
      BY <1>0, <1>j, <1>w, <1>m, <2>1, <2>2, <2>5, <2>6, <3>1
      DEF FastInv, WorkAhead, Disbursements
  <2> QED
    BY <2>1, <2>2, <2>3, <2>4, <2>7 DEF FastInv, PaidOnce, FailedIsUnpaid, Disbursements
<1>3. ASSUME NEW o \in Orders, CreateFail(o) PROVE FastInv'
  <2>1. /\ enqueue[o] = "added" /\ UNCHANGED <<jobs, worker, row, xendit>>
        /\ enqueue' = [enqueue EXCEPT ![o] = "failed"]
    BY <1>3 DEF CreateFail
  <2>2. OneJob' /\ OwnOrder'
    BY <1>0, <2>1 DEF FastInv, OneJob, OwnOrder, Fast
  <2>3. WorkAhead'
    BY <1>0, <2>1 DEF FastInv, WorkAhead, MayPay, Pristine, Disbursements, Fast
  <2> QED
    BY <2>1, <2>2, <2>3 DEF FastInv, PaidOnce, FailedIsUnpaid, Disbursements
<1>4. ASSUME NEW l \in Lanes, NEW j \in jobs, Take(l, j) PROVE FastInv'
  <2>1. l = F
    BY <1>4, <1>j DEF Take, AllFast
  <2>2. /\ Fast.at = "idle" /\ jobs' = jobs \ {j} /\ UNCHANGED <<enqueue, row, xendit>>
        /\ worker' = [worker EXCEPT ![F] = [Idle EXCEPT !.job = j, !.at = "find"]]
    BY <1>4, <2>1 DEF Take, At, Fast
  <2>3. Fast'.at = "find" /\ Fast'.job = j /\ worker'[E] = worker[E]
    BY <1>0, <2>2 DEF Fast, Idle
  <2>4. OneJob'
    BY <1>j, <2>2, <2>3 DEF FastInv, OneJob
  <2>5. OwnOrder'
    BY <2>2, <2>3 DEF FastInv, OwnOrder
  <2>6. WorkAhead'
    BY <2>2, <2>3 DEF FastInv, WorkAhead, MayPay, Pristine, Disbursements
  <2> QED
    BY <2>2, <2>4, <2>5, <2>6 DEF FastInv, PaidOnce, FailedIsUnpaid, Disbursements
<1>5. ASSUME NEW l \in Lanes, WorkerStep(l) PROVE FastInv'
  <2> DEFINE o == Fast.job.order
  <2>0. /\ l = F /\ worker'[E] = worker[E] /\ Fast = worker[l] /\ Fast' = worker'[l]
        /\ o \in Orders /\ Fast.job.failures \in Nat
        /\ ~Batch(l) /\ ~Requeue(l)
    BY <1>5, FastMoves, ConstantTypes DEF Job, Fast
  <2>1. CASE FindOrder(l)
    <3>1. /\ Fast.at = "find" /\ UNCHANGED <<enqueue, jobs, row, xendit>>
          /\ Fast'.job = Fast.job /\ Fast'.cur = Fast.cur
          /\ \/ Fast'.at = "record"
             \/ Fast'.at = "next" /\ Fast'.todo = {o} /\ row[o].status # "NONE"
      BY <1>0, <2>0, <2>1 DEF FindOrder, At, Move, Worker
    <3>2. OneJob' /\ OwnOrder'
      BY <2>0, <3>1 DEF FastInv, OneJob, OwnOrder
    <3>3. WorkAhead'
      BY <2>0, <3>1 DEF FastInv, WorkAhead, MayPay, Pristine, Disbursements
    <3> QED BY <3>1, <3>2, <3>3 DEF FastInv, PaidOnce, FailedIsUnpaid, Disbursements
  <2>2. CASE NextSettlement(l)
    <3>1. /\ Fast.at = "next" /\ UNCHANGED <<enqueue, jobs, row, xendit>>
          /\ Fast'.job = Fast.job /\ Fast'.todo = Fast.todo
          /\ \/ Fast'.at = "return"
             \/ Fast'.at = "record" /\ Fast.todo # {}
             \/ Fast'.at = "get" /\ Fast'.cur \in Fast.todo
      <4>1. CASE worker[l].todo = {} /\ Move(l, "return")
        BY <1>0, <2>0, <2>2, <4>1 DEF NextSettlement, At, Move, Worker
      <4>2. ASSUME NEW q \in worker[l].todo \cap Disbursable,
                   worker' = [worker EXCEPT ![l].at = "get", ![l].cur = q]
            PROVE  <3>1
        BY <1>0, <2>0, <2>2, <4>2 DEF NextSettlement, At, Worker
      <4>3. CASE worker[l].todo \ Disbursable # {} /\ Move(l, "record")
        BY <1>0, <2>0, <2>2, <4>3 DEF NextSettlement, At, Move, Worker
      <4> QED BY <2>2, <4>1, <4>2, <4>3 DEF NextSettlement
    <3>2. OneJob' /\ OwnOrder'
      BY <2>0, <3>1 DEF FastInv, OneJob, OwnOrder
    <3>3. WorkAhead'
      BY <2>0, <3>1 DEF FastInv, WorkAhead, MayPay, Pristine, Disbursements
    <3> QED BY <3>1, <3>2, <3>3 DEF FastInv, PaidOnce, FailedIsUnpaid, Disbursements
  <2>3. CASE ReadOutflow(l) \/ AddOutflow(l) \/ PayRefused(l)
    <3>1. /\ Fast.at \in {"get", "incr", "pay"} /\ UNCHANGED <<enqueue, jobs, row, xendit>>
          /\ Fast'.job = Fast.job /\ Fast'.todo = Fast.todo /\ Fast'.cur = Fast.cur
          /\ Fast'.at \in {"incr", "pay", "record"}
      <4>1. CASE ReadOutflow(l)
        BY <1>0, <2>0, <4>1 DEF ReadOutflow, At, Worker
      <4>2. CASE AddOutflow(l)
        BY <1>0, <2>0, <4>2 DEF AddOutflow, At, Move, Worker
      <4>3. CASE PayRefused(l)
        BY <1>0, <2>0, <4>3 DEF PayRefused, TryAgain, At, Worker
      <4> QED BY <2>3, <4>1, <4>2, <4>3
    <3>2. OneJob' /\ OwnOrder'
      BY <2>0, <3>1 DEF FastInv, OneJob, OwnOrder
    <3>3. WorkAhead'
      BY <2>0, <3>1 DEF FastInv, WorkAhead, MayPay, Pristine, Disbursements
    <3> QED BY <3>1, <3>2, <3>3 DEF FastInv, PaidOnce, FailedIsUnpaid, Disbursements
  <2>4. CASE PayOk(l)
    <3>1. /\ Fast.at = "pay" /\ Fast.cur = o /\ Fast.todo = {o} /\ row[o].status # "NONE"
          /\ Pristine(o, Fast.job.failures) /\ UNCHANGED <<enqueue, jobs, row>>
      BY <2>4, FastPays
    <3>2. Fast'.job = Fast.job /\ Fast'.todo = Fast.todo /\ Fast'.cur = Fast.cur
          /\ Fast'.at = "update"
      BY <1>0, <2>0, <2>4 DEF PayOk, Worker
    <3>3. /\ \A q \in Orders : Disbursements(q)' = IF q = o THEN 1 ELSE Disbursements(q)
          /\ \A q \in Orders \ {o} : xendit'[q] = xendit[q]
      BY <2>4, FastPays
    <3>4. OneJob' /\ OwnOrder'
      BY <2>0, <3>1, <3>2 DEF FastInv, OneJob, OwnOrder
    <3>5. WorkAhead'
      <4>1. enqueue[o] # "none" /\ \A j \in jobs : j.order # o
        BY <2>0, <3>1 DEF FastInv, OneJob
      <4> QED
        BY <1>j, <2>0, <3>1, <3>2, <3>3, <4>1 DEF FastInv, WorkAhead, MayPay, Pristine
    <3>6. PaidOnce'
      BY <3>3 DEF FastInv, PaidOnce
    <3>7. FailedIsUnpaid'
      BY <3>1, <3>3 DEF FastInv, FailedIsUnpaid, Pristine
    <3> QED BY <3>4, <3>5, <3>6, <3>7 DEF FastInv
  <2>5. CASE UpdateRow(l)
    <3>1. /\ Fast.at = "update" /\ Fast.cur = o /\ Fast.todo = {o} /\ Disbursements(o) > 0
          /\ UNCHANGED <<enqueue, jobs, xendit>>
      BY <2>0, <2>5 DEF UpdateRow, At, FastInv, OwnOrder, WorkAhead
    <3>2. Fast'.job = Fast.job /\ Fast'.todo = {} /\ Fast'.at = "next"
      BY <1>0, <2>0, <2>5, <3>1 DEF UpdateRow, Worker
    <3>3. row'[o].status = "PROCESSING" /\ \A q \in Orders \ {o} : row'[q] = row[q]
      BY <1>0, <2>0, <2>5, <3>1 DEF UpdateRow
    <3>4. enqueue[o] # "none" /\ \A j \in jobs : j.order # o
      BY <2>0, <3>1 DEF FastInv, OneJob
    <3>5. enqueue[o] = "done"
      BY <2>0, <3>1 DEF FastInv, OwnOrder
    <3>6. OneJob'
      BY <2>0, <3>1, <3>2 DEF FastInv, OneJob
    <3>7. OwnOrder'
      BY <2>0, <3>1, <3>2, <3>3, <3>5 DEF FastInv, OwnOrder
    <3>8. WorkAhead'
      BY <1>j, <2>0, <3>1, <3>2, <3>3, <3>4
      DEF FastInv, WorkAhead, MayPay, Pristine, Disbursements
    <3>9. FailedIsUnpaid'
      BY <3>1, <3>3 DEF FastInv, FailedIsUnpaid
    <3> QED BY <3>1, <3>6, <3>7, <3>8, <3>9 DEF FastInv, PaidOnce, Disbursements
  <2>6. CASE RecordError(l)
    <3>1. /\ Fast.at = "record" /\ UNCHANGED <<enqueue, jobs, xendit>>
          /\ Fast'.job = Fast.job /\ Fast'.at = "throw"
      BY <1>0, <2>0, <2>6 DEF RecordError, Move, At, Worker
    <3>2. Pristine(o, Fast.job.failures) /\ \A q \in Orders \ {o} : row'[q] = row[q]
      BY <2>6, FastRecords
    <3>3. /\ row'[o].attempts <= Fast.job.failures + 1
          /\ row'[o].status = "FAILED" => Fast.job.failures + 1 >= MAX_RETRIES
          /\ row[o].status = "NONE" => row'[o] = row[o]
      BY <2>6, FastRecords
    <3>4. OneJob'
      BY <2>0, <3>1 DEF FastInv, OneJob
    <3>5. OwnOrder'
      BY <2>0, <3>1, <3>2, <3>3 DEF FastInv, OwnOrder
    <3>6. WorkAhead'
      <4>1. \A j \in jobs : j.order # o
        BY <3>1 DEF FastInv, OneJob
      <4> QED
        BY <1>j, <2>0, <3>1, <3>2, <3>3, <4>1
        DEF FastInv, WorkAhead, MayPay, Pristine, Disbursements
    <3>7. FailedIsUnpaid'
      <4>1. xendit[o]["PENDING"] + xendit[o]["COMPLETED"] = 0
        <5>1. {xendit[o]["PENDING"], xendit[o]["COMPLETED"], xendit[o]["FAILED"]} \subseteq Nat
          BY <1>0, <2>0
        <5>2. xendit[o]["PENDING"] + xendit[o]["COMPLETED"] + xendit[o]["FAILED"] = 0
          BY <3>2 DEF Pristine, Disbursements
        <5> QED BY <5>1, <5>2
      <4> QED BY <3>1, <3>2, <4>1 DEF FastInv, FailedIsUnpaid
    <3> QED BY <3>1, <3>4, <3>5, <3>6, <3>7 DEF FastInv, PaidOnce, Disbursements
  <2>7. CASE CompleteJob(l)
    <3>1. /\ UNCHANGED <<enqueue, jobs, row, xendit>> /\ Fast'.at = "idle"
      BY <1>0, <2>0, <2>7 DEF CompleteJob, Idle
    <3>2. OneJob' /\ OwnOrder'
      BY <2>0, <3>1 DEF FastInv, OneJob, OwnOrder
    <3>3. WorkAhead'
      BY <2>0, <3>1 DEF FastInv, WorkAhead, MayPay, Pristine, Disbursements
    <3> QED BY <3>1, <3>2, <3>3 DEF FastInv, PaidOnce, FailedIsUnpaid, Disbursements
  <2>8. CASE FailJob(l)
    <3> DEFINE again == [Fast.job EXCEPT !.failures = Fast.job.failures + 1]
    <3>1. /\ UNCHANGED <<enqueue, row, xendit>> /\ Fast'.at = "idle" /\ Fast.at = "throw"
          /\ jobs' = IF Fast.job.failures + 1 < MAX_RETRIES THEN jobs \cup {again} ELSE jobs
      BY <1>0, <2>0, <2>8 DEF FailJob, Idle, At
    <3>2. again.order = o /\ again.failures = Fast.job.failures + 1
      BY <1>5, FastMoves DEF Job
    <3>3. Fast.job.failures + 1 < MAX_RETRIES => Pristine(again.order, again.failures)
      BY <2>0, <3>1, <3>2, ConstantTypes DEF FastInv, WorkAhead, Pristine
    <3>4. /\ enqueue[o] # "none"
          /\ \A j \in jobs : j.order # o
      BY <2>0, <3>1 DEF FastInv, OneJob
    <3> HIDE DEF again
    <3>5. OneJob'
      BY <2>0, <3>1, <3>2, <3>4 DEF FastInv, OneJob
    <3>6. OwnOrder'
      BY <2>0, <3>1 DEF FastInv, OwnOrder
    <3>7. WorkAhead'
      BY <2>0, <3>1, <3>3 DEF FastInv, WorkAhead, MayPay, Pristine, Disbursements
    <3> QED BY <3>1, <3>5, <3>6, <3>7 DEF FastInv, PaidOnce, FailedIsUnpaid, Disbursements
  <2>9. ~PayLost(l) /\ ~StoreFail(l) /\ ~RecordFail(l)
    BY DEF OnlyRefusals, PayLost, StoreFail, RecordFail
  <2> QED
    BY <1>5, <2>0, <2>1, <2>2, <2>3, <2>4, <2>5, <2>6, <2>7, <2>8, <2>9 DEF WorkerStep
<1>6. ASSUME NEW o \in Orders, NEW s \in {"COMPLETED", "FAILED"}, XenditEnds(o, s)
      PROVE  FastInv'
  <2>1. /\ UNCHANGED <<enqueue, jobs, worker, row>> /\ xendit[o]["PENDING"] > 0
        /\ xendit' = [xendit EXCEPT ![o]["PENDING"] = xendit[o]["PENDING"] - 1,
                                    ![o][s] = xendit[o][s] + 1]
    BY <1>6 DEF XenditEnds
  <2>2. /\ \A q \in Orders : Disbursements(q)' = Disbursements(q)
        /\ \A q \in Orders \ {o} : xendit'[q] = xendit[q]
    <3>1. xendit[o] \in [{"PENDING", "COMPLETED", "FAILED"} -> Int]
      BY <1>0
    <3>2. \A q \in Orders \ {o} : xendit'[q] = xendit[q]
      BY <1>0, <2>1
    <3>3. Disbursements(o)' = Disbursements(o)
      BY <1>0, <2>1, <3>1, EndsOne DEF Disbursements
    <3> QED BY <3>2, <3>3 DEF Disbursements
  <2>3. row[o].status # "FAILED"
    <3>1. {xendit[o]["PENDING"], xendit[o]["COMPLETED"]} \subseteq Nat
      BY <1>0
    <3> QED BY <2>1, <3>1 DEF FastInv, FailedIsUnpaid
  <2>4. OneJob' /\ OwnOrder'
    BY <2>1 DEF FastInv, OneJob, OwnOrder, Fast
  <2>5. WorkAhead'
    <3>1. UNCHANGED <<Fast, MayPay>>
      BY <2>1 DEF Fast, MayPay
    <3> QED BY <1>j, <1>w, <1>m, <2>1, <2>2, <3>1 DEF FastInv, WorkAhead, Pristine
  <2>6. FailedIsUnpaid'
    BY <2>1, <2>2, <2>3 DEF FastInv, FailedIsUnpaid
  <2> QED BY <2>2, <2>4, <2>5, <2>6 DEF FastInv, PaidOnce
<1>7. ASSUME NEW o \in Orders, NEW s \in {"COMPLETED", "FAILED"}, Callback(o, s)
      PROVE  FastInv'
  <2>1. /\ UNCHANGED <<enqueue, jobs, worker, xendit>> /\ xendit[o][s] > 0
        /\ row[o].status # "NONE" /\ row' = [row EXCEPT ![o].status = s]
    BY <1>7 DEF Callback
  <2>2. /\ row'[o].status = s /\ row'[o].attempts = row[o].attempts
        /\ \A q \in Orders \ {o} : row'[q] = row[q]
    BY <1>0, <2>1 DEF Row
  <2>3. /\ Disbursements(o) > 0
        /\ s = "FAILED" => xendit[o]["PENDING"] + xendit[o]["COMPLETED"] = 0
    <3>1. {xendit[o]["PENDING"], xendit[o]["COMPLETED"], xendit[o]["FAILED"]} \subseteq Nat
      BY <1>0
    <3>2. xendit[o]["PENDING"] + xendit[o]["COMPLETED"] + xendit[o]["FAILED"] <= 1
      BY DEF FastInv, PaidOnce, Disbursements
    <3> QED BY <2>1, <3>1, <3>2 DEF Disbursements
  <2>4. OneJob'
    BY <2>1 DEF FastInv, OneJob, Fast
  <2>5. OwnOrder'
    BY <1>w, <2>1, <2>2 DEF FastInv, OwnOrder, Fast
  <2>6. WorkAhead'
    <3>1. UNCHANGED <<Fast, MayPay>>
      BY <2>1 DEF Fast, MayPay
    <3>2. \A q \in Orders, n \in Nat : Pristine(q, n) => Pristine(q, n)'
      BY <2>1, <2>2, <2>3 DEF Pristine, Disbursements
    <3>3. Fast.at = "throw" => Fast.job.order # o
      BY <1>w, <2>3 DEF FastInv, WorkAhead
    <3> QED
      BY <1>j, <1>w, <1>m, <2>1, <2>2, <3>1, <3>2, <3>3 DEF FastInv, WorkAhead, Disbursements
  <2>7. FailedIsUnpaid'
    BY <2>1, <2>2, <2>3 DEF FastInv, FailedIsUnpaid
  <2> QED BY <2>1, <2>4, <2>5, <2>6, <2>7 DEF FastInv, PaidOnce, Disbursements
<1>8. CASE UNCHANGED vars
  <2>1. UNCHANGED <<OneJob, OwnOrder, WorkAhead, PaidOnce, FailedIsUnpaid>>
    BY <1>8 DEF vars, OneJob, OwnOrder, WorkAhead, PaidOnce, FailedIsUnpaid, Fast, MayPay,
                Pristine, Disbursements
  <2> QED BY <2>1 DEF FastInv
<1>9. ~Crash
  BY DEF OnlyRefusals, Crash
<1> QED
  BY <1>1, <1>2, <1>3, <1>4, <1>5, <1>6, <1>7, <1>8, <1>9 DEF Next, Rest, Enqueue

\* In the fast lane, with nothing but refusals to fail, every reachable state
\* satisfies FastInv.
LEMMA FastInvariant ==
    ASSUME OnlyRefusals, AllFast PROVE Spec => [](TypeInv /\ FastInv)
<1>1. Init => TypeInv
  BY ConstantTypes, IdleTyped
  DEF Init, TypeInv, TypeOK, WorkerBusy, Bounded, Disbursements, Row, Idle
<1>2. Init => FastInv
  BY DEF Init, FastInv, OneJob, OwnOrder, WorkAhead, PaidOnce, FailedIsUnpaid, Disbursements,
         MayPay, Fast, Idle, Lanes
<1>3. TypeInv /\ FastInv /\ [Next]_vars => (TypeInv /\ FastInv)'
  BY TypeInductive, FastInductive
<1> QED
  BY <1>1, <1>2, <1>3, PTL DEF Spec

\* A fast-lane order is paid once, through any number of refused calls, of
\* retries and of callbacks, whatever Xendit does with a second request.
THEOREM FastPaidOnce ==
    ASSUME OnlyRefusals, AllFast PROVE Spec => []PaidOnce
<1>1. FastInv => PaidOnce
  BY DEF FastInv
<1> QED
  BY <1>1, FastInvariant, PTL

\* A fast-lane settlement is called FAILED only when no money went or is going out.
THEOREM FastFailedUnpaid ==
    ASSUME OnlyRefusals, AllFast PROVE Spec => []FailedIsUnpaid
<1>1. FastInv => FailedIsUnpaid
  BY DEF FastInv
<1> QED
  BY <1>1, FastInvariant, PTL

\* A row is COMPLETED when Xendit paid, and not while the answer is being stored.
DoneInv ==
    /\ \A o \in Orders : row[o].status = "COMPLETED" => xendit[o]["COMPLETED"] > 0
    /\ Fast.at = "update" => row[Fast.cur].status # "COMPLETED"

\* A step changes no COMPLETED row, and every step keeps DoneInv.
LEMMA DoneInductive ==
    ASSUME OnlyRefusals, AllFast, CallbackLate, TypeInv, FastInv, DoneInv, [Next]_vars
    PROVE  /\ DoneInv'
           /\ \A o \in Orders : row[o].status = "COMPLETED" => row'[o].status = "COMPLETED"
<1> DEFINE Stay == \A o \in Orders : row[o].status = "COMPLETED" => row'[o].status = "COMPLETED"
           F == "FAST_LANE"
<1>0. /\ worker \in [Lanes -> Worker] /\ row \in [Orders -> Row] /\ jobs \subseteq Job
      /\ xendit \in [Orders -> [{"PENDING", "COMPLETED", "FAILED"} -> Nat]]
      /\ F \in Lanes
  BY ConstantTypes DEF TypeInv, TypeOK, Lanes
<1>p. \A o \in Orders : Disbursements(o) = 0 => row[o].status # "COMPLETED"
  <2>1. \A a, b, c \in Nat : a + b + c = 0 => b = 0
    OBVIOUS
  <2>2. \A o \in Orders : Disbursements(o) = 0 => xendit[o]["COMPLETED"] = 0
    BY <1>0, <2>1 DEF Disbursements
  <2> QED
    BY <1>0, <2>2 DEF DoneInv
<1>1. ASSUME UNCHANGED row, Fast'.at = "update" => Fast.at = "update" /\ Fast'.cur = Fast.cur,
             \A o \in Orders : xendit[o]["COMPLETED"] > 0 => xendit'[o]["COMPLETED"] > 0
      PROVE  DoneInv' /\ Stay
  BY <1>1 DEF DoneInv
<1>2. ASSUME NEW o \in Orders, CreateRow(o) PROVE DoneInv' /\ Stay
  <2>1. /\ row[o].status = "NONE" /\ UNCHANGED <<worker, xendit>>
        /\ row'[o].status = "PENDING" /\ \A q \in Orders \ {o} : row'[q] = row[q]
    BY <1>0, <1>2 DEF CreateRow, FastInv, OwnOrder
  <2>2. Fast.at = "update" => Fast.cur \in Orders
    BY <1>0 DEF Fast, TypeInv, WorkerBusy
  <2> QED
    BY <2>1, <2>2 DEF DoneInv, Fast
<1>3. ASSUME NEW l \in Lanes, WorkerStep(l) PROVE DoneInv' /\ Stay
  <2> DEFINE o == Fast.job.order
  <2>0. l = F /\ o \in Orders /\ Fast = worker[l] /\ Fast' = worker'[l]
    BY <1>3, FastMoves DEF Fast
  <2>1. CASE PayOk(l)
    <3>1. /\ Fast.cur = o /\ Disbursements(o) = 0 /\ UNCHANGED row
          /\ \A q \in Orders \ {o} : xendit'[q] = xendit[q]
      BY <2>1, FastPays DEF Pristine
    <3>2. Fast'.cur = Fast.cur
      BY <1>0, <2>0, <2>1 DEF PayOk, Worker
    <3>3. row[o].status # "COMPLETED"
      BY <1>p, <2>0, <3>1
    <3> QED
      BY <3>1, <3>2, <3>3 DEF DoneInv
  <2>2. CASE UpdateRow(l)
    <3>1. /\ Fast.at = "update" /\ UNCHANGED xendit /\ Fast.cur = o
          /\ row'[o].status = "PROCESSING" /\ \A q \in Orders \ {o} : row'[q] = row[q]
      BY <1>0, <2>0, <2>2 DEF UpdateRow, At, FastInv, OwnOrder
    <3>2. Fast'.at = "next"
      BY <1>0, <2>0, <2>2 DEF UpdateRow, Worker
    <3> QED
      BY <3>1, <3>2 DEF DoneInv
  <2>3. CASE RecordError(l)
    <3>1. /\ UNCHANGED xendit /\ Disbursements(o) = 0
          /\ \A q \in Orders \ {o} : row'[q] = row[q]
          /\ row[o].status = "NONE" => row'[o] = row[o]
          /\ row[o].status # "NONE" => row'[o].status \in {"PENDING", "FAILED"}
      BY <2>3, FastRecords DEF Pristine
    <3>2. Fast'.at = "throw"
      BY <1>0, <2>0, <2>3 DEF RecordError, Move, Worker
    <3>3. row[o].status # "COMPLETED"
      BY <1>p, <2>0, <3>1
    <3> QED
      BY <3>1, <3>2, <3>3 DEF DoneInv
  <2>4. CASE FindOrder(l) \/ NextSettlement(l) \/ ReadOutflow(l) \/ AddOutflow(l)
    <3>1. UNCHANGED <<row, xendit>> /\ Fast'.at # "update"
      BY <1>0, <2>0, <2>4 DEF FindOrder, NextSettlement, ReadOutflow, AddOutflow, Move, Worker
    <3> QED
      BY <1>1, <3>1
  <2>5. CASE PayRefused(l) \/ CompleteJob(l) \/ FailJob(l)
    <3>1. UNCHANGED <<row, xendit>> /\ Fast'.at # "update"
      BY <1>0, <2>0, <2>5 DEF PayRefused, At, TryAgain, CompleteJob, FailJob, Idle, Worker
    <3> QED
      BY <1>1, <3>1
  <2>6. ~PayLost(l) /\ ~StoreFail(l) /\ ~RecordFail(l) /\ ~Batch(l) /\ ~Requeue(l)
    BY <1>3, FastMoves DEF OnlyRefusals, PayLost, StoreFail, RecordFail
  <2> QED
    BY <1>3, <2>0, <2>1, <2>2, <2>3, <2>4, <2>5, <2>6 DEF WorkerStep
<1>4. ASSUME NEW l \in Lanes, NEW j \in jobs, Take(l, j) PROVE DoneInv' /\ Stay
  <2>1. UNCHANGED <<row, xendit>> /\ (Fast'.at = "update" => Fast' = Fast)
    BY <1>0, <1>4 DEF Take, Idle, Fast
  <2> QED
    BY <1>1, <2>1
<1>5. ASSUME NEW o \in Orders, NEW s \in {"COMPLETED", "FAILED"}, XenditEnds(o, s)
      PROVE  DoneInv' /\ Stay
  <2>1. /\ UNCHANGED <<row, worker>>
        /\ xendit' = [xendit EXCEPT ![o]["PENDING"] = xendit[o]["PENDING"] - 1,
                                    ![o][s] = xendit[o][s] + 1]
    BY <1>5 DEF XenditEnds
  <2>2. \A q \in Orders \ {o} : xendit'[q] = xendit[q]
    BY <1>0, <2>1
  <2>3. xendit'[o]["COMPLETED"] >= xendit[o]["COMPLETED"]
    <3> DEFINE x == [xendit[o] EXCEPT !["PENDING"] = xendit[o]["PENDING"] - 1,
                                      ![s] = xendit[o][s] + 1]
    <3>1. xendit' = [xendit EXCEPT ![o] = x]
      BY <2>1
    <3>2. xendit'[o] = x
      BY <1>0, <3>1
    <3>3. CASE s = "COMPLETED"
      BY <1>0, <3>2, <3>3
    <3>4. CASE s = "FAILED"
      BY <1>0, <3>2, <3>4
    <3> QED
      BY <3>3, <3>4
  <2> QED
    BY <1>0, <1>1, <2>1, <2>2, <2>3 DEF Fast
<1>6. ASSUME NEW o \in Orders, NEW s \in {"COMPLETED", "FAILED"}, Callback(o, s)
      PROVE  DoneInv' /\ Stay
  <2>1. /\ UNCHANGED <<worker, xendit>> /\ xendit[o][s] > 0 /\ Fast.cur # o
        /\ row'[o].status = s /\ \A q \in Orders \ {o} : row'[q] = row[q]
    BY <1>0, <1>6 DEF Callback, Row, Fast
  <2>2. s = "FAILED" => row[o].status # "COMPLETED"
    <3>1. /\ xendit[o]["PENDING"] \in Nat /\ xendit[o]["COMPLETED"] \in Nat
          /\ xendit[o]["FAILED"] \in Nat
      BY <1>0
    <3>2. xendit[o]["PENDING"] + xendit[o]["COMPLETED"] + xendit[o]["FAILED"] <= 1
      BY DEF FastInv, PaidOnce, Disbursements
    <3>3. s = "FAILED" => ~ (xendit[o]["COMPLETED"] > 0)
      BY <2>1, <3>1, <3>2
    <3> QED
      BY <3>3 DEF DoneInv
  <2>3. Fast.at = "update" => Fast.cur \in Orders
    BY <1>0 DEF Fast, TypeInv, WorkerBusy
  <2>4. Fast' = Fast
    BY <2>1 DEF Fast
  <2> QED
    BY <2>1, <2>2, <2>3, <2>4 DEF DoneInv
<1>7. ASSUME UNCHANGED <<row, worker, xendit>> PROVE DoneInv' /\ Stay
  BY <1>1, <1>7 DEF Fast
<1>8. ~Crash
  BY DEF OnlyRefusals, Crash
<1> QED
  BY <1>2, <1>3, <1>4, <1>5, <1>6, <1>7, <1>8 DEF Next, vars, AddJob, Enqueue, CreateFail, Rest

\* A fast-lane settlement that Xendit reported as completed stays completed: no
\* retry and no late or repeated callback takes it back, provided that Xendit
\* calls back only when the answer to the call was stored.
THEOREM FastCompletedStays ==
    ASSUME OnlyRefusals, AllFast, CallbackLate PROVE Spec => CompletedStays
<1>1. Init => DoneInv
  BY DEF Init, DoneInv, Fast, Idle, Lanes
<1>2. TypeInv /\ FastInv /\ DoneInv /\ [Next]_vars
        => /\ DoneInv'
           /\ \A o \in Orders : row[o].status = "COMPLETED" => row'[o].status = "COMPLETED"
  BY DoneInductive
<1>3. Spec => [](TypeInv /\ FastInv)
  BY FastInvariant
<1> QED
  BY <1>1, <1>2, <1>3, PTL DEF Spec, CompletedStays

-----------------------------------------------------------------------------
(***************************************************************************)
(* No settlement is forgotten, when no process dies and the stores answer. *)
(***************************************************************************)
NothingDies == {"crash", "dbfail"} \cap Faults = {}

\* A row is written by the enqueue that ends, and until then the job waits.
NoRowYet ==
    \A o \in Orders :
        /\ enqueue[o] # "done" => row[o].status = "NONE" /\ row[o].attempts = 0
        /\ enqueue[o] = "added" => \E j \in jobs : j.order = o
        /\ enqueue[o] = "done" => row[o].status # "NONE"

\* A row has seen the failures of every job of its order.
Counted ==
    \A j \in jobs :
        /\ enqueue[j.order] # "none"
        /\ enqueue[j.order] \in {"added", "done"} => j.failures <= row[j.order].attempts

\* The handler of a lane's job, until the job is forgotten, tried again or done.
Handling(l) ==
    LET j == worker[l].job
        r == row[j.order] IN
    /\ Track(j.order) = l /\ enqueue[j.order] \notin {"none", "added"}
    /\ enqueue[j.order] = "done" => j.failures <= r.attempts
    /\ worker[l].at \in {"next", "get", "incr", "pay", "update"} =>
           /\ \A o \in worker[l].todo : enqueue[o] = "done"
           /\ r.status = "PENDING" => j.order \in worker[l].todo
    /\ worker[l].at \in {"get", "incr", "pay", "update"} => enqueue[worker[l].cur] = "done"
    /\ worker[l].at = "return" /\ r.status = "PENDING" => \E k \in jobs : k.order = j.order
    /\ worker[l].at = "throw" /\ enqueue[j.order] = "done" =>
           /\ j.failures + 1 <= r.attempts
           /\ r.attempts >= MAX_RETRIES => r.status # "PENDING"

PendingInv ==
    /\ NoRowYet /\ Counted /\ PendingHasJob
    /\ \A l \in Lanes : IF worker[l].at = "idle" THEN worker[l].job = NoJob ELSE Handling(l)

\* A row that is left alone, or whose order is being or was paid.
Settles(o) ==
    \/ row'[o] = row[o]
    \/ /\ enqueue[o] = "done" /\ row'[o].status \notin {"NONE", "PENDING"}
       /\ row'[o].attempts >= row[o].attempts

\* What the other lane's handler relies on is left to it.
LEMMA OtherHandles ==
    ASSUME TypeInv, TypeInv', PendingInv, NEW l \in Lanes, worker'[l] = worker[l],
           worker[l].at # "idle", UNCHANGED enqueue, Settles(worker[l].job.order),
           \A k \in jobs : Track(k.order) = l => \E i \in jobs' : i.order = k.order
    PROVE  Handling(l)'
<1> DEFINE j == worker[l].job
<1>1. Handling(l)
  BY DEF PendingInv
<1>2. j \in Job /\ j.order \in Orders /\ j.failures \in Nat
  BY ConstantTypes DEF TypeInv, WorkerBusy, Job
<1>3. row[j.order].attempts \in Nat /\ row'[j.order].attempts \in Nat
  BY <1>2, ConstantTypes DEF TypeInv, TypeOK, Row
<1> HIDE DEF j
<1>4. CASE row'[j.order] = row[j.order]
  BY <1>1, <1>2, <1>3, <1>4 DEF Handling, j
<1>5. CASE /\ enqueue[j.order] = "done" /\ row'[j.order].status # "PENDING"
           /\ row'[j.order].attempts >= row[j.order].attempts
  BY <1>1, <1>2, <1>3, <1>5 DEF Handling, j
<1> QED
  BY <1>4, <1>5 DEF Settles, j

\* A handler goes from await to await: its job is still being handled, and a
\* job of a requeue has not failed.
LEMMA HandlerGoesOn ==
    ASSUME TypeInv, TypeInv', PendingInv, NEW l \in Lanes, worker[l].at # "idle",
           worker'[l].at # "idle", worker'[l].job = worker[l].job, UNCHANGED enqueue,
           \A m \in Lanes \ {l} : worker'[m] = worker[m],
           jobs \subseteq jobs',
           \A k \in jobs' \ jobs : k.order = worker[l].job.order /\ k.failures = 0,
           \A q \in Orders : \/ Settles(q)
                             \/ /\ q = worker[l].job.order /\ enqueue[q] = "done"
                                /\ row'[q].status # "NONE"
                                /\ row'[q].attempts >= row[q].attempts,
           Handling(l)'
    PROVE  PendingInv'
<1> DEFINE o == worker[l].job.order
<1>0. /\ worker[l].job \in Job /\ o \in Orders /\ Track(o) = l /\ NoJob \notin Job
      /\ enqueue[o] \notin {"none", "added"} /\ jobs \subseteq Job /\ jobs' \subseteq Job
      /\ \A k \in Job : k.order \in Orders /\ k.failures \in Nat
      /\ \A q \in Orders : row[q].attempts \in Nat /\ row'[q].attempts \in Nat
  BY ConstantTypes, NoJobAssumption
     DEF TypeInv, TypeOK, WorkerBusy, Job, Row, PendingInv, Handling
<1> HIDE DEF o
<1>1. NoRowYet'
  BY <1>0 DEF PendingInv, NoRowYet, Settles
<1>2. Counted'
  <2>1. ASSUME NEW k \in jobs'
        PROVE  /\ enqueue[k.order] # "none"
               /\ enqueue[k.order] \in {"added", "done"} => k.failures <= row'[k.order].attempts
    <3>1. CASE k \in jobs
      <4>1. k.order \in Orders /\ k.failures \in Nat
        BY <1>0
      <4>2. row'[k.order].attempts >= row[k.order].attempts
        BY <1>0, <4>1 DEF Settles
      <4> QED
        BY <1>0, <3>1, <4>1, <4>2 DEF PendingInv, Counted
    <3>2. CASE k \notin jobs
      BY <1>0, <3>2 DEF o
    <3> QED
      BY <3>1, <3>2
  <2> QED
    BY <2>1 DEF Counted
<1>3. PendingHasJob'
  <2>1. ASSUME NEW q \in Orders, row'[q].status = "PENDING"
        PROVE  \/ \E j \in jobs' : j.order = q
               \/ \E m \in Lanes : worker'[m].job # NoJob /\ worker'[m].job.order = q
    <3>1. CASE q = o
      BY <1>0, <3>1 DEF o
    <3>2. CASE q # o
      <4>1. row[q].status = "PENDING"
        BY <2>1, <3>2 DEF Settles, o
      <4>2. \/ \E j \in jobs : j.order = q
            \/ \E m \in Lanes : worker[m].job # NoJob /\ worker[m].job.order = q
        BY <4>1 DEF PendingInv, PendingHasJob
      <4> QED
        BY <4>2
    <3> QED
      BY <3>1, <3>2
  <2> QED
    BY <2>1 DEF PendingHasJob
<1>4. ASSUME NEW m \in Lanes
      PROVE  IF worker'[m].at = "idle" THEN worker'[m].job = NoJob ELSE Handling(m)'
  <2>1. CASE m = l
    BY <2>1
  <2>2. CASE m # l /\ worker[m].at = "idle"
    BY <2>2 DEF PendingInv
  <2>3. CASE m # l /\ worker[m].at # "idle"
    <3>1. Settles(worker[m].job.order)
      <4>1. Track(worker[m].job.order) = m /\ worker[m].job.order \in Orders
        BY <1>0, <2>3 DEF PendingInv, Handling, TypeInv, WorkerBusy
      <4> QED
        BY <1>0, <2>3, <4>1 DEF o
    <3>2. Handling(m)'
      BY <2>3, <3>1, OtherHandles
    <3> QED
      BY <2>3, <3>2
  <2> QED
    BY <2>1, <2>2, <2>3
<1> QED
  BY <1>1, <1>2, <1>3, <1>4 DEF PendingInv

\* A handler ends; its job's settlement is not pending, or a job is left for it.
LEMMA HandlerEnds ==
    ASSUME TypeInv, TypeInv', PendingInv, NEW l \in Lanes, worker[l].at # "idle",
           worker' = [worker EXCEPT ![l] = Idle], UNCHANGED <<enqueue, row>>,
           jobs \subseteq jobs',
           \A k \in jobs' \ jobs : /\ k.order = worker[l].job.order
                                   /\ enqueue[k.order] = "done" => k.failures <= row[k.order].attempts,
           row[worker[l].job.order].status = "PENDING" =>
               \E k \in jobs' : k.order = worker[l].job.order
    PROVE  PendingInv'
<1> DEFINE o == worker[l].job.order
<1>0. /\ worker[l].job \in Job /\ o \in Orders /\ enqueue[o] \notin {"none", "added"}
      /\ worker'[l].at = "idle" /\ worker'[l].job = NoJob
      /\ \A m \in Lanes \ {l} : worker'[m] = worker[m]
  BY DEF TypeInv, TypeOK, WorkerBusy, Job, PendingInv, Handling, Idle
<1>1. NoRowYet' /\ Counted'
  BY <1>0 DEF PendingInv, NoRowYet, Counted
<1>2. PendingHasJob'
  <2>1. ASSUME NEW q \in Orders, row[q].status = "PENDING"
        PROVE  \/ \E j \in jobs' : j.order = q
               \/ \E m \in Lanes : worker'[m].job # NoJob /\ worker'[m].job.order = q
    <3>1. \/ \E j \in jobs : j.order = q
          \/ \E m \in Lanes : worker[m].job # NoJob /\ worker[m].job.order = q
      BY <2>1 DEF PendingInv, PendingHasJob
    <3> QED
      BY <1>0, <2>1, <3>1
  <2> QED
    BY <2>1 DEF PendingHasJob
<1>3. ASSUME NEW m \in Lanes \ {l}
      PROVE  IF worker'[m].at = "idle" THEN worker'[m].job = NoJob ELSE Handling(m)'
  <2>1. CASE worker[m].at = "idle"
    BY <1>0, <2>1 DEF PendingInv
  <2>2. CASE worker[m].at # "idle"
    <3>1. Handling(m)'
      BY <1>0, <2>2, OtherHandles DEF Settles
    <3> QED
      BY <1>0, <2>2, <3>1
  <2> QED
    BY <2>1, <2>2
<1> QED
  BY <1>0, <1>1, <1>2, <1>3 DEF PendingInv

\* Every step keeps PendingInv.
LEMMA PendingInductive ==
    ASSUME NothingDies, RowFirst, TypeInv, PendingInv, [Next]_vars PROVE PendingInv'
<1>0. /\ worker \in [Lanes -> Worker] /\ row \in [Orders -> Row] /\ jobs \subseteq Job
      /\ enqueue \in [Orders -> {"none", "added", "done", "failed", "lost"}]
      /\ TypeInv' /\ NoJob \notin Job
      /\ \A k \in Job : k.order \in Orders /\ k.failures \in Nat
      /\ \A q \in Orders : row[q].attempts \in Nat
  BY TypeInductive, ConstantTypes, NoJobAssumption DEF TypeInv, TypeOK, Job, Row
<1>b. \A l \in Lanes : worker[l].at # "idle" =>
          /\ worker[l].job \in Job /\ worker[l].job # NoJob
          /\ Handling(l) /\ worker[l].job.order \in Orders
  BY <1>0 DEF TypeInv, WorkerBusy, PendingInv
<1>1. ASSUME NEW o \in Orders, AddJob(o) PROVE PendingInv'
  <2>1. /\ NewJob(o).order = o /\ NewJob(o).failures = 0 /\ NewJob(o) \in jobs'
        /\ jobs' = jobs \cup {NewJob(o)} /\ UNCHANGED <<worker, row>>
        /\ enqueue[o] = "none" /\ enqueue' = [enqueue EXCEPT ![o] = "added"]
    BY <1>1 DEF AddJob, NewJob
  <2>2. /\ enqueue'[o] = "added" /\ \A q \in Orders \ {o} : enqueue'[q] = enqueue[q]
        /\ row[o].attempts = 0
    BY <1>0, <2>1 DEF PendingInv, NoRowYet
  <2>3. NoRowYet'
    BY <1>0, <2>1, <2>2 DEF PendingInv, NoRowYet
  <2>4. Counted'
    BY <1>0, <2>1, <2>2 DEF PendingInv, Counted
  <2>5. PendingHasJob'
    BY <2>1 DEF PendingInv, PendingHasJob
  <2>6. ASSUME NEW l \in Lanes, worker[l].at # "idle" PROVE Handling(l)'
    <3>1. /\ worker[l].job.order \in Orders \ {o} /\ Handling(l)
          /\ worker[l].todo \subseteq Orders
          /\ worker[l].at \in {"get", "incr", "pay", "update"} => worker[l].cur \in Orders
      BY <1>0, <1>b, <2>1, <2>6 DEF Handling, Worker, TypeInv, WorkerBusy
    <3> QED
      BY <2>1, <2>2, <3>1 DEF Handling
  <2> QED
    BY <2>1, <2>3, <2>4, <2>5, <2>6 DEF PendingInv
<1>2. ASSUME NEW o \in Orders, CreateRow(o) PROVE PendingInv'
  <2>1. /\ enqueue[o] = "added" /\ UNCHANGED <<jobs, worker>>
        /\ enqueue'[o] = "done" /\ \A q \in Orders \ {o} : enqueue'[q] = enqueue[q]
        /\ row'[o].attempts = 0 /\ row'[o].status = "PENDING"
        /\ \A q \in Orders \ {o} : row'[q] = row[q]
    BY <1>0, <1>2 DEF CreateRow
  <2>2. row[o].attempts = 0 /\ \E j \in jobs : j.order = o
    BY <2>1 DEF PendingInv, NoRowYet
  <2>3. NoRowYet'
    BY <2>1 DEF PendingInv, NoRowYet
  <2>4. Counted'
    <3>1. \A j \in jobs : j.order = o => j.failures <= 0
      BY <2>1, <2>2 DEF PendingInv, Counted
    <3> QED
      BY <1>0, <2>1, <3>1 DEF PendingInv, Counted
  <2>5. PendingHasJob'
    BY <2>1, <2>2 DEF PendingInv, PendingHasJob
  <2>6. ASSUME NEW l \in Lanes, worker[l].at # "idle" PROVE Handling(l)'
    <3>1. /\ worker[l].job.order \in Orders \ {o} /\ Handling(l)
          /\ worker[l].todo \subseteq Orders
          /\ worker[l].at \in {"get", "incr", "pay", "update"} => worker[l].cur \in Orders
      BY <1>0, <1>b, <2>1, <2>6 DEF Handling, Worker, TypeInv, WorkerBusy
    <3> QED
      BY <2>1, <3>1 DEF Handling
  <2> QED
    BY <2>1, <2>3, <2>4, <2>5, <2>6 DEF PendingInv
<1>3. ASSUME NEW o \in Orders, CreateFail(o) PROVE PendingInv'
  <2>1. /\ enqueue[o] = "added" /\ UNCHANGED <<jobs, worker, row>>
        /\ enqueue'[o] = "failed" /\ \A q \in Orders \ {o} : enqueue'[q] = enqueue[q]
    BY <1>0, <1>3 DEF CreateFail
  <2>2. NoRowYet' /\ Counted' /\ PendingHasJob'
    BY <1>0, <2>1 DEF PendingInv, NoRowYet, Counted, PendingHasJob
  <2>3. ASSUME NEW l \in Lanes, worker[l].at # "idle" PROVE Handling(l)'
    <3>1. /\ worker[l].job.order \in Orders \ {o} /\ Handling(l)
          /\ worker[l].todo \subseteq Orders
          /\ worker[l].at \in {"get", "incr", "pay", "update"} => worker[l].cur \in Orders
      BY <1>0, <1>b, <2>1, <2>3 DEF Handling, Worker, TypeInv, WorkerBusy
    <3> QED
      BY <2>1, <3>1 DEF Handling
  <2> QED
    BY <2>1, <2>2, <2>3 DEF PendingInv
<1>4. ASSUME NEW l \in Lanes, NEW j \in jobs, Take(l, j) PROVE PendingInv'
  <2>1. /\ worker[l].at = "idle" /\ worker[l].job = NoJob /\ Track(j.order) = l
        /\ enqueue[j.order] \notin {"none", "added"}
        /\ jobs' = jobs \ {j} /\ UNCHANGED <<enqueue, row>>
        /\ worker'[l].at = "find" /\ worker'[l].job = j
        /\ \A m \in Lanes \ {l} : worker'[m] = worker[m]
    BY <1>0, <1>4 DEF Take, At, Idle, PendingInv, Counted
  <2>2. NoRowYet' /\ Counted'
    BY <1>0, <2>1 DEF PendingInv, NoRowYet, Counted
  <2>3. PendingHasJob'
    <3>1. ASSUME NEW q \in Orders, row[q].status = "PENDING"
          PROVE  \/ \E k \in jobs' : k.order = q
                 \/ \E m \in Lanes : worker'[m].job # NoJob /\ worker'[m].job.order = q
      <4>1. \/ \E k \in jobs : k.order = q
            \/ \E m \in Lanes : worker[m].job # NoJob /\ worker[m].job.order = q
        BY <3>1 DEF PendingInv, PendingHasJob
      <4> QED
        BY <1>0, <2>1, <4>1
    <3> QED
      BY <2>1, <3>1 DEF PendingHasJob
  <2>4. Handling(l)'
    BY <1>0, <2>1 DEF Handling, PendingInv, Counted
  <2>5. ASSUME NEW m \in Lanes \ {l}, worker[m].at # "idle" PROVE Handling(m)'
    <3>1. \A k \in jobs : Track(k.order) = m => \E i \in jobs' : i.order = k.order
      BY <2>1
    <3> QED
      BY <1>0, <2>1, <2>5, <3>1, OtherHandles DEF Settles
  <2> QED
    BY <2>1, <2>2, <2>3, <2>4, <2>5 DEF PendingInv
<1>5. ASSUME NEW l \in Lanes, WorkerStep(l) PROVE PendingInv'
  <2> DEFINE o == worker[l].job.order
  <2>0. worker[l].at # "idle"
    BY <1>5 DEF WorkerStep, FindOrder, Batch, Requeue, NextSettlement, ReadOutflow, AddOutflow,
                PayOk, PayRefused, PayLost, UpdateRow, StoreFail, RecordError, RecordFail,
                CompleteJob, FailJob, At
  <2>w. /\ worker[l].job \in Job /\ o \in Orders /\ Handling(l) /\ worker[l].todo \subseteq Orders
        /\ UNCHANGED enqueue
    BY <1>0, <1>5, <1>b, <2>0
       DEF Worker, WorkerStep, FindOrder, Batch, Requeue, NextSettlement, ReadOutflow, AddOutflow,
           PayOk, PayRefused, PayLost, UpdateRow, StoreFail, RecordError, RecordFail,
           CompleteJob, FailJob
  <2>r. UNCHANGED row => \A q \in Orders : Settles(q)
    BY DEF Settles
  <2>1. CASE FindOrder(l)
    <3>1. /\ worker'[l].job = worker[l].job /\ UNCHANGED <<jobs, row>>
          /\ \/ worker'[l].at = "record"
             \/ worker'[l].at = "next" /\ worker'[l].todo = {o} /\ row[o].status # "NONE"
          /\ \A m \in Lanes \ {l} : worker'[m] = worker[m]
      BY <1>0, <2>1 DEF FindOrder, Move, Worker
    <3>2. row[o].status # "NONE" => enqueue[o] = "done"
      BY <2>w DEF PendingInv, NoRowYet
    <3>3. Handling(l)'
      BY <2>w, <3>1, <3>2 DEF Handling
    <3> QED
      BY <1>0, <2>0, <2>w, <2>r, <3>1, <3>3, HandlerGoesOn
  <2>2. CASE Batch(l)
    <3>1. /\ worker'[l].job = worker[l].job /\ UNCHANGED <<jobs, row>>
          /\ worker'[l].at = "next"
          /\ worker'[l].todo = {q \in Orders : Track(q) = l /\ row[q].status = "PENDING"}
          /\ \A m \in Lanes \ {l} : worker'[m] = worker[m]
      BY <1>0, <2>2 DEF Batch, Worker
    <3>2. \A q \in Orders : row[q].status = "PENDING" => enqueue[q] = "done"
      BY DEF PendingInv, NoRowYet
    <3>3. Handling(l)'
      BY <2>w, <3>1, <3>2 DEF Handling
    <3> QED
      BY <1>0, <2>0, <2>w, <2>r, <3>1, <3>3, HandlerGoesOn
  <2>3. CASE Requeue(l)
    <3>1. /\ worker'[l].job = worker[l].job /\ UNCHANGED row /\ worker'[l].at = "return"
          /\ jobs' = jobs \cup {NewJob(o)}
          /\ \A m \in Lanes \ {l} : worker'[m] = worker[m]
      BY <1>0, <2>3 DEF Requeue, Move, Worker
    <3>2. NewJob(o).order = o /\ NewJob(o).failures = 0
      BY DEF NewJob
    <3>3. Handling(l)'
      BY <2>w, <3>1, <3>2 DEF Handling
    <3> QED
      BY <1>0, <2>0, <2>w, <2>r, <3>1, <3>2, <3>3, HandlerGoesOn
  <2>4. CASE NextSettlement(l)
    <3>1. /\ worker'[l].job = worker[l].job /\ UNCHANGED <<jobs, row>>
          /\ worker[l].at = "next" /\ worker'[l].todo = worker[l].todo
          /\ \/ worker'[l].at = "return" /\ worker[l].todo = {}
             \/ worker'[l].at = "record"
             \/ worker'[l].at = "get" /\ worker'[l].cur \in worker[l].todo
          /\ \A m \in Lanes \ {l} : worker'[m] = worker[m]
      <4>1. CASE worker[l].todo = {} /\ Move(l, "return")
        BY <1>0, <2>4, <4>1 DEF NextSettlement, At, Move, Worker
      <4>2. ASSUME NEW q \in worker[l].todo \cap Disbursable,
                   worker' = [worker EXCEPT ![l].at = "get", ![l].cur = q]
            PROVE  <3>1
        BY <1>0, <2>4, <4>2 DEF NextSettlement, At, Worker
      <4>3. CASE worker[l].todo \ Disbursable # {} /\ Move(l, "record")
        BY <1>0, <2>4, <4>3 DEF NextSettlement, At, Move, Worker
      <4> QED
        BY <2>4, <4>1, <4>2, <4>3 DEF NextSettlement
    <3>2. Handling(l)'
      BY <2>w, <3>1 DEF Handling
    <3> QED
      BY <1>0, <2>0, <2>w, <2>r, <3>1, <3>2, HandlerGoesOn
  <2>5. CASE ReadOutflow(l) \/ AddOutflow(l) \/ PayOk(l) \/ PayRefused(l) \/ PayLost(l)
    <3>1. /\ worker'[l].job = worker[l].job /\ UNCHANGED <<jobs, row>>
          /\ worker[l].at \in {"get", "incr", "pay"}
          /\ worker'[l].at \in {"incr", "pay", "update", "record"}
          /\ worker'[l].todo = worker[l].todo /\ worker'[l].cur = worker[l].cur
          /\ \A m \in Lanes \ {l} : worker'[m] = worker[m]
      <4>1. CASE ReadOutflow(l)
        BY <1>0, <4>1 DEF ReadOutflow, At, Worker
      <4>2. CASE AddOutflow(l)
        BY <1>0, <4>2 DEF AddOutflow, At, Move, Worker
      <4>3. CASE PayOk(l)
        BY <1>0, <4>3 DEF PayOk, At, Worker
      <4>4. CASE PayRefused(l) \/ PayLost(l)
        BY <1>0, <4>4 DEF PayRefused, PayLost, TryAgain, At, Worker
      <4> QED
        BY <2>5, <4>1, <4>2, <4>3, <4>4
    <3>2. Handling(l)'
      BY <2>w, <3>1 DEF Handling
    <3> QED
      BY <1>0, <2>0, <2>w, <2>r, <3>1, <3>2, HandlerGoesOn
  <2>6. CASE UpdateRow(l)
    <3> DEFINE p == worker[l].cur
    <3>1. /\ worker'[l].job = worker[l].job /\ UNCHANGED jobs
          /\ worker[l].at = "update" /\ worker'[l].at = "next"
          /\ worker'[l].todo = worker[l].todo \ {p}
          /\ \A m \in Lanes \ {l} : worker'[m] = worker[m]
      BY <1>0, <2>6 DEF UpdateRow, At, Worker
    <3>2. p \in Orders /\ enqueue[p] = "done"
      BY <2>w, <3>1 DEF TypeInv, WorkerBusy, Handling
    <3>3. /\ row'[p].status = "PROCESSING" /\ row'[p].attempts = CountUp(row[p].attempts)
          /\ \A q \in Orders \ {p} : row'[q] = row[q]
      BY <1>0, <2>6, <3>2 DEF UpdateRow
    <3>4. row'[p].attempts >= row[p].attempts /\ row'[p].attempts \in Nat
      BY <1>0, <3>2, <3>3, ConstantTypes DEF CountUp
    <3> HIDE DEF p
    <3>5. \A q \in Orders : Settles(q)
      BY <3>2, <3>3, <3>4 DEF Settles
    <3>6. Handling(l)'
      <4>1. worker[l].job.failures \in Nat
        BY <1>0, <2>w
      <4>2. row'[o].attempts >= row[o].attempts /\ row'[o].attempts \in Nat
        BY <1>0, <2>w, <3>3, <3>4
      <4>3. row'[o].status = "PENDING" => row[o].status = "PENDING" /\ o # p
        BY <2>w, <3>3
      <4> QED
        BY <1>0, <2>w, <3>1, <4>1, <4>2, <4>3 DEF Handling
    <3> QED
      BY <1>0, <2>0, <2>w, <3>1, <3>5, <3>6, HandlerGoesOn
  <2>7. CASE RecordError(l)
    <3> DEFINE n == CountUp(row[o].attempts)
    <3>1. /\ worker'[l].job = worker[l].job /\ UNCHANGED jobs
          /\ worker[l].at = "record" /\ worker'[l].at = "throw"
          /\ \A m \in Lanes \ {l} : worker'[m] = worker[m]
          /\ \A q \in Orders \ {o} : row'[q] = row[q]
      BY <1>0, <2>7 DEF RecordError, Move, At, Worker
    <3>2. worker[l].job.failures \in Nat /\ worker[l].job.failures + 1 <= MAX_RETRIES
          /\ row[o].attempts \in Nat
      BY <1>0, <2>w, ConstantTypes DEF Job
    <3>3. enqueue[o] = "done" => worker[l].job.failures <= row[o].attempts
      BY <2>w DEF Handling
    <3>4. CASE row[o].status = "NONE"
      <4>1. UNCHANGED row
        BY <2>7, <3>4 DEF RecordError
      <4>2. Handling(l)'
        <5>1. enqueue[o] # "done"
          BY <2>w, <3>4 DEF PendingInv, NoRowYet
        <5> QED
          BY <2>w, <3>1, <4>1, <5>1 DEF Handling
      <4> QED
        BY <1>0, <2>0, <2>w, <2>r, <3>1, <4>1, <4>2, HandlerGoesOn
    <3>5. CASE row[o].status # "NONE"
      <4>1. enqueue[o] = "done"
        BY <2>w, <3>5 DEF PendingInv, NoRowYet
      <4>2. row'[o] = [status |-> IF n >= MAX_RETRIES THEN "FAILED" ELSE "PENDING", attempts |-> n]
        BY <1>0, <2>w, <2>7, <3>5 DEF RecordError
      <4>3. n \in Nat /\ n >= row[o].attempts /\ n >= worker[l].job.failures + 1
        BY <3>2, <3>3, <4>1, ConstantTypes DEF CountUp
      <4> HIDE DEF n
      <4>4. /\ row'[o].attempts = n /\ row'[o].status # "NONE"
            /\ n >= MAX_RETRIES => row'[o].status # "PENDING"
        BY <4>2
      <4>5. \A q \in Orders : \/ Settles(q)
                              \/ /\ q = worker[l].job.order /\ enqueue[q] = "done"
                                 /\ row'[q].status # "NONE"
                                 /\ row'[q].attempts >= row[q].attempts
        BY <3>1, <4>1, <4>3, <4>4 DEF Settles
      <4>6. Handling(l)'
        BY <2>w, <3>1, <3>2, <4>1, <4>3, <4>4 DEF Handling
      <4> QED
        BY <1>0, <2>0, <2>w, <3>1, <4>5, <4>6, HandlerGoesOn
    <3> QED
      BY <3>4, <3>5
  <2>8. CASE CompleteJob(l)
    BY <1>0, <2>0, <2>8, <2>w, HandlerEnds DEF CompleteJob, At, Handling
  <2>9. CASE FailJob(l)
    <3> DEFINE j == worker[l].job
               again == [j EXCEPT !.failures = j.failures + 1]
    <3>1. /\ worker' = [worker EXCEPT ![l] = Idle] /\ UNCHANGED row /\ worker[l].at = "throw"
          /\ jobs' = IF j.failures + 1 < MAX_RETRIES THEN jobs \cup {again} ELSE jobs
      BY <2>9 DEF FailJob, At
    <3>2. again.order = o /\ again.failures = j.failures + 1
      BY <2>w DEF Job
    <3>3. enqueue[o] = "done" => /\ j.failures + 1 <= row[o].attempts
                                 /\ row[o].attempts >= MAX_RETRIES => row[o].status # "PENDING"
      BY <2>w, <3>1 DEF Handling
    <3>4. row[o].status = "PENDING" => enqueue[o] = "done"
      BY <2>w DEF PendingInv, NoRowYet
    <3>5. j.failures \in Nat /\ row[o].attempts \in Nat
      BY <1>0, <2>w
    <3> HIDE DEF again
    <3>6. row[o].status = "PENDING" => \E k \in jobs' : k.order = o
      BY <3>1, <3>2, <3>3, <3>4, <3>5, ConstantTypes
    <3>7. \A k \in jobs' \ jobs : /\ k.order = o
                                  /\ enqueue[k.order] = "done" => k.failures <= row[k.order].attempts
      BY <3>1, <3>2, <3>3
    <3> QED
      BY <1>0, <2>0, <2>w, <3>1, <3>6, <3>7, HandlerEnds
  <2>10. ~StoreFail(l) /\ ~RecordFail(l)
    BY DEF NothingDies, StoreFail, RecordFail
  <2> QED
    BY <1>5, <2>1, <2>2, <2>3, <2>4, <2>5, <2>6, <2>7, <2>8, <2>9, <2>10 DEF WorkerStep
<1>6. ASSUME UNCHANGED <<enqueue, jobs, worker>>, \A q \in Orders : Settles(q) PROVE PendingInv'
  <2>1. NoRowYet'
    BY <1>6 DEF PendingInv, NoRowYet, Settles
  <2>2. \A q \in Orders : row'[q].attempts >= row[q].attempts /\ row'[q].attempts \in Nat
    BY <1>0, <1>6, ConstantTypes DEF Settles, TypeInv, TypeOK, Row
  <2>3. Counted'
    <3>1. ASSUME NEW k \in jobs
          PROVE  /\ enqueue[k.order] # "none"
                 /\ enqueue[k.order] \in {"added", "done"} => k.failures <= row'[k.order].attempts
      <4>1. k.order \in Orders /\ k.failures \in Nat
        BY <1>0
      <4> QED
        BY <1>0, <2>2, <4>1 DEF PendingInv, Counted
    <3> QED
      BY <1>6, <3>1 DEF Counted
  <2>4. PendingHasJob'
    BY <1>6 DEF PendingInv, PendingHasJob, Settles
  <2>5. ASSUME NEW l \in Lanes, worker[l].at # "idle" PROVE Handling(l)'
    BY <1>0, <1>6, <1>b, <2>5, OtherHandles
  <2> QED
    BY <1>6, <2>1, <2>3, <2>4, <2>5 DEF PendingInv
<1>7. ASSUME NEW o \in Orders, NEW s \in {"COMPLETED", "FAILED"}, Callback(o, s) PROVE PendingInv'
  <2>1. /\ UNCHANGED <<enqueue, jobs, worker>> /\ row[o].status # "NONE"
        /\ row'[o].status = s /\ row'[o].attempts = row[o].attempts
        /\ \A q \in Orders \ {o} : row'[q] = row[q]
    BY <1>0, <1>7 DEF Callback, Row
  <2>2. enqueue[o] = "done"
    BY <2>1 DEF PendingInv, NoRowYet
  <2>3. \A q \in Orders : Settles(q)
    BY <1>0, <2>1, <2>2 DEF Settles
  <2> QED
    BY <1>6, <2>1, <2>3
<1>8. ASSUME UNCHANGED <<enqueue, jobs, worker, row>> PROVE PendingInv'
  BY <1>6, <1>8 DEF Settles
<1>9. ~Crash
  BY DEF NothingDies, Crash
<1> QED
  BY <1>1, <1>2, <1>3, <1>4, <1>5, <1>7, <1>8, <1>9 DEF Next, vars, Enqueue, XenditEnds, Rest

\* A settlement is not forgotten: through refused calls, lost answers, callbacks
\* and requeues a PENDING row has a job in a queue or in hand, as recordError
\* has counted in the row every failure that BullMQ counted in the job.  It
\* needs the row before the job is taken, and a process that does not die.
THEOREM PendingNotForgotten ==
    ASSUME NothingDies, RowFirst PROVE Spec => []PendingHasJob
<1>1. Init => TypeInv
  BY ConstantTypes, IdleTyped
  DEF Init, TypeInv, TypeOK, WorkerBusy, Bounded, Disbursements, Row, Idle
<1>2. Init => PendingInv
  BY DEF Init, Idle, PendingInv, NoRowYet, Counted, PendingHasJob
<1>3. TypeInv /\ PendingInv /\ [Next]_vars => (TypeInv /\ PendingInv)'
  BY TypeInductive, PendingInductive
<1>4. PendingInv => PendingHasJob
  BY DEF PendingInv
<1> QED
  BY <1>1, <1>2, <1>3, <1>4, PTL DEF Spec

-----------------------------------------------------------------------------
(***************************************************************************)
(* The refinement.                                                         *)
(***************************************************************************)
Due == {o \in Orders : row[o].status # "NONE"}
Paid == UNION {{<<o, n>> : n \in 1..Disbursements(o)} : o \in Orders}
GivenUp == {o \in Orders : row[o].status = "FAILED" /\ Disbursements(o) = 0}

\* Where PaidOnce holds, Paid is one pair for each order Xendit accepted.
LEMMA PaidPairs ==
    ASSUME TypeInv, PaidOnce
    PROVE  Paid = {<<o, 1>> : o \in {q \in Orders : Disbursements(q) > 0}}
<1>1. \A o \in Orders : Disbursements(o) \in Nat
  BY ConstantTypes DEF TypeInv, TypeOK, Disbursements
<1>2. \A o \in Orders : \A n : n \in 1..Disbursements(o) <=> Disbursements(o) > 0 /\ n = 1
  <2>1. ASSUME NEW d \in Nat, d <= 1, NEW n PROVE n \in 1..d <=> d > 0 /\ n = 1
    BY <2>1
  <2> QED BY <1>1, <2>1 DEF PaidOnce
<1>3. ASSUME NEW p
      PROVE  p \in Paid <=> \E o \in Orders : Disbursements(o) > 0 /\ p = <<o, 1>>
  BY <1>2 DEF Paid
<1> QED
  BY <1>3

\* An order with no disbursement is not among the paid.
LEMMA PayoutFacts ==
    ASSUME TypeInv, PaidOnce, NEW o \in Orders, Disbursements(o) = 0
    PROVE  \A p \in Paid : p[1] # o
BY PaidPairs

\* A step that pays no order and gives none up leaves the payout alone.
LEMMA PayoutStutters ==
    ASSUME \A o \in Orders : /\ Disbursements(o)' = Disbursements(o)
                             /\ row'[o].status = "NONE" <=> row[o].status = "NONE"
                             /\ Disbursements(o) = 0 =>
                                    (row'[o].status = "FAILED" <=> row[o].status = "FAILED")
    PROVE  UNCHANGED <<Due, Paid, GivenUp>>
<1>1. UNCHANGED Due
  BY DEF Due
<1>2. UNCHANGED Paid
  BY DEF Paid
<1>3. UNCHANGED GivenUp
  BY DEF GivenUp
<1> QED BY <1>1, <1>2, <1>3

\* What is paid is due, not paid yet and not given up; what is given up is not
\* paid.
PaysWhatIsDue ==
    /\ \A o \in Orders : enqueue[o] = "added" => row[o].status = "NONE"
    /\ \A l \in Lanes :
           /\ At(l, "pay") => /\ Disbursements(worker[l].cur) = 0
                              /\ row[worker[l].cur].status \notin {"NONE", "FAILED"}
           /\ At(l, "update") => /\ Disbursements(worker[l].cur) > 0
                                 /\ row[worker[l].cur].status # "NONE"
           /\ At(l, "record") => /\ Disbursements(worker[l].job.order) = 0
                                 /\ row[worker[l].job.order].status # "FAILED"

\* A payment is one of Payout's.
LEMMA PayoutPays ==
    ASSUME TypeInv, PaidOnce, PaysWhatIsDue, NEW l \in Lanes, PayOk(l), NEW o, o = worker[l].cur
    PROVE  /\ o \in Due \ GivenUp /\ \A p \in Paid : p[1] # o
           /\ Paid' = Paid \cup {<<o, 1>>} /\ UNCHANGED <<Due, GivenUp>>
<1>1. /\ o \in Orders /\ Accept(o) /\ UNCHANGED row
      /\ row[o].status \notin {"NONE", "FAILED"} /\ Disbursements(o) = 0
  BY DEF TypeInv, WorkerBusy, PaysWhatIsDue, PayOk, At
<1>2. \A q \in Orders : Disbursements(q)' = IF q = o THEN 1 ELSE Disbursements(q)
  BY <1>1, FirstPayment
<1>3. o \in Due \ GivenUp /\ \A p \in Paid : p[1] # o
  BY <1>1, PayoutFacts DEF Due, GivenUp
<1>4. Paid' = Paid \cup {<<o, 1>>}
  <2>1. ASSUME NEW q \in Orders, NEW n
        PROVE n \in 1..Disbursements(q)' <=> n \in 1..Disbursements(q) \/ (q = o /\ n = 1)
    BY <1>1, <1>2
  <2>2. ASSUME NEW p PROVE p \in Paid' <=> p \in Paid \/ p = <<o, 1>>
    <3>1. p \in Paid <=> \E q \in Orders : \E n \in 1..Disbursements(q) : p = <<q, n>>
      BY DEF Paid
    <3>2. p \in Paid' <=> \E q \in Orders : \E n \in 1..Disbursements(q)' : p = <<q, n>>
      BY DEF Paid
    <3> QED BY <1>1, <2>1, <3>1, <3>2
  <2> QED BY <2>2
<1>5. UNCHANGED <<Due, GivenUp>>
  BY <1>1, <1>2 DEF Due, GivenUp
<1> QED BY <1>3, <1>4, <1>5

\* A recorded error gives the order of the job up, or nothing.
LEMMA PayoutGivesUp ==
    ASSUME TypeInv, TypeInv', PaidOnce, PaysWhatIsDue, NEW l \in Lanes, RecordError(l),
           NEW o, o = worker[l].job.order
    PROVE  /\ o \in Orders
           /\ \/ UNCHANGED <<Due, Paid, GivenUp>>
              \/ /\ o \in Due /\ \A p \in Paid : p[1] # o
                 /\ GivenUp' = GivenUp \cup {o} /\ UNCHANGED <<Due, Paid>>
<1>1. /\ o \in Orders /\ row \in [Orders -> Row] /\ UNCHANGED xendit
      /\ Disbursements(o) = 0 /\ row[o].status # "FAILED"
  BY DEF TypeInv, TypeOK, WorkerBusy, Job, PaysWhatIsDue, RecordError, At
<1>2. /\ \A q \in Orders \ {o} : row'[q] = row[q]
      /\ row[o].status = "NONE" => row'[o] = row[o]
      /\ row[o].status # "NONE" => row'[o].status \in {"PENDING", "FAILED"}
  BY <1>1 DEF RecordError, Row
<1>3. UNCHANGED Paid /\ \A q \in Orders : Disbursements(q)' = Disbursements(q)
  BY <1>1 DEF Paid, Disbursements
<1>4. UNCHANGED Due
  BY <1>1, <1>2 DEF Due
<1>5. CASE row'[o].status = "FAILED"
  <2>1. GivenUp' = GivenUp \cup {o}
    BY <1>1, <1>2, <1>3, <1>5 DEF GivenUp
  <2>2. o \in Due /\ \A p \in Paid : p[1] # o
    BY <1>1, <1>2, <1>5, PayoutFacts DEF Due
  <2> QED BY <1>1, <1>3, <1>4, <2>1, <2>2
<1>6. CASE row'[o].status # "FAILED"
  <2>1. UNCHANGED GivenUp
    BY <1>1, <1>2, <1>3, <1>6 DEF GivenUp
  <2> QED BY <1>1, <1>3, <1>4, <2>1
<1> QED BY <1>5, <1>6

\* Every step of a queue that pays what is due is one of Payout's, or none.
LEMMA PayoutStep ==
    ASSUME OnlyRefusals, TypeInv, TypeInv', PaidOnce, PaysWhatIsDue, [Next]_vars
    PROVE  \/ UNCHANGED <<Due, Paid, GivenUp>>
           \/ \E o \in Orders :
                \/ Due' = Due \cup {o} /\ UNCHANGED <<Paid, GivenUp>>
                \/ /\ o \in Due \ GivenUp /\ \A p \in Paid : p[1] # o
                   /\ Paid' = Paid \cup {<<o, 1>>} /\ UNCHANGED <<Due, GivenUp>>
                \/ /\ o \in Due /\ \A p \in Paid : p[1] # o
                   /\ GivenUp' = GivenUp \cup {o} /\ UNCHANGED <<Due, Paid>>
<1>0. /\ row \in [Orders -> Row]
      /\ xendit \in [Orders -> [{"PENDING", "COMPLETED", "FAILED"} -> Nat]]
  BY ConstantTypes DEF TypeInv, TypeOK
<1>1. ASSUME UNCHANGED <<row, xendit>> PROVE UNCHANGED <<Due, Paid, GivenUp>>
  BY <1>1, PayoutStutters DEF Disbursements
<1>2. ASSUME NEW o \in Orders, CreateRow(o) PROVE Due' = Due \cup {o} /\ UNCHANGED <<Paid, GivenUp>>
  <2>1. row[o].status = "NONE" /\ UNCHANGED xendit
    BY <1>2 DEF CreateRow, PaysWhatIsDue
  <2>2. row'[o].status = "PENDING" /\ \A q \in Orders \ {o} : row'[q] = row[q]
    BY <1>0, <1>2 DEF CreateRow
  <2>3. UNCHANGED Paid
    BY <2>1 DEF Paid, Disbursements
  <2>4. Due' = Due \cup {o}
    BY <2>2 DEF Due
  <2>5. UNCHANGED GivenUp
    BY <2>1, <2>2 DEF GivenUp, Disbursements
  <2> QED BY <2>3, <2>4, <2>5
<1>3. ASSUME NEW l \in Lanes, UpdateRow(l) PROVE UNCHANGED <<Due, Paid, GivenUp>>
  <2>0. PICK o : o = worker[l].cur
    OBVIOUS
  <2>1. o \in Orders /\ Disbursements(o) > 0 /\ row[o].status # "NONE" /\ UNCHANGED xendit
    BY <1>3, <2>0 DEF UpdateRow, At, TypeInv, WorkerBusy, PaysWhatIsDue
  <2>2. row'[o].status = "PROCESSING" /\ \A q \in Orders \ {o} : row'[q] = row[q]
    BY <1>0, <1>3, <2>0, <2>1 DEF UpdateRow
  <2> QED BY <2>1, <2>2, PayoutStutters DEF Disbursements
<1>4. ASSUME NEW o \in Orders, NEW s \in {"COMPLETED", "FAILED"}, XenditEnds(o, s)
      PROVE  UNCHANGED <<Due, Paid, GivenUp>>
  <2>1. /\ UNCHANGED row
        /\ xendit' = [xendit EXCEPT ![o]["PENDING"] = xendit[o]["PENDING"] - 1,
                                    ![o][s] = xendit[o][s] + 1]
    BY <1>4 DEF XenditEnds
  <2>2. \A q \in Orders \ {o} : xendit'[q] = xendit[q]
    BY <1>0, <2>1
  <2>3. Disbursements(o)' = Disbursements(o)
    <3>1. xendit[o] \in [{"PENDING", "COMPLETED", "FAILED"} -> Int]
      BY <1>0
    <3> QED BY <1>0, <2>1, <3>1, EndsOne DEF Disbursements
  <2>4. \A q \in Orders : Disbursements(q)' = Disbursements(q)
    BY <2>2, <2>3 DEF Disbursements
  <2> QED BY <2>1, <2>4, PayoutStutters
<1>5. ASSUME NEW o \in Orders, NEW s \in {"COMPLETED", "FAILED"}, Callback(o, s)
      PROVE  UNCHANGED <<Due, Paid, GivenUp>>
  <2>1. /\ UNCHANGED xendit /\ xendit[o][s] > 0 /\ row[o].status # "NONE"
        /\ row'[o].status = s /\ \A q \in Orders \ {o} : row'[q] = row[q]
    BY <1>0, <1>5 DEF Callback, Row
  <2>2. Disbursements(o) # 0
    <3>1. /\ xendit[o]["PENDING"] \in Nat /\ xendit[o]["COMPLETED"] \in Nat
          /\ xendit[o]["FAILED"] \in Nat
      BY <1>0
    <3>2. \A a, b, c \in Nat : a + b + c = 0 => a = 0 /\ b = 0 /\ c = 0
      OBVIOUS
    <3>3. xendit[o]["COMPLETED"] > 0 \/ xendit[o]["FAILED"] > 0
      BY <2>1
    <3> QED BY <3>1, <3>2, <3>3 DEF Disbursements
  <2> QED BY <2>1, <2>2, PayoutStutters DEF Disbursements
<1>6. ASSUME NEW l \in Lanes, WorkerStep(l)
      PROVE  PayOk(l) \/ RecordError(l) \/ UpdateRow(l) \/ UNCHANGED <<row, xendit>>
  <2>1. ~PayLost(l) /\ ~StoreFail(l) /\ ~RecordFail(l)
    BY DEF OnlyRefusals, PayLost, StoreFail, RecordFail
  <2> QED
    BY <1>6, <2>1
    DEF WorkerStep, FindOrder, Batch, Requeue, NextSettlement, ReadOutflow, AddOutflow,
        PayRefused, CompleteJob, FailJob
<1>7. (\E o \in Orders : CreateRow(o))
       \/ (\E l \in Lanes : WorkerStep(l))
       \/ (\E o \in Orders, s \in {"COMPLETED", "FAILED"} : XenditEnds(o, s) \/ Callback(o, s))
       \/ UNCHANGED <<row, xendit>>
  BY DEF Next, AddJob, Enqueue, CreateFail, Take, Crash, Rest, vars
<1>8. ASSUME NEW l \in Lanes, WorkerStep(l)
       PROVE  \/ UNCHANGED <<Due, Paid, GivenUp>>
              \/ \E o \in Orders :
                   \/ /\ o \in Due \ GivenUp /\ \A p \in Paid : p[1] # o
                      /\ Paid' = Paid \cup {<<o, 1>>} /\ UNCHANGED <<Due, GivenUp>>
                   \/ /\ o \in Due /\ \A p \in Paid : p[1] # o
                      /\ GivenUp' = GivenUp \cup {o} /\ UNCHANGED <<Due, Paid>>
  <2>2. CASE PayOk(l)
    <3>1. PICK o : o = worker[l].cur
      OBVIOUS
    <3>2. /\ o \in Due \ GivenUp /\ \A p \in Paid : p[1] # o
          /\ Paid' = Paid \cup {<<o, 1>>} /\ UNCHANGED <<Due, GivenUp>>
      BY <2>2, <3>1, PayoutPays
    <3> QED BY <3>2 DEF Due
  <2>3. CASE RecordError(l)
    <3>1. PICK o : o = worker[l].job.order
      OBVIOUS
    <3> QED BY <2>3, <3>1, PayoutGivesUp
  <2>4. CASE UpdateRow(l)
    BY <1>3, <2>4
  <2>5. CASE UNCHANGED <<row, xendit>>
    BY <1>1, <2>5
  <2> QED BY <1>6, <1>8, <2>2, <2>3, <2>4, <2>5
<1> QED
  BY <1>1, <1>2, <1>4, <1>5, <1>7, <1>8

\* The fast lane pays what is due.
LEMMA FastPaysWhatIsDue ==
    ASSUME AllFast, TypeInv, FastInv PROVE PaysWhatIsDue
<1>1. \A o \in Orders : enqueue[o] = "added" => row[o].status = "NONE"
  BY DEF FastInv, OwnOrder
<1>2. ASSUME NEW l \in Lanes, worker[l].at # "idle" PROVE worker[l] = Fast
  BY <1>2 DEF FastInv, OwnOrder, Lanes, Fast
<1>3. /\ Fast.at = "pay" => /\ Disbursements(Fast.cur) = 0
                            /\ row[Fast.cur].status \notin {"NONE", "FAILED"}
      /\ Fast.at = "update" => /\ Disbursements(Fast.cur) > 0 /\ row[Fast.cur].status # "NONE"
      /\ Fast.at = "record" => /\ Disbursements(Fast.job.order) = 0
                               /\ row[Fast.job.order].status # "FAILED"
  BY DEF FastInv, OwnOrder, WorkAhead, MayPay, Pristine
<1> QED BY <1>1, <1>2, <1>3 DEF PaysWhatIsDue, At

\* The fast lane implements Payout: an order that falls due is paid once, or
\* given up unpaid, and one given up is not paid later.
THEOREM ImplementsPayout ==
    ASSUME OnlyRefusals, AllFast PROVE Spec => PayoutSpec
<1>1. Init => PayoutOf!PayoutInit
  BY DEF Init, PayoutOf!PayoutInit, Disbursements
<1>2. TypeInv /\ FastInv /\ (TypeInv /\ FastInv)' /\ [Next]_vars
        => [PayoutOf!PayoutNext]_<<Due, Paid, GivenUp>>
  BY FastPaysWhatIsDue, PayoutStep
     DEF FastInv, PayoutOf!PayoutNext, PayoutOf!FallDue, PayoutOf!Pay, PayoutOf!GiveUp,
         Due, Paid, GivenUp
<1> QED
  BY <1>1, <1>2, FastInvariant, PTL
  DEF Spec, PayoutSpec, PayoutOf!PayoutSpec, Due, Paid, GivenUp
=============================================================================
