------------------------- MODULE PaymentConfirmProofs -------------------------
(***************************************************************************)
(* Theorems of PaymentConfirm, for every set of intents, requests,         *)
(* transactions and wallets, and every choice of outside events.           *)
(***************************************************************************)
EXTENDS PaymentConfirm, TLAPS

-----------------------------------------------------------------------------
(***************************************************************************)
(* Type correctness.                                                       *)
(***************************************************************************)

\* sync adds only well-formed upserts: the translated status is one the
\* enum column accepts.
LEMMA SyncTyped ==
    ASSUME NEW by \in Requests \cup {"webhook"}, NEW i \in Intents,
           NEW o \in IntentObject, o.status \in IntentStatus,
           writes \subseteq Write, Sync(by, i, o)
    PROVE  writes' \subseteq Write
<1> DEFINE u == [by |-> by, intent |-> i, status |-> STATUS_MAP[o.status],
                 txHash |-> o.txHash, payer_account |-> o.payer_account]
<1>1. STATUS_MAP[o.status] \in TransactionStatus
  BY DEF STATUS_MAP, IntentStatus, TransactionStatus
<1>2. o.txHash \in Txs \cup {NoTx} /\ o.payer_account \in Wallets \cup {NoWallet}
  BY DEF IntentObject
<1>3. u \in Write
  BY <1>1, <1>2 DEF Write
<1> QED
  BY <1>3 DEF Sync

\* A handler that sets fields of an intent leaves the intents well-formed.
LEMMA SetTyped ==
    ASSUME intent \in [Intents -> IntentObject],
           NEW i \in Intents, NEW o \in IntentObject, SetIntent(i, o)
    PROVE  intent' \in [Intents -> IntentObject]
BY DEF SetIntent

LEMMA GotoTyped ==
    ASSUME pc \in [Requests -> {"idle"} \cup Stages \cup Answers],
           NEW r \in Requests, NEW l \in Stages \cup Answers, Goto(r, l)
    PROVE  pc' \in [Requests -> {"idle"} \cup Stages \cup Answers]
BY DEF Goto

\* Taking the lock and starting the verification.
LEMMA BeginTyped ==
    ASSUME TypeOK, NEW r \in Requests, BeginVerify(r) PROVE TypeOK'
<1>1. req[r].intent \in Intents
  BY DEF TypeOK, Request
<1>2. intent[req[r].intent].expected \in Nat
  BY <1>1 DEF TypeOK, IntentObject
<1>3. expected' \in [Requests -> Nat]
  BY <1>2 DEF BeginVerify, TypeOK
<1>4. pc' \in [Requests -> {"idle"} \cup Stages \cup Answers]
  BY GotoTyped DEF BeginVerify, TypeOK, Stages, LockedStages
<1> QED
  BY <1>1, <1>3, <1>4 DEF BeginVerify, TypeOK, env, disk

\* restoreFromDatabase loads nothing: a status it asks for is not in the enum.
LEMMA NothingRestored ==
    ASSUME TypeOK, Restore PROVE intent' = intent /\ live' = live
<1>1. ~(activeStatuses \subseteq TransactionStatus)
  <2>1. "PROCESSING" \in activeStatuses /\ "PROCESSING" \notin TransactionStatus
    BY DEF activeStatuses, TransactionStatus
  <2> QED BY <2>1
<1>2. intent' = [i \in Intents |-> intent[i]] /\ live' = live
  BY <1>1 DEF Restore
<1> QED
  BY <1>2 DEF TypeOK

\* Type correctness is inductive.
LEMMA TypeInductive ==
    ASSUME TypeOK, [Next]_vars PROVE TypeOK'
<1> USE NullAssumption, ChainAssumption, DueAssumption, InputsAssumption DEF TypeOK
<1>1. ASSUME NEW i \in Intents, Create(i) PROVE TypeOK'
  <2>1. [intent[i] EXCEPT !.status = "CREATED"] \in IntentObject
    BY DEF IntentObject, IntentStatus
  <2>2. intent' \in [Intents -> IntentObject]
    BY <1>1, <2>1, SetTyped DEF Create
  <2>3. [NoRow EXCEPT !.status = "CREATED"] \in DbRow
    BY DEF NoRow, DbRow, TransactionStatus
  <2>4. db' \in [Intents -> DbRow]
    BY <1>1, <2>3 DEF Create
  <2> QED BY <1>1, <2>2, <2>4 DEF Create, handler
<1>2. ASSUME NEW r \in Requests, Call(r) PROVE TypeOK'
  <2>1. CASE Reject(r)
    <3>1. EarlyReply(req[r].intent, req[r].tx) \in Answers \cup {"none"}
      BY DEF EarlyReply, Answers
    <3>2. pc' \in [Requests -> {"idle"} \cup Stages \cup Answers]
      BY <2>1, <3>1, GotoTyped DEF Reject
    <3> QED BY <2>1, <3>2 DEF Reject, env, disk
  <2>2. CASE Assess(r)
    <3>1. pc' \in [Requests -> {"idle"} \cup Stages \cup Answers]
      BY <2>2, GotoTyped DEF Assess, Stages
    <3> QED BY <2>2, <3>1 DEF Assess, env, disk
  <2>3. CASE SkipRisk(r)
    BY <2>3, BeginTyped DEF SkipRisk
  <2> QED BY <1>2, <2>1, <2>2, <2>3 DEF Call
<1>3. ASSUME NEW r \in Requests, HandlerStep(r) PROVE TypeOK'
  <2> DEFINE i == req[r].intent
  <2>0. i \in Intents /\ req[r].tx \in Txs /\ req[r].claim \in Wallets \cup {NoWallet}
    BY DEF Request
  <2>1. intent[i] \in IntentObject
    BY <2>0
  <2>2. CASE RiskBlock(r)
    <3>1. pc' \in [Requests -> {"idle"} \cup Stages \cup Answers]
      BY <2>2, GotoTyped DEF RiskBlock, Answers
    <3> QED BY <2>2, <3>1 DEF RiskBlock, env, disk
  <2>3. CASE RiskPass(r)
    BY <2>3, BeginTyped DEF RiskPass
  <2>4. CASE VerifyFail(r)
    <3>1. pc' \in [Requests -> {"idle"} \cup Stages \cup Answers]
      BY <2>4, GotoTyped DEF VerifyFail, Answers
    <3> QED BY <2>4, <3>1 DEF VerifyFail, Unlock, env, disk
  <2>5. CASE VerifyOk(r)
    <3>1. pc' \in [Requests -> {"idle"} \cup Stages \cup Answers]
      BY <2>5, GotoTyped DEF VerifyOk, Verified, Stages, LockedStages
    <3>2. intent' \in [Intents -> IntentObject]
      <4>1. [intent[i] EXCEPT !.payer_account = req[r].claim] \in IntentObject
        BY <2>0, <2>1 DEF IntentObject
      <4> QED BY <2>5, <2>0, <2>1, <4>1, SetTyped DEF VerifyOk, Verified
    <3> QED BY <2>5, <3>1, <3>2 DEF VerifyOk, Verified, env, disk
  <2>6. CASE PayerMismatch(r)
    <3>1. pc' \in [Requests -> {"idle"} \cup Stages \cup Answers]
      BY <2>6, GotoTyped DEF PayerMismatch, Answers
    <3> QED BY <2>6, <3>1 DEF PayerMismatch, Unlock, env, disk
  <2>7. CASE Authorize(r)
    <3>1. PICK p \in {Signer[req[r].tx], NoWallet} : AuthorizeAs(r, p)
      BY <2>7 DEF Authorize
    <3> DEFINE o == AuthorizedBy(r, p)
    <3>2. o \in IntentObject /\ o.status \in IntentStatus
      BY <2>0, <2>1 DEF AuthorizedBy, IntentObject, IntentStatus
    <3>3. intent' \in [Intents -> IntentObject]
      BY <3>1, <3>2, <2>0, SetTyped DEF AuthorizeAs
    <3>4. writes' \subseteq Write
      BY <3>1, <3>2, <2>0, SyncTyped DEF AuthorizeAs
    <3>5. pc' \in [Requests -> {"idle"} \cup Stages \cup Answers]
      BY <3>1, GotoTyped DEF AuthorizeAs, Stages, LockedStages
    <3> QED BY <3>1, <3>3, <3>4, <3>5 DEF AuthorizeAs, env, disk
  <2>8. CASE AwaitSettlement(r)
    <3>1. pc' \in [Requests -> {"idle"} \cup Stages \cup Answers]
      BY <2>8, GotoTyped DEF AwaitSettlement, Awaiting, Stages, LockedStages
    <3>2. intent' \in [Intents -> IntentObject]
      <4>1. [intent[i] EXCEPT !.status = "AWAITING_SETTLEMENT"] \in IntentObject
        BY <2>1 DEF IntentObject, IntentStatus
      <4> QED BY <2>8, <2>0, <4>1, SetTyped DEF AwaitSettlement, Awaiting
    <3> QED BY <2>8, <3>1, <3>2 DEF AwaitSettlement, Awaiting, env, disk
  <2>9. CASE AddJob(r)
    <3>1. pc' \in [Requests -> {"idle"} \cup Stages \cup Answers]
      BY <2>9, GotoTyped DEF AddJob, Stages, LockedStages
    <3>2. jobs' \subseteq Order
      BY <2>9, <2>0 DEF AddJob, OrderOf, Order
    <3> QED BY <2>9, <3>1, <3>2 DEF AddJob, env
  <2>10. CASE CreateRow(r)
    <3> DEFINE o == [intent[i] EXCEPT !.status = "SETTLEMENT_QUEUED"]
    <3>1. o \in IntentObject /\ o.status \in IntentStatus
      BY <2>1 DEF IntentObject, IntentStatus
    <3>2. pc' \in [Requests -> {"idle"} \cup Stages \cup Answers]
      BY <2>10, GotoTyped DEF CreateRow, Stages, LockedStages
    <3>3. rows' \subseteq Order
      BY <2>10, <2>0 DEF CreateRow, OrderOf, Order
    <3>4. intent' \in [Intents -> IntentObject]
      BY <2>10, <2>0, <3>1, SetTyped DEF CreateRow
    <3>5. writes' \subseteq Write
      BY <2>10, <2>0, <3>1, SyncTyped DEF CreateRow
    <3> QED BY <2>10, <3>2, <3>3, <3>4, <3>5 DEF CreateRow, env
  <2>11. CASE EnqueueFail(r)
    <3>1. Failed(r) \in IntentObject /\ Failed(r).status \in IntentStatus
      BY <2>1 DEF Failed, IntentObject, IntentStatus
    <3>2. pc' \in [Requests -> {"idle"} \cup Stages \cup Answers]
      BY <2>11, GotoTyped DEF EnqueueFail, Refused, RowUnheard, FailWith, Stages,
                              LockedStages
    <3>3. intent' \in [Intents -> IntentObject]
      BY <2>11, <2>0, <3>1, SetTyped DEF EnqueueFail, Refused, RowUnheard, FailWith
    <3>4. writes' \subseteq Write
      BY <2>11, <2>0, <3>1, SyncTyped DEF EnqueueFail, Refused, RowUnheard, FailWith
    <3>5. rows' \subseteq Order
      BY <2>11, <2>0 DEF EnqueueFail, Refused, RowUnheard, OrderOf, Order
    <3> QED BY <2>11, <3>2, <3>3, <3>4, <3>5 DEF EnqueueFail, Refused, RowUnheard,
                                                 FailWith, env
  <2>12. CASE Finish(r)
    <3>1. pc' \in [Requests -> {"idle"} \cup Stages \cup Answers]
      BY <2>12, GotoTyped DEF Finish, Answers
    <3> QED BY <2>12, <3>1 DEF Finish, Unlock, env, disk
  <2> QED
    BY <1>3, <2>2, <2>3, <2>4, <2>5, <2>6, <2>7, <2>8, <2>9, <2>10, <2>11, <2>12
    DEF HandlerStep
<1>4. ASSUME NEW i \in Intents, NEW w \in Wallets, BuildStart(i, w) PROVE TypeOK'
  BY <1>4 DEF BuildStart, Build, handler, disk
<1>5. ASSUME NEW b \in builds, BuildStep(b) PROVE TypeOK'
  <2>1. b \in Build /\ b.intent \in Intents /\ b.account \in Wallets
    BY DEF Build
  <2>2. [b EXCEPT !.at = "swap"] \in Build
    BY <2>1 DEF Build
  <2>3. intent' \in [Intents -> IntentObject]
    <3>1. Due[b.intent] \in Nat /\ intent[b.intent] \in IntentObject
      BY <2>1
    <3>2. [intent[b.intent] EXCEPT !.payer_account = b.account,
                                   !.expected = Due[b.intent]] \in IntentObject
      BY <2>1, <3>1 DEF IntentObject
    <3>3. [intent[b.intent] EXCEPT !.status = "AUTHORIZATION_REQUESTED",
                                   !.payer_account = b.account] \in IntentObject
      BY <2>1, <3>1 DEF IntentObject, IntentStatus
    <3>4. CASE BuildQuoted(b)
      BY <3>4, <2>1, <3>2, SetTyped DEF BuildQuoted
    <3>5. CASE BuildDone(b)
      BY <3>5, <2>1, <3>1, <3>3, SetTyped DEF BuildDone
    <3>6. CASE BuildFail(b)
      BY <3>6 DEF BuildFail
    <3> QED BY <1>5, <3>4, <3>5, <3>6 DEF BuildStep
  <2>4. builds' \subseteq Build
    BY <1>5, <2>2 DEF BuildStep, BuildQuoted, BuildDone, BuildFail
  <2> QED BY <1>5, <2>3, <2>4
          DEF BuildStep, BuildQuoted, BuildDone, BuildFail, handler, disk
<1>6. ASSUME NEW t \in Txs, Finalize(t) PROVE TypeOK'
  BY <1>6 DEF Finalize, handler, disk
<1>7. ASSUME NEW i \in Intents, NEW s \in {"COMPLETED", "FAILED"}, PartnerWebhook(i, s)
      PROVE  TypeOK'
  <2> DEFINE o == [intent[i] EXCEPT !.status = s]
  <2>1. o \in IntentObject /\ o.status \in IntentStatus
    BY DEF IntentObject, IntentStatus
  <2>2. writes' \subseteq Write
    BY <1>7, <2>1, SyncTyped DEF PartnerWebhook
  <2>3. intent' \in [Intents -> IntentObject]
    BY <1>7, <2>1, SetTyped DEF PartnerWebhook
  <2> QED BY <1>7, <2>2, <2>3 DEF PartnerWebhook, env, handler, disk
<1>8. ASSUME NEW i \in Intents, HeliusWebhook(i) PROVE TypeOK'
  <2>0. [intent[i] EXCEPT !.status = "AWAITING_SETTLEMENT"] \in IntentObject
    BY DEF IntentObject, IntentStatus
  <2>1. intent' \in [Intents -> IntentObject]
    BY <1>8, <2>0, SetTyped DEF HeliusWebhook
  <2> QED BY <1>8, <2>1 DEF HeliusWebhook, env, handler, disk
<1>9. ASSUME NEW S \in SUBSET Intents, Timer(S) PROVE TypeOK'
  <2>1. CASE Reconcile(S)
    <3>1. \A i \in Intents : [intent[i] EXCEPT !.status = "FAILED"] \in IntentObject
      BY DEF IntentObject, IntentStatus
    <3>2. intent' \in [Intents -> IntentObject]
      BY <2>1, <3>1 DEF Reconcile
    <3> QED BY <2>1, <3>2 DEF Reconcile, env, handler, disk
  <2>2. CASE Evict(S)
    BY <2>2 DEF Evict, handler, disk
  <2>3. CASE ExpireStale(S)
    <3>1. \A i \in Intents :
              [db[i] EXCEPT !.status = "FAILED", !.deleted = TRUE] \in DbRow
      BY DEF DbRow, TransactionStatus
    <3>2. db' \in [Intents -> DbRow]
      BY <2>3, <3>1 DEF ExpireStale
    <3> QED BY <2>3, <3>2 DEF ExpireStale, env, handler
  <2> QED BY <1>9, <2>1, <2>2, <2>3 DEF Timer
<1>10. ASSUME NEW w \in writes, DbStep(w) PROVE TypeOK'
  <2>1. w \in Write
    OBVIOUS
  <2>2. db' \in [Intents -> DbRow]
    <3>1. w.intent \in Intents
      BY <2>1 DEF Write
    <3>2. [db[w.intent] EXCEPT !.status = w.status, !.txHash = w.txHash,
                               !.payer_account = w.payer_account] \in DbRow
      <4>1. /\ w.status \in TransactionStatus
            /\ w.txHash \in Txs \cup {NoTx}
            /\ w.payer_account \in Wallets \cup {NoWallet}
        BY <2>1 DEF Write
      <4>2. db[w.intent] \in DbRow
        BY <3>1
      <4> HIDE DEF TypeOK
      <4> QED BY <4>1, <4>2 DEF DbRow
    <3>3. CASE ExecWrite(w)
      BY <3>1, <3>2, <3>3 DEF ExecWrite
    <3>4. CASE DropWrite(w)
      BY <3>4 DEF DropWrite, disk
    <3> QED BY <1>10, <3>3, <3>4 DEF DbStep
  <2>3. writes' \subseteq Write
    BY <1>10 DEF DbStep, ExecWrite, DropWrite
  <2> QED BY <1>10, <2>2, <2>3 DEF DbStep, ExecWrite, DropWrite, env, handler, disk
<1>11. CASE Restart
  <2>1. pc' \in [Requests -> {"idle"} \cup Stages \cup Answers]
    BY <1>11 DEF Restart, Answers
  <2> QED BY <1>11, <2>1 DEF Restart, disk
<1>12. CASE Restore
  <2>1. intent' = intent /\ live' = live
    BY <1>12, NothingRestored
  <2> QED BY <1>12, <2>1 DEF Restore, handler, disk
<1>13. CASE UNCHANGED vars
  BY <1>13 DEF vars, env, handler, disk
<1> QED
  BY <1>1, <1>2, <1>3, <1>4, <1>5, <1>6, <1>7, <1>8, <1>9, <1>10, <1>11, <1>12,
     <1>13 DEF Next, Rest

\* Every reachable state is well-formed: in particular PostgreSQL is never sent
\* a status its enum does not have.
THEOREM TypeCorrect == Spec => []TypeOK
<1>1. Init => TypeOK
  BY DEF Init, TypeOK, Absent, NoRow, IntentObject, DbRow
<1>2. TypeOK /\ [Next]_vars => TypeOK'
  BY TypeInductive
<1> QED
  BY <1>1, <1>2, PTL DEF Spec

-----------------------------------------------------------------------------
(***************************************************************************)
(* Steps, seen by who takes them.                                          *)
(***************************************************************************)

\* Everything that is neither a confirm handler nor a restart.
OutsideStep ==
    \/ \E i \in Intents : Create(i)
    \/ \E i \in Intents, w \in Wallets : BuildStart(i, w)
    \/ \E b \in builds : BuildStep(b)
    \/ \E t \in Txs : Finalize(t)
    \/ \E i \in Intents, s \in {"COMPLETED", "FAILED"} : PartnerWebhook(i, s)
    \/ \E i \in Intents : HeliusWebhook(i)
    \/ \E S \in SUBSET Intents : Timer(S)
    \/ \E w \in writes : DbStep(w)
    \/ Restore

LEMMA StepCases ==
    ASSUME [Next]_vars
    PROVE  \/ \E r \in Requests : Call(r) \/ HandlerStep(r)
           \/ OutsideStep
           \/ Restart
           \/ UNCHANGED vars
BY DEF Next, Rest, OutsideStep

\* An outside step touches neither the requests, the locks nor the queue, and
\* the chain only gains transactions.
LEMMA OutsideFrame ==
    ASSUME OutsideStep
    PROVE  UNCHANGED <<confirmLocks, pc, expected, req, jobs>> /\ finalized \subseteq finalized'
<1>1. ASSUME NEW i \in Intents, Create(i)
      PROVE  UNCHANGED <<handler, req, jobs, finalized>>
  BY <1>1 DEF Create
<1>2. ASSUME NEW i \in Intents, NEW w \in Wallets, BuildStart(i, w)
      PROVE  UNCHANGED <<handler, req, jobs, finalized>>
  BY <1>2 DEF BuildStart, disk
<1>3. ASSUME NEW b \in builds, BuildStep(b)
      PROVE  UNCHANGED <<handler, req, jobs, finalized>>
  BY <1>3 DEF BuildStep, BuildQuoted, BuildDone, BuildFail, disk
<1>4. ASSUME NEW t \in Txs, Finalize(t)
      PROVE  UNCHANGED <<handler, req, jobs>> /\ finalized \subseteq finalized'
  BY <1>4 DEF Finalize, disk
<1>5. ASSUME NEW i \in Intents, NEW s \in {"COMPLETED", "FAILED"}, PartnerWebhook(i, s)
      PROVE  UNCHANGED <<handler, req, jobs, finalized>>
  BY <1>5 DEF PartnerWebhook, env, disk
<1>6. ASSUME NEW i \in Intents, HeliusWebhook(i)
      PROVE  UNCHANGED <<handler, req, jobs, finalized>>
  BY <1>6 DEF HeliusWebhook, env, disk
<1>7. ASSUME NEW S \in SUBSET Intents, Timer(S)
      PROVE  UNCHANGED <<handler, req, jobs, finalized>>
  BY <1>7 DEF Timer, Reconcile, Evict, ExpireStale, env, disk
<1>8. ASSUME NEW w \in writes, DbStep(w)
      PROVE  UNCHANGED <<handler, req, jobs, finalized>>
  BY <1>8 DEF DbStep, ExecWrite, DropWrite, env, disk
<1>9. ASSUME Restore PROVE UNCHANGED <<handler, req, jobs, finalized>>
  BY <1>9 DEF Restore, disk
<1> QED
  BY <1>1, <1>2, <1>3, <1>4, <1>5, <1>6, <1>7, <1>8, <1>9 DEF OutsideStep, handler

-----------------------------------------------------------------------------
(***************************************************************************)
(* No lock is left behind.                                                 *)
(***************************************************************************)

LEMMA BeginOwned ==
    ASSUME TypeOK, LockHasOwner, NEW r \in Requests, BeginVerify(r),
           pc[r] \notin LockedStages
    PROVE  LockHasOwner'
<1>1. confirmLocks' = confirmLocks \cup {req[r].intent} /\ req' = req
  BY DEF BeginVerify, env
<1>2. pc'[r] = "verify" /\ \A q \in Requests : q # r => pc'[q] = pc[q]
  BY DEF BeginVerify, Goto, TypeOK
<1> QED
  BY <1>1, <1>2 DEF LockHasOwner, LockedStages

\* A locked intent has a confirm request that will reach the finally block,
\* whoever calls and whatever the timers, webhooks and restarts do.
THEOREM LocksOwned == Spec => []LockHasOwner
<1>1. Init => LockHasOwner
  BY DEF Init, LockHasOwner
<1>2. ASSUME TypeOK, LockHasOwner, [Next]_vars PROVE LockHasOwner'
  <2> USE <1>2
  <2>1. ASSUME NEW r \in Requests, Call(r) PROVE LockHasOwner'
    <3>1. CASE Reject(r) \/ Assess(r)
      <4>1. confirmLocks' = confirmLocks /\ req' = req /\ pc[r] \notin LockedStages
        BY <3>1 DEF Reject, Assess, MayCall, env, LockedStages
      <4>2. \A q \in Requests : q # r => pc'[q] = pc[q]
        BY <3>1 DEF Reject, Assess, Goto, TypeOK
      <4> QED BY <4>1, <4>2 DEF LockHasOwner
    <3>2. CASE SkipRisk(r)
      BY <3>2, BeginOwned DEF SkipRisk, MayCall, LockedStages
    <3> QED BY <2>1, <3>1, <3>2 DEF Call
  <2>2. ASSUME NEW r \in Requests, HandlerStep(r) PROVE LockHasOwner'
    <3>1. CASE RiskPass(r)
      BY <3>1, BeginOwned DEF RiskPass, LockedStages
    <3>2. CASE VerifyFail(r) \/ PayerMismatch(r) \/ Finish(r)
      <4>1. confirmLocks' = confirmLocks \ {req[r].intent} /\ req' = req
        BY <3>2 DEF VerifyFail, PayerMismatch, Finish, Unlock, env
      <4>2. \A q \in Requests : q # r => pc'[q] = pc[q]
        BY <3>2 DEF VerifyFail, PayerMismatch, Finish, Goto, TypeOK
      <4> QED BY <4>1, <4>2 DEF LockHasOwner
    <3>3. CASE RiskBlock(r) \/ VerifyOk(r) \/ Authorize(r) \/ AwaitSettlement(r)
               \/ AddJob(r) \/ CreateRow(r) \/ EnqueueFail(r)
      <4>1. confirmLocks' = confirmLocks /\ req' = req
        BY <3>3 DEF RiskBlock, VerifyOk, Verified, Authorize, AuthorizeAs, AwaitSettlement,
                    Awaiting, AddJob, CreateRow, EnqueueFail, Refused, RowUnheard,
                    FailWith, env
      <4>2. \A q \in Requests : q # r => pc'[q] = pc[q]
        BY <3>3 DEF RiskBlock, VerifyOk, Verified, Authorize, AuthorizeAs, AwaitSettlement,
                    Awaiting, AddJob, CreateRow, EnqueueFail, Refused, RowUnheard,
                    FailWith, Goto, TypeOK
      <4>3. pc[r] \in LockedStages => pc'[r] \in LockedStages
        BY <3>3 DEF RiskBlock, VerifyOk, Verified, Authorize, AuthorizeAs, AwaitSettlement,
                    Awaiting, AddJob, CreateRow, EnqueueFail, Refused, RowUnheard,
                    FailWith, Goto, TypeOK, LockedStages
      <4> QED BY <4>1, <4>2, <4>3 DEF LockHasOwner
    <3> QED BY <2>2, <3>1, <3>2, <3>3 DEF HandlerStep
  <2>3. CASE OutsideStep
    BY <2>3, OutsideFrame DEF LockHasOwner
  <2>4. CASE Restart
    BY <2>4 DEF Restart, LockHasOwner
  <2>5. CASE UNCHANGED vars
    BY <2>5 DEF vars, env, handler, LockHasOwner
  <2> QED BY <2>1, <2>2, <2>3, <2>4, <2>5, StepCases
<1> QED
  BY <1>1, <1>2, TypeCorrect, PTL DEF Spec

-----------------------------------------------------------------------------
(***************************************************************************)
(* Settlement only of what the chain paid.                                 *)
(***************************************************************************)

\* A step of a request moves that request only, and writes its intent only.
LEMMA OwnStep ==
    ASSUME TypeOK, NEW r \in Requests, Call(r) \/ HandlerStep(r)
    PROVE  /\ UNCHANGED env
           /\ \A q \in Requests \ {r} : pc'[q] = pc[q]
           /\ \A i \in Intents \ {req[r].intent} : intent'[i] = intent[i]
<1>1. UNCHANGED env
  BY DEF Call, HandlerStep, Reject, Assess, SkipRisk, BeginVerify, RiskBlock, RiskPass,
         VerifyFail, VerifyOk, Verified, PayerMismatch, Authorize, AuthorizeAs,
         AwaitSettlement,
         Awaiting, AddJob, CreateRow, EnqueueFail, Refused, RowUnheard, FailWith, Finish
<1>2. \A q \in Requests \ {r} : pc'[q] = pc[q]
  <2>1. \E l \in Stages \cup Answers : Goto(r, l)
    BY DEF Call, HandlerStep, Reject, Assess, SkipRisk, BeginVerify, RiskBlock, RiskPass,
           VerifyFail, VerifyOk, Verified, PayerMismatch, Authorize, AuthorizeAs,
           AwaitSettlement, Awaiting, AddJob, CreateRow, EnqueueFail, Refused,
           RowUnheard, FailWith, Finish,
           EarlyReply, Stages, LockedStages, Answers
  <2> QED BY <2>1 DEF Goto, TypeOK
<1>3. \A i \in Intents \ {req[r].intent} : intent'[i] = intent[i]
  <2>1. intent' = intent \/ \E o : SetIntent(req[r].intent, o)
    BY DEF Call, HandlerStep, Reject, Assess, SkipRisk, BeginVerify, RiskBlock, RiskPass,
           VerifyFail, VerifyOk, Verified, PayerMismatch, Authorize, AuthorizeAs,
           AwaitSettlement, Awaiting, AddJob, CreateRow, EnqueueFail, Refused,
           RowUnheard, FailWith, Finish
  <2> QED BY <2>1 DEF SetIntent, TypeOK
<1> QED
  BY <1>1, <1>2, <1>3

\* Nobody but the confirm handler writes txHash.
LEMMA OutsideHash ==
    ASSUME TypeOK, OutsideStep
    PROVE  \A i \in Intents : intent'[i].txHash = intent[i].txHash
<1> DEFINE Same == \A j \in Intents : intent'[j].txHash = intent[j].txHash
<1> USE DEF TypeOK, IntentObject, SetIntent
<1>1. ASSUME NEW i \in Intents, Create(i) PROVE Same
  BY <1>1 DEF Create
<1>2. ASSUME NEW i \in Intents, NEW w \in Wallets, BuildStart(i, w) PROVE Same
  BY <1>2 DEF BuildStart
<1>3. ASSUME NEW b \in builds, BuildStep(b) PROVE Same
  <2>1. b.intent \in Intents
    BY DEF Build
  <2>2. CASE BuildQuoted(b)
    BY <2>1, <2>2 DEF BuildQuoted
  <2>3. CASE BuildDone(b)
    BY <2>1, <2>3 DEF BuildDone
  <2>4. CASE BuildFail(b)
    BY <2>4 DEF BuildFail
  <2> QED BY <1>3, <2>2, <2>3, <2>4 DEF BuildStep
<1>4. ASSUME NEW t \in Txs, Finalize(t) PROVE Same
  BY <1>4 DEF Finalize
<1>5. ASSUME NEW i \in Intents, NEW s \in {"COMPLETED", "FAILED"}, PartnerWebhook(i, s)
      PROVE  Same
  BY <1>5 DEF PartnerWebhook
<1>6. ASSUME NEW i \in Intents, HeliusWebhook(i) PROVE Same
  BY <1>6 DEF HeliusWebhook
<1>7. ASSUME NEW S \in SUBSET Intents, Timer(S) PROVE Same
  BY <1>7 DEF Timer, Reconcile, Evict, ExpireStale
<1>8. ASSUME NEW w \in writes, DbStep(w) PROVE Same
  BY <1>8 DEF DbStep, ExecWrite, DropWrite
<1>9. ASSUME Restore PROVE Same
  BY <1>9, NothingRestored
<1> QED
  BY <1>1, <1>2, <1>3, <1>4, <1>5, <1>6, <1>7, <1>8, <1>9 DEF OutsideStep

\* PaidOnChain is not inductive alone: the handler remembers that its
\* transaction was verified only by where it stands.
VerifiedStages == LockedStages \ {"verify"}

PaidInv ==
    /\ PaidOnChain
    /\ \A r \in Requests : pc[r] \in VerifiedStages => Inflow(req[r].tx, 0)

\* What a request's own step does to what PaidInv speaks of: a hash or an order
\* appears only after verification.
LEMMA VerifiedFirst ==
    ASSUME TypeOK, NEW r \in Requests, Call(r) \/ HandlerStep(r)
    PROVE  /\ \/ intent'[req[r].intent].txHash = intent[req[r].intent].txHash
              \/ intent'[req[r].intent].txHash = req[r].tx /\ pc[r] = "payer"
           /\ jobs' = jobs \/ (jobs' = jobs \cup {OrderOf(r)} /\ pc[r] = "add")
           /\ pc'[r] \in VerifiedStages =>
                  pc[r] \in VerifiedStages \/ Inflow(req[r].tx, expected[r])
<1>0. req[r].intent \in Intents /\ intent[req[r].intent] \in IntentObject
  BY DEF TypeOK, Request
<1>1. \/ intent'[req[r].intent].txHash = intent[req[r].intent].txHash
      \/ intent'[req[r].intent].txHash = req[r].tx /\ pc[r] = "payer"
  <2>1. CASE Authorize(r)
    BY <1>0, <2>1 DEF Authorize, AuthorizeAs, AuthorizedBy, SetIntent, TypeOK, IntentObject
  <2>2. CASE VerifyOk(r)
    BY <1>0, <2>2 DEF VerifyOk, Verified, SetIntent, TypeOK, IntentObject
  <2>3. CASE AwaitSettlement(r)
    BY <1>0, <2>3 DEF AwaitSettlement, Awaiting, SetIntent, TypeOK, IntentObject
  <2>4. CASE CreateRow(r)
    BY <1>0, <2>4 DEF CreateRow, SetIntent, TypeOK, IntentObject
  <2>5. CASE EnqueueFail(r)
    BY <1>0, <2>5 DEF EnqueueFail, Refused, RowUnheard, FailWith, Failed, SetIntent,
                      TypeOK, IntentObject
  <2>6. CASE ~(Authorize(r) \/ VerifyOk(r) \/ AwaitSettlement(r) \/ CreateRow(r)
               \/ EnqueueFail(r))
    BY <2>6 DEF Call, HandlerStep, Reject, Assess, SkipRisk, RiskBlock, RiskPass,
                BeginVerify, VerifyFail, PayerMismatch, AddJob, Finish
  <2> QED BY <2>1, <2>2, <2>3, <2>4, <2>5, <2>6
<1>2. jobs' = jobs \/ (jobs' = jobs \cup {OrderOf(r)} /\ pc[r] = "add")
  <2>1. CASE AddJob(r)
    BY <2>1 DEF AddJob
  <2>2. CASE ~AddJob(r)
    BY <2>2 DEF Call, HandlerStep, Reject, Assess, SkipRisk, BeginVerify, RiskBlock,
                RiskPass, VerifyFail, VerifyOk, Verified, PayerMismatch, Authorize,
                AuthorizeAs, AwaitSettlement, Awaiting, CreateRow, EnqueueFail, Refused,
                RowUnheard, FailWith,
                Finish, disk
  <2> QED BY <2>1, <2>2
<1>3. pc'[r] \in VerifiedStages =>
          pc[r] \in VerifiedStages \/ Inflow(req[r].tx, expected[r])
  <2>1. CASE VerifyOk(r)
    BY <2>1 DEF VerifyOk
  <2>2. CASE Authorize(r) \/ AwaitSettlement(r) \/ AddJob(r) \/ CreateRow(r) \/ EnqueueFail(r)
    BY <2>2 DEF Authorize, AuthorizeAs, AwaitSettlement, Awaiting, AddJob, CreateRow,
                EnqueueFail, Refused, RowUnheard, FailWith, VerifiedStages, LockedStages
  <2>3. CASE ~(VerifyOk(r) \/ Authorize(r) \/ AwaitSettlement(r) \/ AddJob(r)
               \/ CreateRow(r) \/ EnqueueFail(r))
    <3>1. \E l \in Answers \cup {"risk", "verify"} : Goto(r, l)
      BY <2>3 DEF Call, HandlerStep, Reject, EarlyReply, Assess, SkipRisk, RiskBlock,
                  RiskPass, BeginVerify, VerifyFail, PayerMismatch, Finish, Answers
    <3>2. pc'[r] \in Answers \cup {"risk", "verify"}
      BY <3>1 DEF Goto, TypeOK
    <3> QED BY <3>2 DEF VerifiedStages, LockedStages, Answers
  <2> QED BY <2>1, <2>2, <2>3
<1> QED
  BY <1>1, <1>2, <1>3

\* No order and no paid intent without a final transaction that moved IDRX into
\* the treasury, whoever calls and whatever happens around the handler.
THEOREM PaidIsOnChain == Spec => []PaidOnChain
<1>1. Init => PaidInv
  BY DEF Init, PaidInv, PaidOnChain, Absent, VerifiedStages, LockedStages
<1>2. ASSUME TypeOK, PaidInv, [Next]_vars PROVE PaidInv'
  <2> USE <1>2
  <2>0. \A r \in Requests, n \in Nat : Inflow(req[r].tx, n) => Inflow(req[r].tx, 0)
    <3>1. \A r \in Requests : Delivered[req[r].tx] \in Nat
      BY ChainAssumption DEF TypeOK, Request
    <3> QED BY <3>1 DEF Inflow
  <2>1. ASSUME NEW r \in Requests, Call(r) \/ HandlerStep(r) PROVE PaidInv'
    <3> DEFINE i == req[r].intent
    <3>1. UNCHANGED <<req, finalized>>
      BY <2>1, OwnStep DEF env
    <3>2. \A t, n : Inflow(t, n)' = Inflow(t, n)
      BY <3>1 DEF Inflow
    <3>3. expected[r] \in Nat /\ i \in Intents
      BY DEF TypeOK, Request
    <3>4. pc'[r] \in VerifiedStages => Inflow(req[r].tx, 0)
      BY <2>0, <2>1, <3>3, VerifiedFirst DEF PaidInv
    <3>5. \A q \in Requests : pc'[q] \in VerifiedStages => Inflow(req[q].tx, 0)'
      BY <2>1, <3>1, <3>2, <3>4, OwnStep DEF PaidInv
    <3>6. \A o \in jobs' : Inflow(req[o.by].tx, 0)'
      <4>1. OrderOf(r).by = r
        BY DEF OrderOf
      <4>2. pc[r] = "add" => Inflow(req[r].tx, 0)
        BY DEF PaidInv, VerifiedStages, LockedStages
      <4> QED BY <2>1, <3>1, <3>2, <4>1, <4>2, VerifiedFirst DEF PaidInv, PaidOnChain
    <3>7. (\A j \in Intents : intent[j].txHash # NoTx => Inflow(intent[j].txHash, 0))'
      <4>1. \A j \in Intents \ {i} : intent'[j].txHash = intent[j].txHash
        BY <2>1, OwnStep
      <4>2. pc[r] = "payer" => Inflow(req[r].tx, 0)
        BY DEF PaidInv, VerifiedStages, LockedStages
      <4> QED BY <2>1, <3>2, <3>3, <4>1, <4>2, VerifiedFirst DEF PaidInv, PaidOnChain
    <3> QED BY <3>5, <3>6, <3>7 DEF PaidInv, PaidOnChain
  <2>2. CASE OutsideStep
    <3>1. UNCHANGED <<pc, req, jobs>> /\ finalized \subseteq finalized'
      BY <2>2, OutsideFrame
    <3>2. \A t, n : Inflow(t, n) => Inflow(t, n)'
      BY <3>1 DEF Inflow
    <3>3. \A j \in Intents : intent'[j].txHash = intent[j].txHash
      BY <2>2, OutsideHash
    <3> QED BY <3>1, <3>2, <3>3 DEF PaidInv, PaidOnChain
  <2>3. CASE Restart
    <3>1. \A q \in Requests : pc'[q] \in VerifiedStages => pc[q] \in VerifiedStages
      BY <2>3 DEF Restart, VerifiedStages, LockedStages, Stages
    <3>2. UNCHANGED <<intent, req, jobs, finalized>>
      BY <2>3 DEF Restart, disk
    <3> QED BY <3>1, <3>2 DEF PaidInv, PaidOnChain, Inflow
  <2>4. CASE UNCHANGED vars
    BY <2>4 DEF vars, env, handler, disk, PaidInv, PaidOnChain, Inflow
  <2> QED BY <2>1, <2>2, <2>3, <2>4, StepCases
<1>3. PaidInv => PaidOnChain
  BY DEF PaidInv
<1> QED
  BY <1>1, <1>2, <1>3, TypeCorrect, PTL DEF Spec

-----------------------------------------------------------------------------
(***************************************************************************)
(* One order per intent.                                                   *)
(***************************************************************************)

\* The statuses from which a confirm request may still proceed, or that may
\* become one of them.
Open == {"ABSENT", "CREATED", "AUTHORIZATION_REQUESTED"}

BeforeJob == {"risk", "verify", "payer", "authSync", "add"}
Authorized == {"authSync", "add", "row", "queuedSync", "failSync", "unheardSync"}
AfterJob ==
    {"row", "queuedSync", "failSync", "unheardSync", "queued", "settlement_failed",
     "failed_unheard", "lost"}

\* Requests of one intent are handled one after the other.
OneAtATime ==
    \A r, q \in Requests :
        /\ pc[r] \in Stages /\ pc[q] \in Stages
        /\ req[r].intent = req[q].intent
        => r = q

\* An intent being built for was not confirmed yet.
BuildsFirst ==
    \A b \in builds, r \in Requests :
        req[r].intent = b.intent => pc[r] \in {"idle", "not_found"}

\* An order was placed by a request of its intent, which went on from there,
\* and its intent left the open statuses for good.
JobsSpent ==
    \A o \in jobs :
        /\ o.intent = req[o.by].intent
        /\ pc[o.by] \in AfterJob
        /\ intent[o.intent].status \notin Open

\* A request that may still place an order finds none.
NoJobYet ==
    \A r \in Requests : pc[r] \in BeforeJob =>
        \A o \in jobs : o.intent # req[r].intent

\* From its authorisation to its answer a request keeps its intent closed.
KeptClosed ==
    \A r \in Requests : pc[r] \in Authorized => intent[req[r].intent].status \notin Open

OnceInv ==
    OneAtATime /\ BuildsFirst /\ JobsSpent /\ NoJobYet /\ KeptClosed /\ JobOncePerIntent

\* How a request's own step moves it.
LEMMA OwnMoves ==
    ASSUME TypeOK, NEW r \in Requests, Call(r) \/ HandlerStep(r)
    PROVE  /\ pc[r] \in Stages \/ (pc[r] = "idle" /\ MayCall(r))
           /\ pc[r] \in AfterJob => pc'[r] \in AfterJob
           /\ pc'[r] \in BeforeJob =>
                  pc[r] \in BeforeJob
                  \/ (pc[r] = "idle" /\ intent[req[r].intent].status \in Open)
           /\ pc'[r] \in Authorized => pc[r] \in Authorized \cup {"payer"}
           /\ jobs' # jobs => pc[r] = "add" /\ pc'[r] = "row"
<1> USE DEF TypeOK, Goto
<1>1. CASE Reject(r)
  <2>1. pc'[r] \in Answers \ {"queued", "settlement_failed", "failed_unheard", "lost"}
    BY <1>1 DEF Reject, EarlyReply, Answers
  <2>2. pc[r] = "idle" /\ MayCall(r) /\ jobs' = jobs
    BY <1>1 DEF Reject, MayCall, disk
  <2> QED BY <2>1, <2>2 DEF BeforeJob, AfterJob, Authorized, Answers
<1>2. CASE Assess(r) \/ SkipRisk(r)
  <2>1. pc[r] = "idle" /\ MayCall(r) /\ jobs' = jobs /\ pc'[r] \in {"risk", "verify"}
    BY <1>2 DEF Assess, SkipRisk, BeginVerify, MayCall, disk
  <2>2. intent[req[r].intent].status \in Open
    BY <1>2 DEF Assess, SkipRisk, EarlyReply, Open
  <2> QED BY <2>1, <2>2 DEF BeforeJob, AfterJob, Authorized
<1>3. CASE RiskPass(r) \/ VerifyOk(r)
  <2>1. pc[r] \in {"risk", "verify"} /\ jobs' = jobs /\ pc'[r] \in {"verify", "payer"}
    BY <1>3 DEF RiskPass, VerifyOk, Verified, BeginVerify, disk
  <2> QED BY <2>1 DEF BeforeJob, AfterJob, Authorized, Stages, LockedStages
<1>4. CASE RiskBlock(r) \/ VerifyFail(r) \/ PayerMismatch(r)
  <2>1. pc[r] \in {"risk", "verify", "payer"} /\ jobs' = jobs
        /\ pc'[r] \in {"risk_blocked", "unverified", "payer_mismatch"}
    BY <1>4 DEF RiskBlock, VerifyFail, PayerMismatch, disk
  <2> QED BY <2>1 DEF BeforeJob, AfterJob, Authorized, Stages, LockedStages
<1>5. CASE Authorize(r) \/ AwaitSettlement(r)
  <2>1. pc[r] \in {"payer", "authSync"} /\ jobs' = jobs /\ pc'[r] \in {"authSync", "add"}
    BY <1>5 DEF Authorize, AuthorizeAs, AwaitSettlement, Awaiting, disk
  <2> QED BY <2>1 DEF BeforeJob, AfterJob, Authorized, Stages, LockedStages
<1>6. CASE AddJob(r)
  <2>1. pc[r] = "add" /\ pc'[r] = "row"
    BY <1>6 DEF AddJob
  <2> QED BY <2>1 DEF BeforeJob, AfterJob, Authorized, Stages, LockedStages
<1>7. CASE CreateRow(r) \/ EnqueueFail(r) \/ Finish(r)
  <2>1. /\ pc[r] \in {"add", "row", "queuedSync", "failSync", "unheardSync"}
        /\ pc'[r] \in {"queuedSync", "failSync", "unheardSync", "queued", "settlement_failed",
                       "failed_unheard"}
        /\ jobs' = jobs
    BY <1>7 DEF CreateRow, EnqueueFail, Refused, RowUnheard, FailWith, Finish, disk
  <2> QED BY <2>1 DEF BeforeJob, AfterJob, Authorized, Stages, LockedStages
<1> QED
  BY <1>1, <1>2, <1>3, <1>4, <1>5, <1>6, <1>7 DEF Call, HandlerStep

\* A request's own step never reopens its intent, and closes it when it
\* authorises.
LEMMA OwnStatus ==
    ASSUME TypeOK, NEW r \in Requests, Call(r) \/ HandlerStep(r)
    PROVE  /\ intent'[req[r].intent].status \in Open =>
                  intent[req[r].intent].status \in Open
           /\ pc'[r] = "authSync" => intent'[req[r].intent].status \notin Open
<1>0. req[r].intent \in Intents /\ intent[req[r].intent] \in IntentObject
  BY DEF TypeOK, Request
<1> USE <1>0 DEF TypeOK, SetIntent, Goto, IntentObject
<1>1. CASE Authorize(r)
  BY <1>1 DEF Authorize, AuthorizeAs, AuthorizedBy, Open
<1>2. CASE AwaitSettlement(r)
  BY <1>2 DEF AwaitSettlement, Awaiting, Open
<1>3. CASE CreateRow(r)
  BY <1>3 DEF CreateRow, Open
<1>4. CASE EnqueueFail(r)
  BY <1>4 DEF EnqueueFail, Refused, RowUnheard, FailWith, Failed, Open
<1>5. CASE VerifyOk(r)
  BY <1>5 DEF VerifyOk, Verified
<1>6. CASE Reject(r)
  BY <1>6 DEF Reject, EarlyReply
<1>7. CASE Assess(r) \/ SkipRisk(r) \/ RiskBlock(r) \/ RiskPass(r) \/ VerifyFail(r)
           \/ PayerMismatch(r) \/ AddJob(r) \/ Finish(r)
  BY <1>7 DEF Assess, SkipRisk, BeginVerify, RiskBlock, RiskPass, VerifyFail,
              PayerMismatch, AddJob, Finish
<1> QED
  BY <1>1, <1>2, <1>3, <1>4, <1>5, <1>6, <1>7 DEF Call, HandlerStep

\* An outside step reopens an intent only when it was being built for.
LEMMA OutsideStatus ==
    ASSUME TypeOK, OutsideStep
    PROVE  \A i \in Intents : intent'[i].status \in Open =>
               intent[i].status \in Open \/ \E b \in builds : b.intent = i
<1> DEFINE Kept == \A i \in Intents : intent'[i].status \in Open =>
                       intent[i].status \in Open \/ \E b \in builds : b.intent = i
<1> USE DEF TypeOK, IntentObject, SetIntent
<1>1. ASSUME NEW i \in Intents, Create(i) PROVE Kept
  BY <1>1 DEF Create, Open
<1>2. ASSUME NEW i \in Intents, NEW w \in Wallets, BuildStart(i, w) PROVE Kept
  BY <1>2 DEF BuildStart
<1>3. ASSUME NEW b \in builds, BuildStep(b) PROVE Kept
  <2>1. b.intent \in Intents
    BY DEF Build
  <2>2. \A i \in Intents \ {b.intent} : intent'[i] = intent[i]
    BY <1>3, <2>1 DEF BuildStep, BuildQuoted, BuildDone, BuildFail
  <2> QED BY <2>1, <2>2
<1>4. ASSUME NEW t \in Txs, Finalize(t) PROVE Kept
  BY <1>4 DEF Finalize
<1>5. ASSUME NEW i \in Intents, NEW s \in {"COMPLETED", "FAILED"}, PartnerWebhook(i, s)
      PROVE  Kept
  BY <1>5 DEF PartnerWebhook, Open
<1>6. ASSUME NEW i \in Intents, HeliusWebhook(i) PROVE Kept
  BY <1>6 DEF HeliusWebhook, Open
<1>7. ASSUME NEW S \in SUBSET Intents, Timer(S) PROVE Kept
  <2>1. CASE Reconcile(S)
    <3>1. \A i \in S : intent'[i].status = "FAILED"
      BY <2>1 DEF Reconcile
    <3>2. \A i \in Intents \ S : intent'[i] = intent[i]
      BY <2>1 DEF Reconcile
    <3> QED BY <3>1, <3>2 DEF Open
  <2>2. CASE Evict(S) \/ ExpireStale(S)
    BY <2>2 DEF Evict, ExpireStale
  <2> QED BY <1>7, <2>1, <2>2 DEF Timer
<1>8. ASSUME NEW w \in writes, DbStep(w) PROVE Kept
  BY <1>8 DEF DbStep, ExecWrite, DropWrite
<1>9. ASSUME Restore PROVE Kept
  <2>1. intent' = intent /\ live' = live
    BY <1>9, NothingRestored
  <2> QED BY <2>1
<1> QED
  BY <1>1, <1>2, <1>3, <1>4, <1>5, <1>6, <1>7, <1>8, <1>9 DEF OutsideStep

\* A build under way was under way before, or began before any confirmation.
LEMMA OutsideBuilds ==
    ASSUME TypeOK, OutsideStep, BuildThenConfirm
    PROVE  \A b \in builds' :
               \/ \E c \in builds : c.intent = b.intent
               \/ \A r \in Requests :
                      req[r].intent = b.intent => pc[r] \in {"idle", "not_found"}
<1> DEFINE Known(b) ==
               \/ \E c \in builds : c.intent = b.intent
               \/ \A r \in Requests :
                      req[r].intent = b.intent => pc[r] \in {"idle", "not_found"}
<1>1. ASSUME NEW i \in Intents, NEW w \in Wallets, BuildStart(i, w)
      PROVE  \A b \in builds' : Known(b)
  BY <1>1 DEF BuildStart
<1>2. ASSUME NEW b \in builds, BuildStep(b) PROVE \A c \in builds' : Known(c)
  <2>1. [b EXCEPT !.at = "swap"].intent = b.intent
    BY DEF TypeOK, Build
  <2>2. \A c \in builds' : c \in builds \/ c = [b EXCEPT !.at = "swap"]
    BY <1>2 DEF BuildStep, BuildQuoted, BuildDone, BuildFail
  <2> QED BY <2>1, <2>2
<1>3. CASE ~(\E b \in builds : BuildStep(b))
           /\ ~(\E i \in Intents, w \in Wallets : BuildStart(i, w))
  <2>1. builds' = builds
    BY <1>3 DEF OutsideStep, Create, Finalize, PartnerWebhook, HeliusWebhook, Timer,
                Reconcile, Evict, ExpireStale, DbStep, ExecWrite, DropWrite, Restore, env
  <2> QED BY <2>1
<1> QED
  BY <1>1, <1>2, <1>3

LEMMA OnceInductive ==
    ASSUME OneCallPerIntent, BuildThenConfirm, TypeOK, OnceInv, [Next]_vars
    PROVE  OnceInv'
<1> USE DEF OnceInv
<1>1. ASSUME NEW r \in Requests, Call(r) \/ HandlerStep(r) PROVE OnceInv'
  <2> DEFINE i == req[r].intent
  <2>1. /\ UNCHANGED <<req, builds>>
        /\ \A q \in Requests \ {r} : pc'[q] = pc[q]
        /\ \A j \in Intents \ {i} : intent'[j] = intent[j]
    BY <1>1, OwnStep DEF env
  <2>2. /\ pc[r] \in Stages \/ (pc[r] = "idle" /\ MayCall(r))
        /\ pc[r] \in AfterJob => pc'[r] \in AfterJob
        /\ pc'[r] \in BeforeJob =>
               pc[r] \in BeforeJob \/ (pc[r] = "idle" /\ intent[i].status \in Open)
        /\ pc'[r] \in Authorized => pc[r] \in Authorized \cup {"payer"}
        /\ jobs' # jobs => pc[r] = "add" /\ pc'[r] = "row"
    BY <1>1, OwnMoves
  <2>3. /\ intent'[i].status \in Open => intent[i].status \in Open
        /\ pc'[r] = "authSync" => intent'[i].status \notin Open
    BY <1>1, OwnStatus
  <2>4. jobs' = jobs \/ (jobs' = jobs \cup {OrderOf(r)} /\ pc[r] = "add")
    BY <1>1, VerifiedFirst
  <2>5. i \in Intents /\ \A q \in Requests : req[q].intent \in Intents
    BY DEF TypeOK, Request
  <2>6. OneAtATime'
    <3>1. pc[r] \in Stages =>
              \A q \in Requests : pc[q] \in Stages /\ req[q].intent = i => q = r
      BY DEF OneAtATime
    <3>2. MayCall(r) => \A q \in Requests : pc[q] \in Stages => req[q].intent # i
      BY DEF MayCall
    <3> QED BY <2>1, <2>2, <3>1, <3>2 DEF OneAtATime
  <2>7. BuildsFirst'
    <3>1. \A b \in builds : b.intent # i
      BY <2>2 DEF BuildsFirst, MayCall, Stages, LockedStages
    <3> QED BY <2>1, <3>1 DEF BuildsFirst
  <2>8. JobsSpent'
    <3>1. ASSUME NEW o \in jobs
          PROVE  /\ o.intent = req'[o.by].intent
                 /\ pc'[o.by] \in AfterJob
                 /\ intent'[o.intent].status \notin Open
      <4>1. o.by \in Requests /\ o.intent \in Intents
        BY DEF TypeOK, Order
      <4>2. o.intent = req[o.by].intent /\ pc[o.by] \in AfterJob
            /\ intent[o.intent].status \notin Open
        BY DEF JobsSpent
      <4> QED BY <2>1, <2>2, <2>3, <4>1, <4>2
    <3>2. CASE jobs' = jobs
      BY <3>1, <3>2 DEF JobsSpent
    <3>3. CASE jobs' = jobs \cup {OrderOf(r)} /\ jobs' # jobs
      <4>1. pc[r] = "add" /\ pc'[r] = "row" /\ intent'[i].status \notin Open
        BY <2>2, <2>3, <3>3 DEF KeptClosed, Authorized
      <4>2. OrderOf(r).intent = i /\ OrderOf(r).by = r
        BY DEF OrderOf
      <4> QED BY <2>1, <3>1, <3>3, <4>1, <4>2 DEF JobsSpent, AfterJob
    <3> QED BY <2>4, <3>2, <3>3
  <2>9. NoJobYet'
    <3>1. pc'[r] \in BeforeJob => \A o \in jobs : o.intent # i
      BY <2>2 DEF NoJobYet, JobsSpent
    <3>2. CASE jobs' = jobs
      BY <2>1, <3>1, <3>2 DEF NoJobYet
    <3>3. CASE jobs' = jobs \cup {OrderOf(r)} /\ jobs' # jobs
      <4>1. pc[r] = "add" /\ pc'[r] = "row" /\ OrderOf(r).intent = i
        BY <2>2, <3>3 DEF OrderOf
      <4>2. \A q \in Requests \ {r} : pc[q] \in BeforeJob => req[q].intent # i
        BY <4>1 DEF OneAtATime, BeforeJob, Stages, LockedStages
      <4> QED BY <2>1, <3>3, <4>1, <4>2 DEF NoJobYet, BeforeJob
    <3> QED BY <2>4, <3>2, <3>3
  <2>10. KeptClosed'
    <3>1. ASSUME NEW q \in Requests, pc'[q] \in Authorized
          PROVE  intent'[req[q].intent].status \notin Open
      <4>1. CASE q = r
        <5>1. pc[r] = "payer" => pc'[r] = "authSync" \/ pc'[r] \notin Authorized
          BY <1>1 DEF Call, HandlerStep, Reject, Assess, SkipRisk, MayCall, RiskBlock,
                      RiskPass,
                      VerifyFail, VerifyOk, Verified, PayerMismatch, Authorize, AuthorizeAs,
                      AwaitSettlement, Awaiting, AddJob, CreateRow, EnqueueFail, Refused,
                      RowUnheard, FailWith, Finish, Goto,
                      TypeOK, Authorized
        <5> QED BY <2>2, <2>3, <3>1, <4>1, <5>1 DEF KeptClosed
      <4>2. CASE q # r
        BY <2>1, <2>3, <2>5, <3>1, <4>2 DEF KeptClosed
      <4> QED BY <4>1, <4>2
    <3> QED BY <2>1, <3>1 DEF KeptClosed
  <2>11. JobOncePerIntent'
    <3>1. CASE jobs' = jobs
      BY <3>1 DEF JobOncePerIntent
    <3>2. CASE jobs' = jobs \cup {OrderOf(r)} /\ pc[r] = "add"
      <4>1. \A o \in jobs : o.intent # OrderOf(r).intent
        BY <3>2 DEF NoJobYet, BeforeJob, OrderOf
      <4> QED BY <3>2, <4>1 DEF JobOncePerIntent
    <3> QED BY <2>4, <3>1, <3>2
  <2> QED BY <2>6, <2>7, <2>8, <2>9, <2>10, <2>11
<1>2. CASE OutsideStep
  <2>1. UNCHANGED <<pc, req, jobs>>
    BY <1>2, OutsideFrame
  <2>2. \A i \in Intents : intent'[i].status \in Open =>
            intent[i].status \in Open \/ \E b \in builds : b.intent = i
    BY <1>2, OutsideStatus
  <2>3. BuildsFirst'
    BY <1>2, <2>1, OutsideBuilds DEF BuildsFirst
  <2>4. JobsSpent'
    <3>1. ASSUME NEW o \in jobs PROVE intent'[o.intent].status \notin Open
      <4>1. o.by \in Requests /\ o.intent \in Intents
        BY DEF TypeOK, Order
      <4>2. ~ \E b \in builds : b.intent = o.intent
        BY <4>1 DEF JobsSpent, BuildsFirst, AfterJob
      <4> QED BY <2>2, <4>1, <4>2 DEF JobsSpent
    <3> QED BY <2>1, <3>1 DEF JobsSpent
  <2>5. KeptClosed'
    <3>1. ASSUME NEW r \in Requests, pc[r] \in Authorized
          PROVE  intent'[req[r].intent].status \notin Open
      <4>1. req[r].intent \in Intents
        BY DEF TypeOK, Request
      <4>2. ~ \E b \in builds : b.intent = req[r].intent
        BY <3>1 DEF BuildsFirst, Authorized
      <4> QED BY <2>2, <3>1, <4>1, <4>2 DEF KeptClosed
    <3> QED BY <2>1, <3>1 DEF KeptClosed
  <2> QED BY <2>1, <2>3, <2>4, <2>5 DEF OneAtATime, NoJobYet, JobOncePerIntent
<1>3. CASE Restart
  <2>1. UNCHANGED <<req, jobs, intent>> /\ builds' = {}
    BY <1>3 DEF Restart, disk
  <2>2. \A r \in Requests : pc'[r] = (IF pc[r] \in Stages THEN "lost" ELSE pc[r])
    BY <1>3 DEF Restart
  <2>3. \A r \in Requests : pc'[r] \notin Stages /\ (pc[r] \in AfterJob => pc'[r] \in AfterJob)
    BY <2>2 DEF Stages, LockedStages, AfterJob
  <2>4. JobsSpent'
    <3>1. \A o \in jobs : o.by \in Requests
      BY DEF TypeOK, Order
    <3> QED BY <2>1, <2>3, <3>1 DEF JobsSpent
  <2> QED BY <2>1, <2>3, <2>4 DEF OneAtATime, BuildsFirst, NoJobYet, KeptClosed,
             JobOncePerIntent, BeforeJob, Authorized, Stages, LockedStages
<1>4. CASE UNCHANGED vars
  BY <1>4 DEF vars, env, handler, disk, OneAtATime, BuildsFirst, JobsSpent, NoJobYet,
              KeptClosed, JobOncePerIntent
<1> QED
  BY <1>1, <1>2, <1>3, <1>4, StepCases

\* When callers wait for the answer of one confirm request of an intent before
\* they send the next (OneCallPerIntent), and nothing is built for an intent once
\* it was confirmed (BuildThenConfirm: a builder would reopen a settled intent),
\* no intent is handed to settlement twice: through every await, webhook, timer,
\* eviction, restart and failing write.
THEOREM OneOrderPerIntent ==
    ASSUME OneCallPerIntent, BuildThenConfirm PROVE Spec => []JobOncePerIntent
<1>1. Init => OnceInv
  BY DEF Init, OnceInv, OneAtATime, BuildsFirst, JobsSpent, NoJobYet, KeptClosed,
         JobOncePerIntent, Stages, LockedStages, BeforeJob, Authorized
<1>2. TypeOK /\ OnceInv /\ [Next]_vars => OnceInv'
  BY OnceInductive
<1>3. OnceInv => JobOncePerIntent
  BY DEF OnceInv
<1> QED
  BY <1>1, <1>2, <1>3, TypeCorrect, PTL DEF Spec

-----------------------------------------------------------------------------
(***************************************************************************)
(* One intent per transaction, and the ledger.  The memory of what was     *)
(* paid is the paymentIntents map, so nothing may remove from it.          *)
(***************************************************************************)
KeepsMemory == {"evict", "restart"} \cap Inputs = {}

Paid == Authorized \cup {"queued", "settlement_failed", "failed_unheard"}

\* Requests with the same transaction are handled one after the other.
TxAtATime ==
    \A r, q \in Requests :
        /\ pc[r] \in Stages /\ pc[q] \in Stages
        /\ req[r].tx = req[q].tx
        => r = q

\* The replay scan sees every intent that was paid.
ScanComplete ==
    /\ \A i \in Intents \ live : intent[i].txHash = NoTx
    /\ \A r \in Requests : pc[r] \in Stages => req[r].intent \in live

\* An intent that may still be confirmed was not paid; one that was paid was
\* paid through a request that got that far.
OpenUnpaid ==
    \A i \in Intents : intent[i].txHash # NoTx =>
        /\ intent[i].status \notin Open
        /\ \E r \in Requests : req[r].intent = i /\ pc[r] \in Paid

\* What the scan found stays true until the request authorises.
StillFresh ==
    \A r \in Requests : pc[r] \in {"risk", "verify", "payer"} =>
        /\ intent[req[r].intent].txHash = NoTx
        /\ \A j \in Intents : intent[j].txHash # req[r].tx

\* The intent keeps the transaction it was authorised with.
Claimed ==
    /\ \A r \in Requests : pc[r] \in Authorized => intent[req[r].intent].txHash = req[r].tx
    /\ \A o \in jobs : intent[o.intent].txHash = req[o.by].tx

OneIntentPerTx ==
    \A i, j \in Intents :
        intent[i].txHash = intent[j].txHash /\ i # j => intent[i].txHash = NoTx

ClaimInv ==
    TxAtATime /\ ScanComplete /\ OpenUnpaid /\ StillFresh /\ Claimed /\ OneIntentPerTx

paidWith == [i \in Intents |-> intent[i].txHash]

\* The one step that writes txHash.
LEMMA OwnClaim ==
    ASSUME TypeOK, NEW r \in Requests, Call(r) \/ HandlerStep(r)
    PROVE  \/ /\ intent'[req[r].intent].txHash = intent[req[r].intent].txHash
              /\ pc'[r] \in Authorized => pc[r] \in Authorized
           \/ /\ pc[r] = "payer" /\ pc'[r] = "authSync"
              /\ intent'[req[r].intent].txHash = req[r].tx
              /\ paidWith' = [paidWith EXCEPT ![req[r].intent] = req[r].tx]
              /\ jobs' = jobs
<1>0. req[r].intent \in Intents /\ intent[req[r].intent] \in IntentObject
  BY DEF TypeOK, Request
<1>1. CASE Authorize(r)
  <2>1. intent'[req[r].intent].txHash = req[r].tx
    BY <1>0, <1>1 DEF Authorize, AuthorizeAs, AuthorizedBy, SetIntent, TypeOK, IntentObject
  <2>2. \A i \in Intents \ {req[r].intent} : intent'[i] = intent[i]
    BY OwnStep
  <2>3. paidWith' = [paidWith EXCEPT ![req[r].intent] = req[r].tx]
    BY <1>0, <2>1, <2>2 DEF paidWith
  <2>4. pc[r] = "payer" /\ pc'[r] = "authSync" /\ jobs' = jobs
    BY <1>1 DEF Authorize, AuthorizeAs, Goto, TypeOK, disk
  <2> QED BY <2>1, <2>3, <2>4
<1>2. CASE ~Authorize(r)
  <2>1. intent'[req[r].intent].txHash = intent[req[r].intent].txHash
    <3>1. CASE VerifyOk(r)
      BY <1>0, <3>1 DEF VerifyOk, Verified, SetIntent, TypeOK, IntentObject
    <3>2. CASE AwaitSettlement(r)
      BY <1>0, <3>2 DEF AwaitSettlement, Awaiting, SetIntent, TypeOK, IntentObject
    <3>3. CASE CreateRow(r)
      BY <1>0, <3>3 DEF CreateRow, SetIntent, TypeOK, IntentObject
    <3>4. CASE EnqueueFail(r)
      BY <1>0, <3>4 DEF EnqueueFail, Refused, RowUnheard, FailWith, Failed, SetIntent,
                        TypeOK, IntentObject
    <3>5. CASE ~(VerifyOk(r) \/ AwaitSettlement(r) \/ CreateRow(r) \/ EnqueueFail(r))
      BY <1>2, <3>5 DEF Call, HandlerStep, Reject, Assess, SkipRisk, RiskBlock, RiskPass,
                        BeginVerify, VerifyFail, PayerMismatch, AddJob, Finish
    <3> QED BY <3>1, <3>2, <3>3, <3>4, <3>5
  <2>2. pc'[r] \in Authorized => pc[r] \in Authorized \cup {"payer"}
    BY OwnMoves
  <2>3. pc[r] = "payer" => pc'[r] \notin Authorized
    BY <1>2 DEF Call, HandlerStep, Reject, Assess, SkipRisk, MayCall, RiskBlock, RiskPass,
                VerifyFail, VerifyOk, Verified, PayerMismatch, AwaitSettlement, Awaiting,
                AddJob, CreateRow, EnqueueFail, Refused, RowUnheard, FailWith, Finish,
                Goto, TypeOK, Authorized
  <2> QED BY <2>1, <2>2, <2>3
<1> QED
  BY <1>1, <1>2

\* A request is past its authorisation only by way of it.
LEMMA PaidFrom ==
    ASSUME TypeOK, NEW r \in Requests, Call(r) \/ HandlerStep(r), pc'[r] \in Paid
    PROVE  pc[r] \in Authorized \/ (pc[r] = "payer" /\ pc'[r] = "authSync")
<1> USE DEF TypeOK, Goto
<1>1. CASE Reject(r)
  <2>1. pc'[r] \in Answers \ {"queued", "settlement_failed", "failed_unheard", "lost"}
    BY <1>1 DEF Reject, EarlyReply, Answers
  <2> QED BY <2>1 DEF Answers, Paid, Authorized
<1>2. CASE Assess(r) \/ SkipRisk(r) \/ RiskPass(r) \/ VerifyOk(r) \/ RiskBlock(r)
           \/ VerifyFail(r) \/ PayerMismatch(r)
  <2>1. pc'[r] \in {"risk", "verify", "payer", "risk_blocked", "unverified", "payer_mismatch"}
    BY <1>2 DEF Assess, SkipRisk, BeginVerify, MayCall, RiskPass, VerifyOk, Verified,
                RiskBlock, VerifyFail, PayerMismatch
  <2> QED BY <2>1 DEF Paid, Authorized
<1>3. CASE Authorize(r)
  BY <1>3 DEF Authorize, AuthorizeAs
<1>4. CASE AwaitSettlement(r) \/ AddJob(r) \/ CreateRow(r) \/ EnqueueFail(r) \/ Finish(r)
  <2>1. pc[r] \in {"authSync", "add", "row", "queuedSync", "failSync", "unheardSync"}
    BY <1>4 DEF AwaitSettlement, Awaiting, AddJob, CreateRow, EnqueueFail, Refused,
                RowUnheard,
                Finish
  <2> QED BY <2>1 DEF Authorized
<1> QED
  BY <1>1, <1>2, <1>3, <1>4 DEF Call, HandlerStep

\* Where a request may come from.
LEMMA OwnSource ==
    ASSUME TypeOK, NEW r \in Requests, Call(r) \/ HandlerStep(r)
    PROVE  LET reply == EarlyReply(req[r].intent, req[r].tx) IN
           /\ pc'[r] \in Stages => pc[r] \in Stages \/ reply = "none"
           /\ pc'[r] \in {"risk", "verify", "payer"} =>
                  pc[r] \in {"risk", "verify"} \/ reply = "none"
           /\ pc[r] \in Authorized => pc'[r] \in Paid
<1> USE DEF TypeOK, Goto
<1>1. CASE Reject(r)
  <2>1. pc'[r] \in Answers /\ pc[r] = "idle"
    BY <1>1 DEF Reject, EarlyReply, Answers, MayCall
  <2> QED BY <2>1 DEF Answers, Stages, LockedStages, Authorized
<1>2. CASE Assess(r) \/ SkipRisk(r)
  <2>1. EarlyReply(req[r].intent, req[r].tx) = "none" /\ pc[r] = "idle"
    BY <1>2 DEF Assess, SkipRisk, MayCall
  <2> QED BY <2>1 DEF Authorized
<1>3. CASE RiskPass(r) \/ VerifyOk(r)
  <2>1. pc[r] \in {"risk", "verify"}
    BY <1>3 DEF RiskPass, VerifyOk, Verified
  <2> QED BY <2>1 DEF Stages, LockedStages, Authorized
<1>4. CASE RiskBlock(r) \/ VerifyFail(r) \/ PayerMismatch(r)
  <2>1. pc[r] \in {"risk", "verify", "payer"}
        /\ pc'[r] \in {"risk_blocked", "unverified", "payer_mismatch"}
    BY <1>4 DEF RiskBlock, VerifyFail, PayerMismatch
  <2> QED BY <2>1 DEF Stages, LockedStages, Authorized
<1>5. CASE Authorize(r) \/ AwaitSettlement(r) \/ AddJob(r) \/ CreateRow(r) \/ EnqueueFail(r)
           \/ Finish(r)
  <2>1. /\ pc[r] \in {"payer", "authSync", "add", "row", "queuedSync", "failSync",
                      "unheardSync"}
        /\ pc'[r] \in {"authSync", "add", "row", "queuedSync", "failSync", "unheardSync",
                       "queued", "settlement_failed", "failed_unheard"}
    BY <1>5 DEF Authorize, AuthorizeAs, AwaitSettlement, Awaiting, AddJob, CreateRow,
                EnqueueFail, Refused, RowUnheard, FailWith, Finish
  <2> QED BY <2>1 DEF Stages, LockedStages, Authorized, Paid
<1> QED
  BY <1>1, <1>2, <1>3, <1>4, <1>5 DEF Call, HandlerStep

LEMMA ClaimInductive ==
    ASSUME OneCallPerIntent, OneCallPerTx, BuildThenConfirm, KeepsMemory,
           TypeOK, OnceInv, ClaimInv, [Next]_vars
    PROVE  ClaimInv'
<1> USE DEF ClaimInv
<1>0. \A r \in Requests : req[r].intent \in Intents /\ req[r].tx \in Txs
  BY DEF TypeOK, Request
<1>1. ASSUME NEW r \in Requests, Call(r) \/ HandlerStep(r) PROVE ClaimInv'
  <2> DEFINE i == req[r].intent
             t == req[r].tx
  <2>1. /\ UNCHANGED <<req, builds, live>>
        /\ \A q \in Requests \ {r} : pc'[q] = pc[q]
        /\ \A j \in Intents \ {i} : intent'[j] = intent[j]
    BY <1>1, OwnStep DEF env
  <2>2. /\ pc[r] \in Stages \/ (pc[r] = "idle" /\ MayCall(r))
        /\ jobs' = jobs \/ (jobs' = jobs \cup {OrderOf(r)} /\ pc[r] = "add")
    BY <1>1, OwnMoves, VerifiedFirst
  <2>3. /\ intent'[i].status \in Open => intent[i].status \in Open
        /\ pc'[r] = "authSync" => intent'[i].status \notin Open
    BY <1>1, OwnStatus
  <2>4. \/ /\ intent'[i].txHash = intent[i].txHash
           /\ pc'[r] \in Authorized => pc[r] \in Authorized
        \/ /\ pc[r] = "payer" /\ pc'[r] = "authSync"
           /\ intent'[i].txHash = t
           /\ jobs' = jobs
    BY <1>1, OwnClaim
  <2>5. i \in Intents /\ t \in Txs /\ t # NoTx
    BY <1>0, NullAssumption
  <2>6. /\ pc'[r] \in Stages => pc[r] \in Stages \/ EarlyReply(i, t) = "none"
        /\ pc'[r] \in {"risk", "verify", "payer"} =>
               pc[r] \in {"risk", "verify"} \/ EarlyReply(i, t) = "none"
        /\ pc[r] \in Authorized => pc'[r] \in Paid
    BY <1>1, OwnSource
  <2>7. EarlyReply(i, t) = "none" =>
            /\ i \in live /\ intent[i].status \in Open
            /\ \A j \in live : intent[j].txHash # t
    BY DEF EarlyReply, Open
  <2>8. TxAtATime'
    <3>1. pc[r] \in Stages =>
              \A q \in Requests : pc[q] \in Stages /\ req[q].tx = t => q = r
      BY DEF TxAtATime
    <3>2. MayCall(r) =>
              \A q \in Requests : pc[q] \in Stages => req[q].tx # t
      BY DEF MayCall
    <3> QED BY <2>1, <2>2, <3>1, <3>2 DEF TxAtATime
  <2>9. ScanComplete'
    <3>1. pc'[r] \in Stages => i \in live
      BY <2>6, <2>7 DEF ScanComplete
    <3>2. i \notin live => intent'[i].txHash = NoTx
      BY <2>4, <2>5 DEF ScanComplete, Stages, LockedStages
    <3> QED BY <2>1, <3>1, <3>2 DEF ScanComplete
  <2>10. OpenUnpaid'
    <3>1. pc[r] \in Paid /\ pc[r] \in Stages => pc'[r] \in Paid
      BY <2>6 DEF Paid, Stages, LockedStages
    <3>2. \A q \in Requests : pc[q] \in Paid => pc'[q] \in Paid
      BY <2>1, <2>2, <3>1 DEF Paid, Authorized
    <3>3. ASSUME NEW j \in Intents, intent'[j].txHash # NoTx
          PROVE  /\ intent'[j].status \notin Open
                 /\ \E q \in Requests : req[q].intent = j /\ pc'[q] \in Paid
      <4>1. CASE intent'[j].txHash = intent[j].txHash
        BY <2>1, <2>3, <3>2, <3>3, <4>1 DEF OpenUnpaid
      <4>2. CASE intent'[j].txHash # intent[j].txHash
        BY <2>1, <2>3, <2>4, <4>2 DEF Paid, Authorized
      <4> QED BY <4>1, <4>2
    <3> QED BY <2>1, <3>3 DEF OpenUnpaid
  <2>11. StillFresh'
    <3>1. ASSUME NEW q \in Requests, pc'[q] \in {"risk", "verify", "payer"}
          PROVE  /\ intent[req[q].intent].txHash = NoTx
                 /\ \A j \in Intents : intent[j].txHash # req[q].tx
      <4>1. CASE q # r
        BY <2>1, <3>1, <4>1 DEF StillFresh
      <4>2. CASE q = r
        <5>1. EarlyReply(i, t) = "none" =>
                  intent[i].txHash = NoTx /\ \A j \in Intents : intent[j].txHash # t
          BY <2>5, <2>7 DEF OpenUnpaid, ScanComplete
        <5> QED BY <2>6, <3>1, <4>2, <5>1 DEF StillFresh
      <4> QED BY <4>1, <4>2
    <3>2. CASE intent'[i].txHash = intent[i].txHash
      <4>1. \A j \in Intents : intent'[j].txHash = intent[j].txHash
        BY <2>1, <3>2
      <4> QED BY <1>0, <2>1, <3>1, <4>1 DEF StillFresh
    <3>3. CASE pc[r] = "payer" /\ pc'[r] = "authSync" /\ intent'[i].txHash = t
      <4>1. \A q \in Requests \ {r} : pc[q] \in {"risk", "verify", "payer"} =>
                req[q].intent # i /\ req[q].tx # t
        BY <3>3 DEF OneAtATime, OnceInv, TxAtATime, Stages, LockedStages
      <4>2. \A q \in Requests : pc'[q] \in {"risk", "verify", "payer"} => q # r
        BY <3>3
      <4> QED BY <1>0, <2>1, <3>1, <3>3, <4>1, <4>2 DEF StillFresh
    <3> QED BY <2>4, <3>2, <3>3
  <2>12. Claimed'
    <3>1. ASSUME NEW q \in Requests, pc'[q] \in Authorized
          PROVE  intent'[req[q].intent].txHash = req[q].tx
      <4>1. CASE q = r
        BY <2>4, <3>1, <4>1 DEF Claimed
      <4>2. CASE q # r
        <5>1. pc[q] \in Authorized /\ intent[req[q].intent].txHash = req[q].tx
          BY <2>1, <3>1, <4>2 DEF Claimed
        <5>2. pc[r] = "payer" => req[q].intent # i
          BY <4>2, <5>1 DEF OneAtATime, OnceInv, Stages, LockedStages, Authorized
        <5> QED BY <1>0, <2>1, <2>4, <5>1, <5>2
      <4> QED BY <4>1, <4>2
    <3>2. ASSUME NEW o \in jobs PROVE intent'[o.intent].txHash = req[o.by].tx
      <4>1. o.intent \in Intents /\ intent[o.intent].txHash = req[o.by].tx
        BY DEF TypeOK, Order, Claimed
      <4>2. pc[r] = "payer" => o.intent # i
        BY DEF NoJobYet, OnceInv, BeforeJob
      <4> QED BY <2>1, <2>4, <4>1, <4>2
    <3>3. pc[r] = "add" => intent'[i].txHash = t
      BY <2>4 DEF Claimed, Authorized
    <3>4. \A o \in jobs' : intent'[o.intent].txHash = req[o.by].tx
      BY <2>2, <3>2, <3>3 DEF OrderOf
    <3> QED BY <2>1, <3>1, <3>4 DEF Claimed
  <2>13. OneIntentPerTx'
    <3>1. CASE intent'[i].txHash = intent[i].txHash
      <4>1. \A j \in Intents : intent'[j].txHash = intent[j].txHash
        BY <2>1, <3>1
      <4> QED BY <4>1 DEF OneIntentPerTx
    <3>2. CASE pc[r] = "payer" /\ intent'[i].txHash = t
      <4>1. \A j \in Intents : intent[j].txHash # t
        BY <3>2 DEF StillFresh
      <4> QED BY <2>1, <3>2, <4>1 DEF OneIntentPerTx
    <3> QED BY <2>4, <3>1, <3>2
  <2> QED BY <2>8, <2>9, <2>10, <2>11, <2>12, <2>13
<1>2. CASE OutsideStep
  <2>1. UNCHANGED <<pc, req, jobs>>
    BY <1>2, OutsideFrame
  <2>2. \A i \in Intents : intent'[i].txHash = intent[i].txHash
    BY <1>2, OutsideHash
  <2>3. live \subseteq live'
    <3>1. ~ \E S \in SUBSET Intents : Evict(S)
      BY DEF Evict, KeepsMemory
    <3>2. CASE \E b \in builds : BuildStep(b)
      BY <3>2 DEF BuildStep, BuildQuoted, BuildDone, BuildFail
    <3>3. CASE \E w \in writes : DbStep(w)
      BY <3>3 DEF DbStep, ExecWrite, DropWrite, env
    <3>4. CASE \E S \in SUBSET Intents : Timer(S)
      BY <3>1, <3>4 DEF Timer, Reconcile, ExpireStale, env
    <3> QED BY <1>2, <3>2, <3>3, <3>4 DEF OutsideStep, Create, BuildStart, Finalize,
               PartnerWebhook, HeliusWebhook, Restore, env
  <2>4. \A i \in Intents : intent'[i].status \in Open =>
            intent[i].status \in Open \/ \E b \in builds : b.intent = i
    BY <1>2, OutsideStatus
  <2>5. OpenUnpaid'
    <3>1. \A i \in Intents : intent[i].txHash # NoTx => ~ \E b \in builds : b.intent = i
      BY DEF OpenUnpaid, OnceInv, BuildsFirst, Paid, Authorized
    <3> QED BY <2>1, <2>2, <2>4, <3>1 DEF OpenUnpaid
  <2>6. Claimed'
    <3>1. \A o \in jobs : o.intent \in Intents
      BY DEF TypeOK, Order
    <3> QED BY <1>0, <2>1, <2>2, <3>1 DEF Claimed
  <2> QED BY <1>0, <2>1, <2>2, <2>3, <2>5, <2>6
          DEF TxAtATime, ScanComplete, StillFresh, OneIntentPerTx
<1>3. CASE Restart
  BY <1>3 DEF Restart, KeepsMemory
<1>4. CASE UNCHANGED vars
  BY <1>4 DEF vars, env, handler, disk, TxAtATime, ScanComplete, OpenUnpaid, StillFresh,
              Claimed, OneIntentPerTx
<1> QED
  BY <1>1, <1>2, <1>3, <1>4, StepCases

LEMMA ClaimStarts == Init => ClaimInv
BY DEF Init, Absent, ClaimInv, TxAtATime, ScanComplete, OpenUnpaid, StillFresh, Claimed,
       OneIntentPerTx, Stages, LockedStages, Authorized

\* When, besides, callers wait for the answer before they use a transaction
\* again, and the map loses nothing, a transaction pays for one intent only.
THEOREM OneIntentPerTransaction ==
    ASSUME OneCallPerIntent, OneCallPerTx, BuildThenConfirm, KeepsMemory
    PROVE  Spec => []TxFundsOneIntent
<1>1. Init => OnceInv /\ ClaimInv
  BY ClaimStarts DEF Init, OnceInv, OneAtATime, BuildsFirst, JobsSpent, NoJobYet,
     KeptClosed, JobOncePerIntent, Stages, LockedStages, BeforeJob, Authorized
<1>2. TypeOK /\ OnceInv /\ ClaimInv /\ [Next]_vars => OnceInv' /\ ClaimInv'
  BY OnceInductive, ClaimInductive
<1>3. TypeOK /\ ClaimInv => TxFundsOneIntent
  <2> SUFFICES ASSUME TypeOK, ClaimInv PROVE TxFundsOneIntent
    OBVIOUS
  <2>1. \A o \in jobs : /\ o.intent \in Intents
                        /\ req[o.by].tx \in Txs /\ req[o.by].tx # NoTx
                        /\ intent[o.intent].txHash = req[o.by].tx
    BY NullAssumption DEF TypeOK, Order, Request, ClaimInv, Claimed
  <2> QED BY <2>1 DEF ClaimInv, OneIntentPerTx, TxFundsOneIntent
<1> QED
  BY <1>1, <1>2, <1>3, TypeCorrect, PTL DEF Spec

\* A step of the pipeline is a step of the ledger, or none.
LEMMA StepImplements ==
    ASSUME OneCallPerIntent, OneCallPerTx, BuildThenConfirm, KeepsMemory,
           TypeOK, OnceInv, ClaimInv, [Next]_vars
    PROVE  Ledger!LedgerNext \/ UNCHANGED <<paidWith, jobs>>
<1>0. \A r \in Requests : req[r].intent \in Intents /\ req[r].tx \in Txs
  BY DEF TypeOK, Request
<1>1. ASSUME NEW r \in Requests, Call(r) \/ HandlerStep(r)
      PROVE  Ledger!LedgerNext \/ UNCHANGED <<paidWith, jobs>>
  <2> DEFINE i == req[r].intent
             t == req[r].tx
  <2>0. i \in Intents /\ t \in Txs
    BY <1>0
  <2>1. CASE /\ pc[r] = "payer"
             /\ paidWith' = [paidWith EXCEPT ![i] = t]
             /\ jobs' = jobs
    <3>1. paidWith[i] = NoTx /\ \A j \in Intents : paidWith[j] # t
      BY <2>0, <2>1 DEF ClaimInv, StillFresh, paidWith
    <3>2. \E s \in Txs : Ledger!Claim(i, s)
      BY <2>0, <2>1, <3>1 DEF Ledger!Claim, paidWith
    <3> QED BY <2>0, <3>2 DEF Ledger!LedgerNext
  <2>2. CASE intent'[i].txHash = intent[i].txHash
    <3>1. \A j \in Intents : intent'[j].txHash = intent[j].txHash
      BY <1>1, <2>2, OwnStep
    <3>2. paidWith' = paidWith
      BY <3>1 DEF paidWith
    <3>3. CASE jobs' = jobs \cup {OrderOf(r)} /\ pc[r] = "add"
      <4>1. paidWith[i] # NoTx
        BY <2>0, <3>3, NullAssumption DEF ClaimInv, Claimed, Authorized, paidWith
      <4>2. \A o \in jobs : o.intent # i
        BY <3>3 DEF OnceInv, NoJobYet, BeforeJob
      <4>3. Ledger!PlaceOrder(i, r)
        BY <3>2, <3>3, <4>1, <4>2 DEF Ledger!PlaceOrder, OrderOf, paidWith
      <4> QED BY <2>0, <4>3 DEF Ledger!LedgerNext
    <3> QED BY <1>1, <3>2, <3>3, OwnMoves, VerifiedFirst
  <2> QED BY <1>1, <2>1, <2>2, OwnClaim
<1>2. CASE OutsideStep
  <2>1. jobs' = jobs /\ \A j \in Intents : intent'[j].txHash = intent[j].txHash
    BY <1>2, OutsideFrame, OutsideHash
  <2> QED BY <2>1 DEF paidWith
<1>3. CASE Restart
  BY <1>3 DEF Restart, KeepsMemory
<1>4. CASE UNCHANGED vars
  BY <1>4 DEF vars, disk, paidWith
<1> QED
  BY <1>1, <1>2, <1>3, <1>4, StepCases

\* Under the same assumptions the pipeline implements the ledger.
THEOREM ImplementsLedger ==
    ASSUME OneCallPerIntent, OneCallPerTx, BuildThenConfirm, KeepsMemory
    PROVE  Spec => LedgerSpec
<1>1. Init => OnceInv /\ ClaimInv
  BY ClaimStarts DEF Init, OnceInv, OneAtATime, BuildsFirst, JobsSpent, NoJobYet,
     KeptClosed, JobOncePerIntent, Stages, LockedStages, BeforeJob, Authorized
<1>2. TypeOK /\ OnceInv /\ ClaimInv /\ [Next]_vars => OnceInv' /\ ClaimInv'
  BY OnceInductive, ClaimInductive
<1>3. Init => Ledger!LedgerInit
  BY DEF Init, Absent, Ledger!LedgerInit
<1>4. TypeOK /\ OnceInv /\ ClaimInv /\ [Next]_vars =>
          [Ledger!LedgerNext]_<<[i \in Intents |-> intent[i].txHash], jobs>>
  BY StepImplements DEF paidWith
<1> QED
  BY <1>1, <1>2, <1>3, <1>4, TypeCorrect, PTL DEF Spec, LedgerSpec, Ledger!LedgerSpec

-----------------------------------------------------------------------------
(***************************************************************************)
(* What is handed to settlement was covered.                               *)
(***************************************************************************)

\* What a request learns about the amount stays with it to the order.
CoverInv ==
    /\ \A i \in Intents : intent[i].expected \in {0, Due[i]}
    /\ \A r \in Requests : pc[r] = "risk" =>
           req[r].intent \in live /\ intent[req[r].intent].expected = Due[req[r].intent]
    /\ \A r \in Requests : pc[r] = "verify" => expected[r] = Due[req[r].intent]
    /\ \A r \in Requests : pc[r] \in VerifiedStages =>
           Delivered[req[r].tx] >= Due[req[r].intent]
    /\ JobCoversDue

\* How a request comes to the amount it will ask of the chain.
LEMMA OwnAmount ==
    ASSUME TypeOK, NEW r \in Requests, Call(r) \/ HandlerStep(r)
    PROVE  LET i == req[r].intent
               called == MayCall(r) /\ EarlyReply(i, req[r].tx) = "none" IN
           /\ intent'[i].expected = intent[i].expected
           /\ \A q \in Requests \ {r} : expected'[q] = expected[q]
           /\ pc'[r] = "risk" => called
           /\ pc'[r] = "verify" =>
                  /\ pc[r] = "risk" \/ called
                  /\ expected'[r] = IF i \in live THEN intent[i].expected ELSE 0
           /\ pc'[r] \in VerifiedStages =>
                  pc[r] \in VerifiedStages
                  \/ (pc[r] = "verify" /\ Inflow(req[r].tx, expected[r]))
<1> DEFINE i == req[r].intent
<1>0. i \in Intents /\ intent[i] \in IntentObject
  BY DEF TypeOK, Request
<1> USE DEF TypeOK, Goto
<1>1. CASE Reject(r)
  <2>1. pc'[r] \in Answers
    BY <1>1 DEF Reject, EarlyReply, Answers, MayCall
  <2> QED BY <1>1, <2>1 DEF Reject, Answers, VerifiedStages, LockedStages
<1>2. CASE Assess(r)
  BY <1>2 DEF Assess, VerifiedStages, LockedStages
<1>3. CASE SkipRisk(r) \/ RiskPass(r)
  BY <1>3 DEF SkipRisk, RiskPass, BeginVerify, VerifiedStages, LockedStages
<1>4. CASE RiskBlock(r) \/ VerifyFail(r) \/ PayerMismatch(r)
  BY <1>4 DEF RiskBlock, VerifyFail, PayerMismatch, VerifiedStages, LockedStages
<1>5. CASE VerifyOk(r)
  <2>1. intent'[i].expected = intent[i].expected
    BY <1>0, <1>5 DEF VerifyOk, Verified, SetIntent, IntentObject
  <2>2. UNCHANGED <<confirmLocks, writes>> /\ pc'[r] = "payer" /\ pc[r] = "verify"
        /\ Inflow(req[r].tx, expected[r])
        /\ \A q \in Requests \ {r} : expected'[q] = expected[q]
    BY <1>5 DEF VerifyOk, Verified
  <2> QED BY <2>1, <2>2
<1>6. CASE Authorize(r) \/ AwaitSettlement(r) \/ AddJob(r) \/ CreateRow(r) \/ EnqueueFail(r)
  <2>1. expected' = expected /\ pc[r] \in VerifiedStages /\ pc'[r] \notin {"risk", "verify"}
    BY <1>6 DEF Authorize, AuthorizeAs, AwaitSettlement, Awaiting, AddJob, CreateRow,
                EnqueueFail, Refused, RowUnheard, FailWith, VerifiedStages, LockedStages
  <2>2. intent'[i].expected = intent[i].expected
    <3>1. CASE Authorize(r)
      BY <1>0, <3>1 DEF Authorize, AuthorizeAs, AuthorizedBy, SetIntent, IntentObject
    <3>2. CASE AwaitSettlement(r)
      BY <1>0, <3>2 DEF AwaitSettlement, Awaiting, SetIntent, IntentObject
    <3>3. CASE AddJob(r)
      BY <3>3 DEF AddJob
    <3>4. CASE CreateRow(r)
      BY <1>0, <3>4 DEF CreateRow, SetIntent, IntentObject
    <3>5. CASE EnqueueFail(r)
      BY <1>0, <3>5 DEF EnqueueFail, Refused, RowUnheard, FailWith, Failed, SetIntent,
                        IntentObject
    <3> QED BY <1>6, <3>1, <3>2, <3>3, <3>4, <3>5
  <2> QED BY <2>1, <2>2
<1>7. CASE Finish(r)
  BY <1>7 DEF Finish, VerifiedStages, LockedStages
<1> QED
  BY <1>1, <1>2, <1>3, <1>4, <1>5, <1>6, <1>7 DEF Call, HandlerStep

\* Only the Solana Pay builder writes the amount, and what it writes is due;
\* without the GC nothing leaves the map.
LEMMA OutsideAmount ==
    ASSUME "evict" \notin Inputs, TypeOK, OutsideStep
    PROVE  /\ live \subseteq live'
           /\ \A i \in Intents : intent'[i].expected \in {intent[i].expected, Due[i]}
<1> DEFINE Kept == /\ live \subseteq live'
                   /\ \A j \in Intents : intent'[j].expected \in {intent[j].expected, Due[j]}
<1> USE DEF TypeOK, IntentObject, SetIntent
<1>1. ASSUME NEW i \in Intents, Create(i) PROVE Kept
  BY <1>1 DEF Create
<1>2. ASSUME NEW i \in Intents, NEW w \in Wallets, BuildStart(i, w) PROVE Kept
  BY <1>2 DEF BuildStart
<1>3. ASSUME NEW b \in builds, BuildStep(b) PROVE Kept
  <2>1. b.intent \in Intents
    BY DEF Build
  <2>2. CASE BuildQuoted(b)
    BY <2>1, <2>2 DEF BuildQuoted
  <2>3. CASE BuildDone(b)
    BY <2>1, <2>3 DEF BuildDone
  <2>4. CASE BuildFail(b)
    BY <2>4 DEF BuildFail
  <2> QED BY <1>3, <2>2, <2>3, <2>4 DEF BuildStep
<1>4. ASSUME NEW t \in Txs, Finalize(t) PROVE Kept
  BY <1>4 DEF Finalize
<1>5. ASSUME NEW i \in Intents, NEW s \in {"COMPLETED", "FAILED"}, PartnerWebhook(i, s)
      PROVE  Kept
  BY <1>5 DEF PartnerWebhook, env
<1>6. ASSUME NEW i \in Intents, HeliusWebhook(i) PROVE Kept
  BY <1>6 DEF HeliusWebhook, env
<1>7. ASSUME NEW S \in SUBSET Intents, Timer(S) PROVE Kept
  <2>1. CASE Reconcile(S)
    BY <2>1 DEF Reconcile, env
  <2>2. CASE ExpireStale(S)
    BY <2>2 DEF ExpireStale, env
  <2> QED BY <1>7, <2>1, <2>2 DEF Timer, Evict
<1>8. ASSUME NEW w \in writes, DbStep(w) PROVE Kept
  BY <1>8 DEF DbStep, ExecWrite, DropWrite, env
<1>9. ASSUME Restore PROVE Kept
  <2>1. intent' = intent /\ live' = live
    BY <1>9, NothingRestored
  <2> QED BY <2>1
<1> QED
  BY <1>1, <1>2, <1>3, <1>4, <1>5, <1>6, <1>7, <1>8, <1>9 DEF OutsideStep

\* When an intent is confirmed after its transaction was built, and the GC does
\* not take it from the map meanwhile, the transaction covers what is settled.
THEOREM OrdersCovered ==
    ASSUME BuildThenConfirm, "evict" \notin Inputs PROVE Spec => []JobCoversDue
<1>1. Init => CoverInv
  BY DEF Init, Absent, CoverInv, JobCoversDue, VerifiedStages, LockedStages
<1>2. ASSUME TypeOK, CoverInv, [Next]_vars PROVE CoverInv'
  <2> USE <1>2
  <2>0. /\ \A r \in Requests : req[r].intent \in Intents /\ req[r].tx \in Txs
        /\ \A i \in Intents : Due[i] \in Nat \ {0}
        /\ \A t \in Txs : Delivered[t] \in Nat
        /\ \A o \in jobs : o.intent \in Intents /\ o.by \in Requests
    BY DueAssumption, ChainAssumption DEF TypeOK, Request, Order
  <2>1. ASSUME NEW r \in Requests, Call(r) \/ HandlerStep(r) PROVE CoverInv'
    <3> DEFINE i == req[r].intent
               called == MayCall(r) /\ EarlyReply(i, req[r].tx) = "none"
    <3>1. /\ UNCHANGED <<req, live>>
          /\ \A q \in Requests \ {r} : pc'[q] = pc[q]
          /\ \A j \in Intents \ {i} : intent'[j] = intent[j]
      BY <2>1, OwnStep DEF env
    <3>2. \A j \in Intents : intent'[j].expected = intent[j].expected
      BY <2>1, <3>1, OwnAmount
    <3>3. called => i \in live /\ intent[i].expected = Due[i]
      <4>1. called => i \in live /\ intent[i].expected > 0
        BY DEF MayCall, EarlyReply
      <4> QED BY <2>0, <4>1 DEF CoverInv
    <3>4. \A q \in Requests : pc'[q] = "risk" => q \in Requests \ {r} \/ called
      BY <2>1, OwnAmount
    <3>5. pc'[r] = "verify" => expected'[r] = Due[i]
      BY <2>1, <3>3, OwnAmount DEF CoverInv
    <3>6. \A q \in Requests \ {r} : expected'[q] = expected[q]
      BY <2>1, OwnAmount
    <3>7. pc'[r] \in VerifiedStages => Delivered[req[r].tx] >= Due[i]
      <4>1. pc[r] = "verify" /\ Inflow(req[r].tx, expected[r]) =>
                Delivered[req[r].tx] >= Due[i]
        BY DEF Inflow, CoverInv
      <4> QED BY <2>1, <4>1, OwnAmount DEF CoverInv
    <3>8. JobCoversDue'
      <4>1. pc[r] = "add" => Delivered[req[r].tx] >= Due[i]
        BY DEF CoverInv, VerifiedStages, LockedStages
      <4> QED BY <2>1, <3>1, <4>1, VerifiedFirst DEF CoverInv, JobCoversDue, OrderOf
    <3>9. \A q \in Requests : pc'[q] = "risk" =>
              req[q].intent \in live /\ intent[req[q].intent].expected = Due[req[q].intent]
      BY <3>1, <3>3, <3>4 DEF CoverInv
    <3>10. \A q \in Requests : pc'[q] = "verify" => expected'[q] = Due[req[q].intent]
      BY <3>1, <3>5, <3>6 DEF CoverInv
    <3>11. \A q \in Requests : pc'[q] \in VerifiedStages =>
               Delivered[req[q].tx] >= Due[req[q].intent]
      BY <3>1, <3>7 DEF CoverInv
    <3> QED BY <2>0, <3>1, <3>2, <3>8, <3>9, <3>10, <3>11 DEF CoverInv
  <2>2. CASE OutsideStep
    <3>1. UNCHANGED <<pc, req, expected, jobs>>
      BY <2>2, OutsideFrame
    <3>2. /\ live \subseteq live'
          /\ \A i \in Intents : intent'[i].expected \in {intent[i].expected, Due[i]}
      BY <2>2, OutsideAmount
    <3> QED BY <2>0, <3>1, <3>2 DEF CoverInv, JobCoversDue
  <2>3. CASE Restart
    <3>1. \A q \in Requests : pc'[q] \notin Stages
      BY <2>3 DEF Restart, TypeOK, Stages, LockedStages
    <3>2. UNCHANGED <<intent, req, jobs>>
      BY <2>3 DEF Restart, disk
    <3> QED BY <3>1, <3>2 DEF CoverInv, JobCoversDue, VerifiedStages, Stages, LockedStages
  <2>4. CASE UNCHANGED vars
    BY <2>4 DEF vars, env, handler, disk, CoverInv, JobCoversDue
  <2> QED BY <2>1, <2>2, <2>3, <2>4, StepCases
<1>3. CoverInv => JobCoversDue
  BY DEF CoverInv
<1> QED
  BY <1>1, <1>2, <1>3, TypeCorrect, PTL DEF Spec

-----------------------------------------------------------------------------
(***************************************************************************)
(* The payer of a paid intent.                                             *)
(***************************************************************************)
\* A paid intent is closed, some request took it that far, and none is still on
\* the way to its payer.
PayerInv ==
    \A i \in Intents : intent[i].txHash # NoTx =>
        /\ intent[i].status \notin Open
        /\ \E r \in Requests : req[r].intent = i /\ pc[r] \in Paid \cup {"lost"}
        /\ \A r \in Requests : req[r].intent = i => pc[r] \notin {"risk", "verify", "payer"}

\* A request writes the payer only on the way from the verification to the
\* authorisation.
LEMMA OwnPayer ==
    ASSUME TypeOK, NEW r \in Requests, Call(r) \/ HandlerStep(r)
    PROVE  \/ intent'[req[r].intent].payer_account = intent[req[r].intent].payer_account
           \/ pc[r] \in {"verify", "payer"}
<1>0. req[r].intent \in Intents /\ intent[req[r].intent] \in IntentObject
  BY DEF TypeOK, Request
<1>1. CASE AwaitSettlement(r)
  BY <1>0, <1>1 DEF AwaitSettlement, Awaiting, SetIntent, TypeOK, IntentObject
<1>2. CASE CreateRow(r)
  BY <1>0, <1>2 DEF CreateRow, SetIntent, TypeOK, IntentObject
<1>3. CASE EnqueueFail(r)
  BY <1>0, <1>3 DEF EnqueueFail, Refused, RowUnheard, FailWith, Failed, SetIntent,
                    TypeOK, IntentObject
<1>4. CASE VerifyOk(r) \/ Authorize(r)
  BY <1>4 DEF VerifyOk, Verified, Authorize, AuthorizeAs
<1>5. CASE ~(AwaitSettlement(r) \/ CreateRow(r) \/ EnqueueFail(r) \/ VerifyOk(r) \/ Authorize(r))
  BY <1>5 DEF Call, HandlerStep, Reject, Assess, SkipRisk, RiskBlock, RiskPass, BeginVerify,
              VerifyFail, PayerMismatch, AddJob, Finish
<1> QED
  BY <1>1, <1>2, <1>3, <1>4, <1>5

\* Outside the handler only the Solana Pay builder writes the payer.
LEMMA OutsidePayer ==
    ASSUME TypeOK, OutsideStep
    PROVE  \A i \in Intents : \/ intent'[i].payer_account = intent[i].payer_account
                              \/ \E b \in builds : b.intent = i
<1> DEFINE Kept == \A i \in Intents : \/ intent'[i].payer_account = intent[i].payer_account
                                      \/ \E b \in builds : b.intent = i
<1> USE DEF TypeOK, IntentObject, SetIntent
<1>1. ASSUME NEW i \in Intents, Create(i) PROVE Kept
  BY <1>1 DEF Create
<1>2. ASSUME NEW i \in Intents, NEW w \in Wallets, BuildStart(i, w) PROVE Kept
  BY <1>2 DEF BuildStart
<1>3. ASSUME NEW b \in builds, BuildStep(b) PROVE Kept
  <2>1. b.intent \in Intents
    BY DEF Build
  <2>2. \A i \in Intents \ {b.intent} : intent'[i] = intent[i]
    BY <1>3, <2>1 DEF BuildStep, BuildQuoted, BuildDone, BuildFail
  <2> QED BY <2>1, <2>2
<1>4. ASSUME NEW t \in Txs, Finalize(t) PROVE Kept
  BY <1>4 DEF Finalize
<1>5. ASSUME NEW i \in Intents, NEW s \in {"COMPLETED", "FAILED"}, PartnerWebhook(i, s)
      PROVE  Kept
  BY <1>5 DEF PartnerWebhook
<1>6. ASSUME NEW i \in Intents, HeliusWebhook(i) PROVE Kept
  BY <1>6 DEF HeliusWebhook
<1>7. ASSUME NEW S \in SUBSET Intents, Timer(S) PROVE Kept
  BY <1>7 DEF Timer, Reconcile, Evict, ExpireStale
<1>8. ASSUME NEW w \in writes, DbStep(w) PROVE Kept
  BY <1>8 DEF DbStep, ExecWrite, DropWrite
<1>9. ASSUME Restore PROVE Kept
  BY <1>9, NothingRestored
<1> QED
  BY <1>1, <1>2, <1>3, <1>4, <1>5, <1>6, <1>7, <1>8, <1>9 DEF OutsideStep

\* Every step keeps PayerInv, and the payer of a paid intent.
LEMMA PayerInductive ==
    ASSUME OneCallPerIntent, BuildThenConfirm, TypeOK, OnceInv, PayerInv, [Next]_vars
    PROVE  /\ PayerInv'
           /\ \A i \in Intents : intent[i].txHash # NoTx =>
                  intent'[i].payer_account = intent[i].payer_account
<1> DEFINE Fixed == \A i \in Intents : intent[i].txHash # NoTx =>
                        intent'[i].payer_account = intent[i].payer_account
<1>0. \A r \in Requests : req[r].intent \in Intents /\ req[r].tx \in Txs /\ req[r].tx # NoTx
  BY NullAssumption DEF TypeOK, Request
<1>b. \A i \in Intents : intent[i].txHash # NoTx => ~ \E b \in builds : b.intent = i
  BY DEF PayerInv, OnceInv, BuildsFirst, Paid, Authorized
<1>1. ASSUME NEW r \in Requests, Call(r) \/ HandlerStep(r) PROVE PayerInv' /\ Fixed
  <2> DEFINE i == req[r].intent
  <2>1. /\ UNCHANGED req /\ i \in Intents
        /\ \A q \in Requests \ {r} : pc'[q] = pc[q]
        /\ \A j \in Intents \ {i} : intent'[j] = intent[j]
    BY <1>0, <1>1, OwnStep DEF env
  <2>2. Fixed
    <3>1. intent[i].txHash # NoTx => intent'[i].payer_account = intent[i].payer_account
      BY <1>1, <2>1, OwnPayer DEF PayerInv
    <3> QED
      BY <2>1, <3>1
  <2>3. ASSUME NEW j \in Intents \ {i}, intent'[j].txHash # NoTx
        PROVE  /\ intent'[j].status \notin Open
               /\ \E q \in Requests : req[q].intent = j /\ pc'[q] \in Paid \cup {"lost"}
               /\ \A q \in Requests : req[q].intent = j => pc'[q] \notin {"risk", "verify", "payer"}
    BY <2>1, <2>3 DEF PayerInv
  <2>4. ASSUME intent'[i].txHash # NoTx
        PROVE  /\ intent'[i].status \notin Open
               /\ \E q \in Requests : req[q].intent = i /\ pc'[q] \in Paid \cup {"lost"}
               /\ \A q \in Requests : req[q].intent = i => pc'[q] \notin {"risk", "verify", "payer"}
    <3>1. CASE intent'[i].txHash = intent[i].txHash
      <4>1. intent[i].txHash # NoTx
        BY <2>4, <3>1
      <4>2. /\ intent[i].status \notin Open
            /\ \E q \in Requests : req[q].intent = i /\ pc[q] \in Paid \cup {"lost"}
            /\ \A q \in Requests : req[q].intent = i => pc[q] \notin {"risk", "verify", "payer"}
        BY <2>1, <4>1 DEF PayerInv
      <4>3. intent'[i].status \notin Open
        BY <1>1, <4>2, OwnStatus
      <4>4. EarlyReply(i, req[r].tx) # "none"
        BY <4>2 DEF EarlyReply, Open
      <4>5. pc'[r] \notin {"risk", "verify", "payer"}
        BY <1>1, <2>1, <4>2, <4>4, OwnSource
      <4>6. pc[r] \in Paid \cup {"lost"} => pc'[r] \in Paid
        <5>1. pc[r] \in Authorized \/ pc[r] \notin Paid \cup {"lost"}
          BY <1>1, OwnMoves DEF Paid, Stages, LockedStages
        <5> QED
          BY <1>1, <5>1, OwnSource
      <4> QED
        BY <2>1, <4>2, <4>3, <4>5, <4>6
    <3>2. CASE pc[r] = "payer" /\ pc'[r] = "authSync"
      <4>1. intent'[i].status \notin Open
        BY <1>1, <3>2, OwnStatus
      <4>2. \A q \in Requests \ {r} : req[q].intent = i => pc[q] \notin {"risk", "verify", "payer"}
        BY <3>2 DEF OnceInv, OneAtATime, Stages, LockedStages
      <4> QED
        BY <2>1, <3>2, <4>1, <4>2 DEF Paid, Authorized
    <3> QED
      BY <1>1, <3>1, <3>2, OwnClaim
  <2> QED
    BY <2>1, <2>2, <2>3, <2>4 DEF PayerInv
<1>2. CASE OutsideStep
  <2>1. UNCHANGED <<pc, req>> /\ \A i \in Intents : intent'[i].txHash = intent[i].txHash
    BY <1>2, OutsideFrame, OutsideHash
  <2>2. \A i \in Intents : intent[i].txHash # NoTx => intent'[i].status \notin Open
    BY <1>2, <1>b, OutsideStatus DEF PayerInv
  <2>3. Fixed
    BY <1>2, <1>b, OutsidePayer
  <2> QED
    BY <2>1, <2>2, <2>3 DEF PayerInv
<1>3. CASE Restart
  <2>1. /\ UNCHANGED <<intent, req>>
        /\ \A r \in Requests : pc'[r] = IF pc[r] \in Stages THEN "lost" ELSE pc[r]
    BY <1>3 DEF Restart, disk
  <2>2. \A r \in Requests : pc[r] \in Paid \cup {"lost"} => pc'[r] \in Paid \cup {"lost"}
    BY <2>1
  <2> QED
    BY <2>1, <2>2 DEF PayerInv, Stages, LockedStages
<1>4. CASE UNCHANGED vars
  BY <1>4 DEF vars, env, handler, PayerInv
<1> QED
  BY <1>1, <1>2, <1>3, <1>4, StepCases

\* When callers wait for the answer and confirm what was built, the payer that
\* was recorded with a payment is never rewritten: not by a later call with
\* another payer_account, nor by a build, a webhook or a restart.
THEOREM PayerNotRewritten ==
    ASSUME OneCallPerIntent, BuildThenConfirm PROVE Spec => PayerFixed
<1>1. Init => OnceInv /\ PayerInv
  BY DEF Init, Absent, OnceInv, OneAtATime, BuildsFirst, JobsSpent, NoJobYet, KeptClosed,
         JobOncePerIntent, Stages, LockedStages, BeforeJob, Authorized, PayerInv
<1>2. TypeOK /\ OnceInv /\ PayerInv /\ [Next]_vars
        => /\ (OnceInv /\ PayerInv)'
           /\ \A i \in Intents : intent[i].txHash # NoTx =>
                  intent'[i].payer_account = intent[i].payer_account
  BY OnceInductive, PayerInductive
<1> QED
  BY <1>1, <1>2, TypeCorrect, PTL DEF Spec, PayerFixed

-----------------------------------------------------------------------------
(***************************************************************************)
(* What "queued" says, in an answer, in memory and in PostgreSQL.          *)
(***************************************************************************)
HasOrder(i) == \E o \in jobs \cap rows : o.intent = i

\* Where a request stands whose row was created, whether it knows or not.
HasRow == {"queuedSync", "unheardSync", "queued", "failed_unheard"}

\* A request's job and row come in this order, and its answer tells of both.
Recorded ==
    /\ rows \subseteq jobs
    /\ \A r \in Requests :
        /\ pc[r] \in HasRow \cup {"row"} => OrderOf(r) \in jobs
        /\ pc[r] \in HasRow => OrderOf(r) \in rows
        /\ OrderOf(r) \in rows => pc[r] \in HasRow \cup {"lost"}

\* The upserts that are under way promise no more than memory did.
WritesTrue == \A w \in writes : w.status = "SETTLEMENT_QUEUED" => HasOrder(w.intent)

RecordInv == Recorded /\ WritesTrue /\ QueuedHasOrder

\* Only SETTLEMENT_QUEUED is stored as SETTLEMENT_QUEUED.
LEMMA QueuedIsQueued ==
    \A s \in IntentStatus : STATUS_MAP[s] = "SETTLEMENT_QUEUED" => s = "SETTLEMENT_QUEUED"
BY DEF STATUS_MAP, IntentStatus

\* A sync of an object that is not queued adds no upsert that says so.
LEMMA SyncQueued ==
    ASSUME NEW by, NEW i, NEW o, o.status \in IntentStatus, Sync(by, i, o)
    PROVE  \A w \in writes' : \/ w \in writes
                              \/ w.intent = i /\ (w.status = "SETTLEMENT_QUEUED" =>
                                                      o.status = "SETTLEMENT_QUEUED")
BY QueuedIsQueued DEF Sync

\* A request that does not create its row says nothing new of an order.
LEMMA OwnRecords ==
    ASSUME TypeOK, NEW r \in Requests, Call(r) \/ HandlerStep(r), ~CreateRow(r), ~RowUnheard(r)
    PROVE  /\ UNCHANGED <<rows, db>>
           /\ \A i \in Intents : intent'[i].status = "SETTLEMENT_QUEUED" =>
                  intent[i].status = "SETTLEMENT_QUEUED"
           /\ \A w \in writes' : w.status = "SETTLEMENT_QUEUED" => w \in writes
           /\ pc'[r] = "row" => OrderOf(r) \in jobs'
           /\ pc'[r] \in HasRow => pc[r] \in HasRow
           /\ pc[r] \in HasRow => pc'[r] \in HasRow
           /\ pc[r] # "lost"
<1> USE DEF HasRow
<1> DEFINE i == req[r].intent
           Same == \A j \in Intents : intent'[j].status = "SETTLEMENT_QUEUED" =>
                       intent[j].status = "SETTLEMENT_QUEUED"
           Fewer == \A w \in writes' : w.status = "SETTLEMENT_QUEUED" => w \in writes
<1>0. i \in Intents /\ intent[i] \in IntentObject /\ pc \in [Requests -> {"idle"} \cup Stages \cup Answers]
      /\ \A j \in Intents \ {i} : intent'[j] = intent[j]
  BY OwnStep DEF TypeOK, Request
<1>1. UNCHANGED <<rows, db>>
  BY DEF Call, HandlerStep, Reject, Assess, SkipRisk, BeginVerify, RiskBlock, RiskPass,
         VerifyFail, VerifyOk, Verified, PayerMismatch, Authorize, AuthorizeAs,
         AwaitSettlement,
         Awaiting, AddJob, EnqueueFail, Refused, FailWith, Finish, disk
<1>2. CASE Authorize(r)
  <2>1. PICK p \in {Signer[req[r].tx], NoWallet} : AuthorizeAs(r, p)
    BY <1>2 DEF Authorize
  <2>2. AuthorizedBy(r, p).status = "AUTHORIZED"
    BY <1>0 DEF AuthorizedBy, IntentObject
  <2>3. Same
    BY <1>0, <2>1, <2>2 DEF AuthorizeAs, SetIntent, TypeOK
  <2>4. Fewer
    BY <2>1, <2>2, SyncQueued DEF AuthorizeAs, IntentStatus
  <2>5. pc[r] = "payer" /\ pc'[r] = "authSync"
    BY <1>0, <2>1 DEF AuthorizeAs, Goto
  <2> QED
    BY <1>1, <2>3, <2>4, <2>5
<1>3. CASE EnqueueFail(r)
  <2>1. Failed(r).status = "SETTLEMENT_FAILED"
    BY <1>0 DEF Failed, IntentObject
  <2>2. Same
    BY <1>0, <1>3, <2>1 DEF EnqueueFail, Refused, RowUnheard, FailWith, SetIntent, TypeOK
  <2>3. Fewer
    BY <1>3, <2>1, SyncQueued DEF EnqueueFail, Refused, RowUnheard, FailWith, IntentStatus
  <2>4. pc[r] \in {"add", "row"} /\ pc'[r] = "failSync"
    BY <1>0, <1>3 DEF EnqueueFail, Refused, FailWith, Goto
  <2> QED
    BY <1>1, <2>2, <2>3, <2>4
<1>4. CASE VerifyOk(r)
  <2>1. Same
    BY <1>0, <1>4 DEF VerifyOk, Verified, SetIntent, TypeOK, IntentObject
  <2>2. writes' = writes /\ pc[r] = "verify" /\ pc'[r] = "payer"
    BY <1>0, <1>4 DEF VerifyOk, Verified, Goto
  <2> QED
    BY <1>1, <2>1, <2>2
<1>5. CASE AwaitSettlement(r)
  <2>1. Same
    BY <1>0, <1>5 DEF AwaitSettlement, Awaiting, SetIntent, TypeOK, IntentObject
  <2>2. writes' = writes /\ pc[r] = "authSync" /\ pc'[r] = "add"
    BY <1>0, <1>5 DEF AwaitSettlement, Awaiting, Goto
  <2> QED
    BY <1>1, <2>1, <2>2
<1>6. CASE AddJob(r)
  <2>1. /\ UNCHANGED <<intent, writes>> /\ pc[r] = "add" /\ pc'[r] = "row"
        /\ OrderOf(r) \in jobs'
    BY <1>0, <1>6 DEF AddJob, Goto
  <2> QED
    BY <1>1, <2>1
<1>7. CASE Finish(r)
  <2>1. /\ UNCHANGED <<intent, writes>>
        /\ pc[r] \in {"queuedSync", "failSync", "unheardSync"}
        /\ pc'[r] = CASE pc[r] = "queuedSync" -> "queued"
                      [] pc[r] = "failSync" -> "settlement_failed"
                      [] OTHER -> "failed_unheard"
    BY <1>0, <1>7 DEF Finish, Goto
  <2> QED
    BY <1>1, <2>1
<1>8. CASE Reject(r)
  <2>1. /\ UNCHANGED <<intent, writes>> /\ pc[r] = "idle"
        /\ pc'[r] \in Answers \ {"queued", "settlement_failed", "failed_unheard", "lost"}
    BY <1>0, <1>8 DEF Reject, EarlyReply, MayCall, Goto, Answers
  <2> QED
    BY <1>1, <2>1 DEF Answers
<1>9. CASE Assess(r) \/ SkipRisk(r) \/ RiskBlock(r) \/ RiskPass(r) \/ VerifyFail(r)
           \/ PayerMismatch(r)
  <2>1. /\ UNCHANGED <<intent, writes>> /\ pc[r] \in {"idle", "risk", "verify", "payer"}
        /\ pc'[r] \in {"risk", "verify", "risk_blocked", "unverified", "payer_mismatch"}
    BY <1>0, <1>9 DEF Assess, SkipRisk, BeginVerify, MayCall, RiskBlock, RiskPass,
                      VerifyFail,
                      PayerMismatch, Goto
  <2> QED
    BY <1>1, <2>1
<1> QED
  BY <1>2, <1>3, <1>4, <1>5, <1>6, <1>7, <1>8, <1>9 DEF Call, HandlerStep

\* Outside the handler nothing becomes SETTLEMENT_QUEUED but what an upsert says.
LEMMA OutsideRecords ==
    ASSUME TypeOK, OutsideStep
    PROVE  /\ UNCHANGED rows
           /\ \A i \in Intents : intent'[i].status = "SETTLEMENT_QUEUED" =>
                  intent[i].status = "SETTLEMENT_QUEUED"
           /\ \A w \in writes' : w.status = "SETTLEMENT_QUEUED" => w \in writes
           /\ \A i \in Intents : db'[i].status = "SETTLEMENT_QUEUED" =>
                  \/ db[i].status = "SETTLEMENT_QUEUED"
                  \/ \E w \in writes : w.intent = i /\ w.status = "SETTLEMENT_QUEUED"
<1> DEFINE Same == \A i \in Intents : intent'[i].status = "SETTLEMENT_QUEUED" =>
                       intent[i].status = "SETTLEMENT_QUEUED"
<1> USE DEF TypeOK, IntentObject, SetIntent
<1>1. ASSUME NEW i \in Intents, Create(i)
      PROVE  /\ UNCHANGED <<rows, writes>> /\ Same
             /\ \A j \in Intents : db'[j].status = "SETTLEMENT_QUEUED" => db'[j] = db[j]
  <2>1. UNCHANGED <<rows, writes>> /\ Same
    BY <1>1 DEF Create
  <2>2. \A j \in Intents : db'[j].status = "SETTLEMENT_QUEUED" => db'[j] = db[j]
    BY <1>1 DEF Create, NoRow
  <2> QED
    BY <2>1, <2>2
<1>2. ASSUME NEW i \in Intents, NEW w \in Wallets, BuildStart(i, w)
      PROVE  UNCHANGED <<rows, writes, db, intent>>
  BY <1>2 DEF BuildStart, disk
<1>3. ASSUME NEW b \in builds, BuildStep(b)
      PROVE  UNCHANGED <<rows, writes, db>> /\ Same
  <2>1. b.intent \in Intents
    BY DEF Build
  <2>2. CASE BuildQuoted(b)
    BY <2>1, <2>2 DEF BuildQuoted, disk
  <2>3. CASE BuildDone(b)
    BY <2>1, <2>3 DEF BuildDone, disk
  <2>4. CASE BuildFail(b)
    BY <2>4 DEF BuildFail, disk
  <2> QED BY <1>3, <2>2, <2>3, <2>4 DEF BuildStep
<1>4. ASSUME NEW t \in Txs, Finalize(t) PROVE UNCHANGED <<rows, writes, db, intent>>
  BY <1>4 DEF Finalize, disk
<1>5. ASSUME NEW i \in Intents, NEW s \in {"COMPLETED", "FAILED"}, PartnerWebhook(i, s)
      PROVE  /\ UNCHANGED <<rows, db>> /\ Same
             /\ \A w \in writes' : w.status = "SETTLEMENT_QUEUED" => w \in writes
  <2> DEFINE o == [intent[i] EXCEPT !.status = s]
  <2>1. o.status = s /\ s \in IntentStatus
    BY DEF IntentStatus
  <2>2. /\ UNCHANGED <<rows, db>> /\ Sync("webhook", i, o) /\ intent' = [intent EXCEPT ![i] = o]
    BY <1>5 DEF PartnerWebhook, disk
  <2> HIDE DEF o
  <2>3. \A w \in writes' : w.status = "SETTLEMENT_QUEUED" => w \in writes
    BY <2>1, <2>2, SyncQueued
  <2> QED
    BY <2>1, <2>2, <2>3
<1>6. ASSUME NEW i \in Intents, HeliusWebhook(i) PROVE UNCHANGED <<rows, writes, db>> /\ Same
  BY <1>6 DEF HeliusWebhook, disk
<1>7. ASSUME NEW S \in SUBSET Intents, Timer(S)
      PROVE  /\ UNCHANGED <<rows, writes>> /\ Same
             /\ \A j \in Intents : db'[j].status = "SETTLEMENT_QUEUED" => db'[j] = db[j]
  <2>1. CASE Reconcile(S) \/ Evict(S)
    BY <1>7, <2>1 DEF Reconcile, Evict, disk
  <2>2. CASE ExpireStale(S)
    <3>1. UNCHANGED <<rows, writes, intent>>
      BY <2>2 DEF ExpireStale
    <3>2. ASSUME NEW j \in Intents, db'[j].status = "SETTLEMENT_QUEUED" PROVE db'[j] = db[j]
      <4>1. CASE j \in S
        BY <2>2, <3>2, <4>1 DEF ExpireStale, DbRow
      <4>2. CASE j \notin S
        BY <2>2, <4>2 DEF ExpireStale
      <4> QED
        BY <4>1, <4>2
    <3> QED
      BY <3>1, <3>2
  <2> QED BY <1>7, <2>1, <2>2 DEF Timer
<1>8. ASSUME NEW w \in writes, DbStep(w)
      PROVE  /\ UNCHANGED <<rows, intent>> /\ writes' \subseteq writes
             /\ \A j \in Intents : db'[j].status = "SETTLEMENT_QUEUED" =>
                    \/ db[j].status = "SETTLEMENT_QUEUED"
                    \/ w.intent = j /\ w.status = "SETTLEMENT_QUEUED"
  <2>1. CASE ExecWrite(w)
    <3>1. w.intent \in Intents
      BY DEF Write
    <3>2. UNCHANGED <<rows, intent>> /\ writes' \subseteq writes
      BY <2>1 DEF ExecWrite
    <3>3. \A j \in Intents \ {w.intent} : db'[j] = db[j]
      BY <2>1 DEF ExecWrite
    <3>4. db'[w.intent].status = w.status
      <4>1. db[w.intent] \in DbRow
        BY <3>1
      <4>2. db'[w.intent] = [db[w.intent] EXCEPT !.status = w.status, !.txHash = w.txHash,
                                                 !.payer_account = w.payer_account]
        BY <2>1, <3>1 DEF ExecWrite
      <4> QED
        BY <4>1, <4>2 DEF DbRow
    <3> QED
      BY <3>2, <3>3, <3>4
  <2>2. CASE DropWrite(w)
    BY <2>2 DEF DropWrite, disk
  <2> QED
    BY <1>8, <2>1, <2>2 DEF DbStep
<1>9. ASSUME Restore PROVE UNCHANGED <<rows, writes, db, intent>>
  BY <1>9, NothingRestored DEF Restore, disk
<1> QED
  BY <1>1, <1>2, <1>3, <1>4, <1>5, <1>6, <1>7, <1>8, <1>9 DEF OutsideStep

\* Every step keeps RecordInv.
LEMMA RecordInductive ==
    ASSUME TypeOK, RecordInv, [Next]_vars PROVE RecordInv'
<1>0. \A r \in Requests : req[r].intent \in Intents /\ OrderOf(r).intent = req[r].intent
                          /\ OrderOf(r).by = r
  BY DEF TypeOK, Request, OrderOf
<1>w. \A w \in writes : w.intent \in Intents
  BY DEF TypeOK, Write
<1>1. ASSUME NEW r \in Requests, Call(r) \/ HandlerStep(r) PROVE RecordInv'
  <2>1. /\ UNCHANGED req /\ \A q : OrderOf(q)' = OrderOf(q)
        /\ \A q \in Requests \ {r} : pc'[q] = pc[q]
        /\ \A j \in Intents \ {req[r].intent} : intent'[j] = intent[j]
        /\ jobs \subseteq jobs'
    <3>1. UNCHANGED req
      BY <1>1, OwnStep DEF env
    <3> QED
      BY <1>1, <3>1, OwnStep, VerifiedFirst DEF OrderOf
  <2>2. CASE CreateRow(r) \/ RowUnheard(r)
    <3>0. PICK o : Sync(r, req[r].intent, o)
      BY <2>2 DEF CreateRow, RowUnheard, FailWith
    <3>1. /\ rows' = rows \cup {OrderOf(r)} /\ jobs' = jobs /\ db' = db
          /\ pc[r] = "row" /\ pc'[r] \in HasRow
      BY <2>2 DEF CreateRow, RowUnheard, FailWith, Goto, TypeOK, HasRow
    <3>2. OrderOf(r) \in jobs' \cap rows'
      <4>1. OrderOf(r) \in jobs
        <5>1. pc[r] = "row"
          BY <3>1
        <5> QED
          BY <5>1 DEF RecordInv, Recorded
      <4>2. OrderOf(r) \in rows'
        BY <3>1
      <4>3. jobs' = jobs
        BY <3>1
      <4> QED
        BY <4>1, <4>2, <4>3
    <3>3. HasOrder(req[r].intent)' /\ \A i : HasOrder(i) => HasOrder(i)'
      BY <1>0, <2>1, <3>1, <3>2 DEF HasOrder
    <3>4. Recorded'
      <4>1. ASSUME NEW q \in Requests
            PROVE  /\ pc'[q] \in HasRow \cup {"row"} => OrderOf(q) \in jobs'
                   /\ pc'[q] \in HasRow => OrderOf(q) \in rows'
                   /\ OrderOf(q) \in rows' => pc'[q] \in HasRow \cup {"lost"}
        <5>1. CASE q = r
          BY <3>1, <3>2, <5>1
        <5>2. CASE q # r
          <6>1. OrderOf(q) # OrderOf(r)
            BY <1>0, <5>2
          <6> QED
            BY <2>1, <3>1, <5>2, <6>1 DEF RecordInv, Recorded
        <5> QED
          BY <5>1, <5>2
      <4>2. rows' \subseteq jobs'
        BY <3>1, <3>2 DEF RecordInv, Recorded
      <4> QED
        BY <2>1, <4>1, <4>2 DEF Recorded
    <3>5. WritesTrue'
      <4>2. \A w \in writes' : w \in writes \/ w.intent = req[r].intent
        BY <3>0 DEF Sync
      <4>3. ASSUME NEW w \in writes', w.status = "SETTLEMENT_QUEUED" PROVE HasOrder(w.intent)'
        BY <2>1, <3>3, <4>2, <4>3 DEF RecordInv, WritesTrue
      <4> QED
        BY <4>3 DEF WritesTrue
    <3>6. QueuedHasOrder'
      <4>1. \A i \in Intents \ {req[r].intent} :
                "SETTLEMENT_QUEUED" \in {intent'[i].status, db'[i].status} => HasOrder(i)
        <5>1. /\ db' = db
              /\ \A i \in Intents :
                    "SETTLEMENT_QUEUED" \in {intent[i].status, db[i].status} => HasOrder(i)
          BY <3>1 DEF RecordInv, QueuedHasOrder, HasOrder
        <5> QED
          BY <2>1, <5>1
      <4> QED
        BY <2>1, <3>3, <4>1 DEF QueuedHasOrder, HasOrder
    <3> QED
      BY <3>4, <3>5, <3>6 DEF RecordInv
  <2>3. CASE ~CreateRow(r) /\ ~RowUnheard(r)
    <3>1. /\ UNCHANGED <<rows, db>>
          /\ \A i \in Intents : intent'[i].status = "SETTLEMENT_QUEUED" =>
                 intent[i].status = "SETTLEMENT_QUEUED"
          /\ \A w \in writes' : w.status = "SETTLEMENT_QUEUED" => w \in writes
          /\ pc'[r] = "row" => OrderOf(r) \in jobs'
          /\ pc'[r] \in HasRow => pc[r] \in HasRow
          /\ pc[r] \in HasRow => pc'[r] \in HasRow
          /\ pc[r] # "lost"
      BY <1>1, <2>3, OwnRecords
    <3>2. \A i : HasOrder(i) => HasOrder(i)'
      BY <2>1, <3>1 DEF HasOrder
    <3>3. Recorded'
      BY <2>1, <3>1 DEF RecordInv, Recorded
    <3>4. WritesTrue'
      BY <3>1, <3>2 DEF RecordInv, WritesTrue
    <3>5. QueuedHasOrder'
      <4>1. \A i \in Intents :
                "SETTLEMENT_QUEUED" \in {intent'[i].status, db'[i].status} => HasOrder(i)
        BY <3>1 DEF RecordInv, QueuedHasOrder, HasOrder
      <4> QED
        BY <3>2, <4>1 DEF QueuedHasOrder, HasOrder
    <3> QED
      BY <3>3, <3>4, <3>5 DEF RecordInv
  <2> QED
    BY <2>2, <2>3
<1>2. CASE OutsideStep
  <2>1. UNCHANGED <<pc, req, jobs, rows>>
    BY <1>2, OutsideFrame, OutsideRecords
  <2>2. /\ \A i : HasOrder(i) => HasOrder(i)'
        /\ Recorded'
    BY <2>1 DEF HasOrder, RecordInv, Recorded, OrderOf
  <2>3. WritesTrue'
    BY <1>2, <2>2, OutsideRecords DEF RecordInv, WritesTrue
  <2>4. QueuedHasOrder'
    <3>1. \A i \in Intents :
              "SETTLEMENT_QUEUED" \in {intent'[i].status, db'[i].status} => HasOrder(i)
      BY <1>2, OutsideRecords DEF RecordInv, QueuedHasOrder, WritesTrue, HasOrder
    <3> QED
      BY <2>2, <3>1 DEF QueuedHasOrder, HasOrder
  <2> QED
    BY <2>2, <2>3, <2>4 DEF RecordInv
<1>3. CASE Restart
  <2>1. /\ UNCHANGED <<intent, req, db, jobs, rows>> /\ writes' = {}
        /\ \A r \in Requests : pc'[r] = IF pc[r] \in Stages THEN "lost" ELSE pc[r]
    BY <1>3 DEF Restart, disk
  <2>2. Recorded'
    <3>1. ASSUME NEW r \in Requests
          PROVE  /\ pc'[r] \in HasRow \cup {"row"} => pc'[r] = pc[r]
                 /\ pc[r] \in HasRow \cup {"lost"} => pc'[r] \in HasRow \cup {"lost"}
      BY <2>1 DEF Stages, LockedStages, HasRow
    <3> QED
      BY <2>1, <3>1 DEF RecordInv, Recorded, OrderOf
  <2> QED
    BY <2>1, <2>2 DEF RecordInv, WritesTrue, QueuedHasOrder
<1>4. CASE UNCHANGED vars
  <2>1. UNCHANGED <<Recorded, WritesTrue, QueuedHasOrder>>
    BY <1>4 DEF vars, env, handler, disk, Recorded, WritesTrue, QueuedHasOrder, HasOrder,
                OrderOf
  <2> QED
    BY <2>1 DEF RecordInv
<1> QED
  BY <1>1, <1>2, <1>3, <1>4, StepCases

\* RecordInv holds in every reachable state.
LEMMA RecordInvariant == Spec => []RecordInv
<1>1. Init => RecordInv
  BY DEF Init, Absent, NoRow, RecordInv, Recorded, HasRow, WritesTrue, QueuedHasOrder
<1>2. TypeOK /\ RecordInv /\ [Next]_vars => RecordInv'
  BY RecordInductive
<1> QED
  BY <1>1, <1>2, TypeCorrect, PTL DEF Spec

\* Whoever calls and whatever fails: an intent that is SETTLEMENT_QUEUED, in
\* memory or by an upsert that came late, has its job and its settlement row.
THEOREM QueuedIsOrdered == Spec => []QueuedHasOrder
<1>1. RecordInv => QueuedHasOrder
  BY DEF RecordInv
<1> QED
  BY <1>1, RecordInvariant, PTL

-----------------------------------------------------------------------------
(***************************************************************************)
(* What an answer says of the intent's settlement.                         *)
(***************************************************************************)

\* Once a request authorised its intent, the intent stays closed to every other
\* request, and no order is placed for it but that request's.
PaidCloses ==
    \A r \in Requests : pc[r] \in Paid =>
        /\ intent[req[r].intent].status \notin Open
        /\ \A q \in Requests :
               pc[q] \in BeforeJob /\ req[q].intent = req[r].intent => q = r
        /\ \A o \in jobs : o.intent = req[r].intent => o = OrderOf(r)

\* Every step keeps PaidCloses.
LEMMA PaidClosesInductive ==
    ASSUME OneCallPerIntent, BuildThenConfirm, TypeOK, OnceInv, PaidCloses, [Next]_vars
    PROVE  PaidCloses'
<1>0. \A r \in Requests : req[r].intent \in Intents
  BY DEF TypeOK, Request
<1>1. ASSUME NEW r \in Requests, Call(r) \/ HandlerStep(r) PROVE PaidCloses'
  <2> DEFINE i == req[r].intent
  <2>1. /\ UNCHANGED req /\ \A q : OrderOf(q)' = OrderOf(q)
        /\ \A q \in Requests \ {r} : pc'[q] = pc[q]
        /\ \A j \in Intents \ {i} : intent'[j] = intent[j]
    <3>1. UNCHANGED req
      BY <1>1, OwnStep DEF env
    <3> QED
      BY <1>1, <3>1, OwnStep DEF OrderOf
  <2>2. /\ pc'[r] \in BeforeJob => pc[r] \in BeforeJob
                                    \/ (pc[r] = "idle" /\ intent[i].status \in Open)
        /\ jobs' = jobs \/ (jobs' = jobs \cup {OrderOf(r)} /\ pc[r] = "add")
        /\ OrderOf(r).intent = i
    BY <1>1, OwnMoves, VerifiedFirst DEF OrderOf
  <2>3. /\ intent'[i].status \in Open => intent[i].status \in Open
        /\ pc'[r] = "authSync" => intent'[i].status \notin Open
    BY <1>1, OwnStatus
  <2>4. pc'[r] \in Paid => pc[r] \in Authorized \/ (pc[r] = "payer" /\ pc'[r] = "authSync")
    BY <1>1, PaidFrom
  <2>5. SUFFICES ASSUME NEW q \in Requests, pc'[q] \in Paid
                 PROVE  /\ intent'[req[q].intent].status \notin Open
                        /\ \A p \in Requests :
                               pc'[p] \in BeforeJob /\ req[p].intent = req[q].intent => p = q
                        /\ \A o \in jobs' : o.intent = req[q].intent => o = OrderOf(q)
    BY <2>1 DEF PaidCloses
  <2>6. CASE q = r
    <3>1. pc[r] \in Stages
      BY <2>4, <2>5, <2>6 DEF Authorized, Stages, LockedStages
    <3>2. \A p \in Requests \ {r} : req[p].intent = i => pc'[p] \notin BeforeJob
      BY <2>1, <3>1 DEF OnceInv, OneAtATime, BeforeJob, Stages, LockedStages
    <3>3. intent'[i].status \notin Open
      BY <2>3, <2>4, <2>5, <2>6 DEF OnceInv, KeptClosed
    <3>4. \A o \in jobs : o.intent = i => o = OrderOf(r)
      <4>1. CASE pc[r] = "payer"
        BY <4>1 DEF OnceInv, NoJobYet, BeforeJob
      <4>2. CASE pc[r] \in Authorized
        BY <4>2 DEF PaidCloses, Paid
      <4> QED
        BY <2>4, <2>5, <2>6, <4>1, <4>2
    <3> QED
      BY <2>2, <2>6, <3>2, <3>3, <3>4
  <2>7. CASE q # r
    <3>1. pc[q] \in Paid /\ pc'[q] = pc[q]
      BY <2>1, <2>5, <2>7
    <3>2. intent'[req[q].intent].status \notin Open
      BY <1>0, <2>1, <2>3, <3>1 DEF PaidCloses
    <3>3. pc'[r] \in BeforeJob => i # req[q].intent
      BY <2>2, <2>7, <3>1 DEF PaidCloses
    <3>4. pc[r] = "add" => i # req[q].intent
      BY <2>7, <3>1 DEF PaidCloses, BeforeJob
    <3> QED
      BY <2>1, <2>2, <3>1, <3>2, <3>3, <3>4 DEF PaidCloses
  <2> QED
    BY <2>6, <2>7
<1>2. CASE OutsideStep
  <2>1. UNCHANGED <<pc, req, jobs>> /\ \A q : OrderOf(q)' = OrderOf(q)
    BY <1>2, OutsideFrame DEF OrderOf
  <2>2. ASSUME NEW r \in Requests, pc[r] \in Paid
        PROVE  intent'[req[r].intent].status \notin Open
    <3>1. ~ \E b \in builds : b.intent = req[r].intent
      BY <2>2 DEF OnceInv, BuildsFirst, Paid, Authorized
    <3> QED
      BY <1>0, <1>2, <2>2, <3>1, OutsideStatus DEF PaidCloses
  <2> QED
    BY <2>1, <2>2 DEF PaidCloses
<1>3. CASE Restart
  <2>1. UNCHANGED <<intent, req, jobs>> /\ \A q : OrderOf(q)' = OrderOf(q)
    BY <1>3 DEF Restart, disk, OrderOf
  <2>2. \A r \in Requests : pc'[r] = IF pc[r] \in Stages THEN "lost" ELSE pc[r]
    BY <1>3 DEF Restart
  <2>3. \A r \in Requests : pc'[r] \in Paid \cup BeforeJob => pc'[r] = pc[r]
    BY <2>2 DEF Paid, Authorized, BeforeJob
  <2> QED
    BY <2>1, <2>3 DEF PaidCloses
<1>4. CASE UNCHANGED vars
  BY <1>4 DEF vars, env, handler, disk, PaidCloses, OrderOf
<1> QED
  BY <1>1, <1>2, <1>3, <1>4, StepCases

\* When callers wait for the answer and confirm what was built, the answer of the
\* confirm handler is true of the intent, for which workers look up a row:
\* "queued" has job and row, "settlement_failed" has no row of anybody.  Only a
\* row whose creation was not heard of is settled though it was called failed.
THEOREM AnswersAreTrue ==
    ASSUME OneCallPerIntent, BuildThenConfirm PROVE Spec => []AnswersTrue
<1>1. Init => OnceInv /\ PaidCloses
  BY DEF Init, OnceInv, OneAtATime, BuildsFirst, JobsSpent, NoJobYet, KeptClosed,
         JobOncePerIntent, Stages, LockedStages, BeforeJob, Authorized, PaidCloses, Paid
<1>2. TypeOK /\ OnceInv /\ PaidCloses /\ [Next]_vars => (OnceInv /\ PaidCloses)'
  BY OnceInductive, PaidClosesInductive
<1>3. ASSUME RecordInv, PaidCloses PROVE AnswersTrue
  <2>1. SUFFICES ASSUME NEW r \in Requests
                 PROVE  LET payable == {o \in rows : o.intent = req[r].intent} IN
                        /\ pc[r] \in {"queued", "failed_unheard"} =>
                               payable = {OrderOf(r)} /\ OrderOf(r) \in jobs
                        /\ pc[r] = "settlement_failed" => payable = {}
    BY DEF AnswersTrue
  <2>2. pc[r] \in Paid =>
            \A o \in rows : o.intent = req[r].intent => o = OrderOf(r)
    BY <1>3 DEF RecordInv, Recorded, PaidCloses
  <2>3. OrderOf(r).intent = req[r].intent
    BY DEF OrderOf
  <2>4. CASE pc[r] \in {"queued", "failed_unheard"}
    <3>1. OrderOf(r) \in rows /\ OrderOf(r) \in jobs
      BY <1>3, <2>4 DEF RecordInv, Recorded, HasRow
    <3> QED
      BY <2>2, <2>3, <2>4, <3>1 DEF Paid
  <2>5. CASE pc[r] = "settlement_failed"
    <3>1. OrderOf(r) \notin rows
      BY <1>3, <2>5 DEF RecordInv, Recorded, HasRow
    <3> QED
      BY <2>2, <2>5, <3>1 DEF Paid
  <2> QED
    BY <2>4, <2>5
<1> QED
  BY <1>1, <1>2, <1>3, RecordInvariant, TypeCorrect, PTL DEF Spec
=============================================================================
