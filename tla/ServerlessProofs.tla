--------------------------- MODULE ServerlessProofs ---------------------------
(***************************************************************************)
(* Theorems of Serverless, for every number of instances, intents, handlers *)
(* and transactions, every deposit and every set of orders.                *)
(***************************************************************************)
EXTENDS Serverless, TLAPS

-----------------------------------------------------------------------------
(***************************************************************************)
(* The inductive invariant.                                                *)
(***************************************************************************)

\* A slot without a handler is Idle.  A handler has an instance and an intent;
\* once it has found the intent, its instance knows it.
Shape ==
    /\ \A p \in Slots :
          /\ slot[p].at = "idle" => slot[p] = Idle
          /\ slot[p].at # "idle" =>
                /\ slot[p].inst \in Instances /\ slot[p].intent \in Intents
                /\ slot[p].at # "get" => Known(mem[slot[p].inst][slot[p].intent])
                /\ slot[p].at \in {"create", "set"} => Known(slot[p].out)
    /\ \A i \in Intents :
          /\ ~Known(kv[i]) => kv[i] = Absent
          /\ \A s \in Instances : ~Known(mem[s][i]) => mem[s][i] = Absent

\* No record says DISBURSED before IDRX accepted a request: no record of an
\* instance, of the KV service, or on its way to it.
Honest ==
    \A i \in Intents :
        paid[i] = 0 =>
            /\ kv[i].settlement # "DISBURSED"
            /\ \A s \in Instances : mem[s][i].settlement # "DISBURSED"
            /\ \A p \in Slots : slot[p].intent = i => slot[p].out.settlement # "DISBURSED"

\* An intent nobody has heard of has no handler and no money.
Unborn ==
    \A i \in Intents :
        home[i] = "unborn" =>
            paid[i] = 0 /\ i \notin burned /\ \A p \in Slots : slot[p].intent # i

Worth(o) == o.bank /\ o.amount >= MIN_DISBURSEMENT_IDR

Noted(x) == x.settlement \in {"DISBURSED", "SETTLEMENT_PENDING"}

\* The handler is on its way to the burn, or between the burn and the payout.
Spending(h) ==
    \/ h.at = "redeem"
    \/ h.at = "settle" /\ ~h.done
    \/ h.at = "set" /\ h.next = "settle" /\ ~h.done

\* The handler has found the intent and will look at what it asks for.
Weighing(h) ==
    \/ h.at \in {"verify", "settle"}
    \/ h.at = "set" /\ h.next = "settle"

\* Handler h acts on what record x says.
Suits(h, x) ==
    /\ Spending(h) => ~x.burn
    /\ Weighing(h) => h.order = x.order

\* The one handler of an intent whose calls followed one another.
Alone(p, i) ==
    /\ \A q \in Slots \ {p} : slot[q].intent # i
    /\ slot[p].inst = home[i]
    /\ slot[p].at = "get" => ~Known(mem[home[i]][i])
    /\ slot[p].at \in {"create", "set"} => slot[p].out = mem[home[i]][i]
    /\ slot[p].at = "create" => ~Known(kv[i])
    /\ Suits(slot[p], mem[home[i]][i])
    /\ slot[p].at = "redeem" => i \in burned

\* A payout is in the newest record, so that no later handler pays again; a burn
\* is noted in it, or its handler has yet to ask for the payout.
Safe(i) ==
    /\ paid[i] <= 1
    /\ paid[i] > 0 => Latest(i).burn
    /\ i \in burned =>
          /\ Worth(Latest(i).order)
          /\ \/ Noted(Latest(i))
             \/ \E p \in Slots : slot[p].intent = i /\ slot[p].at = "redeem"
    /\ \A p \in Slots : slot[p].intent = i => Alone(p, i)

\* The answer of the redeem request is not lost.
Sure == "unsure" \notin Faults

Inv ==
    /\ TypeOK /\ Shape /\ Honest /\ Unborn
    /\ \A i \in Intents : Sure /\ steady[i] => Safe(i)

-----------------------------------------------------------------------------
(***************************************************************************)
(* What every step of a handler has in common.                             *)
(***************************************************************************)

\* Record r may follow record x.
Kept(x, r) ==
    /\ Known(r) /\ (x.burn => r.burn)
    /\ Worth(x.order) => r.order = x.order /\ (r.settlement = x.settlement \/ Noted(r))

\* Handler g may be at work on i on instance s.
Placed(g, i, s, r) ==
    \/ g = Idle
    \/ /\ g \in Handler /\ g.at \in Stages /\ g.inst = s /\ g.intent = i
       /\ g.at # "get" => Known(r)
       /\ g.at \in {"create", "set"} => Known(g.out)

\* The step with which p begins to look for i.
Looks(p, i, s, g, r) ==
    /\ slot[p].at = "idle" /\ g.at = "get"
    /\ r = mem[s][i] /\ ~Known(r) /\ kv[i] = Latest(i)
    /\ kv' = kv /\ paid' = paid /\ burned' = burned

\* Any other step of p for i.
Works(p, i, s, g, r) ==
    /\ Kept(Latest(i), r)
    /\ g = Idle \/ /\ g.at # "get"
                   /\ g.at \in {"create", "set"} => g.out = r
                   /\ g.at = "create" => ~Known(kv'[i])
                   /\ Suits(g, r)
                   /\ g.at = "redeem" => i \in burned'
    /\ \/ paid'[i] = paid[i]
       \/ paid'[i] = paid[i] + 1 /\ ~Latest(i).burn /\ r.burn
    /\ \/ i \in burned' => i \in burned
       \/ Worth(r.order) /\ (Noted(r) \/ g.at = "redeem")
    /\ slot[p].at = "redeem" => Noted(r)

\* p makes a step for i on s: it is g then, and the instance's record is r.
Turned(p, i, s, g, r) ==
    /\ slot' = [slot EXCEPT ![p] = g] /\ Placed(g, i, s, r)
    /\ mem' = [mem EXCEPT ![s][i] = r] /\ r \in Intent
    /\ Known(r) \/ (r = Absent /\ ~Known(mem[s][i]))
    /\ \/ kv' = kv
       \/ slot[p].at = "set" /\ slot[p].intent = i /\ kv' = [kv EXCEPT ![i] = slot[p].out]
    /\ final' = final /\ calls' \in 0 .. MaxCalls
    /\ paid' \in [Intents -> Nat] /\ (\A j \in Intents \ {i} : paid'[j] = paid[j])
    /\ paid'[i] >= paid[i]
    /\ burned' \in {burned, burned \cup {i}}
    /\ home' \in {home, [home EXCEPT ![i] = s]} /\ home'[i] # "unborn"
    /\ steady' \in [Intents -> BOOLEAN] /\ (\A j \in Intents \ {i} : steady'[j] = steady[j])
    /\ slot[p].at \in {"idle", "get"} \/ slot[p].intent = i
    /\ paid'[i] = 0 => r.settlement # "DISBURSED" /\ g.out.settlement # "DISBURSED"
    /\ Sure /\ steady'[i] =>
          /\ steady[i] /\ home'[i] = s /\ \A q \in Slots \ {p} : slot[q].intent # i
          /\ Looks(p, i, s, g, r) \/ Works(p, i, s, g, r)

-----------------------------------------------------------------------------
\* The records that are not there, and the handler that is not there.
LEMMA AbsentTyped == Absent \in Intent /\ ~Known(Absent) /\ ~Absent.burn
                     /\ Absent.settlement = "NONE"
BY NullAssumption, CallerAssumption DEF Absent, Intent, Known

LEMMA IdleTyped == Idle \in Handler /\ Idle.at = "idle" /\ Idle.intent = NoIntent
                   /\ Idle.out = Absent /\ Idle.inst = "none" /\ ~Idle.done
BY AbsentTyped, NullAssumption, CallerAssumption DEF Idle, Handler

LEMMA PlacedTyped ==
    ASSUME NEW g, NEW i, NEW s, NEW r, Placed(g, i, s, r)
    PROVE  g \in Handler /\ (g.at = "idle" => g = Idle)
BY IdleTyped DEF Placed, Stages

\* What does not concern an intent keeps it safe.
LEMMA Frame ==
    ASSUME NEW j \in Intents,
           Sure /\ steady[j] => Safe(j),
           \A s \in Instances : mem'[s][j] = mem[s][j],
           kv'[j] = kv[j], paid'[j] = paid[j], home'[j] = home[j], steady'[j] => steady[j],
           j \in burned' <=> j \in burned,
           home[j] \in Instances \cup {"unborn", "kv"},
           \A q \in Slots : slot'[q].intent = j => slot'[q] = slot[q],
           \A q \in Slots : slot[q].intent = j /\ slot[q].at = "redeem" => slot'[q] = slot[q],
           \A q \in Slots : slot[q].intent = j => slot[q].inst \in Instances
    PROVE  (Sure /\ steady[j] => Safe(j))'
<1> SUFFICES ASSUME Sure, steady'[j] PROVE Safe(j)'
  BY DEF Sure
<1>1. Safe(j)
  OBVIOUS
<1>2. Latest(j)' = Latest(j)
  BY DEF Latest, View
<1>3. (j \in burned => /\ Worth(Latest(j).order)
                       /\ \/ Noted(Latest(j))
                          \/ \E p \in Slots : slot[p].intent = j /\ slot[p].at = "redeem")'
  BY <1>1, <1>2 DEF Safe, Worth, Noted
<1>4. ASSUME NEW p \in Slots, slot'[p].intent = j PROVE Alone(p, j)'
  <2>1. slot'[p] = slot[p] /\ Alone(p, j)
    BY <1>4, <1>1 DEF Safe
  <2>2. home[j] \in Instances /\ mem'[home[j]][j] = mem[home[j]][j]
    BY <2>1, <1>4 DEF Alone
  <2> QED BY <2>1, <2>2 DEF Alone, Suits, Spending, Weighing
<1> QED BY <1>1, <1>2, <1>3, <1>4 DEF Safe

\* A step of a handler keeps the invariant.
LEMMA TurnedKeeps ==
    ASSUME Inv, NEW p \in Slots, NEW i \in Intents, NEW s \in Instances, NEW g, NEW r,
           Turned(p, i, s, g, r)
    PROVE  Inv'
<1> USE DEF Turned
<1>g. g \in Handler /\ (g.at = "idle" => g = Idle)
  BY PlacedTyped
<1>t. /\ slot \in [Slots -> Handler] /\ mem \in [Instances -> [Intents -> Intent]]
      /\ kv \in [Intents -> Intent] /\ paid \in [Intents -> Nat]
      /\ steady \in [Intents -> BOOLEAN] /\ home \in [Intents -> Instances \cup {"unborn", "kv"}]
      /\ \A q \in Slots : slot[q].out \in Intent
  BY DEF Inv, TypeOK, Handler
<1>s. /\ slot'[p] = g /\ \A q \in Slots \ {p} : slot'[q] = slot[q]
  BY <1>t
<1>m. /\ mem'[s][i] = r
      /\ \A x \in Instances, j \in Intents : x # s \/ j # i => mem'[x][j] = mem[x][j]
  BY <1>t
<1>k. /\ \A j \in Intents \ {i} : kv'[j] = kv[j]
      /\ \/ kv'[i] = kv[i]
         \/ slot[p].at = "set" /\ slot[p].intent = i /\ kv'[i] = slot[p].out
  BY <1>t
<1>1. TypeOK'
  <2>1. mem' \in [Instances -> [Intents -> Intent]] /\ slot' \in [Slots -> Handler]
    BY <1>t, <1>g
  <2>2. kv' \in [Intents -> Intent]
    BY <1>t
  <2> QED BY <2>1, <2>2 DEF Inv, TypeOK
<1>2. Shape'
  <2>1. ASSUME NEW q \in Slots
        PROVE  /\ slot'[q].at = "idle" => slot'[q] = Idle
               /\ slot'[q].at # "idle" =>
                   /\ slot'[q].inst \in Instances /\ slot'[q].intent \in Intents
                   /\ slot'[q].at # "get" => Known(mem'[slot'[q].inst][slot'[q].intent])
                   /\ slot'[q].at \in {"create", "set"} => Known(slot'[q].out)
    <3>1. CASE q = p
      BY <3>1, <1>s, <1>g, <1>m, IdleTyped DEF Placed
    <3>2. CASE q # p
      <4>1. slot'[q] = slot[q]
        BY <3>2, <1>s
      <4>2. ASSUME slot[q].at # "idle", slot[q].at # "get"
            PROVE  Known(mem'[slot[q].inst][slot[q].intent])
        <5>1. /\ slot[q].inst \in Instances /\ slot[q].intent \in Intents
              /\ Known(mem[slot[q].inst][slot[q].intent])
          BY <4>2 DEF Inv, Shape
        <5>2. CASE slot[q].inst = s /\ slot[q].intent = i
          <6>1. Known(mem[s][i])
            BY <5>1, <5>2
          <6> QED BY <6>1, <5>2, <1>m
        <5>3. CASE slot[q].inst # s \/ slot[q].intent # i
          BY <5>1, <5>3, <1>m
        <5> QED BY <5>2, <5>3
      <4> QED BY <4>1, <4>2 DEF Inv, Shape
    <3> QED BY <3>1, <3>2
  <2>2. ASSUME NEW j \in Intents
        PROVE  /\ ~Known(kv'[j]) => kv'[j] = Absent
               /\ \A x \in Instances : ~Known(mem'[x][j]) => mem'[x][j] = Absent
    <3>1. ~Known(kv'[j]) => kv'[j] = Absent
      BY <1>k DEF Inv, Shape
    <3>2. ASSUME NEW x \in Instances, ~Known(mem'[x][j]) PROVE mem'[x][j] = Absent
      BY <3>2, <1>m DEF Inv, Shape
    <3> QED BY <3>1, <3>2
  <2> QED BY <2>1, <2>2 DEF Shape
<1>3. Honest'
  <2> SUFFICES ASSUME NEW j \in Intents, paid'[j] = 0
               PROVE  /\ kv'[j].settlement # "DISBURSED"
                      /\ \A x \in Instances : mem'[x][j].settlement # "DISBURSED"
                      /\ \A q \in Slots : slot'[q].intent = j
                                                => slot'[q].out.settlement # "DISBURSED"
    BY DEF Honest
  <2>1. paid[j] = 0
    BY <1>t
  <2>2. /\ kv[j].settlement # "DISBURSED"
        /\ \A x \in Instances : mem[x][j].settlement # "DISBURSED"
        /\ \A q \in Slots : slot[q].intent = j => slot[q].out.settlement # "DISBURSED"
    BY <2>1 DEF Inv, Honest
  <2>3. kv'[j].settlement # "DISBURSED"
    BY <2>2, <1>k
  <2>4. ASSUME NEW x \in Instances PROVE mem'[x][j].settlement # "DISBURSED"
    BY <2>2, <1>m
  <2>5. ASSUME NEW q \in Slots, slot'[q].intent = j
        PROVE  slot'[q].out.settlement # "DISBURSED"
    BY <2>2, <2>5, <1>s, IdleTyped, NullAssumption DEF Placed
  <2> QED BY <2>3, <2>4, <2>5
<1>4. Unborn'
  <2> SUFFICES ASSUME NEW j \in Intents, home'[j] = "unborn"
               PROVE  paid'[j] = 0 /\ j \notin burned' /\ \A q \in Slots : slot'[q].intent # j
    BY DEF Unborn
  <2>1. j # i /\ home[j] = "unborn"
    BY <1>t
  <2>2. paid[j] = 0 /\ j \notin burned /\ \A q \in Slots : slot[q].intent # j
    BY <2>1 DEF Inv, Unborn
  <2> QED BY <2>1, <2>2, <1>s, IdleTyped, NullAssumption DEF Placed
<1>5. ASSUME NEW j \in Intents, j # i PROVE (Sure /\ steady[j] => Safe(j))'
  <2>1. \A q \in Slots : slot'[q].intent = j => slot'[q] = slot[q]
    BY <1>5, <1>s, IdleTyped, NullAssumption DEF Placed
  <2>2. \A q \in Slots : slot[q].intent = j /\ slot[q].at = "redeem" => slot'[q] = slot[q]
    BY <1>5, <1>s
  <2>3. \A q \in Slots : slot[q].intent = j => slot[q].inst \in Instances
    BY IdleTyped, NullAssumption DEF Inv, Shape
  <2>4. /\ \A x \in Instances : mem'[x][j] = mem[x][j]
        /\ kv'[j] = kv[j] /\ paid'[j] = paid[j] /\ home'[j] = home[j]
        /\ steady'[j] = steady[j]
        /\ j \in burned' <=> j \in burned
    BY <1>5, <1>m, <1>k, <1>t
  <2>5. Sure /\ steady[j] => Safe(j)
    BY DEF Inv
  <2>6. home[j] \in Instances \cup {"unborn", "kv"}
    BY <1>t
  <2> QED BY <2>1, <2>2, <2>3, <2>4, <2>5, <2>6, Frame
<1>6. (Sure /\ steady[i] => Safe(i))'
  <2> SUFFICES ASSUME Sure, steady'[i] PROVE Safe(i)'
    BY DEF Sure
  <2>1. /\ Safe(i) /\ home'[i] = s /\ \A q \in Slots \ {p} : slot[q].intent # i
        /\ Looks(p, i, s, g, r) \/ Works(p, i, s, g, r)
    BY DEF Inv
  <2>2. Latest(i)' = IF Known(r) THEN r ELSE kv'[i]
    BY <2>1, <1>m DEF Latest, View
  <2>3. \A q \in Slots : slot'[q].intent = i => q = p
    BY <2>1, <1>s
  <2>4. CASE Looks(p, i, s, g, r)
    <3>1. Latest(i)' = Latest(i) /\ paid'[i] = paid[i] /\ burned' = burned
      BY <2>4, <2>2 DEF Looks
    <3>2. \A q \in Slots : slot[q].intent = i => slot[q].at # "redeem"
      BY <2>1, <2>4 DEF Looks
    <3>3. ASSUME NEW q \in Slots, slot'[q].intent = i PROVE Alone(q, i)'
      BY <3>3, <2>1, <2>3, <2>4, <1>s, <1>m, IdleTyped, NullAssumption
         DEF Looks, Alone, Suits, Spending, Weighing, Placed
    <3>4. (i \in burned => /\ Worth(Latest(i).order)
                           /\ \/ Noted(Latest(i))
                              \/ \E q \in Slots : slot[q].intent = i /\ slot[q].at = "redeem")'
      BY <2>1, <3>1, <3>2 DEF Safe, Worth, Noted
    <3> QED BY <2>1, <3>1, <3>3, <3>4 DEF Safe
  <2>5. CASE Works(p, i, s, g, r)
    <3>1. Latest(i)' = r /\ Known(r)
      BY <2>5, <2>2 DEF Works, Kept
    <3>2. paid'[i] <= 1 /\ (paid'[i] > 0 => r.burn)
      BY <2>1, <2>5, <1>t DEF Works, Kept, Safe
    <3>3. (i \in burned => /\ Worth(Latest(i).order)
                           /\ \/ Noted(Latest(i))
                              \/ \E q \in Slots : slot[q].intent = i /\ slot[q].at = "redeem")'
      <4> SUFFICES ASSUME i \in burned'
                   PROVE  /\ Worth(r.order)
                          /\ \/ Noted(r)
                             \/ \E q \in Slots : slot'[q].intent = i /\ slot'[q].at = "redeem"
        BY <3>1 DEF Worth, Noted
      <4>1. CASE Worth(r.order) /\ (Noted(r) \/ g.at = "redeem")
        BY <4>1, <1>s, IdleTyped DEF Placed
      <4>2. CASE i \in burned
        <5>1. /\ Worth(Latest(i).order)
              /\ \/ Noted(Latest(i))
                 \/ \E q \in Slots : slot[q].intent = i /\ slot[q].at = "redeem"
          BY <4>2, <2>1 DEF Safe
        <5>2. CASE Noted(Latest(i))
          BY <5>1, <5>2, <2>5 DEF Works, Kept, Noted
        <5>3. CASE \E q \in Slots : slot[q].intent = i /\ slot[q].at = "redeem"
          BY <5>1, <5>3, <2>1, <2>5 DEF Works, Kept
        <5> QED BY <5>1, <5>2, <5>3
      <4> QED BY <4>1, <4>2, <2>5 DEF Works
    <3>4. ASSUME NEW q \in Slots, slot'[q].intent = i PROVE Alone(q, i)'
      <4>1. q = p /\ slot'[p] = g /\ g # Idle
        BY <3>4, <2>3, <1>s, IdleTyped, NullAssumption
      <4> QED BY <4>1, <2>1, <2>5, <1>s, <1>m DEF Works, Alone, Suits, Spending, Weighing, Placed
    <3> QED BY <3>1, <3>2, <3>3, <3>4 DEF Safe
  <2> QED BY <2>1, <2>4, <2>5
<1>7. \A j \in Intents : (Sure /\ steady[j] => Safe(j))'
  BY <1>5, <1>6
<1> QED BY <1>1, <1>2, <1>3, <1>4, <1>7 DEF Inv

\* A handler that finds no intent returns.
LEMMA LeftKeeps ==
    ASSUME Inv, NEW p \in Slots, slot[p].at \in {"idle", "get"},
           slot' = [slot EXCEPT ![p] = Idle],
           UNCHANGED <<store, final, money, history>>, calls' \in 0 .. MaxCalls
    PROVE  Inv'
<1> USE DEF store, money, history
<1>s. /\ slot \in [Slots -> Handler] /\ slot'[p] = Idle
      /\ \A q \in Slots \ {p} : slot'[q] = slot[q]
  BY DEF Inv, TypeOK
<1>1. TypeOK'
  BY <1>s, IdleTyped DEF Inv, TypeOK
<1>2. Shape'
  BY <1>s, IdleTyped DEF Inv, Shape
<1>3. Honest'
  BY <1>s, IdleTyped, NullAssumption DEF Inv, Honest
<1>4. Unborn'
  BY <1>s, IdleTyped, NullAssumption DEF Inv, Unborn
<1>5. ASSUME NEW j \in Intents PROVE (Sure /\ steady[j] => Safe(j))'
  <2>1. \A q \in Slots : slot'[q].intent = j => slot'[q] = slot[q]
    BY <1>s, IdleTyped, NullAssumption
  <2>2. \A q \in Slots : slot[q].intent = j /\ slot[q].at = "redeem" => slot'[q] = slot[q]
    BY <1>s
  <2>3. \A q \in Slots : slot[q].intent = j => slot[q].inst \in Instances
    BY IdleTyped, NullAssumption DEF Inv, Shape
  <2>4. (Sure /\ steady[j] => Safe(j)) /\ home[j] \in Instances \cup {"unborn", "kv"}
    BY DEF Inv, TypeOK
  <2> QED BY <2>1, <2>2, <2>3, <2>4, Frame
<1> QED BY <1>1, <1>2, <1>3, <1>4, <1>5 DEF Inv

\* A new intent on an instance.
LEMMA CreateIntentKeeps ==
    ASSUME Inv, NEW s \in Instances, NEW i \in Intents, NEW o \in Orders, CreateIntent(s, i, o)
    PROVE  Inv'
<1> DEFINE r == [Absent EXCEPT !.status = "CREATED", !.order = o]
<1>r. r \in Intent /\ Known(r) /\ r.settlement = "NONE"
  BY AbsentTyped DEF Intent, Known, Absent
<1> HIDE DEF r
<1>t. /\ mem \in [Instances -> [Intents -> Intent]] /\ kv \in [Intents -> Intent]
      /\ home \in [Intents -> Instances \cup {"unborn", "kv"}]
      /\ slot \in [Slots -> Handler] /\ paid \in [Intents -> Nat]
      /\ steady \in [Intents -> BOOLEAN]
  BY DEF Inv, TypeOK
<1>c. /\ home[i] = "unborn" /\ mem' = [mem EXCEPT ![s][i] = r]
      /\ kv' = kv \/ kv' = [kv EXCEPT ![i] = r]
      /\ home' = [home EXCEPT ![i] = s]
      /\ slot' = slot /\ final' = final /\ burned' = burned /\ paid' = paid
      /\ calls' = calls /\ steady' = steady
  BY DEF CreateIntent, r, money
<1>u. paid[i] = 0 /\ i \notin burned /\ \A p \in Slots : slot[p].intent # i
  BY <1>c DEF Inv, Unborn
<1>m. /\ mem'[s][i] = r
      /\ \A x \in Instances, j \in Intents : x # s \/ j # i => mem'[x][j] = mem[x][j]
      /\ kv'[i] \in {kv[i], r} /\ \A j \in Intents \ {i} : kv'[j] = kv[j]
      /\ home'[i] = s /\ \A j \in Intents \ {i} : home'[j] = home[j]
  BY <1>t, <1>c
<1>1. TypeOK'
  <2>1. mem' \in [Instances -> [Intents -> Intent]] /\ kv' \in [Intents -> Intent]
        /\ home' \in [Intents -> Instances \cup {"unborn", "kv"}]
    BY <1>t, <1>c, <1>r
  <2> QED BY <2>1, <1>c DEF Inv, TypeOK
<1>2. Shape'
  <2>1. ASSUME NEW p \in Slots, slot[p].at # "idle", slot[p].at # "get"
        PROVE  Known(mem'[slot[p].inst][slot[p].intent])
    BY <2>1, <1>u, <1>m DEF Inv, Shape
  <2>2. ASSUME NEW j \in Intents
        PROVE  /\ ~Known(kv'[j]) => kv'[j] = Absent
               /\ \A x \in Instances : ~Known(mem'[x][j]) => mem'[x][j] = Absent
    <3>1. ~Known(kv'[j]) => kv'[j] = Absent
      BY <1>m, <1>r DEF Inv, Shape
    <3>2. ASSUME NEW x \in Instances, ~Known(mem'[x][j]) PROVE mem'[x][j] = Absent
      BY <3>2, <1>m, <1>r DEF Inv, Shape
    <3> QED BY <3>1, <3>2
  <2> QED BY <2>1, <2>2, <1>c DEF Inv, Shape
<1>3. Honest'
  <2> SUFFICES ASSUME NEW j \in Intents, paid[j] = 0
               PROVE  /\ kv'[j].settlement # "DISBURSED"
                      /\ \A x \in Instances : mem'[x][j].settlement # "DISBURSED"
                      /\ \A q \in Slots : slot[q].intent = j
                                                => slot[q].out.settlement # "DISBURSED"
    BY <1>c DEF Honest
  <2>2. /\ kv[j].settlement # "DISBURSED"
        /\ \A x \in Instances : mem[x][j].settlement # "DISBURSED"
        /\ \A q \in Slots : slot[q].intent = j => slot[q].out.settlement # "DISBURSED"
    BY DEF Inv, Honest
  <2>4. ASSUME NEW x \in Instances PROVE mem'[x][j].settlement # "DISBURSED"
    BY <2>2, <1>m, <1>r
  <2> QED BY <2>2, <2>4, <1>m, <1>r
<1>4. Unborn'
  BY <1>c, <1>m, HomeAssumption DEF Inv, Unborn
<1>5. ASSUME NEW j \in Intents, j # i PROVE (Sure /\ steady[j] => Safe(j))'
  <2>1. \A q \in Slots : slot[q].intent = j => slot[q].inst \in Instances
    BY IdleTyped, NullAssumption DEF Inv, Shape
  <2>2. (Sure /\ steady[j] => Safe(j)) /\ home[j] \in Instances \cup {"unborn", "kv"}
    BY DEF Inv, TypeOK
  <2>3. \A x \in Instances : mem'[x][j] = mem[x][j]
    BY <1>5, <1>m
  <2>4. kv'[j] = kv[j] /\ home'[j] = home[j]
    BY <1>5, <1>m
  <2> QED BY <2>1, <2>2, <2>3, <2>4, <1>c, Frame
<1>6. (Sure /\ steady[i] => Safe(i))'
  BY <1>c, <1>u DEF Safe, Sure
<1>7. \A j \in Intents : (Sure /\ steady[j] => Safe(j))'
  BY <1>5, <1>6
<1> QED BY <1>1, <1>2, <1>3, <1>4, <1>7 DEF Inv

\* An instance ends.
LEMMA KillKeeps ==
    ASSUME Inv, NEW s \in Instances, Kill(s)
    PROVE  Inv'
<1> DEFINE Hit(i) == \E p \in Slots : slot[p].inst = s /\ slot[p].intent = i
<1>t. /\ mem \in [Instances -> [Intents -> Intent]] /\ kv \in [Intents -> Intent]
      /\ home \in [Intents -> Instances \cup {"unborn", "kv"}]
      /\ slot \in [Slots -> Handler] /\ steady \in [Intents -> BOOLEAN]
  BY DEF Inv, TypeOK
<1>c. /\ mem' = [mem EXCEPT ![s] = [i \in Intents |-> Absent]]
      /\ slot' = [p \in Slots |-> IF slot[p].inst = s THEN Idle ELSE slot[p]]
      /\ home' = [i \in Intents |-> IF home[i] = s THEN "kv" ELSE home[i]]
      /\ steady' = [i \in Intents |->
                     steady[i] /\ ~Hit(i) /\ (home[i] = s => View(s, i) = kv[i])]
      /\ kv' = kv /\ final' = final /\ burned' = burned /\ paid' = paid /\ calls' = calls
  BY DEF Kill, money
<1>m. /\ \A i \in Intents : mem'[s][i] = Absent
      /\ \A x \in Instances \ {s} : mem'[x] = mem[x]
      /\ \A i \in Intents : home'[i] = IF home[i] = s THEN "kv" ELSE home[i]
      /\ \A p \in Slots : slot'[p] = IF slot[p].inst = s THEN Idle ELSE slot[p]
  BY <1>t, <1>c
<1>1. TypeOK'
  <2>1. mem' \in [Instances -> [Intents -> Intent]]
    BY <1>t, <1>c, AbsentTyped
  <2>2. slot' \in [Slots -> Handler]
    BY <1>t, <1>c, IdleTyped
  <2>3. home' \in [Intents -> Instances \cup {"unborn", "kv"}]
    BY <1>t, <1>c
  <2>4. steady' \in [Intents -> BOOLEAN]
    BY <1>t, <1>c
  <2> QED BY <2>1, <2>2, <2>3, <2>4, <1>c DEF Inv, TypeOK
<1>2. Shape'
  <2>1. ASSUME NEW p \in Slots
        PROVE  /\ slot'[p].at = "idle" => slot'[p] = Idle
               /\ slot'[p].at # "idle" =>
                   /\ slot'[p].inst \in Instances /\ slot'[p].intent \in Intents
                   /\ slot'[p].at # "get" => Known(mem'[slot'[p].inst][slot'[p].intent])
                   /\ slot'[p].at \in {"create", "set"} => Known(slot'[p].out)
    BY <1>m, IdleTyped DEF Inv, Shape
  <2>2. ASSUME NEW i \in Intents
        PROVE  /\ ~Known(kv'[i]) => kv'[i] = Absent
               /\ \A x \in Instances : ~Known(mem'[x][i]) => mem'[x][i] = Absent
    BY <1>m, <1>c DEF Inv, Shape
  <2> QED BY <2>1, <2>2 DEF Shape
<1>3. Honest'
  BY <1>c, <1>m, IdleTyped, AbsentTyped, NullAssumption DEF Inv, Honest
<1>4. Unborn'
  BY <1>c, <1>m, IdleTyped, NullAssumption, HomeAssumption DEF Inv, Unborn
<1>5. ASSUME NEW i \in Intents, Sure, steady'[i] PROVE Safe(i)'
  <2>1. /\ steady[i] /\ \A p \in Slots : slot[p].intent = i => slot[p].inst # s
        /\ home[i] = s => View(s, i) = kv[i]
    BY <1>5, <1>c
  <2>2. Safe(i)
    BY <1>5, <2>1 DEF Inv
  <2>3. Latest(i)' = Latest(i)
    <3>1. CASE home[i] = s
      BY <3>1, <2>1, <1>m, <1>c, HomeAssumption DEF Latest
    <3>2. CASE home[i] # s
      BY <3>2, <1>m, <1>c, <1>t DEF Latest, View
    <3> QED BY <3>1, <3>2
  <2>4. \A p \in Slots : slot[p].intent = i => slot'[p] = slot[p]
    BY <2>1, <1>m
  <2>5. \A p \in Slots : slot'[p].intent = i => slot'[p] = slot[p]
    BY <1>m, IdleTyped, NullAssumption
  <2>6. (i \in burned => /\ Worth(Latest(i).order)
                         /\ \/ Noted(Latest(i))
                            \/ \E p \in Slots : slot[p].intent = i /\ slot[p].at = "redeem")'
    BY <2>2, <2>3, <2>4, <1>c DEF Safe, Worth, Noted
  <2>7. ASSUME NEW p \in Slots, slot'[p].intent = i PROVE Alone(p, i)'
    <3>1. slot'[p] = slot[p] /\ Alone(p, i) /\ slot[p].inst # s
      BY <2>7, <2>5, <2>1, <2>2 DEF Safe
    <3>2. home[i] # s /\ home'[i] = home[i] /\ home[i] \in Instances
      <4>1. slot[p].at # "idle"
        BY <3>1, <2>7, IdleTyped, NullAssumption DEF Inv, Shape
      <4> QED BY <3>1, <4>1, <1>m DEF Alone, Inv, Shape
    <3>3. mem'[home[i]] = mem[home[i]]
      BY <3>2, <1>m
    <3>4. \A q \in Slots \ {p} : slot'[q].intent # i
      BY <3>1, <2>5 DEF Alone
    <3> QED BY <3>1, <3>2, <3>3, <3>4, <1>c DEF Alone, Suits, Spending, Weighing
  <2> QED BY <2>2, <2>3, <2>6, <2>7, <1>c DEF Safe
<1>6. \A i \in Intents : (Sure /\ steady[i] => Safe(i))'
  BY <1>5 DEF Sure
<1> QED BY <1>1, <1>2, <1>3, <1>4, <1>6 DEF Inv

-----------------------------------------------------------------------------
(***************************************************************************)
(* The steps.                                                              *)
(***************************************************************************)

\* What is known of a handler under way.
LEMMA Own ==
    ASSUME Inv, NEW p \in Slots, slot[p].at # "idle"
    PROVE  /\ slot[p] \in Handler /\ slot[p].at \in Stages
           /\ slot[p].inst \in Instances /\ slot[p].intent \in Intents
           /\ home[slot[p].intent] # "unborn"
           /\ mem \in [Instances -> [Intents -> Intent]]
           /\ Mine(slot[p]) \in Intent /\ slot[p].out \in Intent /\ kv[slot[p].intent] \in Intent
           /\ slot[p].at # "get" => Known(Mine(slot[p]))
           /\ paid[slot[p].intent] = 0 =>
                 /\ Mine(slot[p]).settlement # "DISBURSED" /\ slot[p].out.settlement # "DISBURSED"
                 /\ kv[slot[p].intent].settlement # "DISBURSED"
           /\ Sure /\ steady[slot[p].intent] =>
                 /\ Safe(slot[p].intent) /\ Alone(p, slot[p].intent)
                 /\ Latest(slot[p].intent) = View(slot[p].inst, slot[p].intent)
<1>1. /\ slot[p] \in Handler /\ slot[p].inst \in Instances /\ slot[p].intent \in Intents
      /\ mem \in [Instances -> [Intents -> Intent]] /\ kv \in [Intents -> Intent]
  BY DEF Inv, TypeOK, Shape
<1>2. slot[p].at \in Stages /\ slot[p].out \in Intent
  BY <1>1 DEF Handler
<1>3. home[slot[p].intent] # "unborn"
  BY <1>1 DEF Inv, Unborn
<1>4. slot[p].at # "get" => Known(Mine(slot[p]))
  BY DEF Inv, Shape, Mine
<1>5. paid[slot[p].intent] = 0 =>
         /\ Mine(slot[p]).settlement # "DISBURSED" /\ slot[p].out.settlement # "DISBURSED"
         /\ kv[slot[p].intent].settlement # "DISBURSED"
  BY <1>1 DEF Inv, Honest, Mine
<1>6. ASSUME Sure, steady[slot[p].intent]
      PROVE  /\ Safe(slot[p].intent) /\ Alone(p, slot[p].intent)
             /\ Latest(slot[p].intent) = View(slot[p].inst, slot[p].intent)
  <2>1. Safe(slot[p].intent) /\ Alone(p, slot[p].intent)
    BY <1>1, <1>6 DEF Inv, Safe
  <2> QED BY <2>1, <1>1 DEF Alone, Latest
<1> QED BY <1>1, <1>2, <1>3, <1>4, <1>5, <1>6 DEF Mine

\* A step that moves no money and leaves the await it is at.
LEMMA PlainKeeps ==
    ASSUME Inv, NEW p \in Slots, slot[p].at \in Stages \ {"get", "redeem"},
           NEW g, NEW r \in Intent, NEW i, NEW s, i = slot[p].intent, s = slot[p].inst,
           slot' = [slot EXCEPT ![p] = g], mem' = [mem EXCEPT ![s][i] = r],
           \/ kv' = kv
           \/ slot[p].at = "set" /\ kv' = [kv EXCEPT ![i] = slot[p].out],
           UNCHANGED <<final, money, calls, history>>,
           Known(r), r.settlement = "DISBURSED" => paid[i] # 0,
           \/ g = Idle
           \/ /\ g \in Handler /\ g.at \in {"set", "verify", "settle"}
              /\ g.inst = s /\ g.intent = i
              /\ g.at = "set" => Known(g.out),
           g.out.settlement = "DISBURSED" => paid[i] # 0,
           Sure /\ steady[i] =>
              /\ Kept(Mine(slot[p]), r)
              /\ g = Idle \/ (g.at = "set" => g.out = r)
              /\ Suits(g, r)
    PROVE  Inv'
<1> USE DEF money, history
<1>o. /\ slot[p].at # "idle" /\ i \in Intents /\ s \in Instances /\ home[i] # "unborn"
      /\ paid \in [Intents -> Nat] /\ steady \in [Intents -> BOOLEAN] /\ calls \in 0 .. MaxCalls
  BY Own DEF Stages, Inv, TypeOK
<1>1. Placed(g, i, s, r)
  BY DEF Placed, Stages
<1>2. ASSUME Sure, steady[i]
      PROVE  /\ home[i] = s /\ \A q \in Slots \ {p} : slot[q].intent # i
             /\ Works(p, i, s, g, r)
  <2>1. /\ Alone(p, i) /\ Latest(i) = View(s, i) /\ Known(Mine(slot[p]))
    BY <1>2, <1>o, Own
  <2>2. Latest(i) = Mine(slot[p])
    BY <2>1 DEF View, Mine
  <2>3. slot[p].at # "redeem" /\ (g = Idle \/ g.at \notin {"get", "create", "redeem"})
    OBVIOUS
  <2>4. Kept(Latest(i), r) /\ (g = Idle \/ (g.at = "set" => g.out = r)) /\ Suits(g, r)
    BY <1>2, <2>2
  <2> QED BY <2>1, <2>3, <2>4 DEF Alone, Works
<1>3. /\ home' \in {home, [home EXCEPT ![i] = s]} /\ home'[i] # "unborn"
      /\ steady' \in [Intents -> BOOLEAN] /\ (\A j \in Intents \ {i} : steady'[j] = steady[j])
      /\ paid' \in [Intents -> Nat] /\ (\A j \in Intents \ {i} : paid'[j] = paid[j])
      /\ paid'[i] >= paid[i] /\ burned' \in {burned, burned \cup {i}}
  BY <1>o
<1>4. Turned(p, i, s, g, r)
  BY <1>o, <1>1, <1>2, <1>3 DEF Turned
<1> QED BY <1>4, <1>o, TurnedKeeps

\* Record r of i is written to the memory m of s.
Stored(m, s, i, r) == mem' = [m EXCEPT ![s][i] = r]

\* What is left of a handler is a handler of the same intent.
LEMMA RestTyped ==
    ASSUME NEW h \in Handler, NEW next \in {"found", "settle", "end"}
    PROVE  /\ Rest(h, next) \in Handler
           /\ Rest(h, next).inst = h.inst /\ Rest(h, next).intent = h.intent
           /\ next # "end" => Rest(h, next).done = h.done /\ Rest(h, next).order = h.order
<1>1. CASE next = "end"
  <2>1. Rest(h, next) = [Idle EXCEPT !.inst = h.inst, !.intent = h.intent]
    BY <1>1 DEF Rest
  <2> QED BY <1>1, <2>1, IdleTyped DEF Handler
<1>2. CASE next = "settle"
  <2>1. Rest(h, next) = [h EXCEPT !.tx = NoTx, !.payer = NoWallet]
    BY <1>2 DEF Rest
  <2> QED BY <1>2, <2>1 DEF Handler
<1>3. CASE next = "found"
  BY <1>3 DEF Rest
<1> QED BY <1>1, <1>2, <1>3

\* g is the handler f at a SET.
Setting(f, r, next, g) == g = [f EXCEPT !.at = "set", !.next = next, !.out = r]

LEMMA SettingTyped ==
    ASSUME NEW f \in Handler, NEW r \in Intent, NEW next \in {"found", "settle", "end"},
           NEW g, Setting(f, r, next, g)
    PROVE  /\ g \in Handler /\ g.at = "set" /\ g.next = next /\ g.out = r
           /\ g.inst = f.inst /\ g.intent = f.intent /\ g.done = f.done /\ g.order = f.order
<1>1. g \in Handler
  BY DEF Handler, Setting, Stages
<1>2. g.at = "set" /\ g.next = next /\ g.out = r
  BY DEF Handler, Setting
<1>3. g.inst = f.inst /\ g.intent = f.intent /\ g.done = f.done /\ g.order = f.order
  BY DEF Handler, Setting
<1> QED BY <1>1, <1>2, <1>3

\* What Write does.
LEMMA WriteFacts ==
    ASSUME NEW p \in Slots, NEW h \in Handler, NEW r \in Intent,
           NEW next \in {"found", "settle", "end"}, NEW m, Write(p, h, r, next, m)
    PROVE  \E g \in Handler :
              /\ Go(p, g) /\ Stored(m, h.inst, h.intent, r)
              /\ g.at = "set" /\ g.next = next /\ g.out = r
              /\ g.inst = h.inst /\ g.intent = h.intent
              /\ next # "end" => g.done = h.done /\ g.order = h.order
<1>1. PICK f \in Handler : f = Rest(h, next)
  BY RestTyped
<1>2. /\ f.inst = h.inst /\ f.intent = h.intent
      /\ next # "end" => f.done = h.done /\ f.order = h.order
  BY <1>1, RestTyped
<1>3. PICK g : Setting(f, r, next, g)
  BY DEF Setting
<1>4. /\ g \in Handler /\ g.at = "set" /\ g.next = next /\ g.out = r
      /\ g.inst = f.inst /\ g.intent = f.intent /\ g.done = f.done /\ g.order = f.order
  BY <1>3, SettingTyped
<1>5. Go(p, g) /\ Stored(m, h.inst, h.intent, r)
  BY <1>1, <1>3 DEF Write, Go, Stored, Setting
<1> QED BY <1>2, <1>4, <1>5

\* A confirm that goes on to the chain.
LEMMA VerifyFacts ==
    ASSUME NEW p \in Slots, NEW h \in Handler, NEW x \in Intent,
           Go(p, [h EXCEPT !.at = "verify", !.next = "end", !.out = Absent,
                           !.payer = IF @ = NoWallet THEN x.payer_account ELSE @,
                           !.order = x.order])
    PROVE  \E g \in Handler :
              /\ Go(p, g) /\ g.at = "verify" /\ g.out = Absent /\ g.order = x.order
              /\ g.inst = h.inst /\ g.intent = h.intent
<1> DEFINE g == [h EXCEPT !.at = "verify", !.next = "end", !.out = Absent,
                          !.payer = IF @ = NoWallet THEN x.payer_account ELSE @,
                          !.order = x.order]
<1>1. x.order \in Orders /\ h.payer \in Wallets \cup {NoWallet} /\ x.payer_account \in Wallets \cup {NoWallet}
  BY DEF Handler, Intent
<1>2. g \in Handler
  BY <1>1, AbsentTyped DEF Handler, Stages
<1>3. g.at = "verify" /\ g.out = Absent /\ g.order = x.order
  BY DEF Handler
<1>4. g.inst = h.inst /\ g.intent = h.intent
  BY DEF Handler
<1>5. Go(p, g)
  BY DEF Go
<1> HIDE DEF g
<1> QED BY <1>2, <1>3, <1>4, <1>5

\* The records that the builder and the webhook write when they have found the
\* intent.
Builds(p, h, y, m) ==
    Write(p, h, [y EXCEPT !.status = "AUTHORIZATION_REQUESTED",
                          !.payer_account = h.payer], "end", m)

LEMMA BuildRecord ==
    ASSUME NEW p, NEW h \in Handler, NEW y \in Intent, NEW m,
           Builds(p, h, y, m)
    PROVE  \E r \in Intent :
              /\ Write(p, h, r, "end", m) /\ Known(r)
              /\ r.settlement = y.settlement /\ r.order = y.order /\ r.burn = y.burn
<1> DEFINE r == [y EXCEPT !.status = "AUTHORIZATION_REQUESTED", !.payer_account = h.payer]
<1>1. r \in Intent /\ Known(r)
  BY DEF Handler, Intent, Known
<1>2. r.settlement = y.settlement /\ r.order = y.order /\ r.burn = y.burn
  BY DEF Intent
<1>3. Write(p, h, r, "end", m)
  BY DEF Builds
<1> HIDE DEF r
<1> QED BY <1>1, <1>2, <1>3

Confirms(p, h, x, m) ==
    Write(p, [h EXCEPT !.done = x.burn, !.order = x.order],
          [x EXCEPT !.status = "ON_CHAIN_CONFIRMED",
                    !.txHash = h.tx, !.payer_account = h.payer], "settle", m)

LEMMA WebhookRecord ==
    ASSUME NEW p, NEW h \in Handler, NEW x \in Intent, NEW m,
           Confirms(p, h, x, m)
    PROVE  \E f \in Handler, r \in Intent :
              /\ Write(p, f, r, "settle", m) /\ Known(r)
              /\ r.settlement = x.settlement /\ r.order = x.order /\ r.burn = x.burn
              /\ f.inst = h.inst /\ f.intent = h.intent /\ f.done = x.burn
              /\ f.order = x.order
<1> DEFINE f == [h EXCEPT !.done = x.burn, !.order = x.order]
<1> DEFINE r == [x EXCEPT !.status = "ON_CHAIN_CONFIRMED", !.txHash = h.tx,
                          !.payer_account = h.payer]
<1>1. r \in Intent /\ Known(r)
  BY DEF Handler, Intent, Known
<1>2. r.settlement = x.settlement /\ r.order = x.order /\ r.burn = x.burn
  BY DEF Intent
<1>3. /\ f \in Handler /\ f.inst = h.inst /\ f.intent = h.intent /\ f.done = x.burn
      /\ f.order = x.order
  <2>1. x.burn \in BOOLEAN /\ x.order \in Orders
    BY DEF Intent
  <2> QED BY <2>1 DEF Handler
<1>4. Write(p, f, r, "settle", m)
  BY DEF Confirms
<1> HIDE DEF f, r
<1> QED BY <1>1, <1>2, <1>3, <1>4

\* What Found does: the handler returns, verifies, or writes a record that goes
\* back to the one it found or the one in its memory.
LEMMA FoundFacts ==
    ASSUME NEW p \in Slots, NEW h \in Handler, NEW x \in Intent, NEW m,
           m \in [Instances -> [Intents -> Intent]],
           h.inst \in Instances, h.intent \in Intents,
           Known(x), Known(m[h.inst][h.intent]), Found(p, h, x, m)
    PROVE  \E g \in Handler, r \in Intent :
              /\ Go(p, g) /\ Stored(m, h.inst, h.intent, r)
              /\ Known(r)
              /\ r.settlement \in {x.settlement, m[h.inst][h.intent].settlement}
              /\ g.out.settlement \in {r.settlement, "NONE"}
              /\ \/ g = Idle
                 \/ /\ g.at \in {"set", "verify"} /\ g.inst = h.inst /\ g.intent = h.intent
                    /\ g.at = "set" => g.out = r
              /\ x = m[h.inst][h.intent] => Kept(x, r) /\ Suits(g, r)
<1> DEFINE y == m[h.inst][h.intent]
<1>y. y \in Intent /\ (mem' = m => Stored(m, h.inst, h.intent, y))
  BY DEF Stored
<1>k. Kept(y, y)
  BY DEF Kept
<1>1. CASE h.kind = "confirm" /\ mem' = m /\ Refused(h, x, m) /\ Go(p, Idle)
  BY <1>1, <1>y, <1>k, IdleTyped, AbsentTyped DEF Suits, Spending, Weighing
<1>2. CASE /\ h.kind = "confirm" /\ mem' = m
           /\ Go(p, [h EXCEPT !.at = "verify", !.next = "end", !.out = Absent,
                              !.payer = IF @ = NoWallet THEN x.payer_account ELSE @,
                              !.order = x.order])
  <2>1. PICK g \in Handler : /\ Go(p, g) /\ g.at = "verify"
                            /\ g.out = Absent /\ g.inst = h.inst /\ g.intent = h.intent
                            /\ g.order = x.order
    BY <1>2, VerifyFacts
  <2> QED BY <1>2, <2>1, <1>y, <1>k, AbsentTyped DEF Suits, Spending, Weighing
<1>3. CASE h.kind = "build" /\ Write(p, h, [y EXCEPT !.status = "AUTHORIZATION_REQUESTED",
                                                    !.payer_account = h.payer], "end", m)
  <2>1. PICK r \in Intent :
            /\ Write(p, h, r, "end", m) /\ Known(r)
            /\ r.settlement = y.settlement /\ r.order = y.order /\ r.burn = y.burn
    <3>1. Builds(p, h, y, m)
      BY <1>3 DEF Builds
    <3> HIDE DEF y
    <3> QED BY <1>y, <3>1, BuildRecord
  <2>2. PICK g \in Handler :
            /\ Go(p, g) /\ Stored(m, h.inst, h.intent, r)
            /\ g.at = "set" /\ g.next = "end" /\ g.out = r
            /\ g.inst = h.inst /\ g.intent = h.intent
    BY <2>1, WriteFacts
  <2>3. Kept(y, r) /\ Suits(g, r)
    BY <2>1, <2>2 DEF Kept, Suits, Spending, Weighing
  <2> QED BY <2>1, <2>2, <2>3
<1>4. CASE h.kind = "webhook" /\ mem' = m /\ Go(p, Idle)
  BY <1>4, <1>y, <1>k, IdleTyped, AbsentTyped DEF Suits, Spending, Weighing
<1>5. CASE h.kind = "webhook" /\ Write(p, [h EXCEPT !.done = x.burn, !.order = x.order],
                                        [x EXCEPT !.status = "ON_CHAIN_CONFIRMED",
                                                  !.txHash = h.tx, !.payer_account = h.payer],
                                        "settle", m)
  <2>1. PICK f \in Handler, r \in Intent :
            /\ Write(p, f, r, "settle", m) /\ Known(r)
            /\ r.settlement = x.settlement /\ r.order = x.order /\ r.burn = x.burn
            /\ f.inst = h.inst /\ f.intent = h.intent /\ f.done = x.burn /\ f.order = x.order
    <3>1. Confirms(p, h, x, m)
      BY <1>5 DEF Confirms
    <3> QED BY <3>1, WebhookRecord
  <2>2. PICK g \in Handler :
            /\ Go(p, g) /\ Stored(m, h.inst, h.intent, r)
            /\ g.at = "set" /\ g.next = "settle" /\ g.out = r
            /\ g.inst = h.inst /\ g.intent = h.intent /\ g.done = x.burn /\ g.order = x.order
    BY <2>1, WriteFacts
  <2>3. Kept(x, r) /\ Suits(g, r)
    BY <2>1, <2>2 DEF Kept, Suits, Spending, Weighing
  <2> QED BY <2>1, <2>2, <2>3
<1> QED BY <1>1, <1>2, <1>3, <1>4, <1>5 DEF Found

\* The record that is read into the memory is overwritten at once.
LEMMA Extensional ==
    ASSUME NEW A, NEW B, NEW f \in [A -> B], NEW g \in [A -> B], \A a \in A : f[a] = g[a]
    PROVE  f = g
OBVIOUS

LEMMA SameMemory ==
    ASSUME NEW b, mem' \in [Instances -> [Intents -> Intent]],
           b \in [Instances -> [Intents -> Intent]], \A t \in Instances : mem'[t] = b[t]
    PROVE  mem' = b
OBVIOUS

LEMMA Overwritten ==
    ASSUME mem \in [Instances -> [Intents -> Intent]], NEW s \in Instances, NEW i \in Intents,
           NEW x \in Intent, NEW r \in Intent, NEW m, m = [mem EXCEPT ![s][i] = x],
           Stored(m, s, i, r)
    PROVE  Stored(mem, s, i, r)
<1> DEFINE b == [mem EXCEPT ![s][i] = r]
<1>1. m \in [Instances -> [Intents -> Intent]]
  OBVIOUS
<1>2. mem' \in [Instances -> [Intents -> Intent]] /\ b \in [Instances -> [Intents -> Intent]]
  BY <1>1 DEF Stored
<1>3. ASSUME NEW t \in Instances, NEW j \in Intents PROVE mem'[t][j] = b[t][j]
  BY <1>1 DEF Stored
<1> HIDE DEF b
<1>4. ASSUME NEW t \in Instances PROVE mem'[t] = b[t]
  <2>1. mem'[t] \in [Intents -> Intent] /\ b[t] \in [Intents -> Intent]
    BY <1>2
  <2> QED BY <2>1, <1>3, Extensional
<1>5. mem' = b
  BY <1>2, <1>4, SameMemory
<1> QED BY <1>5 DEF Stored, b

\* A step in which p finds the intent of h, from whatever await it comes.
LEMMA FoundKeeps ==
    ASSUME Inv, NEW p \in Slots, NEW h \in Handler, NEW i \in Intents, NEW s \in Instances,
           i = h.intent, s = h.inst,
           NEW x \in Intent, Known(x), x.settlement = "DISBURSED" => paid[i] # 0,
           NEW m, (m = mem /\ Known(mem[s][i])) \/ m = [mem EXCEPT ![s][i] = x],
           Found(p, h, x, m),
           slot[p].at # "redeem", slot[p].at \in {"idle", "get"} \/ slot[p].intent = i,
           \/ kv' = kv
           \/ slot[p].at = "set" /\ kv' = [kv EXCEPT ![i] = slot[p].out],
           UNCHANGED <<final, money>>, calls' \in 0 .. MaxCalls,
           home' \in {home, [home EXCEPT ![i] = s]}, home'[i] # "unborn",
           steady' \in [Intents -> BOOLEAN], \A j \in Intents \ {i} : steady'[j] = steady[j],
           Sure /\ steady'[i] =>
              /\ steady[i] /\ home'[i] = s /\ \A q \in Slots \ {p} : slot[q].intent # i
              /\ Latest(i) = x /\ x = m[s][i]
    PROVE  Inv'
<1>t. /\ mem \in [Instances -> [Intents -> Intent]] /\ paid \in [Intents -> Nat]
      /\ mem[s][i].settlement = "DISBURSED" => paid[i] # 0
  BY DEF Inv, TypeOK, Honest
<1>m. /\ m \in [Instances -> [Intents -> Intent]] /\ Known(m[s][i])
      /\ m[s][i] = mem[s][i] \/ m[s][i] = x
  BY <1>t
<1>1. PICK g \in Handler, r \in Intent :
              /\ Go(p, g) /\ Stored(m, s, i, r) /\ Known(r)
              /\ r.settlement \in {x.settlement, m[s][i].settlement}
              /\ g.out.settlement \in {r.settlement, "NONE"}
              /\ \/ g = Idle
                 \/ /\ g.at \in {"set", "verify"} /\ g.inst = s /\ g.intent = i
                    /\ g.at = "set" => g.out = r
              /\ x = m[s][i] => Kept(x, r) /\ Suits(g, r)
  BY <1>m, FoundFacts
<1>2. slot' = [slot EXCEPT ![p] = g] /\ mem' = [mem EXCEPT ![s][i] = r]
  <2>1. Stored(mem, s, i, r)
    <3>1. CASE m = mem
      BY <3>1, <1>1
    <3>2. CASE m = [mem EXCEPT ![s][i] = x]
      BY <3>2, <1>1, <1>t, Overwritten
    <3> QED BY <3>1, <3>2
  <2> QED BY <2>1, <1>1 DEF Go, Stored
<1>3. Placed(g, i, s, r)
  BY <1>1 DEF Placed, Stages
<1>4. paid'[i] = 0 => r.settlement # "DISBURSED" /\ g.out.settlement # "DISBURSED"
  BY <1>1, <1>t, <1>m DEF money
<1>5. ASSUME Sure, steady'[i] PROVE Works(p, i, s, g, r)
  <2>1. Kept(Latest(i), r) /\ Suits(g, r)
    BY <1>5, <1>1
  <2>2. g = Idle \/ (g.at \notin {"get", "create", "redeem"} /\ (g.at = "set" => g.out = r))
    BY <1>1
  <2> QED BY <2>1, <2>2 DEF Works, money
<1>6. /\ paid' \in [Intents -> Nat] /\ (\A j \in Intents \ {i} : paid'[j] = paid[j])
      /\ paid'[i] >= paid[i] /\ burned' \in {burned, burned \cup {i}} /\ final' = final
  BY <1>t DEF money
<1>7. \/ kv' = kv
      \/ slot[p].at = "set" /\ slot[p].intent = i /\ kv' = [kv EXCEPT ![i] = slot[p].out]
  OBVIOUS
<1>8. Turned(p, i, s, g, r)
  BY <1>1, <1>2, <1>3, <1>4, <1>5, <1>6, <1>7 DEF Turned
<1> QED BY <1>8, TurnedKeeps

\* What Serve says of the history.
ServedFacts(p, s, i) ==
    /\ home' \in {home, [home EXCEPT ![i] = s]} /\ home'[i] = s /\ home'[i] # "unborn"
    /\ steady' \in [Intents -> BOOLEAN] /\ \A j \in Intents \ {i} : steady'[j] = steady[j]
    /\ steady'[i] => /\ steady[i] /\ \A q \in Slots \ {p} : slot[q].intent # i
                     /\ View(s, i) = Latest(i)

LEMMA ServedKeeps ==
    ASSUME Inv, NEW p, NEW s \in Instances, NEW i \in Intents, Serve(p, s, i)
    PROVE  ServedFacts(p, s, i)
<1>1. home \in [Intents -> Instances \cup {"unborn", "kv"}] /\ steady \in [Intents -> BOOLEAN]
  BY DEF Inv, TypeOK
<1> QED BY <1>1, HomeAssumption DEF Serve, ServedFacts

\* A handler for another intent.
LEMMA IntentTyped ==
    ASSUME NEW h \in Handler, NEW i \in Intents \cup {NoIntent}
    PROVE  /\ [h EXCEPT !.intent = i] \in Handler
           /\ [h EXCEPT !.intent = i].inst = h.inst
           /\ [h EXCEPT !.intent = i].intent = i
BY DEF Handler

\* The fallback of the webhook.
LEMMA FallbackKeeps ==
    ASSUME Inv, NEW p \in Slots, NEW h \in Handler, h.inst \in Instances,
           slot[p].at \in {"idle", "get"}, Fallback(p, h),
           UNCHANGED <<kv, final, money>>, calls' \in 0 .. MaxCalls
    PROVE  Inv'
<1>1. CASE Go(p, Idle) /\ UNCHANGED <<mem, history>>
  BY <1>1, LeftKeeps DEF Go, store
<1>2. ASSUME NEW i \in Intents, Known(mem[h.inst][i]),
             Found(p, [h EXCEPT !.intent = i], mem[h.inst][i], mem), Serve(p, h.inst, i)
      PROVE  Inv'
  <2>1. PICK f \in Handler : /\ f.inst = h.inst /\ f.intent = i
                             /\ Found(p, f, mem[h.inst][i], mem)
    BY <1>2, IntentTyped
  <2>2. ServedFacts(p, h.inst, i)
    BY <1>2, ServedKeeps
  <2>3. mem[h.inst][i] \in Intent /\ (mem[h.inst][i].settlement = "DISBURSED" => paid[i] # 0)
    BY DEF Inv, TypeOK, Honest
  <2>4. Sure /\ steady'[i] => Latest(i) = mem[h.inst][i]
    BY <2>2, <1>2 DEF ServedFacts, View
  <2> QED BY <2>1, <2>2, <2>3, <2>4, <1>2, FoundKeeps DEF ServedFacts
<1> QED BY <1>1, <1>2 DEF Fallback

\* A handler that is about to ask the KV service.
LEMMA AskTyped ==
    ASSUME NEW h \in Handler
    PROVE  /\ [h EXCEPT !.at = "get"] \in Handler /\ [h EXCEPT !.at = "get"].at = "get"
           /\ [h EXCEPT !.at = "get"].inst = h.inst
           /\ [h EXCEPT !.at = "get"].intent = h.intent /\ [h EXCEPT !.at = "get"].out = h.out
BY DEF Handler, Stages

\* A call that names an intent.
LEMMA LookupKeeps ==
    ASSUME Inv, NEW p \in Slots, NEW h \in Handler, h.inst \in Instances, h.intent \in Intents,
           h.out = Absent, slot[p].at = "idle", Lookup(p, h), Serve(p, h.inst, h.intent),
           UNCHANGED <<kv, final, money>>, calls' \in 0 .. MaxCalls
    PROVE  Inv'
<1> DEFINE s == h.inst
<1> DEFINE i == h.intent
<1>1. ServedFacts(p, s, i)
  BY ServedKeeps
<1>2. /\ mem \in [Instances -> [Intents -> Intent]] /\ paid \in [Intents -> Nat]
      /\ mem[s][i] \in Intent /\ (mem[s][i].settlement = "DISBURSED" => paid[i] # 0)
      /\ ~Known(mem[s][i]) => mem[s][i] = Absent
  BY DEF Inv, TypeOK, Honest, Shape
<1>3. CASE Known(mem[s][i])
  <2>1. PICK f \in Handler : f.inst = s /\ f.intent = i /\ Found(p, f, mem[s][i], mem)
    BY <1>3 DEF Lookup
  <2>2. Sure /\ steady'[i] => Latest(i) = mem[s][i]
    BY <1>1, <1>3 DEF ServedFacts, View
  <2> HIDE DEF s, i
  <2>3. s \in Instances /\ i \in Intents
    BY DEF s, i
  <2> QED BY <1>1, <1>2, <1>3, <2>1, <2>2, <2>3, FoundKeeps DEF ServedFacts
<1>4. CASE ~Known(mem[s][i])
  <2>1. PICK g \in Handler : /\ Go(p, g) /\ g.at = "get" /\ g.inst = s /\ g.intent = i
                             /\ g.out = Absent
    BY <1>4, AskTyped DEF Lookup
  <2>2. mem' = mem
    BY <1>4 DEF Lookup
  <2> HIDE DEF s, i
  <2>3. s \in Instances /\ i \in Intents
    BY DEF s, i
  <2>4. Placed(g, i, s, mem[s][i])
    BY <2>1 DEF Placed, Stages
  <2>5. slot' = [slot EXCEPT ![p] = g] /\ mem' = [mem EXCEPT ![s][i] = mem[s][i]]
    BY <2>1, <2>2, <2>3, <1>2 DEF Go
  <2>6. Sure /\ steady'[i] => Looks(p, i, s, g, mem[s][i])
    BY <1>1, <1>4, <2>1 DEF ServedFacts, View, Looks, money
  <2>7. g.out.settlement # "DISBURSED" /\ mem[s][i].settlement # "DISBURSED"
    BY <2>1, <1>2, <1>4, AbsentTyped
  <2>8. Turned(p, i, s, g, mem[s][i])
    BY <1>1, <1>2, <1>4, <2>3, <2>4, <2>5, <2>6, <2>7 DEF Turned, ServedFacts, money
  <2> QED BY <2>3, <2>8, TurnedKeeps
<1> QED BY <1>3, <1>4

\* The calls.
LEMMA CallKeeps ==
    ASSUME Inv, NEW p \in Slots, NEW kind \in {"confirm", "webhook", "build"},
           NEW s \in Instances, NEW i \in Intents \cup {NoIntent}, NEW t \in Txs \cup {NoTx},
           NEW w \in Wallets \cup {NoWallet}, NEW o \in Orders, Call(p, kind, s, i, t, w, o)
    PROVE  Inv'
<1> DEFINE h == [Idle EXCEPT !.kind = kind, !.inst = s, !.intent = i, !.tx = t,
                             !.payer = w, !.order = o]
<1>1. h \in Handler /\ h.inst = s /\ h.intent = i /\ h.out = Absent
  BY IdleTyped, AbsentTyped DEF Idle, Handler, Stages
<1>2. /\ slot[p].at = "idle" /\ calls' \in 0 .. MaxCalls
      /\ UNCHANGED <<kv, final, money>>
      /\ i = NoIntent => Fallback(p, h)
      /\ i # NoIntent => Lookup(p, h) /\ Serve(p, s, i)
  BY BoundAssumption DEF Call, At, Inv, TypeOK
<1> HIDE DEF h
<1> QED BY <1>1, <1>2, FallbackKeeps, LookupKeeps

\* The record of an intent recovered from a body, and its handler.
Recovered(o, w, r) ==
    r = [Absent EXCEPT !.status = "CREATED", !.order = o, !.payer_account = w]

LEMMA RecoveredTyped ==
    ASSUME NEW o \in Orders, NEW w \in Wallets \cup {NoWallet}, NEW r, Recovered(o, w, r)
    PROVE  r \in Intent /\ Known(r) /\ r.settlement = "NONE" /\ ~r.burn
BY AbsentTyped DEF Intent, Known, Absent, Recovered

Creating(h, r, g) == g = [h EXCEPT !.at = "create", !.out = r]

LEMMA CreatingTyped ==
    ASSUME NEW h \in Handler, NEW r \in Intent, NEW g, Creating(h, r, g)
    PROVE  /\ g \in Handler /\ g.at = "create" /\ g.out = r
           /\ g.inst = h.inst /\ g.intent = h.intent
<1>1. g \in Handler
  BY CallerAssumption DEF Handler, Creating, Stages
<1>2. g.at = "create" /\ g.out = r
  BY DEF Handler, Creating
<1>3. g.inst = h.inst /\ g.intent = h.intent
  BY DEF Handler, Creating
<1> QED BY <1>1, <1>2, <1>3

\* The intent is taken for one that does not exist.
LEMMA MissingKeeps ==
    ASSUME Inv, NEW p \in Slots, slot[p].at = "get", Missing(p, slot[p]),
           UNCHANGED <<kv, final, money, calls>>
    PROVE  Inv'
<1> DEFINE h == slot[p]
<1> DEFINE s == h.inst
<1> DEFINE i == h.intent
<1>o. /\ h \in Handler /\ s \in Instances /\ i \in Intents /\ home[i] # "unborn"
      /\ mem \in [Instances -> [Intents -> Intent]] /\ paid \in [Intents -> Nat]
      /\ steady \in [Intents -> BOOLEAN] /\ calls \in 0 .. MaxCalls
      /\ h.order \in Orders /\ h.payer \in Wallets \cup {NoWallet}
  BY Own DEF Inv, TypeOK, Handler
<1>1. CASE h.kind = "webhook"
  <2>1. PICK f \in Handler : f.inst = s /\ Fallback(p, f)
    BY <1>1, <1>o, IntentTyped DEF Missing
  <2> QED BY <2>1, <1>o, FallbackKeeps
<1>2. CASE h.kind # "webhook"
  <2>1. PICK r, g :
            /\ \E w \in Wallets \cup {NoWallet} : Recovered(h.order, w, r)
            /\ Creating(h, r, g)
            /\ Go(p, g) /\ mem' = [mem EXCEPT ![s][i] = r]
            /\ steady' = [steady EXCEPT ![i] = @ /\ ~Known(kv[i])] /\ home' = home
    <3>1. (IF h.kind = "confirm" THEN h.payer ELSE NoWallet) \in Wallets \cup {NoWallet}
      BY <1>o
    <3> QED BY <1>2, <3>1 DEF Missing, Recovered, Creating
  <2>2. r \in Intent /\ Known(r) /\ r.settlement = "NONE" /\ ~r.burn
    BY <2>1, <1>o, RecoveredTyped
  <2>3. g \in Handler /\ g.at = "create" /\ g.out = r /\ g.inst = s /\ g.intent = i
    BY <2>1, <2>2, <1>o, CreatingTyped
  <2>4. /\ slot' = [slot EXCEPT ![p] = g] /\ mem' = [mem EXCEPT ![s][i] = r]
        /\ steady' \in [Intents -> BOOLEAN] /\ (\A j \in Intents \ {i} : steady'[j] = steady[j])
        /\ steady'[i] => steady[i] /\ ~Known(kv[i])
        /\ home' = home
    BY <2>1, <1>o DEF Go
  <2>5. ASSUME Sure, steady'[i]
        PROVE  /\ steady[i] /\ home'[i] = s /\ \A q \in Slots \ {p} : slot[q].intent # i
               /\ Works(p, i, s, g, r)
    <3>1. /\ steady[i] /\ ~Known(kv[i]) /\ Alone(p, i) /\ Latest(i) = View(s, i)
      BY <2>4, <2>5, Own
    <3>2. Latest(i) = Absent
      BY <3>1, <1>o DEF Alone, View, Inv, Shape
    <3>3. ~Worth(Latest(i).order)
      BY <3>2, BoundAssumption DEF Worth, Absent, NoOrder
    <3>4. Kept(Latest(i), r)
      BY <3>2, <3>3, <2>2, AbsentTyped DEF Kept
    <3> QED BY <3>1, <3>4, <2>3, <2>4 DEF Alone, Works, Suits, Spending, Weighing, money
  <2> HIDE DEF h, s, i
  <2>6. Placed(g, i, s, r)
    BY <2>2, <2>3 DEF Placed, Stages
  <2>7. slot[p].at = "get" /\ slot[p].intent = i
    BY DEF h, i
  <2>8. Turned(p, i, s, g, r)
    BY <2>2, <2>3, <2>4, <2>5, <2>6, <2>7, <1>o DEF Turned, money
  <2> QED BY <1>o, <2>8, TurnedKeeps
<1> QED BY <1>1, <1>2

\* getIntent's GET.
LEMMA GetKeeps ==
    ASSUME Inv, NEW p \in Slots, Get(p) \/ GetFail(p)
    PROVE  Inv'
<1> DEFINE h == slot[p]
<1> DEFINE s == h.inst
<1> DEFINE i == h.intent
<1> DEFINE x == kv[i]
<1>1. slot[p].at = "get" /\ UNCHANGED <<kv, final, money, calls>>
  BY DEF Get, GetFail, At
<1>2. CASE Missing(p, slot[p])
  BY <1>1, <1>2, MissingKeeps
<1>3. ASSUME Known(x), Found(p, h, x, [mem EXCEPT ![s][i] = x]),
             UNCHANGED history
      PROVE  Inv'
  <2>o. /\ h \in Handler /\ s \in Instances /\ i \in Intents /\ home[i] # "unborn"
        /\ mem \in [Instances -> [Intents -> Intent]] /\ x \in Intent
        /\ (x.settlement = "DISBURSED" => paid[i] # 0)
    BY <1>1, Own
  <2>h. steady \in [Intents -> BOOLEAN] /\ calls' \in 0 .. MaxCalls
    BY <1>1 DEF Inv, TypeOK
  <2>1. PICK f, m : /\ f \in Handler /\ f.inst = s /\ f.intent = i
                    /\ m = [mem EXCEPT ![s][i] = x] /\ Found(p, f, x, m)
    BY <1>3, <2>o
  <2>2. m[s][i] = x
    BY <2>1, <2>o
  <2>3. ASSUME Sure, steady[i]
        PROVE  home[i] = s /\ (\A q \in Slots \ {p} : slot[q].intent # i) /\ Latest(i) = x
    BY <2>3, <1>1, Own DEF Alone, View
  <2> HIDE DEF s, i, x
  <2> QED BY <1>1, <1>3, <2>o, <2>h, <2>1, <2>2, <2>3, FoundKeeps DEF history
<1> QED BY <1>2, <1>3 DEF Get, GetFail

\* A step that finds the intent at an await other than getIntent's.
LEMMA FoundLaterKeeps ==
    ASSUME Inv, NEW p \in Slots, slot[p].at \in {"create", "set"}, NEW x \in Intent, Known(x),
           x.settlement = "DISBURSED" => paid[slot[p].intent] # 0,
           NEW m, m = mem \/ m = [mem EXCEPT ![slot[p].inst][slot[p].intent] = x],
           Found(p, slot[p], x, m),
           \/ kv' = kv
           \/ slot[p].at = "set" /\ kv' = [kv EXCEPT ![slot[p].intent] = slot[p].out],
           UNCHANGED <<final, money, calls, history>>,
           Sure /\ steady[slot[p].intent] => x = Mine(slot[p])
    PROVE  Inv'
<1> DEFINE h == slot[p]
<1> DEFINE s == h.inst
<1> DEFINE i == h.intent
<1>1. /\ h \in Handler /\ s \in Instances /\ i \in Intents /\ home[i] # "unborn"
      /\ mem \in [Instances -> [Intents -> Intent]] /\ Known(mem[s][i])
  BY Own DEF Mine
<1>2. steady \in [Intents -> BOOLEAN] /\ calls' \in 0 .. MaxCalls
  BY DEF Inv, TypeOK
<1>3. ASSUME Sure, steady[i]
      PROVE  /\ home[i] = s /\ (\A q \in Slots \ {p} : slot[q].intent # i)
             /\ Latest(i) = x /\ x = m[s][i]
  <2>1. home[i] = s /\ (\A q \in Slots \ {p} : slot[q].intent # i) /\ Latest(i) = mem[s][i]
    BY <1>1, <1>3, Own DEF Alone, View
  <2>2. x = mem[s][i]
    BY <1>3 DEF Mine
  <2> QED BY <2>1, <2>2, <1>1
<1>4. Found(p, h, x, m) /\ h.inst = s /\ h.intent = i
  OBVIOUS
<1>5. (m = mem /\ Known(mem[s][i])) \/ m = [mem EXCEPT ![s][i] = x]
  BY <1>1
<1>6. /\ slot[p].at # "redeem" /\ slot[p].intent = i
      /\ x.settlement = "DISBURSED" => paid[i] # 0
      /\ \/ kv' = kv
         \/ slot[p].at = "set" /\ kv' = [kv EXCEPT ![i] = slot[p].out]
  OBVIOUS
<1> HIDE DEF h, s, i
<1> QED BY <1>1, <1>2, <1>3, <1>4, <1>5, <1>6, FoundKeeps DEF history

\* The handler goes on to another await, or to the next stage.
LEMMA MovedTyped ==
    ASSUME NEW h \in Handler, NEW g,
           \/ g = [h EXCEPT !.at = "set", !.next = "found"]
           \/ g = [h EXCEPT !.at = "redeem"]
    PROVE  /\ g \in Handler /\ g.out = h.out
           /\ g.inst = h.inst /\ g.intent = h.intent /\ g.done = h.done
BY DEF Handler, Stages

LEMMA SettleTyped ==
    ASSUME NEW h \in Handler
    PROVE  LET g == [h EXCEPT !.at = "settle", !.next = "end", !.out = Absent] IN
           /\ g \in Handler /\ g.at = "settle" /\ g.out = Absent
           /\ g.inst = h.inst /\ g.intent = h.intent /\ g.done = h.done /\ g.order = h.order
BY AbsentTyped DEF Handler, Stages

\* createIntent's GET.
LEMMA CreateKeeps ==
    ASSUME Inv, NEW p \in Slots, Create(p) \/ CreateFail(p)
    PROVE  Inv'
<1> DEFINE h == slot[p]
<1>1. h.at = "create" /\ UNCHANGED <<kv, final, money, calls, history>>
  BY DEF Create, CreateFail, At
<1>2. /\ h \in Handler /\ h.inst \in Instances /\ h.intent \in Intents
      /\ h.out \in Intent /\ Known(h.out) /\ kv[h.intent] \in Intent
      /\ mem \in [Instances -> [Intents -> Intent]]
      /\ Mine(h) \in Intent /\ Known(Mine(h))
      /\ h.out.settlement = "DISBURSED" => paid[h.intent] # 0
      /\ kv[h.intent].settlement = "DISBURSED" => paid[h.intent] # 0
      /\ Mine(h).settlement = "DISBURSED" => paid[h.intent] # 0
  BY <1>1, Own DEF Inv, Shape
<1>3. Sure /\ steady[h.intent] => h.out = Mine(h) /\ ~Known(kv[h.intent])
  BY <1>1, Own DEF Alone, Mine
<1>4. ASSUME Known(kv[h.intent]),
             Found(p, h, kv[h.intent], [mem EXCEPT ![h.inst][h.intent] = kv[h.intent]])
      PROVE  Inv'
  BY <1>1, <1>2, <1>3, <1>4, FoundLaterKeeps
<1>5. CASE Found(p, h, h.out, mem)
  BY <1>1, <1>2, <1>3, <1>5, FoundLaterKeeps
<1>6. ASSUME Go(p, [h EXCEPT !.at = "set", !.next = "found"]), mem' = mem
      PROVE  Inv'
  <2>1. PICK g \in Handler : /\ slot' = [slot EXCEPT ![p] = g] /\ g.out = h.out
                             /\ g.at = "set" /\ g.next = "found"
                             /\ g.inst = h.inst /\ g.intent = h.intent
    BY <1>2, <1>6, MovedTyped DEF Go, Handler
  <2>2. mem' = [mem EXCEPT ![h.inst][h.intent] = Mine(h)]
    BY <1>2, <1>6 DEF Mine
  <2>3. Sure /\ steady[h.intent] =>
           Kept(Mine(h), Mine(h)) /\ g.out = Mine(h) /\ Suits(g, Mine(h))
    BY <1>2, <1>3, <2>1 DEF Kept, Suits, Spending, Weighing
  <2>4. slot[p].at \in Stages \ {"get", "redeem"}
    BY <1>1 DEF Stages
  <2> QED BY <1>1, <1>2, <2>1, <2>2, <2>3, <2>4, PlainKeeps
<1> QED BY <1>4, <1>5, <1>6 DEF Create, CreateFail

\* After a SET.
LEMMA SetKeeps ==
    ASSUME Inv, NEW p \in Slots, Set(p) \/ SetFail(p)
    PROVE  Inv'
<1> DEFINE h == slot[p]
<1>1. /\ h.at = "set" /\ UNCHANGED <<final, money, calls, history>> /\ Resume(p, h)
      /\ kv' = kv \/ kv' = [kv EXCEPT ![h.intent] = h.out]
  BY DEF Set, SetFail, At
<1>2. /\ h \in Handler /\ h.inst \in Instances /\ h.intent \in Intents
      /\ h.out \in Intent /\ Known(h.out)
      /\ mem \in [Instances -> [Intents -> Intent]]
      /\ Mine(h) \in Intent /\ Known(Mine(h))
      /\ h.out.settlement = "DISBURSED" => paid[h.intent] # 0
      /\ Mine(h).settlement = "DISBURSED" => paid[h.intent] # 0
      /\ slot[p].at \in Stages \ {"get", "redeem"}
  BY <1>1, Own DEF Inv, Shape, Stages
<1>3. Sure /\ steady[h.intent] => h.out = Mine(h) /\ Suits(h, Mine(h))
  BY <1>1, Own DEF Alone, Mine
<1>4. Kept(Mine(h), Mine(h)) /\ Absent.settlement = "NONE"
  BY <1>2, AbsentTyped DEF Kept
<1>5. mem' = mem => mem' = [mem EXCEPT ![h.inst][h.intent] = Mine(h)]
  BY <1>2 DEF Mine
<1>6. CASE h.next = "found" /\ Found(p, h, h.out, mem)
  BY <1>1, <1>2, <1>3, <1>6, FoundLaterKeeps
<1>k. \/ kv' = kv
      \/ slot[p].at = "set" /\ kv' = [kv EXCEPT ![slot[p].intent] = slot[p].out]
  BY <1>1
<1>u. UNCHANGED <<final, money, calls, history>>
  BY <1>1
<1>7. ASSUME h.next = "settle", mem' = mem,
             Go(p, [h EXCEPT !.at = "settle", !.next = "end", !.out = Absent])
      PROVE  Inv'
  <2>1. PICK g \in Handler : /\ slot' = [slot EXCEPT ![p] = g]
                             /\ g.at = "settle" /\ g.out = Absent /\ g.done = h.done
                             /\ g.inst = h.inst /\ g.intent = h.intent /\ g.order = h.order
    BY <1>2, <1>7, SettleTyped DEF Go
  <2>2. Sure /\ steady[h.intent] => Suits(g, Mine(h))
    BY <1>1, <1>3, <1>7, <2>1 DEF Suits, Spending, Weighing
  <2>m. mem' = [mem EXCEPT ![h.inst][h.intent] = Mine(h)]
    BY <1>5, <1>7
  <2>k. CASE kv' = kv
    BY <2>k, <2>m, <1>u, <1>2, <1>4, <2>1, <2>2, PlainKeeps
  <2>l. CASE slot[p].at = "set" /\ kv' = [kv EXCEPT ![slot[p].intent] = slot[p].out]
    BY <2>l, <2>m, <1>u, <1>2, <1>4, <2>1, <2>2, PlainKeeps
  <2> QED BY <1>k, <2>k, <2>l
<1>8. ASSUME Go(p, Idle), mem' = mem PROVE Inv'
  <2>1. slot' = [slot EXCEPT ![p] = Idle] /\ Suits(Idle, Mine(h))
    BY <1>8, IdleTyped DEF Go, Suits, Spending, Weighing
  <2>m. mem' = [mem EXCEPT ![h.inst][h.intent] = Mine(h)]
    BY <1>5, <1>8
  <2>k. CASE kv' = kv
    BY <2>k, <2>m, <1>u, <1>2, <1>4, <2>1, IdleTyped, AbsentTyped, PlainKeeps
  <2>l. CASE slot[p].at = "set" /\ kv' = [kv EXCEPT ![slot[p].intent] = slot[p].out]
    BY <2>l, <2>m, <1>u, <1>2, <1>4, <2>1, IdleTyped, AbsentTyped, PlainKeeps
  <2> QED BY <1>k, <2>k, <2>l
<1> QED BY <1>1, <1>6, <1>7, <1>8 DEF Resume

\* A handler that returns and leaves the memory as it is.
LEMMA ReturnKeeps ==
    ASSUME Inv, NEW p \in Slots, slot[p].at \in Stages \ {"get", "redeem"}, Go(p, Idle),
           UNCHANGED <<store, final, money, calls, history>>
    PROVE  Inv'
<1> DEFINE h == slot[p]
<1>1. /\ Mine(h) \in Intent /\ Known(Mine(h)) /\ h.inst \in Instances /\ h.intent \in Intents
      /\ mem \in [Instances -> [Intents -> Intent]]
      /\ Mine(h).settlement = "DISBURSED" => paid[h.intent] # 0
  BY Own DEF Stages
<1>2. mem' = [mem EXCEPT ![h.inst][h.intent] = Mine(h)] /\ kv' = kv
  BY <1>1 DEF Mine, store
<1>3. Kept(Mine(h), Mine(h)) /\ Suits(Idle, Mine(h)) /\ slot' = [slot EXCEPT ![p] = Idle]
  BY <1>1, IdleTyped DEF Kept, Suits, Spending, Weighing, Go
<1> QED BY <1>1, <1>2, <1>3, IdleTyped, AbsentTyped, PlainKeeps

\* A handler that writes a record and moves no money.
LEMMA PutKeeps ==
    ASSUME Inv, NEW p \in Slots, slot[p].at \in Stages \ {"get", "redeem"},
           NEW h \in Handler, h.inst = slot[p].inst, h.intent = slot[p].intent,
           NEW r \in Intent, Known(r), r.settlement = "DISBURSED" => paid[h.intent] # 0,
           NEW next \in {"found", "settle", "end"}, Put(p, h, r, next),
           UNCHANGED <<kv, final, money, calls, history>>,
           Sure /\ steady[h.intent] =>
              /\ Kept(Mine(slot[p]), r)
              /\ next = "settle" => (~h.done => ~r.burn) /\ h.order = r.order
    PROVE  Inv'
<1>1. PICK g \in Handler :
            /\ Go(p, g) /\ Stored(mem, h.inst, h.intent, r)
            /\ g.at = "set" /\ g.next = next /\ g.out = r
            /\ g.inst = h.inst /\ g.intent = h.intent
            /\ next # "end" => g.done = h.done /\ g.order = h.order
  <2>1. Write(p, h, r, next, mem)
    BY DEF Put
  <2> QED BY <2>1, WriteFacts
<1>2. slot' = [slot EXCEPT ![p] = g] /\ mem' = [mem EXCEPT ![h.inst][h.intent] = r]
  BY <1>1 DEF Go, Stored
<1>3. Sure /\ steady[h.intent] => Suits(g, r)
  BY <1>1 DEF Suits, Spending, Weighing
<1> QED BY <1>1, <1>2, <1>3, PlainKeeps

\* The records that the chain's answer makes.
LEMMA FailedTyped ==
    ASSUME NEW x \in Intent, NEW t \in Txs \cup {NoTx}, NEW w \in Wallets \cup {NoWallet}
    PROVE  LET r == [x EXCEPT !.status = "FAILED", !.txHash = t, !.payer_account = w] IN
           /\ r \in Intent /\ Known(r) /\ r.settlement = x.settlement /\ Kept(x, r)
BY DEF Intent, Known, Kept

Completes(h, x, t, f, r) ==
    /\ r = [x EXCEPT !.status = "COMPLETED", !.txHash = t, !.payer_account = Signer[t]]
    /\ f = [h EXCEPT !.done = r.burn]

LEMMA CompletedTyped ==
    ASSUME NEW x \in Intent, NEW t \in Txs, NEW h \in Handler, NEW f, NEW r,
           Completes(h, x, t, f, r)
    PROVE  /\ r \in Intent /\ Known(r) /\ r.settlement = x.settlement /\ Kept(x, r)
           /\ f \in Handler /\ f.inst = h.inst /\ f.intent = h.intent /\ f.done = r.burn
           /\ f.order = h.order /\ r.order = x.order
<1>1. /\ r \in Intent /\ Known(r) /\ r.settlement = x.settlement /\ Kept(x, r)
      /\ r.order = x.order
  BY ChainAssumption DEF Intent, Known, Kept, Completes
<1>2. r.burn \in BOOLEAN
  BY <1>1 DEF Intent
<1>3. /\ f \in Handler /\ f.inst = h.inst /\ f.intent = h.intent /\ f.done = r.burn
      /\ f.order = h.order
  <2>1. f = [h EXCEPT !.done = r.burn]
    BY DEF Completes
  <2> QED BY <1>2, <2>1 DEF Handler
<1> QED BY <1>1, <1>3

LEMMA UnverifiedKeeps ==
    ASSUME Inv, NEW p \in Slots, Unverified(p)
    PROVE  Inv'
<1> DEFINE h == slot[p]
<1>1. /\ h.at = "verify" /\ UNCHANGED <<kv, final, money, calls, history>>
      /\ Put(p, h, [Mine(h) EXCEPT !.status = "FAILED", !.txHash = h.tx,
                                   !.payer_account = h.payer], "end")
  BY DEF Unverified, At
<1>2. /\ h \in Handler /\ Mine(h) \in Intent
      /\ h.tx \in Txs \cup {NoTx} /\ h.payer \in Wallets \cup {NoWallet}
      /\ Mine(h).settlement = "DISBURSED" => paid[h.intent] # 0
      /\ h.at \in Stages \ {"get", "redeem"}
  BY <1>1, Own DEF Handler, Stages
<1>3. PICK r \in Intent : /\ Put(p, h, r, "end") /\ Known(r)
                          /\ r.settlement = Mine(h).settlement /\ Kept(Mine(h), r)
  BY <1>1, <1>2, FailedTyped
<1> QED BY <1>1, <1>2, <1>3, PutKeeps

LEMMA ConfirmIntentKeeps ==
    ASSUME Inv, NEW p \in Slots, ConfirmIntent(p)
    PROVE  Inv'
<1> DEFINE h == slot[p]
<1>1. /\ h.at = "verify" /\ h.tx \in final /\ UNCHANGED <<kv, final, money, calls, history>>
      /\ \E f, r : Completes(h, Mine(h), h.tx, f, r) /\ Put(p, f, r, "settle")
  BY DEF ConfirmIntent, At, Completes
<1>2. /\ h \in Handler /\ Mine(h) \in Intent /\ h.tx \in Txs
      /\ Mine(h).settlement = "DISBURSED" => paid[h.intent] # 0
      /\ h.at \in Stages \ {"get", "redeem"}
  BY <1>1, Own DEF Inv, TypeOK, Stages
<1>3. PICK f, r : Completes(h, Mine(h), h.tx, f, r) /\ Put(p, f, r, "settle")
  BY <1>1
<1>4. /\ r \in Intent /\ Known(r) /\ r.settlement = Mine(h).settlement /\ Kept(Mine(h), r)
      /\ f \in Handler /\ f.inst = h.inst /\ f.intent = h.intent /\ f.done = r.burn
      /\ f.order = h.order /\ r.order = Mine(h).order
  BY <1>2, <1>3, CompletedTyped
<1>5. Sure /\ steady[h.intent] => h.order = Mine(h).order
  BY <1>1, Own DEF Alone, Suits, Weighing, Mine
<1> QED BY <1>1, <1>2, <1>3, <1>4, <1>5, PutKeeps

\* The settlement steps that move no money.
LEMMA OutcomeTyped ==
    ASSUME NEW h, Mine(h) \in Intent, Known(Mine(h)), NEW o \in {"DISBURSED", "SETTLEMENT_PENDING"}
    PROVE  /\ Outcome(h, o) \in Intent /\ Known(Outcome(h, o)) /\ Noted(Outcome(h, o))
           /\ Outcome(h, o).settlement = o /\ Outcome(h, o).order = Mine(h).order
           /\ Kept(Mine(h), Outcome(h, o))
           /\ o = "DISBURSED" => Outcome(h, o).burn
<1> DEFINE x == Mine(h)
<1>1. /\ Outcome(h, o).settlement = o /\ Outcome(h, o).order = x.order
      /\ Outcome(h, o).burn = (x.burn \/ o = "DISBURSED")
      /\ Outcome(h, o).status = IF h.kind = "webhook" THEN "COMPLETED" ELSE x.status
  BY DEF Outcome, Intent
<1>2. Outcome(h, o) \in Intent
  BY DEF Outcome, Intent
<1> QED BY <1>1, <1>2 DEF Known, Noted, Kept

LEMMA SettleManuallyKeeps ==
    ASSUME Inv, NEW p \in Slots, SettleManually(p)
    PROVE  Inv'
<1> DEFINE h == slot[p]
<1> DEFINE r == [Mine(h) EXCEPT !.settlement = "AWAITING_MANUAL_SETTLEMENT"]
<1>1. /\ h.at = "settle" /\ ~Disbursable(h) /\ UNCHANGED <<kv, final, money, calls, history>>
      /\ Put(p, h, r, "end")
  BY DEF SettleManually, At
<1>2. /\ h \in Handler /\ Mine(h) \in Intent /\ Known(Mine(h))
      /\ h.at \in Stages \ {"get", "redeem"}
  BY <1>1, Own DEF Stages
<1>3. r \in Intent /\ Known(r) /\ r.settlement # "DISBURSED" /\ r.burn = Mine(h).burn
  BY <1>2 DEF Intent, Known
<1>4. Sure /\ steady[h.intent] => Kept(Mine(h), r)
  <2>1. ~Worth(h.order)
    BY <1>1 DEF Disbursable, Worth
  <2>2. Sure /\ steady[h.intent] => h.order = Mine(h).order
    BY <1>1, Own DEF Alone, Suits, Weighing, Mine
  <2> QED BY <1>3, <2>1, <2>2 DEF Kept
<1> HIDE DEF r
<1> QED BY <1>1, <1>2, <1>3, <1>4, PutKeeps

LEMMA BurnRefusedKeeps ==
    ASSUME Inv, NEW p \in Slots, BurnRefused(p)
    PROVE  Inv'
<1> DEFINE h == slot[p]
<1>1. /\ h.at = "settle" /\ UNCHANGED <<kv, final, money, calls, history>>
      /\ Put(p, h, Outcome(h, "SETTLEMENT_PENDING"), "end")
  BY DEF BurnRefused, At
<1>2. /\ h \in Handler /\ Mine(h) \in Intent /\ Known(Mine(h))
      /\ h.at \in Stages \ {"get", "redeem"}
  BY <1>1, Own DEF Stages
<1> QED BY <1>1, <1>2, OutcomeTyped, PutKeeps

\* The steps that move money and end in a SET.
LEMMA OutcomeKeeps ==
    ASSUME Inv, NEW p \in Slots, slot[p].at \in {"settle", "redeem"},
           NEW o \in {"DISBURSED", "SETTLEMENT_PENDING"}, NEW i, i = slot[p].intent,
           Put(p, slot[p], Outcome(slot[p], o), "end"),
           UNCHANGED <<kv, final, calls, history>>,
           paid' \in [Intents -> Nat], \A j \in Intents \ {i} : paid'[j] = paid[j],
           \/ paid'[i] = paid[i] /\ o # "DISBURSED"
           \/ paid'[i] = paid[i] + 1 /\ slot[p].at = "redeem" /\ (Sure => o = "DISBURSED"),
           \/ burned' = burned
           \/ /\ burned' = burned \cup {i}
              /\ Sure /\ steady[i] => Worth(Mine(slot[p]).order)
    PROVE  Inv'
<1> DEFINE h == slot[p]
<1> DEFINE s == h.inst
<1> DEFINE r == Outcome(h, o)
<1>o. /\ h \in Handler /\ s \in Instances /\ i \in Intents /\ home[i] # "unborn" /\ h.intent = i
      /\ mem \in [Instances -> [Intents -> Intent]] /\ paid \in [Intents -> Nat]
      /\ Mine(h) \in Intent /\ Known(Mine(h))
      /\ steady \in [Intents -> BOOLEAN] /\ calls \in 0 .. MaxCalls
  BY Own DEF Inv, TypeOK
<1>r. /\ r \in Intent /\ Known(r) /\ Noted(r) /\ r.settlement = o /\ r.order = Mine(h).order
      /\ Kept(Mine(h), r) /\ (o = "DISBURSED" => r.burn)
  BY <1>o, OutcomeTyped
<1>1. PICK g \in Handler :
            /\ Go(p, g) /\ Stored(mem, s, i, r)
            /\ g.at = "set" /\ g.next = "end" /\ g.out = r /\ g.inst = s /\ g.intent = i
  <2>1. Write(p, h, r, "end", mem)
    BY DEF Put
  <2> HIDE DEF h, r
  <2> QED BY <1>o, <1>r, <2>1, WriteFacts
<1>2. slot' = [slot EXCEPT ![p] = g] /\ mem' = [mem EXCEPT ![s][i] = r]
  BY <1>1 DEF Go, Stored
<1>3. Placed(g, i, s, r)
  BY <1>1, <1>r DEF Placed, Stages
<1>4. ASSUME Sure, steady[i]
      PROVE  /\ home[i] = s /\ \A q \in Slots \ {p} : slot[q].intent # i
             /\ Works(p, i, s, g, r)
  <2>1. /\ Alone(p, i) /\ Latest(i) = Mine(h)
    BY <1>4, <1>o, Own DEF View, Mine
  <2>2. paid'[i] = paid[i] \/ (paid'[i] = paid[i] + 1 /\ ~Latest(i).burn /\ r.burn)
    BY <1>4, <1>r, <2>1 DEF Alone, Suits, Spending, Mine
  <2>3. Suits(g, r) /\ g.at # "get" /\ g.at # "create" /\ g.at # "redeem" /\ g.out = r
    BY <1>1 DEF Suits, Spending, Weighing
  <2>4. Kept(Latest(i), r) /\ Noted(r) /\ ((i \in burned' => i \in burned) \/ Worth(r.order))
    BY <1>4, <1>r, <2>1
  <2> QED BY <2>1, <2>2, <2>3, <2>4 DEF Alone, Works
<1>5. /\ paid'[i] >= paid[i] /\ burned' \in {burned, burned \cup {i}}
      /\ home' = home /\ steady' = steady /\ kv' = kv /\ final' = final /\ calls' = calls
  BY <1>o DEF history
<1>6. paid'[i] = 0 => r.settlement # "DISBURSED" /\ g.out.settlement # "DISBURSED"
  BY <1>o, <1>r, <1>1
<1>7. slot[p].intent = i
  OBVIOUS
<1> HIDE DEF h, s, r
<1>8. Turned(p, i, s, g, r)
  BY <1>o, <1>r, <1>2, <1>3, <1>4, <1>5, <1>6, <1>7 DEF Turned
<1> QED BY <1>o, <1>8, TurnedKeeps

\* The burn.
LEMMA BurnKeeps ==
    ASSUME Inv, NEW p \in Slots, Burn(p)
    PROVE  Inv'
<1> DEFINE h == slot[p]
<1> DEFINE s == h.inst
<1> DEFINE i == h.intent
<1>1. /\ h.at = "settle" /\ ~h.done /\ Worth(h.order) /\ burned' = burned \cup {i}
      /\ UNCHANGED <<kv, final, paid, calls, history>>
  BY DEF Burn, At, Disbursable, Worth
<1>o. /\ h \in Handler /\ s \in Instances /\ i \in Intents /\ home[i] # "unborn"
      /\ mem \in [Instances -> [Intents -> Intent]] /\ paid \in [Intents -> Nat]
      /\ Mine(h) \in Intent /\ Known(Mine(h)) /\ h.out \in Intent
      /\ steady \in [Intents -> BOOLEAN] /\ calls \in 0 .. MaxCalls
      /\ paid[i] = 0 => Mine(h).settlement # "DISBURSED" /\ h.out.settlement # "DISBURSED"
  BY <1>1, Own DEF Inv, TypeOK
<1>w. Sure /\ steady[i] => Worth(Mine(h).order)
  BY <1>1, Own DEF Alone, Suits, Weighing, Mine
<1>2. CASE Put(p, h, Outcome(h, "SETTLEMENT_PENDING"), "end")
  BY <1>1, <1>2, <1>o, <1>w, OutcomeKeeps
<1>3. ASSUME Go(p, [h EXCEPT !.at = "redeem"]), mem' = mem
      PROVE  Inv'
  <2> DEFINE r == Mine(h)
  <2>1. PICK g \in Handler : /\ Go(p, g) /\ g.out = h.out /\ g.at = "redeem"
                             /\ g.inst = s /\ g.intent = i
    BY <1>3, <1>o, MovedTyped DEF Handler
  <2>2. slot' = [slot EXCEPT ![p] = g] /\ mem' = [mem EXCEPT ![s][i] = r]
    BY <2>1, <1>3, <1>o DEF Go, Mine
  <2>3. Placed(g, i, s, r)
    BY <2>1, <1>o DEF Placed, Stages
  <2>4. ASSUME Sure, steady[i]
        PROVE  /\ home[i] = s /\ \A q \in Slots \ {p} : slot[q].intent # i
               /\ Works(p, i, s, g, r)
    <3>1. Alone(p, i) /\ Latest(i) = r
      BY <2>4, <1>o, <1>1, Own DEF View, Mine
    <3>2. Suits(g, r) /\ Kept(Latest(i), r)
      BY <3>1, <1>1, <1>o, <2>1 DEF Alone, Suits, Spending, Weighing, Mine, Kept
    <3>3. i \in burned' /\ Worth(r.order) /\ slot[p].at # "redeem" /\ paid'[i] = paid[i]
      BY <2>4, <1>1, <1>w
    <3> QED BY <3>1, <3>2, <3>3, <2>1 DEF Alone, Works
  <2>5. /\ burned' \in {burned, burned \cup {i}} /\ paid' = paid
        /\ home' = home /\ steady' = steady /\ kv' = kv /\ final' = final /\ calls' = calls
    BY <1>1 DEF history
  <2>6. paid'[i] = 0 => r.settlement # "DISBURSED" /\ g.out.settlement # "DISBURSED"
    BY <2>1, <2>5, <1>o
  <2>7. slot[p].intent = i
    OBVIOUS
  <2>8. r \in Intent /\ Known(r)
    BY <1>o
  <2> HIDE DEF h, s, i, r
  <2>9. Turned(p, i, s, g, r)
    BY <1>o, <2>2, <2>3, <2>4, <2>5, <2>6, <2>7, <2>8 DEF Turned
  <2> QED BY <1>o, <2>9, TurnedKeeps
<1> QED BY <1>2, <1>3 DEF Burn

\* The redeem request.
LEMMA RedeemKeeps ==
    ASSUME Inv, NEW p \in Slots, Redeem(p) \/ RedeemFail(p)
    PROVE  Inv'
<1> DEFINE i == slot[p].intent
<1>1. slot[p].at = "redeem" /\ UNCHANGED <<kv, final, burned, calls, history>>
  BY DEF Redeem, RedeemFail, At
<1>2. paid \in [Intents -> Nat] /\ i \in Intents
  BY <1>1, Own DEF Inv, TypeOK
<1>3. /\ paid' = [paid EXCEPT ![i] = @ + 1] => paid'[i] = paid[i] + 1
      /\ paid' = paid \/ paid' = [paid EXCEPT ![i] = @ + 1]
            => /\ paid' \in [Intents -> Nat]
               /\ \A j \in Intents \ {i} : paid'[j] = paid[j]
  BY <1>2
<1>4. CASE Redeem(p)
  BY <1>1, <1>2, <1>3, <1>4, OutcomeKeeps DEF Redeem
<1>5. CASE RedeemFail(p)
  <2>1. \/ paid' = paid
        \/ paid' = [paid EXCEPT ![i] = @ + 1] /\ ~Sure
    BY <1>5 DEF RedeemFail, Sure
  <2>2. Put(p, slot[p], Outcome(slot[p], "SETTLEMENT_PENDING"), "end")
    BY <1>5 DEF RedeemFail
  <2> QED BY <1>1, <1>2, <1>3, <2>1, <2>2, OutcomeKeeps
<1> QED BY <1>4, <1>5

\* A step that leaves the handlers, the store and the money alone.
LEMMA RestKeeps ==
    ASSUME Inv, UNCHANGED <<store, slot, money, calls, history>>, final' \subseteq Txs
    PROVE  Inv'
<1> USE DEF store, money, history
<1>1. TypeOK'
  BY DEF Inv, TypeOK
<1>2. Shape' /\ Honest' /\ Unborn'
  BY DEF Inv, Shape, Honest, Unborn
<1>3. ASSUME NEW i \in Intents PROVE (Sure /\ steady[i] => Safe(i))'
  BY DEF Inv, Sure, Safe, Alone, Latest, View, Worth, Noted, Suits, Spending, Weighing
<1> QED BY <1>1, <1>2, <1>3 DEF Inv

LEMMA InitHolds == Init => Inv
<1> SUFFICES ASSUME Init PROVE Inv
  OBVIOUS
<1>1. TypeOK
  BY AbsentTyped, IdleTyped, BoundAssumption DEF Init, TypeOK
<1>2. Shape
  BY AbsentTyped, IdleTyped DEF Init, Shape
<1>3. Honest
  BY AbsentTyped, IdleTyped, NullAssumption DEF Init, Honest
<1>4. Unborn
  BY IdleTyped, NullAssumption DEF Init, Unborn
<1>5. ASSUME NEW i \in Intents PROVE Safe(i)
  BY IdleTyped, NullAssumption DEF Init, Safe
<1> QED BY <1>1, <1>2, <1>3, <1>4, <1>5 DEF Inv

LEMMA HandlerKeeps ==
    ASSUME Inv, NEW p \in Slots, HandlerStep(p)
    PROVE  Inv'
<1>1. CASE Get(p) \/ GetFail(p)
  BY <1>1, GetKeeps
<1>2. CASE Create(p) \/ CreateFail(p)
  BY <1>2, CreateKeeps
<1>3. CASE Set(p) \/ SetFail(p)
  BY <1>3, SetKeeps
<1>4. CASE Unverified(p)
  BY <1>4, UnverifiedKeeps
<1>5. CASE NoFacts(p) \/ SettleSkip(p)
  <2>1. /\ slot[p].at \in Stages \ {"get", "redeem"} /\ Go(p, Idle)
        /\ UNCHANGED <<store, final, money, calls, history>>
    BY <1>5 DEF NoFacts, SettleSkip, At, Stages
  <2> QED BY <2>1, ReturnKeeps
<1>6. CASE ConfirmIntent(p)
  BY <1>6, ConfirmIntentKeeps
<1>7. CASE SettleManually(p)
  BY <1>7, SettleManuallyKeeps
<1>8. CASE BurnRefused(p)
  BY <1>8, BurnRefusedKeeps
<1>9. CASE Burn(p)
  BY <1>9, BurnKeeps
<1>10. CASE Redeem(p) \/ RedeemFail(p)
  BY <1>10, RedeemKeeps
<1> QED BY <1>1, <1>2, <1>3, <1>4, <1>5, <1>6, <1>7, <1>8, <1>9, <1>10 DEF HandlerStep

LEMMA NewCallKeeps ==
    ASSUME Inv, NEW p \in Slots, NewCall(p)
    PROVE  Inv'
<1>1. ASSUME NEW s \in Instances, NEW i \in Intents, Confirm(p, s, i)
      PROVE  Inv'
  <2>1. PICK t \in Txs, w \in Wallets \cup {NoWallet}, o \in Orders :
              Call(p, "confirm", s, i, t, w, o)
    BY <1>1, CallerAssumption DEF Confirm
  <2> QED BY <2>1, CallKeeps
<1>2. ASSUME NEW s \in Instances, NEW i \in Intents, BuildTransaction(p, s, i)
      PROVE  Inv'
  <2>1. PICK w \in Wallets, o \in Orders : Call(p, "build", s, i, NoTx, w, o)
    BY <1>2 DEF BuildTransaction
  <2> QED BY <2>1, CallKeeps
<1>3. ASSUME NEW s \in Instances, HeliusEvent(p, s)
      PROVE  Inv'
  <2>1. PICK t \in Txs : Call(p, "webhook", s, Memo[t], t, Signer[t], NoOrder)
    BY <1>3 DEF HeliusEvent
  <2>2. Memo[t] \in Intents \cup {NoIntent} /\ Signer[t] \in Wallets /\ NoOrder \in Orders
    BY ChainAssumption, CallerAssumption
  <2> QED BY <2>1, <2>2, CallKeeps
<1> QED BY <1>1, <1>2, <1>3 DEF NewCall

LEMMA NextKeeps == Inv /\ [Next]_vars => Inv'
<1> SUFFICES ASSUME Inv, [Next]_vars PROVE Inv'
  OBVIOUS
<1>1. ASSUME NEW p \in Slots, NewCall(p) PROVE Inv'
  BY <1>1, NewCallKeeps
<1>2. ASSUME NEW p \in Slots, HandlerStep(p) PROVE Inv'
  BY <1>2, HandlerKeeps
<1>3. ASSUME NEW s \in Instances, NEW i \in Intents, NEW o \in Orders, CreateIntent(s, i, o)
      PROVE  Inv'
  BY <1>3, CreateIntentKeeps
<1>4. ASSUME NEW t \in Txs, Finalize(t) PROVE Inv'
  BY <1>4, RestKeeps DEF Finalize, Inv, TypeOK
<1>5. ASSUME NEW s \in Instances, Kill(s) PROVE Inv'
  BY <1>5, KillKeeps
<1>6. CASE UNCHANGED vars
  BY <1>6, RestKeeps DEF vars, Inv, TypeOK
<1> QED BY <1>1, <1>2, <1>3, <1>4, <1>5, <1>6 DEF Next

LEMMA Invariance == Spec => []Inv
BY InitHolds, NextKeeps, PTL DEF Spec

-----------------------------------------------------------------------------
(***************************************************************************)
(* The theorems.                                                           *)
(***************************************************************************)

\* Every record, in memory, in the KV service or on its way to it, and every
\* handler of api/ keeps its shape.
THEOREM TypeCorrect == Spec => []TypeOK
<1>1. Inv => TypeOK
  BY DEF Inv
<1> QED BY <1>1, Invariance, PTL

\* No copy of an intent says DISBURSED unless IDRX accepted a redeem request
\* for it: whichever calls overlap, whichever answers of Solana, Polygon, IDRX
\* and the KV service fail, and whenever instances end.
THEOREM DisbursedIsPaidHolds == Spec => []DisbursedIsPaid
<1>1. Inv => DisbursedIsPaid
  BY DEF Inv, Honest, DisbursedIsPaid
<1> QED BY <1>1, Invariance, PTL

\* A merchant is paid once at most for an intent whose calls follow one another
\* and see each other's record, if no accepted redeem request looks refused.
THEOREM PaidOnceHolds ==
    ASSUME "unsure" \notin Faults
    PROVE  Spec => []PaidOnce
<1>1. Inv => PaidOnce
  BY DEF Inv, Sure, Safe, PaidOnce
<1> QED BY <1>1, Invariance, PTL

\* Under the same assumptions, once the handlers of an intent have returned, its
\* newest record tells of the payout, and of a burn without one.
THEOREM MoneyRecordedHolds ==
    ASSUME "unsure" \notin Faults
    PROVE  Spec => []MoneyRecorded
<1>1. Inv => MoneyRecorded
  <2> SUFFICES ASSUME Inv, NEW i \in Intents, steady[i], ~Busy(i)
               PROVE  /\ paid[i] > 0 => Latest(i).burn
                      /\ i \in burned =>
                            Latest(i).settlement \in {"DISBURSED", "SETTLEMENT_PENDING"}
    BY DEF MoneyRecorded
  <2>1. Safe(i)
    BY DEF Inv, Sure
  <2> QED BY <2>1 DEF Safe, Noted, Busy
<1> QED BY <1>1, Invariance, PTL

=============================================================================
