--------------------------------- MODULE Rules ---------------------------------
(***************************************************************************)
(* The calculations that a payment passes through before any money moves:  *)
(* the rate limiter, the QRIS decoders, the risk score and the fee.  They  *)
(* are functions; a behaviour picks one input and ends.                    *)
(***************************************************************************)
EXTENDS Qris, RiskEngine, RateLimiter, Fees

CONSTANTS
    Cells,        \* what the values of codes are made of
    Codes,        \* QRIS codes as their makers meant them
    Damages,      \* what may happen to a code before it is scanned
    Payments,     \* payments to score, each with a velocity
    Histories,    \* sequences of payments of one wallet, each with its time
    Traffic,      \* sequences of requests of one address, each with its time
    MaxFee        \* bound: fees are checked up to it

ASSUME CodesAssumption ==
    /\ Codes \subseteq [fields : Seq([tag : Digits, value : Seq(Cells)]), seal : Seq(Cells)]
    /\ \A c \in Codes : /\ Len(c.seal) = CrcCells
                         /\ \A k \in DOMAIN c.fields : Len(c.fields[k].value) \in Digits
    /\ Damages \subseteq [kind : {"none", "cell", "cut", "more"}, at : Nat]

\* The times of a sequence of events do not decrease.
InOrder(xs) ==
    \A n \in DOMAIN xs : 0 < xs[n].time /\ \A k \in 1 .. n : xs[k].time <= xs[n].time

ASSUME PaymentsAssumption ==
    /\ Payments \subseteq
           [age : Nat, txCount : Int, amount : Nat, static : BOOLEAN, nmid : BOOLEAN,
            denied : BOOLEAN, velocity : [count : Nat, total : Nat, windowStart : Nat]]
    /\ Histories \subseteq
           Seq([age : Nat, txCount : Int, amount : Nat, static : BOOLEAN, nmid : BOOLEAN,
                denied : BOOLEAN, time : Nat])
    /\ \A xs \in Histories : xs # <<>> /\ InOrder(xs)

ASSUME TrafficAssumption ==
    /\ Traffic \subseteq Seq([time : Nat, redis : {"up", "down", "lost", "half"}])
    /\ \A xs \in Traffic : InOrder(xs)

ASSUME FeeAssumption == MaxFee \in Nat

VARIABLE input

-----------------------------------------------------------------------------
(***************************************************************************)
(* QRIS codes.  A code is a sequence of fields, and its CRC.               *)
(***************************************************************************)
Encode(fields) ==
    FlattenSeq([k \in DOMAIN fields |->
        <<fields[k].tag, Len(fields[k].value)>> \o fields[k].value])

\* What the maker computes the CRC over, and the code with its CRC.
Original(code) == Encode(code.fields) \o CrcTag
Whole(code) == Original(code) \o code.seal

\* The scanned payload: intact, with a cell replaced, cut off or extended.
Payload(code, damage) ==
    LET orig  == Original(code)
        whole == Whole(code)
        n     == Len(whole)
    IN  [orig |-> orig, seal |-> code.seal,
         cells |-> CASE damage.kind = "none" -> whole
                     [] damage.kind = "cell" -> [whole EXCEPT ![1 + (damage.at % n)] = BLANK]
                     [] damage.kind = "cut"  -> SubSeq(whole, 1, n - 1 - (damage.at % n))
                     [] damage.kind = "more" -> Append(whole, BLANK)]

Inputs ==
    [kind : {"code"}, code : Codes, damage : Damages]
      \cup [kind : {"payment"}, payment : Payments]
      \cup [kind : {"history"}, history : Histories]
      \cup [kind : {"traffic"}, traffic : Traffic]
      \cup [kind : {"fee"}, fee : 0 .. MaxFee]

Init == input = [kind |-> "none"]

Pick == input.kind = "none" /\ input' \in Inputs

Spec == Init /\ [][Pick]_input

Scanned == Payload(input.code, input.damage)

Intact == input.kind = "code" /\ input.damage.kind = "none"

-----------------------------------------------------------------------------
\* What the backend reads of a code that arrives intact is what its maker wrote:
\* the last amount and the last name, the name cut to 25 characters.  It refuses
\* the code only if a mandatory field is wrong, or if the CRC happens to read
\* 6304, which it takes for the tag.
BackendReadsCode ==
    Intact =>
        LET fields == input.code.fields
            got    == BackendDecode(Scanned)
            Written(tag) == {k \in DOMAIN fields : fields[k].tag = tag}
            Last1(tag)   == fields[Greatest(Written(tag))].value
        IN  /\ got.ok <=> /\ input.code.seal # CrcTag
                          /\ \A t \in {0, 53, 58} : Written(t) # {}
                          /\ Last1(0) = <<1>> /\ Last1(53) = <<IDR>> /\ Last1(58) = <<ID>>
            /\ got.ok => got.amount = IF Written(54) = {} THEN Nil ELSE Last1(54)
            /\ got.ok /\ Written(59) # {} /\ Trim(Last1(59)) # Nil =>
                   IsPrefix(got.name, Trim(Last1(59))) /\ Len(got.name) <= NameCells

\* A code of which a cell was misread or a part is missing never passes the
\* backend.
DamageRejected ==
    /\ input.kind = "code" /\ input.damage.kind \in {"cell", "cut"}
    /\ Scanned.cells # Whole(input.code)
    => ~BackendDecode(Scanned).ok

\* The fields of a value fill it.
Filled(v) == Len(Encode(Walk(v))) = Len(v)

\* The templates and the additional data of a code are filled.
WholeTemplates(code) ==
    \A k \in DOMAIN code.fields :
        LET f == code.fields[k] IN f.tag \in (26 .. 51) \cup {62} => Filled(f.value)

\* The keywords of institutions that occur in a code.
Named(fields) ==
    LET values == TemplateValues(fields) IN
    UNION {BrandsOf(Nested(values[k])) : k \in DOMAIN values}

\* A code with whole templates that the backend accepts, the serverless backend
\* decodes to the same merchant account, the same amount where the code has one,
\* the same name up to the cut and, if the backend finds an institution and all
\* keywords in the code are that one's, the same institution: a payment does not
\* depend on which of the two served it.  Of such a code it warns only if text
\* follows the CRC, which the backend passes over.
DecodersAgree ==
    /\ input.kind = "code" /\ BackendDecode(Scanned).ok /\ WholeTemplates(input.code)
    => LET one == BackendDecode(Scanned)
            two == DecodeQris(Scanned)
        IN  /\ two.ok
            /\ two.account = one.account
            /\ one.amount # Nil => two.amount = one.amount
            /\ one.name # UnknownMerchant => IsPrefix(one.name, two.name)
            /\ IF Intact THEN two.warnings = {} ELSE two.warnings \subseteq {"placement", "checksum"}
            /\ one.bank # "UNKNOWN" /\ (\A b \in Named(input.code.fields) : BackendBrand[b] = one.bank)
                 => two.bank # Nil /\ BackendBrand[two.bank[1]] = one.bank

-----------------------------------------------------------------------------
\* An established wallet below fifty millions is never blocked by the score,
\* however fast it pays: a retry storm does not lock a customer out.
EstablishedNotBlocked ==
    input.kind = "payment" =>
        LET x == input.payment IN
        x.age >= 90 /\ x.txCount >= 5 /\ x.amount <= 500 /\ ~x.denied =>
            Allow(Score(x, x.velocity))

\* What is held against a wallet happened within the last hour, and is exactly
\* what was allowed since the window began.
VelocityIsRecent ==
    input.kind = "history" =>
        LET xs == input.history
            now == xs[Len(xs)].time
            h == History(xs)[Len(xs)]
            v == getVelocity(h.velocity, now)
            counted == {n \in h.allowed : xs[n].time >= v.windowStart}
        IN  /\ now - v.windowStart <= VELOCITY_WINDOW
            /\ v.count > 0 => /\ v.count = Cardinality(counted)
                              /\ v.total = SumFunctionOnSet([n \in DOMAIN xs |-> xs[n].amount], counted)

-----------------------------------------------------------------------------
\* In any minute an address is served twice the limit at most, once for each of
\* two windows; four times if Redis comes and goes, as each counter starts anew.
\* The counter in Redis also counts requests that memory serves.
LimitHolds ==
    input.kind = "traffic" =>
        LET xs == input.traffic
            served == Served(xs)
            kinds  == {xs[k].redis : k \in DOMAIN xs}
            mixed  == kinds \cap {"up", "half"} # {} /\ kinds \cap {"down", "lost"} # {}
            From(n) == {k \in served : k >= n /\ xs[k].time < xs[n].time + WINDOW}
        IN  \A n \in served :
                Cardinality(From(n)) <= (IF mixed THEN 4 ELSE 2) * RATE_LIMIT_PER_MIN

\* An address that was silent for more than a minute is served.  After a window
\* that began without its EXPIRE it can be refused for good, but not before it
\* has made as many requests again as the limit.
NoLockout ==
    input.kind = "traffic" =>
        LET xs == input.traffic IN
        \A n \in DOMAIN xs :
            /\ n > 1 => xs[n].time > xs[n - 1].time + WINDOW
            /\ \A k \in 1 .. n : xs[k].redis \in {"lost", "half"} => n - k < RATE_LIMIT_PER_MIN
            => n \in Served(xs)

\* The fee split that an intent announces and the one that is recorded.
FeeSharesAgree == input.kind = "fee" => SharesAgree(platformFee(input.fee))

=============================================================================
