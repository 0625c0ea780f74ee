-------------------------------- MODULE MCRules --------------------------------
(***************************************************************************)
(* Inputs of Rules for TLC.                                                *)
(***************************************************************************)
EXTENDS Rules

CONSTANTS GOPAY, DANA, DANAMON, BLU, BCA, NAME

\* BLU stands for BCA DIGITAL, the keyword of an institution the backend does not know.
MCBrandOrder == <<GOPAY, DANA, BLU, BCA, DANAMON>>
MCBackendBrand == [b \in Brands |-> CASE b = GOPAY -> "GOPAY" [] b = DANA -> "DANA"
                                      [] b = BCA -> "BCA" [] OTHER -> "UNKNOWN"]
MCWithin == [b \in Brands |-> CASE b = DANAMON -> {DANA, DANAMON}
                                [] b = BLU -> {BLU, BCA} [] OTHER -> {b}]

MCNmidBank == (<<10, 25>> :> GOPAY) @@ (<<10, 11>> :> BCA)

\* An account whose digits contain those of a tag with a length, a merchant id,
\* and one of letters.
Account1 == <<93, 54, 1, 77>>
Account2 == <<63, 2, 93, 10>>
AccountValues == {Account1, Account2, <<ID, 10, 25, 33, 44>>, <<NAME, 11, 12, 13, 14>>, <<DOT, 1>>}

Template(brand, tag, account) ==
    Encode(<<Field(0, <<DOT, brand>>), Field(tag, account)>>)

\* Optional fields: a sequence of none or one.
Optional(tag, values) == {<<>>} \cup {<<Field(tag, v)>> : v \in values}

CodeFields ==
    {<<Field(0, v)>> \o m \o <<Field(53, <<36>>)>> \o a \o <<Field(58, <<ID>>)>> \o n \o d :
        v \in {<<1>>, <<2>>},
        m \in {<<Field(t, Template(b, k, x))>> :
                  t \in {26, 27, 51}, b \in {GOPAY, DANAMON, NAME}, k \in {1, 12}, x \in AccountValues}
              \cup {<<>>, <<Field(26, <<0, 2, DOT, GOPAY, 1, 9>> \o Account1)>>,
                    <<Field(26, Template(BLU, 1, Account1))>>}
              \cup {<<Field(26, v), Field(t, Template(GOPAY, 1, Account2))>> :
                       v \in {<<>>, Template(NAME, 1, Account1), Template(DANA, 1, <<DOT, 1>>)},
                       t \in {27, 51}},
        a \in Optional(54, {<<50>>, <<25, 0>>}) \cup {<<Field(54, <<25>>), Field(54, <<50>>)>>},
        n \in Optional(59, {<<BLANK>>, <<NAME>>, <<BLANK, NAME, BLANK, NAME, 5>>}),
        d \in Optional(62, {Encode(<<Field(7, Account1)>>)})}

MCCells == 0 .. 99 \cup Brands \cup {ID, DOT, BLANK, NAME}

MCCodes == [fields : CodeFields, seal : {<<10, 20>>, <<63, 2>>}]

MCDamages ==
    {[kind |-> "none", at |-> 0], [kind |-> "more", at |-> 0]}
      \cup [kind : {"cell"}, at : {0, 7, 12}] \cup [kind : {"cut"}, at : {0, 3}]

MCPayments ==
    [age : {0, 3, 10, 60, 90}, txCount : {-1, 1, 5}, amount : {0, 1, 10, 60, 300, 500, 600, 2000},
     static : BOOLEAN, nmid : BOOLEAN, denied : BOOLEAN,
     velocity : [count : {0, 3, 10}, total : {0, 500}, windowStart : {0}]]

\* A sequence of events with the time of each, from the gaps before them.
Clocked(xs) ==
    LET at[n \in 0 .. Len(xs)] == IF n = 0 THEN 1 ELSE at[n - 1] + xs[n].gap
    IN  [n \in DOMAIN xs |-> [f \in (DOMAIN xs[n] \cup {"time"}) \ {"gap"} |->
                                 IF f = "time" THEN at[n] ELSE xs[n][f]]]

\* Up to four payments and five requests, four where answers of INCR are lost; gaps
\* are within the window or beyond.
MCHistories ==
    {Clocked(xs) : xs \in
        UNION {[1 .. n -> [age : {90}, txCount : {5}, amount : {1, 300, 2000}, static : {FALSE},
                           nmid : {TRUE}, denied : {FALSE}, gap : {0, 40, 61}]] : n \in 1 .. 4}}
Requests(n, kinds) == [1 .. n -> [gap : {0, 31, 61}, redis : kinds]]

MCTraffic ==
    {Clocked(xs) : xs \in
        UNION {Requests(n, {"up", "down", "lost", "half"}) : n \in 1 .. 4}
          \cup Requests(5, {"up", "down", "half"})}
=============================================================================
