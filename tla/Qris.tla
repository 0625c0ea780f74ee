--------------------------------- MODULE Qris ---------------------------------
(***************************************************************************)
(* The two decoders of QRIS codes: QRISDecoder of the Express backend      *)
(* (qrisDecoder.ts) and decodeQris of the serverless one (utils/qris.js).  *)
(*                                                                         *)
(* A payload is a sequence of cells.  A cell is the two digits of a tag or *)
(* of a length (0 .. 99), or a piece of a value; a length counts cells.    *)
(* So a scan for the digits of a tag can match inside a value, but not     *)
(* across the middle of a cell.                                            *)
(***************************************************************************)
EXTENDS Naturals, SequencesExt

CONSTANTS
    Brands,       \* keywords of institutions, as cells
    BackendBrand, \* BackendBrand[b]: the code the backend gives to b, or UNKNOWN
    BrandOrder,   \* GLOBAL_ID_MAP: the keywords in the order they are tried
    Within,       \* Within[b]: the keywords that occur in b as substrings
    NmidBank,     \* NMID_PREFIX_MAP: from the cells after ID to a keyword
    NameCells,    \* the 25 characters of a merchant name
    AccountCells, \* the 8 characters an account has at least
    AccountMax,   \* the 32 characters it has at most
    IdCells,      \* the 12 digits of a merchant id that is a number
    IdMax         \* the 24 digits a merchant id has at most

CONSTANTS ID, DOT, BLANK    \* the letters ID, a full stop, white space

ASSUME CellAssumption ==
    /\ Brands \cap (0 .. 99) = {} /\ {ID, DOT, BLANK} \cap (0 .. 99) = {}
    /\ \A b \in Brands : b \in Within[b] /\ Within[b] \subseteq Brands
    /\ BrandOrder \in Seq(Brands)
    /\ \A b \in Brands : \E k \in DOMAIN BrandOrder : BrandOrder[k] = b
    /\ NameCells \in Nat

Digits == 0 .. 99

Nil == <<>>          \* undefined, null or the empty string
IDR == 36            \* the value 360 of tag 53
INDONESIA == ID      \* the value ID of tag 58
CrcCells == 2        \* the length 04 of tag 63

Least(S) == CHOOSE x \in S : \A y \in S : x <= y
Greatest(S) == CHOOSE x \in S : \A y \in S : x >= y

-----------------------------------------------------------------------------
(***************************************************************************)
(* Payloads.  orig is what the maker of the code computed its CRC over and *)
(* seal the CRC; cells is what was scanned.  Two different texts are taken *)
(* to have different CRCs.                                                 *)
(***************************************************************************)
CrcTag == <<63, CrcCells>>

CrcMatches(p, text, crc) == text = p.orig /\ crc = p.seal

\* Mutant: the CRC is not compared.
verifyCRCSkipped(p) == p.cells # Nil

\* Backend: the last occurrence of "6304", the CRC's own digits included.
verifyCRC(p) ==
    LET at == {k \in 1 .. Len(p.cells) - 1 : SubSeq(p.cells, k, k + 1) = CrcTag}
        k  == Greatest(at)
    IN  /\ at # {} /\ k + 3 <= Len(p.cells)
        /\ CrcMatches(p, SubSeq(p.cells, 1, k + 1), SubSeq(p.cells, k + 2, k + 3))

\* Serverless: the last four characters.
verifyCrc(p) ==
    LET n == Len(p.cells) IN
    n >= 4 /\ CrcMatches(p, SubSeq(p.cells, 1, n - 2), SubSeq(p.cells, n - 1, n))

-----------------------------------------------------------------------------
(***************************************************************************)
(* The walk over tags, lengths and values: a sequence of fields.           *)
(***************************************************************************)
Field(tag, value) == [tag |-> tag, value |-> value]

\* parseNestedTlv and the loop of decodeQris: ends at a value that is cut off.
Walk(s) ==
    LET f[i \in Nat] ==
          IF \/ i + 1 > Len(s)
             \/ s[i + 1] \notin Digits
             \/ i + 1 + s[i + 1] > Len(s)
          THEN Nil
          ELSE <<Field(s[i], SubSeq(s, i + 2, i + 1 + s[i + 1]))>> \o f[i + 2 + s[i + 1]]
    IN  f[1]

\* The backend's loops keep what is left of a value that is cut off; the
\* outer one (rest = 1) also stops when no more than a header is left.
WalkTo(s, rest) ==
    LET f[i \in Nat] ==
          IF i + 1 + rest > Len(s) \/ s[i + 1] \notin Digits THEN Nil
          ELSE LET end == Least({Len(s), i + 1 + s[i + 1]})
               IN  <<Field(s[i], SubSeq(s, i + 2, end))>> \o f[i + 2 + s[i + 1]]
    IN  f[1]

\* A property of the decoded object: the last field with the tag.
Value(fields, tag) ==
    LET at == {k \in DOMAIN fields : fields[k].tag = tag} IN
    IF at = {} THEN Nil ELSE fields[Greatest(at)].value

\* Object.values: JavaScript orders the keys 10 .. 99 by number and before
\* 00 .. 09, which stay in the order of insertion.
Values(fields) ==
    LET tags  == {fields[k].tag : k \in DOMAIN fields}
        First(t) == Least({k \in DOMAIN fields : fields[k].tag = t})
        Rank(t)  == IF t >= 10 THEN t ELSE 100 + First(t)
        order == SetToSortSeq(tags \cap Digits, LAMBDA a, b : Rank(a) < Rank(b))
    IN  [k \in DOMAIN order |-> Value(fields, order[k])]

-----------------------------------------------------------------------------
(***************************************************************************)
(* Candidates for the merchant's account and identifier.                   *)
(***************************************************************************)
Compact(v) == SelectSeq(v, LAMBDA c : c # BLANK)

AllDigits(v) == \A k \in DOMAIN v : v[k] \in Digits

\* Both backends: 8 to 32 letters and digits that do not begin with ID.  (Their
\* pattern for 8 to 24 digits is a special case of it.)
normalizeAccountCandidate(v) ==
    LET c == Compact(v) IN
    IF \/ c = Nil \/ Contains(c, DOT)
       \/ Len(c) < AccountCells \/ Len(c) > AccountMax
       \/ Head(c) = ID
    THEN Nil ELSE c

\* ID and 8 to 24 digits, or 12 to 24 digits.
normalizeMerchantIdCandidate(v) ==
    LET c == Compact(v) IN
    IF c # Nil /\ \/ Head(c) = ID /\ AllDigits(Tail(c))
                     /\ Len(c) - 1 \in AccountCells .. IdMax
                  \/ AllDigits(c) /\ Len(c) \in IdCells .. IdMax
    THEN c ELSE Nil

Accounts(vs) == [k \in DOMAIN vs |-> normalizeAccountCandidate(vs[k])]
MerchantIds(vs) == [k \in DOMAIN vs |-> normalizeMerchantIdCandidate(vs[k])]

\* The loops that return at the first candidate that is one.
FirstOf(candidates) ==
    LET good == {k \in DOMAIN candidates : candidates[k] # Nil} IN
    IF good = {} THEN Nil ELSE candidates[Least(good)]

Preferred(fields, tags) == [k \in DOMAIN tags |-> Value(fields, tags[k])]

\* pickBestMerchantAccount, of one template.
pickBest(fields) ==
    FirstOf(Accounts(Preferred(fields, <<1, 2, 3, 4>>) \o Values(fields)))

\* The merchant account templates: the values of tags 26 .. 51 in order.  One
\* that is not there is passed over like one that is empty.
TemplateValues(fields) == [k \in 1 .. 26 |-> Value(fields, 25 + k)]

\* extractMerchantAccount and extractAccountNumber: the first template with an
\* account, then the additional data of tag 62.
Account(templates, additional) ==
    LET fromTemplates == FirstOf([k \in DOMAIN templates |-> pickBest(templates[k])])
    IN  IF fromTemplates # Nil THEN fromTemplates
        ELSE FirstOf(Accounts(Preferred(additional, <<1, 2, 3, 7, 9>>) \o Values(additional)))

-----------------------------------------------------------------------------
(***************************************************************************)
(* The backend.                                                            *)
(***************************************************************************)
Nested(s) == WalkTo(s, 0)

BackendAccount(fields) ==
    LET values == TemplateValues(fields) IN
    Account([k \in DOMAIN values |-> Nested(values[k])], Nested(Value(fields, 62)))

\* The keywords that occur in a template's global identifier, its tag 00.
BrandsOf(template) ==
    UNION {Within[b] : b \in {c \in Brands : Contains(Value(template, 0), c)}}

\* Both tables are tried in the same order.
FirstBrand(found) ==
    BrandOrder[Least({k \in DOMAIN BrandOrder : BrandOrder[k] \in found})]

\* The backend looks at tag 26, be it empty, or at 27 without it.  The prefixes ID1025 and
\* ID1011 that it tries next never match: an account does not begin with ID.
BackendBank(fields) ==
    LET tag == IF \E k \in DOMAIN fields : fields[k].tag = 26 THEN 26 ELSE 27
        template == Nested(Value(fields, tag))
        known == {b \in BrandsOf(template) : BackendBrand[b] # "UNKNOWN"}
    IN  IF known = {} THEN "UNKNOWN" ELSE BackendBrand[FirstBrand(known)]

Trim(v) ==
    LET solid == {k \in DOMAIN v : v[k] # BLANK} IN
    IF solid = {} THEN Nil ELSE SubSeq(v, Least(solid), Greatest(solid))

\* An empty name becomes UNKNOWN MERCHANT, which passes for a name.
UnknownMerchant == <<BLANK>>

BackendName(v) ==
    LET name == Trim(v) IN
    IF name = Nil THEN UnknownMerchant
    ELSE Trim(SubSeq(name, 1, Least({Len(name), NameCells})))

Rejected == [ok |-> FALSE]

\* validateEMVCoSchema.  (The name is never empty by then.)
SchemaHolds(fields) ==
    /\ Value(fields, 0) = <<1>> /\ Value(fields, 53) = <<IDR>>
    /\ Value(fields, 58) = <<INDONESIA>> /\ Len(Value(fields, 63)) = CrcCells

\* QRISDecoder.decode.
BackendDecode(p) ==
    LET fields == WalkTo(p.cells, 1) IN
    IF ~verifyCRC(p) \/ ~SchemaHolds(fields) THEN Rejected
    ELSE [ok |-> TRUE, name |-> BackendName(Value(fields, 59)),
          amount |-> Value(fields, 54), account |-> BackendAccount(fields),
          bank |-> BackendBank(fields)]

-----------------------------------------------------------------------------
(***************************************************************************)
(* The serverless backend.                                                 *)
(***************************************************************************)
\* extractLooseTagValue: the first place where the digits of the tag and a
\* length occur, wherever that is; a failed match is skipped whole.
Loose(s, tag) ==
    LET f[k \in Nat] ==
          IF k + 1 > Len(s) THEN Nil
          ELSE IF s[k] # tag \/ s[k + 1] \notin Digits THEN f[k + 1]
          ELSE LET value == SubSeq(s, k + 2, k + 1 + s[k + 1])
               IN  IF k + 1 + s[k + 1] <= Len(s) /\ Trim(value) # Nil THEN value
                   ELSE f[k + 2]
    IN  f[1]

Templates(fields) ==
    LET values == TemplateValues(fields) IN [k \in DOMAIN values |-> Walk(values[k])]

\* The sources of extractMerchantId, in the order it tries them.
MerchantIdOf(additional) ==
    FirstOf(MerchantIds(Preferred(additional, <<3, 7, 9, 1, 2, 5>>)))
MerchantIdIn(template) ==
    FirstOf(MerchantIds(
        Preferred(template, <<3, 4, 5, 6, 7, 8, 9, 10, 11, 12, 13, 14, 15, 1, 2>>)
          \o Values(template)))

extractMerchantId(fields, s) ==
    LET looseAdditional == Walk(Loose(s, 62))
        InAny(templates) == FirstOf([k \in DOMAIN templates |-> MerchantIdIn(templates[k])])
    IN  FirstOf(<<MerchantIdOf(Walk(Value(fields, 62))),
                  InAny(Templates(fields)),
                  MerchantIdOf(looseAdditional),
                  FirstOf(MerchantIds(Values(looseAdditional))),
                  InAny([k \in 1 .. 26 |-> Walk(Loose(s, 25 + k))])>>)

\* detectBank: the first keyword of the table that occurs in any template, or
\* what the merchant id begins with.  (An account does not begin with ID.)
detectBank(fields, s) ==
    LET templates == Templates(fields)
        found == UNION {BrandsOf(templates[k]) : k \in DOMAIN templates}
        id    == extractMerchantId(fields, s)
    IN  IF found # {} THEN <<FirstBrand(found)>>
        ELSE IF Len(id) > 2 /\ SubSeq(id, 2, 3) \in DOMAIN NmidBank /\ Head(id) = ID
        THEN <<NmidBank[SubSeq(id, 2, 3)]>>
        ELSE Nil

\* Mutant: the scan goes before the field.
AmountLooseFirst(fields, s) ==
    LET loose == Trim(Loose(s, 54)) IN
    IF loose # Nil /\ AllDigits(loose) THEN loose ELSE Value(fields, 54)

\* The field of tag 54, or else what a scan for it finds.
Amount(fields, s) ==
    LET loose == Trim(Loose(s, 54)) IN
    IF Value(fields, 54) # Nil THEN Value(fields, 54)
    ELSE IF AllDigits(loose) THEN loose ELSE Nil

\* ensureMandatoryQrisFields: what it warns of.  Currency and country count
\* when a scan finds them, too.
Warnings(fields, p) ==
    LET n == Len(p.cells) IN
    {w \in {"currency", "country", "placement", "checksum"} :
        CASE w = "currency"  -> <<IDR>> \notin {Value(fields, 53), Loose(p.cells, 53)}
          [] w = "country"   -> <<INDONESIA>> \notin {Value(fields, 58), Trim(Loose(p.cells, 58))}
          [] w = "placement" -> n < 4 \/ SubSeq(p.cells, n - 3, n - 2) # CrcTag
          [] w = "checksum"  -> ~verifyCrc(p)}

\* It throws for tag 00 only: the name is never empty by then.
DecodeQris(p) ==
    LET fields == Walk(p.cells)
        amount == Amount(fields, p.cells)
        looseName == Trim(Loose(p.cells, 59))
        name   == IF Trim(Value(fields, 59)) # Nil THEN Trim(Value(fields, 59))
                  ELSE IF looseName # Nil THEN looseName ELSE UnknownMerchant
    IN  IF Value(fields, 0) # <<1>> THEN Rejected
        ELSE [ok |-> TRUE, name |-> name, amount |-> amount,
              account |-> Account(Templates(fields), Walk(Value(fields, 62))),
              merchantId |-> extractMerchantId(fields, p.cells),
              bank |-> detectBank(fields, p.cells), warnings |-> Warnings(fields, p),
              amountMode |-> IF amount # Nil THEN "LOCKED_FROM_QR" ELSE "INPUT_REQUIRED"]

=============================================================================
