---------------------------- MODULE QuoteMatching ----------------------------
(***************************************************************************)
(* How one request of a quote is answered: which products the team may see *)
(* carry its code or its CAS number, what they cost, which of them may be  *)
(* quoted, and which of these the strategy and the brand policy choose.    *)
(* Everything here is a function of the request and of what was read from  *)
(* the database, a record "db":                                            *)
(*   products   id -> product, or Gone                                     *)
(*   brands     the brands that are visible                                *)
(*   priority   the brands whose products may override the rules           *)
(*   banned     the CAS numbers whose winning rule blocks the export       *)
(*   currency   brand -> currency, or Blank                                *)
(*   rate       currency -> rate, 0 if there is none                       *)
(***************************************************************************)
EXTENDS Naturals, Sequences, FiniteSets

CONSTANTS
    Ids,            \* ids of products
    Brands,         \* canonical brands, numbered in the order of their names
    Codes, Cases,   \* product codes and CAS numbers
    Placeholders,   \* CAS texts that are not the number of a substance
    Sizes,          \* sizes as they are written
    UnitOf,         \* size -> "SOLID" or "LIQUID", Blank if it is neither
    AmountOf,       \* size -> its amount in the base unit of its group
    Preparations,   \* forms a product comes in
    Currencies,
    VND,            \* the currency that is worth 1
    Gone, Blank,    \* no such product; an empty cell
    Granularity,    \* prices are rounded to multiples of it
    Limit           \* QUOTE_CANDIDATE_LIMIT

ASSUME QuoteConstants ==
    /\ Ids \subseteq Nat /\ Brands \subseteq Nat /\ IsFiniteSet(Ids)
    /\ Placeholders \subseteq Cases
    /\ Blank \notin Codes \cup Cases \cup Currencies
    /\ UnitOf \in [Sizes -> {"SOLID", "LIQUID", Blank}]
    /\ AmountOf \in [Sizes -> Nat]
    /\ VND \in Currencies
    /\ Granularity \in Nat \ {0} /\ Limit \in Nat

\* base is price * ship; manual is the policy of the product's own exception,
\* "LOST" if the exception names a status that is gone, Blank if there is none.
Products ==
    [code : Codes \cup {Blank}, cas : Cases \cup {Blank}, brand : Brands,
     size : Sizes, preparation : Preparations, base : Nat,
     manual : {"ALLOW", "BLOCK", "LOST", Blank}]

Strategies == {"MANUAL", "LOWEST_OVERALL", "LOWEST_PER_BRAND"}

\* A policy lists tiers of brands; an allowlist is one tier.
Policies ==
    {policy \in [mode : {"NONE", "INHERIT", "PRIORITY_FALLBACK", "ALLOWLIST_ONLY",
                         "ALL_AVAILABLE"},
                 tiers : Seq(SUBSET Brands)] :
        policy.mode = "ALLOWLIST_ONLY" => Len(policy.tiers) <= 1}

Rows == [code : Codes \cup {Blank}, cas : Cases \cup {Blank},
         equivalent : BOOLEAN, override : Policies]

Queries ==
    [rows : Seq(Rows), strategy : Strategies, policy : Policies,
     brands : SUBSET Brands, sizes : SUBSET Sizes, unit : {"ANY", "SOLID", "LIQUID"},
     preparation : Preparations \cup {"ANY"},
     mode : {"ANY", "EXACT", "MIN", "MAX"}]

-----------------------------------------------------------------------------
(* The request. *)

\* Every tier names some brand and no brand is named twice.
ValidPolicy(policy) ==
    policy.mode \in {"PRIORITY_FALLBACK", "ALLOWLIST_ONLY"} =>
        /\ policy.tiers # <<>>
        /\ \A i \in DOMAIN policy.tiers :
              /\ policy.tiers[i] # {}
              /\ \A j \in DOMAIN policy.tiers :
                    i # j => policy.tiers[i] \cap policy.tiers[j] = {}

ValidQuery(q) ==
    /\ q.policy.mode # "INHERIT" /\ ValidPolicy(q.policy)
    /\ \A i \in DOMAIN q.rows : ValidPolicy(q.rows[i].override)

EffectivePolicy(q, row) ==
    IF row.override.mode \in {"NONE", "INHERIT"} THEN q.policy ELSE row.override

Identified(row) == row.code # Blank \/ row.cas # Blank
ByCode(row) == row.code # Blank /\ row.cas = Blank
ByCas(row) == row.code = Blank /\ row.cas # Blank
ByBoth(row) == row.code # Blank /\ row.cas # Blank
ExactCode(row) == row.code # Blank /\ ~row.equivalent
NeedsCas(row) == row.cas # Blank \/ row.equivalent

\* A search by CAS number needs brands to search in.
NeedsBrand(q, row) ==
    /\ ByCas(row) \/ row.equivalent
    /\ q.brands = {}
    /\ EffectivePolicy(q, row).mode = "NONE"

\* One row with a policy lifts the filter by brand for the whole batch.
BatchHasPolicy(q) ==
    \E i \in DOMAIN q.rows :
        /\ Identified(q.rows[i])
        /\ ~NeedsBrand(q, q.rows[i])
        /\ EffectivePolicy(q, q.rows[i]).mode # "NONE"

-----------------------------------------------------------------------------
(* The price and the status of a product. *)

\* 0 unless the brand has a currency and the currency a rate; never 1.
Rate(brand, db) ==
    IF db.currency[brand] = Blank THEN 0 ELSE db.rate[db.currency[brand]]

\* To the nearest multiple, from the middle to the even one.
Rounded(n) ==
    LET q == n \div Granularity
        r == n % Granularity
    IN IF 2 * r > Granularity \/ (2 * r = Granularity /\ q % 2 = 1)
          THEN (q + 1) * Granularity
          ELSE q * Granularity

UnitPrice(product, db) == Rounded(product.base * Rate(product.brand, db))

\* The product's own exception, where its brand allows one, else the rules of
\* its CAS number. An exception that lost its status blocks.
Blocked(product, db) ==
    IF product.brand \in db.priority /\ product.manual # Blank
       THEN product.manual # "ALLOW"
       ELSE product.cas \in db.banned

Candidate(i, db) ==
    [id |-> i, brand |-> db.products[i].brand,
     price |-> UnitPrice(db.products[i], db),
     blocked |-> Blocked(db.products[i], db), twin |-> FALSE]

Candidates == [id : Ids, brand : Brands, price : Nat, blocked : BOOLEAN,
               twin : BOOLEAN]

Eligible(c) == ~c.blocked /\ c.price > 0
Selectable(c) == Eligible(c) /\ ~c.twin

\* Ties are settled by brand and id; the texts compared in between are left out.
Before(c, d) ==
    \/ c.price < d.price
    \/ c.price = d.price /\ c.brand < d.brand
    \/ c.price = d.price /\ c.brand = d.brand /\ c.id < d.id

-----------------------------------------------------------------------------
(* What the database finds for a row. *)

Visible(db) ==
    {i \in Ids : db.products[i] # Gone /\ db.products[i].brand \in db.brands}

\* The CAS numbers a code has among the visible products.
CasesOf(code, db) ==
    {db.products[i].cas : i \in {j \in Visible(db) : db.products[j].code = code}}
        \ {Blank}

ValidCases(code, db) == CasesOf(code, db) \ Placeholders

\* Some visible product carries the code and the CAS number of the row.
Confirmed(row, db) ==
    \E i \in Visible(db) : /\ db.products[i].code = row.code
                           /\ db.products[i].cas = row.cas

\* An equivalent search goes by the one substance the code stands for, or by
\* the CAS number given if the catalogue confirms that the code has it.
Matches(product, row, db) ==
    IF row.equivalent /\ row.code # Blank
       THEN \/ ByBoth(row) /\ Confirmed(row, db) /\ product.cas = row.cas
            \/ ByCode(row) /\ ValidCases(row.code, db) = {product.cas}
       ELSE /\ row.code # Blank => product.code = row.code
            /\ row.cas # Blank => product.cas = row.cas

\* Sizes that are named without a mode are meant exactly.
Fits(product, q) ==
    /\ q.brands # {} /\ ~BatchHasPolicy(q) => product.brand \in q.brands
    /\ q.preparation \in {"ANY", product.preparation}
    /\ q.sizes # {} /\ q.mode \in {"ANY", "EXACT"} => product.size \in q.sizes

Hits(q, row, db) ==
    {Candidate(i, db) : i \in {j \in Visible(db) :
                                  /\ Matches(db.products[j], row, db)
                                  /\ Fits(db.products[j], q)}}

\* _quote_simple_size
Unit(c, db) == UnitOf[db.products[c.id].size]
Amount(c, db) == AmountOf[db.products[c.id].size]

\* Only sizes of one group compare, and only within a brand.
Filtered(S, q, db) ==
    LET kept == {c \in S : q.unit \in {"ANY", Unit(c, db)}}
        comparable == {c \in kept : Unit(c, db) # Blank}
        peers(c) == {d \in comparable : d.brand = c.brand /\ Unit(d, db) = Unit(c, db)}
    IN CASE q.mode = "MIN" ->
              {c \in comparable : \A d \in peers(c) : Amount(c, db) <= Amount(d, db)}
         [] q.mode = "MAX" ->
              {c \in comparable : \A d \in peers(c) : Amount(c, db) >= Amount(d, db)}
         [] OTHER -> kept

SameArticle(c, d, db) ==
    /\ db.products[c.id].code = db.products[d.id].code
    /\ db.products[c.id].size = db.products[d.id].size
    /\ c.brand = d.brand

\* Two candidates that are the same article are left to a person.
Marked(S, db) ==
    {[c EXCEPT !.twin = \E d \in S \ {c} : /\ db.products[c.id].code # Blank
                                           /\ SameArticle(c, d, db)] : c \in S}

-----------------------------------------------------------------------------
(* The answer to a row: the candidates shown, those chosen, and why. *)

Lifecycles == {"UNRESOLVED", "REVIEW", "BLOCKED", "SELECTED", "EXPORTED"}

Unresolved == {"MISSING_IDENTIFIER", "NO_MATCH", "CODE_CAS_CONFLICT",
               "CODE_HAS_NO_CAS", "CODE_MULTIPLE_CAS",
               "CODE_HAS_PLACEHOLDER_CAS", "COMPLIANCE_UNRESOLVED"}
ToReview == {"PENDING_MATCH", "BRAND_REQUIRED", "NO_VALID_PRICE",
             "MANUAL_SELECTION_REQUIRED", "FILTER_NO_MATCH",
             "DUPLICATE_CODE_BRAND_SIZE", "CANDIDATE_LIMIT_EXCEEDED"}
Reasons == Unresolved \cup ToReview \cup
           {"COMPLIANCE_BLOCKED", "AUTO_SELECTED", "MANUALLY_SELECTED",
            "EXPORTED_SUCCESSFULLY"}

\* REASON_CODE_TO_LIFECYCLE, by which an export checks a placeholder.
LifecycleOf(reason) ==
    CASE reason \in Unresolved -> "UNRESOLVED"
      [] reason \in ToReview -> "REVIEW"
      [] reason = "COMPLIANCE_BLOCKED" -> "BLOCKED"
      [] reason \in {"AUTO_SELECTED", "MANUALLY_SELECTED"} -> "SELECTED"
      [] reason = "EXPORTED_SUCCESSFULLY" -> "EXPORTED"

Answers == [shown : SUBSET Candidates, chosen : SUBSET Candidates,
            lifecycle : Lifecycles, reason : Reasons]

Said(shown, chosen, lifecycle, reason) ==
    [shown |-> shown, chosen |-> chosen, lifecycle |-> lifecycle,
     reason |-> reason]

Unchosen(shown, lifecycle, reason) == Said(shown, {}, lifecycle, reason)
Nothing(lifecycle, reason) == Unchosen({}, lifecycle, reason)

AllBlocked(S) == \A c \in S : c.blocked
AllUnpriced(S) == \A c \in S : c.price = 0
OfBrands(S, brands) == {c \in S : c.brand \in brands}

\* Candidates compete with all others, or with those of their brand.
Rivals(c, d, strategy) == strategy = "LOWEST_OVERALL" \/ d.brand = c.brand

\* The cheapest of all, or the cheapest of each brand.
Pick(S, strategy) ==
    {c \in S : \A d \in S : Rivals(c, d, strategy) => ~Before(d, c)}

Automatic(S, strategy) ==
    IF strategy = "MANUAL"
       THEN Unchosen(S, "REVIEW", "MANUAL_SELECTION_REQUIRED")
       ELSE Said(S, Pick({c \in S : Selectable(c)}, strategy),
                 "SELECTED", "AUTO_SELECTED")

\* _quote_select_candidates, with no policy of brands.
Select(S, strategy) ==
    IF S = {} THEN Nothing("UNRESOLVED", "NO_MATCH")
    ELSE IF AllBlocked(S) THEN Unchosen(S, "BLOCKED", "COMPLIANCE_BLOCKED")
    ELSE IF \E c \in S : Selectable(c) THEN Automatic(S, strategy)
    ELSE IF \E c \in S : Eligible(c)
            THEN Unchosen(S, "REVIEW", "DUPLICATE_CODE_BRAND_SIZE")
            ELSE Unchosen(S, "REVIEW", "NO_VALID_PRICE")

\* Why nothing of S can be chosen; if it is neither the rules nor the prices
\* then the filters are to blame, and "rest" is shown.
Rejected(S, rest) ==
    IF AllBlocked(S) THEN Unchosen(S, "BLOCKED", "COMPLIANCE_BLOCKED")
    ELSE IF AllUnpriced(S) THEN Unchosen(S, "REVIEW", "NO_VALID_PRICE")
    ELSE Unchosen(rest, "REVIEW", "FILTER_NO_MATCH")

\* A change of ByTiers: the first tier with a candidate counts, even if it may
\* not be chosen.
FirstTierShown(raw, S, tiers, strategy) ==
    LET fruitful == {i \in DOMAIN tiers : OfBrands(S, tiers[i]) # {}}
        first == CHOOSE i \in fruitful : \A j \in fruitful : i <= j
    IN IF fruitful = {} THEN Nothing("UNRESOLVED", "NO_MATCH")
       ELSE Select(OfBrands(S, tiers[first]), strategy)

\* PRIORITY_FALLBACK: the first tier that has anything to choose from.
ByTiers(raw, S, tiers, strategy) ==
    LET fruitful == {i \in DOMAIN tiers :
                        \E c \in OfBrands(S, tiers[i]) : Selectable(c)}
        first == CHOOSE i \in fruitful : \A j \in fruitful : i <= j
        named == UNION {tiers[i] : i \in DOMAIN tiers}
        found == OfBrands(raw, named)
        left == OfBrands(S, named)
    IN IF fruitful # {} THEN Automatic(OfBrands(S, tiers[first]), strategy)
       ELSE IF found = {} THEN Nothing("UNRESOLVED", "NO_MATCH")
       ELSE IF AllBlocked(found)
               THEN Unchosen(IF left # {} THEN left ELSE found,
                             "BLOCKED", "COMPLIANCE_BLOCKED")
       ELSE IF left = {} THEN Nothing("REVIEW", "FILTER_NO_MATCH")
       ELSE IF AllUnpriced(left) THEN Unchosen(left, "REVIEW", "NO_VALID_PRICE")
       ELSE Unchosen(left, "REVIEW", "MANUAL_SELECTION_REQUIRED")

\* ALLOWLIST_ONLY.
ByAllowlist(raw, S, allowed, strategy) ==
    IF OfBrands(S, allowed) # {} THEN Select(OfBrands(S, allowed), strategy)
    ELSE IF OfBrands(raw, allowed) # {} THEN Rejected(OfBrands(raw, allowed), {})
    ELSE IF raw # {} THEN Nothing("REVIEW", "FILTER_NO_MATCH")
    ELSE Nothing("UNRESOLVED", "NO_MATCH")

\* ALL_AVAILABLE: the best of every brand.
OfAllBrands(raw, S, strategy) ==
    LET pool(brand) ==
            LET own == OfBrands(S, {brand})
                good == {c \in own : Selectable(c)}
            IN IF good # {} THEN good ELSE own
        best == {c \in S : c \in Pick(pool(c.brand), "LOWEST_PER_BRAND")}
    IN IF S = {} THEN IF raw # {} THEN Rejected(raw, {})
                      ELSE Nothing("UNRESOLVED", "NO_MATCH")
       ELSE IF Cardinality(best) > Limit
               THEN Nothing("REVIEW", "CANDIDATE_LIMIT_EXCEEDED")
       ELSE IF \E c \in best : Selectable(c) THEN Automatic(best, strategy)
       ELSE Rejected(best, best)

\* What was left after the filters is chosen from: raw are all hits.
Chosen(raw, S, q, row, strategy) ==
    LET policy == EffectivePolicy(q, row)
    IN IF policy.mode = "NONE" \/ ExactCode(row)
          THEN IF raw # {} /\ S = {} THEN Nothing("REVIEW", "FILTER_NO_MATCH")
               ELSE Select(S, strategy)
       ELSE IF policy.mode = "PRIORITY_FALLBACK"
               THEN ByTiers(raw, S, policy.tiers, strategy)
       ELSE IF policy.mode = "ALLOWLIST_ONLY"
               THEN ByAllowlist(raw, S, policy.tiers[1], strategy)
       ELSE OfAllBrands(raw, S, strategy)

\* Candidates of several substances are not chosen from automatically.
StrategyFor(S, q, row, db) ==
    IF ExactCode(row) /\ row.cas = Blank
       /\ Cardinality({db.products[c.id].cas : c \in S} \ {Blank}) > 1
       THEN "MANUAL" ELSE q.strategy

Answer(q, row, db) ==
    LET raw == Hits(q, row, db)
        S == Marked(Filtered(raw, q, db), db)
        byEquivalentCode == row.equivalent /\ ByCode(row)
    IN IF ~Identified(row) THEN Nothing("UNRESOLVED", "MISSING_IDENTIFIER")
       ELSE IF NeedsBrand(q, row) THEN Nothing("REVIEW", "BRAND_REQUIRED")
       ELSE IF Cardinality(raw) > Limit
               THEN Nothing("REVIEW", "CANDIDATE_LIMIT_EXCEEDED")
       ELSE IF byEquivalentCode /\ CasesOf(row.code, db) = {}
               THEN Nothing("UNRESOLVED", "CODE_HAS_NO_CAS")
       ELSE IF byEquivalentCode /\ ValidCases(row.code, db) = {}
               THEN Nothing("UNRESOLVED", "CODE_HAS_PLACEHOLDER_CAS")
       ELSE IF byEquivalentCode /\ Cardinality(ValidCases(row.code, db)) > 1
               THEN Nothing("UNRESOLVED", "CODE_MULTIPLE_CAS")
       ELSE IF ByBoth(row) /\ row.equivalent /\ ~Confirmed(row, db)
               THEN Nothing("UNRESOLVED", "CODE_CAS_CONFLICT")
       ELSE IF ByBoth(row) /\ ~row.equivalent /\ S = {}
               THEN Nothing("UNRESOLVED", "CODE_CAS_CONFLICT")
       ELSE Chosen(raw, S, q, row, StrategyFor(S, q, row, db))

\* _quote_preflight_rows counts the products, the price and the rules apart.
Preflight(row, db) ==
    LET found == {i \in Visible(db) :
                     /\ row.code # Blank => db.products[i].code = row.code
                     /\ row.cas # Blank => db.products[i].cas = row.cas}
    IN IF ~Identified(row) THEN "MISSING_IDENTIFIER"
       ELSE IF found # {} THEN "FOUND"
       ELSE IF ByBoth(row) THEN "CODE_CAS_CONFLICT"
       ELSE "NO_MATCH"

-----------------------------------------------------------------------------
(* What an answer should be. *)

\* What a policy lets be quoted for a row, of all that may be quoted at all.
Contenders(q, row, db) ==
    LET policy == EffectivePolicy(q, row)
        left == Marked(Filtered(Hits(q, row, db), q, db), db)
    IN {c \in left :
           /\ Identified(row) /\ ~NeedsBrand(q, row) /\ Selectable(c)
           /\ \/ ExactCode(row)
              \/ policy.mode \in {"NONE", "ALL_AVAILABLE"}
              \/ \E i \in DOMAIN policy.tiers : c.brand \in policy.tiers[i]}

\* c is in an earlier tier than d.
Earlier(c, d, policy) ==
    \E i, j \in DOMAIN policy.tiers :
        i < j /\ c.brand \in policy.tiers[i] /\ d.brand \in policy.tiers[j]

\* The candidates for a code stand for several substances.
Ambiguous(q, row, db) ==
    ExactCode(row) /\ row.cas = Blank /\
    \E c, d \in Filtered(Hits(q, row, db), q, db) :
        /\ Blank \notin {db.products[c.id].cas, db.products[d.id].cas}
        /\ db.products[c.id].cas # db.products[d.id].cas

\* Of the contenders the best is chosen, or the best of each brand, of the
\* first tier that has any; or none, for a reason that is given.
FollowsPolicy(q, row, ans, db) ==
    LET field == Contenders(q, row, db)
        policy == EffectivePolicy(q, row)
        tiered == ~ExactCode(row) /\ policy.mode = "PRIORITY_FALLBACK"
        beaten(c, d) == Rivals(c, d, q.strategy) /\ d.price < c.price
    IN /\ ans.chosen \subseteq field
       /\ \A c \in ans.chosen, d \in field :
             /\ ~(tiered /\ Earlier(d, c, policy))
             /\ (tiered /\ Earlier(c, d, policy)) \/ ~beaten(c, d)
       /\ \A c, d \in ans.chosen : Rivals(c, d, q.strategy) => c = d
       /\ ans.chosen # {} =>
             \A d \in field : \E c \in ans.chosen :
                 Rivals(c, d, q.strategy) \/ (tiered /\ Earlier(c, d, policy))
       /\ (ans.chosen # {}) <=> (ans.lifecycle = "SELECTED")
       /\ ans.lifecycle = LifecycleOf(ans.reason)
       /\ Preflight(row, db) # "FOUND" => ans.chosen = {}
       /\ ans.chosen = {} =>
             \/ field = {} \/ q.strategy = "MANUAL" \/ Ambiguous(q, row, db)
             \/ Cardinality(Hits(q, row, db)) > Limit
=============================================================================
