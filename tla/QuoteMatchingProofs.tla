-------------------------- MODULE QuoteMatchingProofs --------------------------
(***************************************************************************)
(* Facts about the answer to one request, for any catalogue, request and   *)
(* policy of brands: what is shown and chosen are candidates as the        *)
(* database has them.                                                      *)
(***************************************************************************)
EXTENDS QuoteMatching, TLAPS, FiniteSetTheorems, WellFoundedInduction

\* What a statement can see of the database.
Views == [products : [Ids -> Products \cup {Gone}], brands : SUBSET Brands,
          priority : SUBSET Brands, banned : SUBSET Cases,
          currency : [Brands -> Currencies \cup {Blank}], rate : [Currencies -> Nat]]

\* The candidates that say of a visible product what the database says.
Fair(db) ==
    {c \in Candidates : /\ c.id \in Visible(db)
                        /\ c.brand = db.products[c.id].brand
                        /\ c.price = UnitPrice(db.products[c.id], db)
                        /\ c.blocked = Blocked(db.products[c.id], db)}

\* The reasons an answer may have: only the page says that a row is exported.
Given == Reasons \ {"EXPORTED_SUCCESSFULLY"}

\* The answers that show candidates of F and choose among them what may be.
AnswersOf(F) ==
    {a \in [shown : SUBSET F, chosen : SUBSET F, lifecycle : Lifecycles, reason : Given] :
        a.chosen \subseteq a.shown /\ \A c \in a.chosen : Selectable(c)}

-----------------------------------------------------------------------------
(* Prices and candidates. *)

\* Rounding yields a natural number.
LEMMA RoundedIsNat == ASSUME NEW n \in Nat PROVE Rounded(n) \in Nat
<1> DEFINE q == n \div Granularity
           r == n % Granularity
<1>1. q \in Nat /\ r \in Nat /\ Granularity \in Nat
  BY QuoteConstants
<1>2. q * Granularity \in Nat /\ (q + 1) * Granularity \in Nat
  <2> HIDE DEF q, r
  <2> QED BY <1>1
<1> QED BY <1>1, <1>2 DEF Rounded

\* The product of natural numbers is one.
LEMMA TimesIsNat == ASSUME NEW m \in Nat, NEW n \in Nat PROVE m * n \in Nat
OBVIOUS

\* A product has a price, 0 if it has none.
LEMMA PriceIsNat ==
    ASSUME NEW db \in Views, NEW product \in Products
    PROVE  UnitPrice(product, db) \in Nat
<1>1. product.base \in Nat /\ product.brand \in Brands
  BY DEF Products
<1>2. db.currency[product.brand] \in Currencies \cup {Blank}
  BY <1>1 DEF Views
<1>3. Rate(product.brand, db) \in Nat
  BY <1>2 DEF Rate, Views
<1>4. product.base * Rate(product.brand, db) \in Nat
  BY <1>1, <1>3, TimesIsNat
<1> QED BY <1>4, RoundedIsNat DEF UnitPrice

\* The products that are visible are there.
LEMMA VisibleIsThere ==
    ASSUME NEW db \in Views, NEW i \in Visible(db)
    PROVE  i \in Ids /\ db.products[i] \in Products /\ db.products[i].brand \in Brands
<1>1. i \in Ids /\ db.products[i] # Gone
  BY DEF Visible
<1>2. db.products[i] \in Products
  BY <1>1 DEF Views
<1> QED BY <1>1, <1>2 DEF Products

\* A product is blocked or not.
LEMMA BlockedIsBoolean ==
    ASSUME NEW product, NEW db PROVE Blocked(product, db) \in BOOLEAN
<1>1. (product.manual # "ALLOW") \in BOOLEAN
  OBVIOUS
<1>2. (product.cas \in db.banned) \in BOOLEAN
  OBVIOUS
<1>3. CASE product.brand \in db.priority /\ product.manual # Blank
  BY <1>1, <1>3, Zenon DEF Blocked
<1>4. CASE ~(product.brand \in db.priority /\ product.manual # Blank)
  BY <1>2, <1>4, Zenon DEF Blocked
<1> QED BY <1>3, <1>4

\* The candidate made of a visible product says what the database says.
LEMMA CandidateIsFair ==
    ASSUME NEW db \in Views, NEW i \in Visible(db)
    PROVE  Candidate(i, db) \in Fair(db)
<1>1. i \in Ids /\ db.products[i] \in Products /\ db.products[i].brand \in Brands
  BY VisibleIsThere
<1>2. UnitPrice(db.products[i], db) \in Nat
  BY <1>1, PriceIsNat
<1>3. Blocked(db.products[i], db) \in BOOLEAN
  BY BlockedIsBoolean
<1>4. Candidate(i, db) \in Candidates
  BY <1>1, <1>2, <1>3 DEF Candidate, Candidates
<1> QED BY <1>4 DEF Candidate, Fair

\* The database finds candidates only.
LEMMA HitsAreFair ==
    ASSUME NEW q, NEW row, NEW db \in Views PROVE Hits(q, row, db) \subseteq Fair(db)
<1>1. ASSUME NEW c \in Hits(q, row, db) PROVE c \in Fair(db)
  <2>1. PICK i \in Visible(db) : c = Candidate(i, db)
    BY <1>1 DEF Hits
  <2> QED BY <2>1, CandidateIsFair
<1> QED BY <1>1

\* Filters only remove.
LEMMA FilteredAreHits ==
    ASSUME NEW S, NEW q, NEW db PROVE Filtered(S, q, db) \subseteq S
<1> DEFINE kept == {c \in S : q.unit \in {"ANY", Unit(c, db)}}
           comparable == {c \in kept : Unit(c, db) # Blank}
           peers(c) == {d \in comparable : d.brand = c.brand /\ Unit(d, db) = Unit(c, db)}
<1>1. CASE q.mode = "MIN"
  BY <1>1 DEF Filtered
<1>2. CASE q.mode = "MAX"
  BY <1>2 DEF Filtered
<1>3. CASE q.mode \notin {"MIN", "MAX"}
  BY <1>3 DEF Filtered
<1> QED BY <1>1, <1>2, <1>3

\* Marking keeps everything else that is said of a candidate.
LEMMA MarkedAreFair ==
    ASSUME NEW db, NEW S, S \subseteq Fair(db) PROVE Marked(S, db) \subseteq Fair(db)
<1> DEFINE twin(c) == \E d \in S \ {c} : /\ db.products[c.id].code # Blank
                                         /\ SameArticle(c, d, db)
<1>1. ASSUME NEW c \in S PROVE [c EXCEPT !.twin = twin(c)] \in Fair(db)
  <2>1. c \in Candidates /\ twin(c) \in BOOLEAN
    BY <1>1 DEF Fair
  <2> HIDE DEF twin
  <2>2. [c EXCEPT !.twin = twin(c)] \in Candidates
    BY <2>1 DEF Candidates
  <2>3. /\ [c EXCEPT !.twin = twin(c)].id = c.id
        /\ [c EXCEPT !.twin = twin(c)].brand = c.brand
        /\ [c EXCEPT !.twin = twin(c)].price = c.price
        /\ [c EXCEPT !.twin = twin(c)].blocked = c.blocked
    BY <2>1 DEF Candidates
  <2>4. c \in Fair(db)
    BY <1>1
  <2> QED BY <2>2, <2>3, <2>4 DEF Fair
<1> QED BY <1>1 DEF Marked

-----------------------------------------------------------------------------
(* What is answered is made of the candidates given. *)

LEMMA SaidOf ==
    ASSUME NEW F, NEW shown \in SUBSET F, NEW chosen \in SUBSET shown,
           \A c \in chosen : Selectable(c),
           NEW lifecycle \in Lifecycles, NEW reason \in Given
    PROVE  Said(shown, chosen, lifecycle, reason) \in AnswersOf(F)
BY DEF Said, AnswersOf

LEMMA UnchosenOf ==
    ASSUME NEW F, NEW shown \in SUBSET F, NEW lifecycle \in Lifecycles,
           NEW reason \in Given
    PROVE  /\ Unchosen(shown, lifecycle, reason) \in AnswersOf(F)
           /\ Nothing(lifecycle, reason) \in AnswersOf(F)
BY SaidOf DEF Unchosen, Nothing

\* The lifecycles and the reasons are those the code declares.
LEMMA ReasonsKnown ==
    /\ {"UNRESOLVED", "REVIEW", "BLOCKED", "SELECTED"} \subseteq Lifecycles
    /\ {"MISSING_IDENTIFIER", "NO_MATCH", "CODE_CAS_CONFLICT", "CODE_HAS_NO_CAS",
        "CODE_MULTIPLE_CAS", "CODE_HAS_PLACEHOLDER_CAS", "BRAND_REQUIRED",
        "NO_VALID_PRICE", "MANUAL_SELECTION_REQUIRED", "FILTER_NO_MATCH",
        "DUPLICATE_CODE_BRAND_SIZE", "CANDIDATE_LIMIT_EXCEEDED",
        "COMPLIANCE_BLOCKED", "AUTO_SELECTED"} \subseteq Given
BY DEF Lifecycles, Given, Reasons, Unresolved, ToReview

LEMMA AutomaticOf ==
    ASSUME NEW F, NEW S \in SUBSET F, NEW strategy
    PROVE  Automatic(S, strategy) \in AnswersOf(F)
<1> DEFINE best == Pick({c \in S : Selectable(c)}, strategy)
<1>1. best \in SUBSET S /\ \A c \in best : Selectable(c)
  BY DEF Pick
<1> HIDE DEF best
<1>2. Said(S, best, "SELECTED", "AUTO_SELECTED") \in AnswersOf(F)
  BY <1>1, SaidOf, ReasonsKnown
<1> QED BY <1>2, UnchosenOf, ReasonsKnown DEF Automatic, best

LEMMA SelectOf ==
    ASSUME NEW F, NEW S \in SUBSET F, NEW strategy
    PROVE  Select(S, strategy) \in AnswersOf(F)
BY AutomaticOf, UnchosenOf, ReasonsKnown DEF Select

LEMMA RejectedOf ==
    ASSUME NEW F, NEW S \in SUBSET F, NEW rest \in SUBSET F
    PROVE  Rejected(S, rest) \in AnswersOf(F)
BY UnchosenOf, ReasonsKnown DEF Rejected

LEMMA OfBrandsIn ==
    ASSUME NEW F, NEW S \in SUBSET F, NEW brands PROVE OfBrands(S, brands) \in SUBSET F
BY DEF OfBrands

LEMMA ByTiersOf ==
    ASSUME NEW F, NEW raw \in SUBSET F, NEW S \in SUBSET F, NEW tiers, NEW strategy
    PROVE  ByTiers(raw, S, tiers, strategy) \in AnswersOf(F)
<1> DEFINE fruitful == {i \in DOMAIN tiers :
                           \E c \in OfBrands(S, tiers[i]) : Selectable(c)}
           first == CHOOSE i \in fruitful : \A j \in fruitful : i <= j
           named == UNION {tiers[i] : i \in DOMAIN tiers}
           found == OfBrands(raw, named)
           left == OfBrands(S, named)
<1>1. Automatic(OfBrands(S, tiers[first]), strategy) \in AnswersOf(F)
  BY OfBrandsIn, AutomaticOf
<1>2. found \in SUBSET F /\ left \in SUBSET F
  BY OfBrandsIn
<1> HIDE DEF found, left
<1>3. /\ Nothing("UNRESOLVED", "NO_MATCH") \in AnswersOf(F)
      /\ Nothing("REVIEW", "FILTER_NO_MATCH") \in AnswersOf(F)
      /\ Unchosen(left, "BLOCKED", "COMPLIANCE_BLOCKED") \in AnswersOf(F)
      /\ Unchosen(found, "BLOCKED", "COMPLIANCE_BLOCKED") \in AnswersOf(F)
      /\ Unchosen(left, "REVIEW", "NO_VALID_PRICE") \in AnswersOf(F)
      /\ Unchosen(left, "REVIEW", "MANUAL_SELECTION_REQUIRED") \in AnswersOf(F)
  BY <1>2, UnchosenOf, ReasonsKnown
<1> HIDE DEF fruitful, first, named
<1> QED BY <1>1, <1>3 DEF ByTiers, fruitful, first, named, found, left

LEMMA ByAllowlistOf ==
    ASSUME NEW F, NEW raw \in SUBSET F, NEW S \in SUBSET F, NEW allowed, NEW strategy
    PROVE  ByAllowlist(raw, S, allowed, strategy) \in AnswersOf(F)
<1>1. OfBrands(S, allowed) \in SUBSET F /\ OfBrands(raw, allowed) \in SUBSET F
  BY OfBrandsIn
<1> QED BY <1>1, SelectOf, RejectedOf, UnchosenOf, ReasonsKnown DEF ByAllowlist

LEMMA OfAllBrandsOf ==
    ASSUME NEW F, NEW raw \in SUBSET F, NEW S \in SUBSET F, NEW strategy
    PROVE  OfAllBrands(raw, S, strategy) \in AnswersOf(F)
<1> DEFINE pool(brand) ==
               LET own == OfBrands(S, {brand})
                   good == {c \in own : Selectable(c)}
               IN IF good # {} THEN good ELSE own
           best == {c \in S : c \in Pick(pool(c.brand), "LOWEST_PER_BRAND")}
<1>1. best \in SUBSET F /\ {} \in SUBSET F
  OBVIOUS
<1> HIDE DEF best
<1>2. /\ Rejected(raw, {}) \in AnswersOf(F) /\ Rejected(best, best) \in AnswersOf(F)
      /\ Automatic(best, strategy) \in AnswersOf(F)
      /\ Nothing("UNRESOLVED", "NO_MATCH") \in AnswersOf(F)
      /\ Nothing("REVIEW", "CANDIDATE_LIMIT_EXCEEDED") \in AnswersOf(F)
  BY <1>1, RejectedOf, AutomaticOf, UnchosenOf, ReasonsKnown
<1> QED BY <1>2 DEF OfAllBrands, best

LEMMA ChosenOf ==
    ASSUME NEW F, NEW raw \in SUBSET F, NEW S \in SUBSET F, NEW q, NEW row, NEW strategy
    PROVE  Chosen(raw, S, q, row, strategy) \in AnswersOf(F)
<1>1. Nothing("REVIEW", "FILTER_NO_MATCH") \in AnswersOf(F)
  BY UnchosenOf, ReasonsKnown
<1> QED BY <1>1, SelectOf, ByTiersOf, ByAllowlistOf, OfAllBrandsOf DEF Chosen

\* Whatever is asked, an answer is made of candidates that are fair.
LEMMA AnswersFromFair ==
    ASSUME NEW q, NEW row, NEW db \in Views
    PROVE  Answer(q, row, db) \in AnswersOf(Fair(db))
<1> DEFINE F == Fair(db)
           raw == Hits(q, row, db)
           S == Marked(Filtered(raw, q, db), db)
<1>1. raw \in SUBSET F
  BY HitsAreFair
<1>2. Filtered(raw, q, db) \subseteq F
  BY <1>1, FilteredAreHits
<1>3. S \in SUBSET F
  BY <1>2, MarkedAreFair
<1> HIDE DEF F, raw, S
<1>4. \A strategy : Chosen(raw, S, q, row, strategy) \in AnswersOf(F)
  BY <1>1, <1>3, ChosenOf
<1>5. /\ \A r \in {"MISSING_IDENTIFIER", "CODE_HAS_NO_CAS", "CODE_MULTIPLE_CAS",
                   "CODE_HAS_PLACEHOLDER_CAS", "CODE_CAS_CONFLICT"} :
            Nothing("UNRESOLVED", r) \in AnswersOf(F)
      /\ \A r \in {"BRAND_REQUIRED", "CANDIDATE_LIMIT_EXCEEDED"} :
            Nothing("REVIEW", r) \in AnswersOf(F)
  BY UnchosenOf, ReasonsKnown
<1>6. Answer(q, row, db) \in AnswersOf(F)
  BY <1>4, <1>5 DEF Answer, raw, S
<1> QED BY <1>6 DEF F

\* Whatever is asked, of whatever catalogue: an answer chooses among what it
\* shows, and says of each product what the database says. What it chooses is
\* visible to the team, not blocked, has the price it says, which is not 0, and
\* is no twin.
THEOREM AnswersAreFair ==
    ASSUME NEW q, NEW row, NEW db \in Views
    PROVE  LET ans == Answer(q, row, db) IN
           /\ ans.chosen \subseteq ans.shown
           /\ \A c \in ans.shown :
                 /\ c.id \in Visible(db)
                 /\ c.brand = db.products[c.id].brand
                 /\ c.price = UnitPrice(db.products[c.id], db)
                 /\ c.blocked = Blocked(db.products[c.id], db)
           /\ \A c \in ans.chosen :
                 /\ c.id \in Visible(db)
                 /\ ~Blocked(db.products[c.id], db)
                 /\ c.price = UnitPrice(db.products[c.id], db)
                 /\ c.price > 0
                 /\ ~c.twin
<1> DEFINE ans == Answer(q, row, db)
<1>1. ans \in AnswersOf(Fair(db))
  BY AnswersFromFair
<1> HIDE DEF ans
<1>2. /\ ans.shown \subseteq Fair(db) /\ ans.chosen \subseteq ans.shown
      /\ \A c \in ans.chosen : Selectable(c)
  BY <1>1 DEF AnswersOf
<1>3. /\ ans.chosen \subseteq ans.shown
      /\ \A c \in ans.shown :
            /\ c.id \in Visible(db)
            /\ c.brand = db.products[c.id].brand
            /\ c.price = UnitPrice(db.products[c.id], db)
            /\ c.blocked = Blocked(db.products[c.id], db)
  BY <1>2 DEF Fair
<1>4. \A c \in ans.chosen : ~c.blocked /\ c.price > 0 /\ ~c.twin
  BY <1>2 DEF Selectable, Eligible
<1>5. \A c \in ans.chosen :
         /\ c.id \in Visible(db)
         /\ ~Blocked(db.products[c.id], db)
         /\ c.price = UnitPrice(db.products[c.id], db)
         /\ c.price > 0
         /\ ~c.twin
  BY <1>3, <1>4
<1> QED BY <1>3, <1>5 DEF ans

-----------------------------------------------------------------------------
(* The best candidate. *)

\* A set of natural numbers that is not empty has a least one.
LEMMA LeastNumber ==
    ASSUME NEW T \in SUBSET Nat, T # {}
    PROVE  \E x \in T : \A y \in T : x <= y
<1> DEFINE R == OpToRel(<, Nat)
<1>1. IsWellFoundedOn(R, Nat)
  BY NatLessThanWellFounded
<1>2. PICK x \in T : \A y \in T : ~(<<y, x>> \in R)
  <2> HIDE DEF R
  <2> QED BY <1>1, WFMin
<1>3. ASSUME NEW y \in T PROVE x <= y
  <2>1. <<y, x>> \notin R
    BY <1>2
  <2>2. ~(y < x)
    BY <2>1 DEF OpToRel
  <2> QED BY <2>2
<1> QED BY <1>3

\* Of some candidates there is one that no other comes before.
LEMMA BestExists ==
    ASSUME NEW S \in SUBSET Candidates, S # {}
    PROVE  \E c \in S : \A d \in S : ~Before(d, c)
<1>1. \A c \in S : c.price \in Nat /\ c.brand \in Nat /\ c.id \in Nat
  BY QuoteConstants DEF Candidates
<1>2. PICK c1 \in S : \A d \in S : c1.price <= d.price
  <2> DEFINE T == {c.price : c \in S}
  <2>1. T \in SUBSET Nat /\ T # {}
    BY <1>1
  <2>2. \E x \in T : \A y \in T : x <= y
    <3> HIDE DEF T
    <3> QED BY <2>1, LeastNumber
  <2> QED BY <2>2
<1> DEFINE S1 == {c \in S : c.price = c1.price}
<1>3. PICK c2 \in S1 : \A d \in S1 : c2.brand <= d.brand
  <2> DEFINE T == {c.brand : c \in S1}
  <2>1. T \in SUBSET Nat /\ T # {}
    BY <1>1
  <2>2. \E x \in T : \A y \in T : x <= y
    <3> HIDE DEF T
    <3> QED BY <2>1, LeastNumber
  <2> QED BY <2>2
<1> DEFINE S2 == {c \in S1 : c.brand = c2.brand}
<1>4. PICK c3 \in S2 : \A d \in S2 : c3.id <= d.id
  <2> DEFINE T == {c.id : c \in S2}
  <2>1. T \in SUBSET Nat /\ T # {}
    BY <1>1
  <2>2. \E x \in T : \A y \in T : x <= y
    <3> HIDE DEF T
    <3> QED BY <2>1, LeastNumber
  <2> QED BY <2>2
<1>5. c3 \in S /\ c3.price = c1.price /\ c3.brand = c2.brand
  OBVIOUS
<1>6. ASSUME NEW d \in S PROVE ~Before(d, c3)
  <2>1. c1.price <= d.price
    BY <1>2
  <2>2. d.price = c3.price => d \in S1 /\ c2.brand <= d.brand
    BY <1>3, <1>5
  <2>3. d.price = c3.price /\ d.brand = c3.brand => c3.id <= d.id
    BY <1>4, <1>5, <2>2
  <2> QED BY <1>1, <1>5, <2>1, <2>2, <2>3 DEF Before
<1> QED BY <1>5, <1>6

\* Something is picked, of every brand if it is picked by brand.
LEMMA PickFinds ==
    ASSUME NEW S \in SUBSET Candidates, NEW d \in S, NEW strategy
    PROVE  \E c \in Pick(S, strategy) :
              strategy # "LOWEST_OVERALL" => c.brand = d.brand
<1>1. CASE strategy = "LOWEST_OVERALL"
  BY <1>1, BestExists DEF Pick, Rivals
<1>2. CASE strategy # "LOWEST_OVERALL"
  <2> DEFINE T == {c \in S : c.brand = d.brand}
  <2>1. PICK c \in T : \A e \in T : ~Before(e, c)
    <3>1. T \in SUBSET Candidates /\ T # {}
      OBVIOUS
    <3> HIDE DEF T
    <3> QED BY <3>1, BestExists
  <2> QED BY <1>2, <2>1 DEF Pick, Rivals
<1> QED BY <1>1, <1>2

\* What comes before something is no dearer.
LEMMA CheaperIsBefore ==
    ASSUME NEW c, NEW d, d.price < c.price PROVE Before(d, c)
BY DEF Before

-----------------------------------------------------------------------------
(* An answer obeys a strategy on a field of candidates that may be quoted. *)

Beaten(c, d, strategy) == Rivals(c, d, strategy) /\ d.price < c.price

Obeys(ans, F, strategy) ==
    /\ ans.chosen \subseteq F
    /\ \A c \in ans.chosen, d \in F : ~Beaten(c, d, strategy)
    /\ \A c, d \in ans.chosen : Rivals(c, d, strategy) => c = d
    /\ ans.chosen # {} => \A d \in F : \E c \in ans.chosen : Rivals(c, d, strategy)
    /\ (ans.chosen # {}) <=> (ans.lifecycle = "SELECTED")
    /\ ans.lifecycle = LifecycleOf(ans.reason)
    /\ ans.chosen = {} => F = {} \/ strategy = "MANUAL"
    /\ strategy = "MANUAL" => ans.chosen = {}

SelectableOf(S) == {c \in S : Selectable(c)}

\* The reasons of answers without a choice agree with their lifecycles.
LEMMA UnchosenObeys ==
    ASSUME NEW shown, NEW F, NEW strategy, F = {} \/ strategy = "MANUAL"
    PROVE  /\ \A r \in Unresolved : /\ Obeys(Nothing("UNRESOLVED", r), F, strategy)
                                    /\ Obeys(Unchosen(shown, "UNRESOLVED", r), F, strategy)
           /\ \A r \in ToReview : /\ Obeys(Nothing("REVIEW", r), F, strategy)
                                  /\ Obeys(Unchosen(shown, "REVIEW", r), F, strategy)
           /\ Obeys(Unchosen(shown, "BLOCKED", "COMPLIANCE_BLOCKED"), F, strategy)
<1>1. ASSUME NEW r \in Unresolved PROVE LifecycleOf(r) = "UNRESOLVED"
  BY DEF LifecycleOf, Unresolved, ToReview
<1>2. ASSUME NEW r \in ToReview PROVE LifecycleOf(r) = "REVIEW"
  BY DEF LifecycleOf, Unresolved, ToReview
<1>3. LifecycleOf("COMPLIANCE_BLOCKED") = "BLOCKED"
  BY DEF LifecycleOf, Unresolved, ToReview
<1> QED BY <1>1, <1>2, <1>3 DEF Obeys, Unchosen, Nothing, Said

LEMMA AutomaticObeys ==
    ASSUME NEW S \in SUBSET Candidates, NEW strategy, SelectableOf(S) # {}
    PROVE  Obeys(Automatic(S, strategy), SelectableOf(S), strategy)
<1>1. CASE strategy = "MANUAL"
  BY <1>1, UnchosenObeys DEF Automatic, ToReview
<1>2. CASE strategy # "MANUAL"
  <2> DEFINE F == SelectableOf(S)
             chosen == Pick(F, strategy)
  <2>1. Automatic(S, strategy) = Said(S, chosen, "SELECTED", "AUTO_SELECTED")
    BY <1>2 DEF Automatic, SelectableOf
  <2>2. F \in SUBSET Candidates
    BY DEF SelectableOf
  <2>3. chosen # {}
    BY <2>2, PickFinds
  <2>4. ASSUME NEW c \in chosen, NEW d \in F PROVE ~Beaten(c, d, strategy)
    BY CheaperIsBefore DEF Pick, Beaten, Rivals
  <2>5. chosen \subseteq F
    BY DEF Pick, Rivals
  <2>8. ASSUME NEW c \in chosen, NEW d \in chosen, Rivals(c, d, strategy) PROVE c = d
    <3>1. ~Before(c, d) /\ ~Before(d, c) /\ c \in F /\ d \in F
      BY <2>8 DEF Pick, Rivals
    <3>2. /\ c \in Candidates /\ c.brand \in Nat /\ c.id \in Nat /\ c.blocked = FALSE
          /\ d \in Candidates /\ d.brand \in Nat /\ d.id \in Nat /\ d.blocked = FALSE
          /\ c.twin = FALSE /\ d.twin = FALSE
      BY <2>2, <3>1, QuoteConstants DEF Candidates, SelectableOf, Selectable, Eligible
    <3>3. c.price = d.price /\ c.brand = d.brand /\ c.id = d.id
      BY <3>1, <3>2 DEF Before, Candidates
    <3> QED BY <3>2, <3>3 DEF Candidates
  <2>9. ASSUME NEW d \in F PROVE \E c \in chosen : Rivals(c, d, strategy)
    <3> HIDE DEF F
    <3> QED BY <2>2, PickFinds DEF Rivals
  <2>6. LifecycleOf("AUTO_SELECTED") = "SELECTED"
    BY DEF LifecycleOf, Unresolved, ToReview
  <2> HIDE DEF F, chosen
  <2>7. Obeys(Said(S, chosen, "SELECTED", "AUTO_SELECTED"), F, strategy)
    BY <1>2, <2>3, <2>4, <2>5, <2>6, <2>8, <2>9 DEF Obeys, Said
  <2> QED BY <2>1, <2>7 DEF F
<1> QED BY <1>1, <1>2

LEMMA SelectObeys ==
    ASSUME NEW S \in SUBSET Candidates, NEW strategy
    PROVE  Obeys(Select(S, strategy), SelectableOf(S), strategy)
<1>1. CASE \E c \in S : Selectable(c)
  <2>1. SelectableOf(S) # {}
    BY <1>1 DEF SelectableOf
  <2>2. S # {} /\ ~AllBlocked(S)
    BY <1>1 DEF AllBlocked, Selectable, Eligible
  <2> QED BY <1>1, <2>1, <2>2, AutomaticObeys DEF Select
<1>2. CASE ~\E c \in S : Selectable(c)
  <2>1. SelectableOf(S) = {}
    BY <1>2 DEF SelectableOf
  <2>2. "NO_MATCH" \in Unresolved
        /\ {"DUPLICATE_CODE_BRAND_SIZE", "NO_VALID_PRICE"} \subseteq ToReview
    BY DEF Unresolved, ToReview
  <2> QED BY <1>2, <2>1, <2>2, UnchosenObeys DEF Select
<1> QED BY <1>1, <1>2

LEMMA RejectedObeys ==
    ASSUME NEW S, NEW rest, NEW F, NEW strategy, F = {}
    PROVE  Obeys(Rejected(S, rest), F, strategy)
<1>1. {"NO_VALID_PRICE", "FILTER_NO_MATCH"} \subseteq ToReview
  BY DEF ToReview
<1> QED BY <1>1, UnchosenObeys DEF Rejected

LEMMA ByAllowlistObeys ==
    ASSUME NEW raw, NEW S \in SUBSET Candidates, NEW allowed, NEW strategy
    PROVE  Obeys(ByAllowlist(raw, S, allowed, strategy),
                 SelectableOf(OfBrands(S, allowed)), strategy)
<1>1. OfBrands(S, allowed) \in SUBSET Candidates
  BY DEF OfBrands
<1>2. OfBrands(S, allowed) = {} => SelectableOf(OfBrands(S, allowed)) = {}
  BY DEF SelectableOf
<1>3. "FILTER_NO_MATCH" \in ToReview /\ "NO_MATCH" \in Unresolved
  BY DEF ToReview, Unresolved
<1> QED BY <1>1, <1>2, <1>3, SelectObeys, RejectedObeys, UnchosenObeys DEF ByAllowlist

\* The tiers of a policy that counts tiers come first, then the strategy.
TierObeys(ans, F, strategy, policy) ==
    /\ ans.chosen \subseteq F
    /\ \A c \in ans.chosen, d \in F :
          /\ ~Earlier(d, c, policy)
          /\ Earlier(c, d, policy) \/ ~Beaten(c, d, strategy)
    /\ \A c, d \in ans.chosen : Rivals(c, d, strategy) => c = d
    /\ ans.chosen # {} =>
          \A d \in F : \E c \in ans.chosen :
              Rivals(c, d, strategy) \/ Earlier(c, d, policy)
    /\ (ans.chosen # {}) <=> (ans.lifecycle = "SELECTED")
    /\ ans.lifecycle = LifecycleOf(ans.reason)
    /\ ans.chosen = {} => F = {} \/ strategy = "MANUAL"
    /\ strategy = "MANUAL" => ans.chosen = {}

InTiers(c, policy) == \E i \in DOMAIN policy.tiers : c.brand \in policy.tiers[i]

LEMMA ByTiersObeys ==
    ASSUME NEW raw, NEW S \in SUBSET Candidates, NEW policy \in Policies,
           policy.mode = "PRIORITY_FALLBACK", ValidPolicy(policy), NEW strategy
    PROVE  TierObeys(ByTiers(raw, S, policy.tiers, strategy),
                     {c \in SelectableOf(S) : InTiers(c, policy)}, strategy, policy)
<1> DEFINE tiers == policy.tiers
           F == {c \in SelectableOf(S) : InTiers(c, policy)}
           fruitful == {i \in DOMAIN tiers :
                           \E c \in OfBrands(S, tiers[i]) : Selectable(c)}
           first == CHOOSE i \in fruitful : \A j \in fruitful : i <= j
           named == UNION {tiers[i] : i \in DOMAIN tiers}
           found == OfBrands(raw, named)
           left == OfBrands(S, named)
           ans == ByTiers(raw, S, tiers, strategy)
<1>1. DOMAIN tiers \in SUBSET Nat
  BY DEF Policies
<1>2. CASE fruitful # {}
  <2>1. first \in fruitful /\ \A j \in fruitful : first <= j
    <3>1. fruitful \in SUBSET Nat
      BY <1>1
    <3> HIDE DEF fruitful
    <3> QED BY <1>2, <3>1, LeastNumber
  <2> DEFINE T == OfBrands(S, tiers[first])
  <2>2. ans = Automatic(T, strategy)
    BY <1>2 DEF ByTiers
  <2>3. first \in DOMAIN tiers /\ SelectableOf(T) # {}
    <3>1. first \in DOMAIN tiers /\ \E c \in OfBrands(S, tiers[first]) : Selectable(c)
      <4> HIDE DEF first
      <4> QED BY <2>1
    <3> QED BY <3>1 DEF SelectableOf
  <2> HIDE DEF first
  <2>4. T \in SUBSET Candidates /\ T \subseteq S
    BY DEF OfBrands
  <2>5. Obeys(ans, SelectableOf(T), strategy)
    <3> HIDE DEF T, ans
    <3> QED BY <2>2, <2>3, <2>4, AutomaticObeys
  <2>6. \A d \in F : d \in S /\ Selectable(d) /\ \E i \in DOMAIN tiers : d.brand \in tiers[i]
    BY DEF SelectableOf, InTiers
  <2>7. SelectableOf(T) \subseteq F
    BY <2>3, <2>4 DEF SelectableOf, OfBrands, InTiers
  <2>8. \A i, j \in DOMAIN tiers : i # j => tiers[i] \cap tiers[j] = {}
    BY DEF ValidPolicy
  <2>9. ASSUME NEW c \in SelectableOf(T), NEW d \in F PROVE ~Earlier(d, c, policy)
    <3> SUFFICES ASSUME NEW i \in DOMAIN tiers, NEW j \in DOMAIN tiers, i < j,
                        d.brand \in tiers[i], c.brand \in tiers[j]
                 PROVE  FALSE
      BY DEF Earlier
    <3>1. c.brand \in tiers[first]
      BY DEF SelectableOf, OfBrands
    <3>2. j = first
      BY <2>3, <2>8, <3>1
    <3>3. i \in fruitful
      BY <2>6 DEF OfBrands
    <3>4. first <= i /\ i \in Nat /\ j \in Nat
      BY <1>1, <2>1, <3>3
    <3> QED BY <3>2, <3>4
  <2>10. ASSUME NEW c \in SelectableOf(T), NEW d \in F, ~Earlier(c, d, policy)
         PROVE  d \in SelectableOf(T)
    <3>1. PICK i \in DOMAIN tiers : d.brand \in tiers[i]
      BY <2>6
    <3>2. c.brand \in tiers[first]
      BY DEF SelectableOf, OfBrands
    <3>3. i \in fruitful
      BY <2>6, <3>1 DEF OfBrands
    <3>4. ~(first < i)
      BY <2>3, <2>10, <3>1, <3>2 DEF Earlier
    <3>5. first <= i /\ first \in Nat /\ i \in Nat
      BY <1>1, <2>1, <2>3, <3>3
    <3>6. i = first
      BY <3>4, <3>5
    <3> QED BY <2>6, <3>1, <3>6 DEF SelectableOf, OfBrands
  <2>11. ASSUME NEW c \in ans.chosen, NEW d \in F
         PROVE  ~Earlier(d, c, policy) /\ (Earlier(c, d, policy) \/ ~Beaten(c, d, strategy))
    <3>1. c \in SelectableOf(T)
      BY <2>5 DEF Obeys
    <3>2. ~Earlier(c, d, policy) => ~Beaten(c, d, strategy)
      BY <2>5, <2>10, <3>1 DEF Obeys
    <3> QED BY <2>9, <3>1, <3>2
  <2>12. ASSUME ans.chosen # {}, NEW d \in F
         PROVE  \E c \in ans.chosen : Rivals(c, d, strategy) \/ Earlier(c, d, policy)
    <3>1. PICK c \in ans.chosen : c \in SelectableOf(T)
      BY <2>5, <2>12 DEF Obeys
    <3>2. ~Earlier(c, d, policy) => d \in SelectableOf(T)
      BY <2>10, <3>1
    <3>3. d \in SelectableOf(T) => \E e \in ans.chosen : Rivals(e, d, strategy)
      BY <2>5, <2>12 DEF Obeys
    <3> QED BY <3>1, <3>2, <3>3
  <2> HIDE DEF T, F, ans
  <2>13. TierObeys(ans, F, strategy, policy)
    BY <2>3, <2>5, <2>7, <2>11, <2>12 DEF Obeys, TierObeys
  <2> QED BY <2>13 DEF ans, F
<1>3. CASE fruitful = {}
  <2>1. F = {}
    BY <1>3 DEF SelectableOf, InTiers, OfBrands
  <2>2. {"FILTER_NO_MATCH", "NO_VALID_PRICE", "MANUAL_SELECTION_REQUIRED"} \subseteq ToReview
        /\ "NO_MATCH" \in Unresolved
    BY DEF ToReview, Unresolved
  <2>3. ans \in {Nothing("UNRESOLVED", "NO_MATCH"), Nothing("REVIEW", "FILTER_NO_MATCH"),
                 Unchosen(left, "BLOCKED", "COMPLIANCE_BLOCKED"),
                 Unchosen(found, "BLOCKED", "COMPLIANCE_BLOCKED"),
                 Unchosen(left, "REVIEW", "NO_VALID_PRICE"),
                 Unchosen(left, "REVIEW", "MANUAL_SELECTION_REQUIRED")}
    <3> HIDE DEF F, found, left
    <3> QED BY <1>3 DEF ByTiers, found, left
  <2> HIDE DEF F, left, found, ans
  <2>4. Obeys(ans, F, strategy)
    BY <2>1, <2>2, <2>3, UnchosenObeys
  <2>5. TierObeys(ans, F, strategy, policy)
    BY <2>1, <2>4 DEF Obeys, TierObeys
  <2> QED BY <2>5 DEF ans, F
<1> QED BY <1>2, <1>3

LEMMA OfAllBrandsObeys ==
    ASSUME NEW raw, NEW S \in SUBSET Candidates, IsFiniteSet(S), Cardinality(S) <= Limit,
           NEW strategy
    PROVE  Obeys(OfAllBrands(raw, S, strategy), SelectableOf(S), strategy)
<1> DEFINE pool(brand) ==
               LET own == OfBrands(S, {brand})
                   good == {c \in own : Selectable(c)}
               IN IF good # {} THEN good ELSE own
           best == {c \in S : c \in Pick(pool(c.brand), "LOWEST_PER_BRAND")}
           F == SelectableOf(S)
           ans == OfAllBrands(raw, S, strategy)
<1>1. best \in SUBSET S /\ best \in SUBSET Candidates /\ \A c \in S : c.price \in Nat
  BY DEF Candidates
<1>2. ~(Cardinality(best) > Limit)
  <2>1. Cardinality(best) <= Cardinality(S) /\ Cardinality(best) \in Nat
        /\ Cardinality(S) \in Nat
    <3> HIDE DEF best
    <3> QED BY <1>1, FS_Subset, FS_CardinalityType
  <2> HIDE DEF best
  <2> QED BY <2>1, QuoteConstants
<1>3. ASSUME NEW d \in F
      PROVE  \E e \in SelectableOf(best) : e.brand = d.brand /\ e.price <= d.price
  <2> DEFINE P == {c \in OfBrands(S, {d.brand}) : Selectable(c)}
  <2>1. d \in P /\ P \in SUBSET Candidates
    BY DEF SelectableOf, OfBrands
  <2>2. PICK e \in Pick(P, "LOWEST_PER_BRAND") : e.brand = d.brand
    <3> HIDE DEF P
    <3> QED BY <2>1, PickFinds
  <2>3. e \in S /\ Selectable(e) /\ pool(e.brand) = P
    BY <2>1, <2>2 DEF Pick, OfBrands, Rivals
  <2>4. e \in SelectableOf(best)
    BY <2>2, <2>3 DEF SelectableOf
  <2>5. ~Before(d, e)
    <3> HIDE DEF P
    <3> QED BY <2>1, <2>2 DEF Pick, Rivals
  <2>6. d.price \in Nat /\ e.price \in Nat
    BY <1>1, <2>3 DEF SelectableOf
  <2> HIDE DEF best, F
  <2> QED BY <2>2, <2>4, <2>5, <2>6 DEF Before
<1>4. "CANDIDATE_LIMIT_EXCEEDED" \in ToReview /\ "NO_MATCH" \in Unresolved
  BY DEF ToReview, Unresolved
<1>5. CASE S = {}
  <2>1. F = {}
    BY <1>5 DEF SelectableOf
  <2> QED BY <1>4, <1>5, <2>1, RejectedObeys, UnchosenObeys DEF OfAllBrands
<1>6. CASE S # {} /\ \E c \in best : Selectable(c)
  <2>1. ans = Automatic(best, strategy)
    <3> HIDE DEF best
    <3> QED BY <1>2, <1>6 DEF OfAllBrands, best
  <2>2. SelectableOf(best) # {}
    BY <1>6 DEF SelectableOf
  <2>3. SelectableOf(best) \subseteq F
    BY DEF SelectableOf
  <2> HIDE DEF best
  <2>4. Obeys(ans, SelectableOf(best), strategy)
    BY <1>1, <2>1, <2>2, AutomaticObeys
  <2>5. ASSUME NEW c \in ans.chosen, NEW d \in F PROVE ~Beaten(c, d, strategy)
    <3>1. PICK e \in SelectableOf(best) : e.brand = d.brand /\ e.price <= d.price
      BY <1>3
    <3>2. ~Beaten(c, e, strategy) /\ c \in F
      BY <2>3, <2>4, <3>1 DEF Obeys
    <3>3. c.price \in Nat /\ d.price \in Nat /\ e.price \in Nat
      BY <1>1, <2>3, <3>1, <3>2 DEF SelectableOf
    <3> QED BY <3>1, <3>2, <3>3 DEF Beaten, Rivals
  <2>6. ASSUME ans.chosen # {}, NEW d \in F
        PROVE  \E c \in ans.chosen : Rivals(c, d, strategy)
    <3>1. PICK e \in SelectableOf(best) : e.brand = d.brand
      BY <1>3
    <3>2. PICK c \in ans.chosen : Rivals(c, e, strategy)
      BY <2>4, <2>6, <3>1 DEF Obeys
    <3> QED BY <3>1, <3>2 DEF Rivals
  <2> HIDE DEF F, ans
  <2>7. Obeys(ans, F, strategy)
    BY <2>2, <2>3, <2>4, <2>5, <2>6 DEF Obeys
  <2> QED BY <2>7 DEF ans, F
<1>7. CASE S # {} /\ ~\E c \in best : Selectable(c)
  <2>1. F = {}
    BY <1>3, <1>7 DEF SelectableOf
  <2>2. ans = Rejected(best, best)
    <3> HIDE DEF best
    <3> QED BY <1>2, <1>7 DEF OfAllBrands, best
  <2> HIDE DEF best
  <2> QED BY <2>1, <2>2, RejectedObeys
<1> QED BY <1>5, <1>6, <1>7

-----------------------------------------------------------------------------
(* Finite sets. *)

\* A set that a finite set is mapped onto is finite and no larger.
LEMMA ValuesFinite ==
    ASSUME NEW S, IsFiniteSet(S), NEW R, NEW f \in [S -> R],
           \A y \in R : \E x \in S : f[x] = y
    PROVE  IsFiniteSet(R) /\ Cardinality(R) \in Nat /\ Cardinality(R) <= Cardinality(S)
<1>1. f \in Surjection(S, R)
  BY DEF Surjection
<1> QED BY <1>1, FS_Surjection, FS_CardinalityType

\* A set with more than one element has two that differ.
LEMMA TwoDiffer ==
    ASSUME NEW T, IsFiniteSet(T), Cardinality(T) > 1
    PROVE  \E x, y \in T : x # y
<1>1. PICK x \in T : TRUE
  BY FS_EmptySet
<1>2. T # {x}
  BY FS_Singleton
<1> QED BY <1>1, <1>2

LEMMA HitsFinite ==
    ASSUME NEW q, NEW row, NEW db \in Views
    PROVE  IsFiniteSet(Hits(q, row, db)) /\ Cardinality(Hits(q, row, db)) \in Nat
<1> DEFINE J == {j \in Visible(db) : Matches(db.products[j], row, db)
                                     /\ Fits(db.products[j], q)}
           f == [i \in J |-> Candidate(i, db)]
           R == {f[i] : i \in J}
<1>1. J \in SUBSET Ids
  BY DEF Visible
<1>2. IsFiniteSet(J)
  <2> HIDE DEF J
  <2> QED BY <1>1, QuoteConstants, FS_Subset
<1>3. Hits(q, row, db) = R
  BY DEF Hits
<1>4. f \in [J -> R] /\ \A y \in R : \E i \in J : f[i] = y
  OBVIOUS
<1> HIDE DEF J, f, R
<1> QED BY <1>2, <1>3, <1>4, ValuesFinite

LEMMA MarkedFinite ==
    ASSUME NEW S, NEW db, IsFiniteSet(S)
    PROVE  IsFiniteSet(Marked(S, db)) /\ Cardinality(Marked(S, db)) \in Nat
           /\ Cardinality(Marked(S, db)) <= Cardinality(S)
<1> DEFINE f == [c \in S |-> [c EXCEPT !.twin =
                    \E d \in S \ {c} : /\ db.products[c.id].code # Blank
                                       /\ SameArticle(c, d, db)]]
           R == {f[c] : c \in S}
<1>1. Marked(S, db) = R
  BY DEF Marked
<1>2. f \in [S -> R] /\ \A y \in R : \E c \in S : f[c] = y
  OBVIOUS
<1> HIDE DEF f, R
<1> QED BY <1>1, <1>2, ValuesFinite

-----------------------------------------------------------------------------
(* The answer obeys the strategy and the policy. *)

\* Those of S that a policy lets be quoted.
FieldOf(S, q, row) ==
    {c \in S : /\ Selectable(c)
               /\ \/ ExactCode(row)
                  \/ EffectivePolicy(q, row).mode \in {"NONE", "ALL_AVAILABLE"}
                  \/ InTiers(c, EffectivePolicy(q, row))}

Tiered(q, row) ==
    ~ExactCode(row) /\ EffectivePolicy(q, row).mode = "PRIORITY_FALLBACK"

RowObeys(ans, F, q, row, strategy) ==
    IF Tiered(q, row) THEN TierObeys(ans, F, strategy, EffectivePolicy(q, row))
    ELSE Obeys(ans, F, strategy)

\* The policy that counts for a row is one of those a request may bring.
LEMMA PolicyCounts ==
    ASSUME NEW q \in Queries, ValidQuery(q), NEW i \in DOMAIN q.rows
    PROVE  /\ q.rows[i] \in Rows
           /\ EffectivePolicy(q, q.rows[i]) \in Policies
           /\ ValidPolicy(EffectivePolicy(q, q.rows[i]))
           /\ EffectivePolicy(q, q.rows[i]).mode \in
                 {"NONE", "PRIORITY_FALLBACK", "ALLOWLIST_ONLY", "ALL_AVAILABLE"}
<1>1. q.rows[i] \in Rows
  BY DEF Queries
<1>2. q.rows[i].override \in Policies /\ q.policy \in Policies
  BY <1>1 DEF Rows, Queries
<1>3. ValidPolicy(q.policy) /\ ValidPolicy(q.rows[i].override) /\ q.policy.mode # "INHERIT"
  BY DEF ValidQuery
<1>4. EffectivePolicy(q, q.rows[i]) \in {q.policy, q.rows[i].override}
  BY DEF EffectivePolicy
<1>5. EffectivePolicy(q, q.rows[i]).mode # "INHERIT"
  BY <1>3 DEF EffectivePolicy
<1>6. EffectivePolicy(q, q.rows[i]) \in Policies
  BY <1>2, <1>4
<1>7. ValidPolicy(EffectivePolicy(q, q.rows[i]))
  BY <1>3, <1>4
<1> QED BY <1>1, <1>5, <1>6, <1>7 DEF Policies

LEMMA ChosenObeys ==
    ASSUME NEW q \in Queries, NEW row, NEW raw, NEW strategy,
           NEW S \in SUBSET Candidates, IsFiniteSet(S), Cardinality(S) <= Limit,
           EffectivePolicy(q, row) \in Policies, ValidPolicy(EffectivePolicy(q, row)),
           EffectivePolicy(q, row).mode \in
              {"NONE", "PRIORITY_FALLBACK", "ALLOWLIST_ONLY", "ALL_AVAILABLE"}
    PROVE  RowObeys(Chosen(raw, S, q, row, strategy), FieldOf(S, q, row), q, row, strategy)
<1> DEFINE policy == EffectivePolicy(q, row)
           ans == Chosen(raw, S, q, row, strategy)
           F == FieldOf(S, q, row)
<1>1. CASE policy.mode = "NONE" \/ ExactCode(row)
  <2>1. F = SelectableOf(S) /\ ~Tiered(q, row)
    BY <1>1 DEF FieldOf, SelectableOf, Tiered
  <2>2. S = {} => F = {}
    BY DEF FieldOf
  <2>3. \/ ans = Nothing("REVIEW", "FILTER_NO_MATCH") /\ S = {}
        \/ ans = Select(S, strategy)
    BY <1>1 DEF Chosen
  <2>4. "FILTER_NO_MATCH" \in ToReview
    BY DEF ToReview
  <2> HIDE DEF F, ans
  <2>5. Obeys(ans, F, strategy)
    BY <2>1, <2>2, <2>3, <2>4, SelectObeys, UnchosenObeys
  <2> QED BY <2>1, <2>5 DEF RowObeys, F, ans
<1>2. CASE ~ExactCode(row) /\ policy.mode = "PRIORITY_FALLBACK"
  <2>1. F = {c \in SelectableOf(S) : InTiers(c, policy)} /\ Tiered(q, row)
    BY <1>2 DEF FieldOf, SelectableOf, Tiered
  <2>2. ans = ByTiers(raw, S, policy.tiers, strategy)
    BY <1>2 DEF Chosen
  <2> HIDE DEF F, ans, policy
  <2>3. TierObeys(ans, F, strategy, policy)
    BY <1>2, <2>1, <2>2, ByTiersObeys DEF policy
  <2> QED BY <2>1, <2>3 DEF RowObeys, F, ans, policy
<1>3. CASE ~ExactCode(row) /\ policy.mode = "ALLOWLIST_ONLY"
  <2>1. policy.tiers \in Seq(SUBSET Brands) /\ Len(policy.tiers) <= 1 /\ policy.tiers # <<>>
    BY <1>3 DEF Policies, ValidPolicy
  <2>2. DOMAIN policy.tiers = {1}
    BY <2>1
  <2>3. F = SelectableOf(OfBrands(S, policy.tiers[1])) /\ ~Tiered(q, row)
    BY <1>3, <2>2 DEF FieldOf, SelectableOf, OfBrands, Tiered, InTiers
  <2>4. ans = ByAllowlist(raw, S, policy.tiers[1], strategy)
    BY <1>3 DEF Chosen
  <2> HIDE DEF F, ans, policy
  <2>5. Obeys(ans, F, strategy)
    BY <2>3, <2>4, ByAllowlistObeys
  <2> QED BY <2>3, <2>5 DEF RowObeys, F, ans, policy
<1>4. CASE ~ExactCode(row) /\ policy.mode = "ALL_AVAILABLE"
  <2>1. F = SelectableOf(S) /\ ~Tiered(q, row)
    BY <1>4 DEF FieldOf, SelectableOf, Tiered
  <2>2. ans = OfAllBrands(raw, S, strategy)
    BY <1>4 DEF Chosen
  <2> HIDE DEF F, ans, policy
  <2>3. Obeys(ans, F, strategy)
    BY <2>1, <2>2, OfAllBrandsObeys
  <2> QED BY <2>1, <2>3 DEF RowObeys, F, ans, policy
<1> QED BY <1>1, <1>2, <1>3, <1>4

\* What is found is found by the preflight as well.
LEMMA PreflightFinds ==
    ASSUME NEW q, NEW row, NEW db, Identified(row), Hits(q, row, db) # {}
    PROVE  Preflight(row, db) = "FOUND"
<1>1. PICK i \in Visible(db) : Matches(db.products[i], row, db)
  BY DEF Hits
<1>2. \E j \in Visible(db) : /\ row.code # Blank => db.products[j].code = row.code
                             /\ row.cas # Blank => db.products[j].cas = row.cas
  <2>1. CASE row.equivalent /\ ByBoth(row)
    BY <1>1, <2>1 DEF Matches, ByBoth, ByCode, Confirmed
  <2>2. CASE row.equivalent /\ ByCode(row)
    <3>1. db.products[i].cas \in CasesOf(row.code, db)
      BY <1>1, <2>2 DEF Matches, ByBoth, ByCode, ValidCases
    <3> QED BY <2>2, <3>1 DEF CasesOf, ByCode
  <2>3. CASE ~(row.equivalent /\ row.code # Blank)
    BY <1>1, <2>3 DEF Matches
  <2>4. row.code # Blank => ByBoth(row) \/ ByCode(row)
    BY DEF ByBoth, ByCode
  <2> QED BY <2>1, <2>2, <2>3, <2>4
<1> DEFINE found == {j \in Visible(db) :
                        /\ row.code # Blank => db.products[j].code = row.code
                        /\ row.cas # Blank => db.products[j].cas = row.cas}
<1>3. found # {}
  BY <1>2
<1> HIDE DEF found
<1> QED BY <1>3 DEF Preflight, found

\* Nothing is found by a code without exactly one substance, nor by a code and
\* a CAS number that do not belong together.
LEMMA NothingFound ==
    ASSUME NEW q, NEW row, NEW db, row.equivalent,
           \/ ByCode(row) /\ CasesOf(row.code, db) = {}
           \/ ByCode(row) /\ ValidCases(row.code, db) = {}
           \/ ByCode(row) /\ Cardinality(ValidCases(row.code, db)) > 1
           \/ ByBoth(row) /\ ~Confirmed(row, db)
    PROVE  Hits(q, row, db) = {}
<1>1. \A x : ValidCases(row.code, db) = {x} =>
             ~(Cardinality(ValidCases(row.code, db)) > 1)
  BY FS_Singleton
<1>2. ASSUME NEW i \in Visible(db), Matches(db.products[i], row, db) PROVE FALSE
  BY <1>1, <1>2 DEF Matches, ByCode, ByBoth, ValidCases
<1> QED BY <1>2 DEF Hits

\* A choice is left to a person unasked only if the code is ambiguous.
LEMMA ForcedByAmbiguity ==
    ASSUME NEW q, NEW row, NEW db \in Views,
           StrategyFor(Marked(Filtered(Hits(q, row, db), q, db), db), q, row, db) # q.strategy
    PROVE  Ambiguous(q, row, db)
<1> DEFINE left == Filtered(Hits(q, row, db), q, db)
           S == Marked(left, db)
           f == [c \in S |-> db.products[c.id].cas]
           R == {f[c] : c \in S}
           T == {db.products[c.id].cas : c \in S} \ {Blank}
<1>1. ExactCode(row) /\ row.cas = Blank /\ Cardinality(T) > 1
  BY DEF StrategyFor
<1>2. left \subseteq Hits(q, row, db) /\ left \subseteq Fair(db)
  BY FilteredAreHits, HitsAreFair
<1>3. IsFiniteSet(S)
  <2>1. IsFiniteSet(left)
    BY <1>2, HitsFinite, FS_Subset
  <2> QED BY <2>1, MarkedFinite
<1>4. ASSUME NEW c \in S PROVE \E e \in left : e.id = c.id
  <2>1. PICK e \in left : c = [e EXCEPT !.twin =
            \E d \in left \ {e} : /\ db.products[e.id].code # Blank
                                  /\ SameArticle(e, d, db)]
    BY <1>4 DEF Marked
  <2>2. e \in Candidates
    BY <1>2 DEF Fair
  <2> QED BY <2>1, <2>2 DEF Candidates
<1> HIDE DEF left, S
<1>5. IsFiniteSet(T)
  <2>1. f \in [S -> R] /\ T \in SUBSET R /\ \A y \in R : \E c \in S : f[c] = y
    OBVIOUS
  <2> HIDE DEF f, T, R
  <2>2. IsFiniteSet(R)
    BY <1>3, <2>1, ValuesFinite
  <2> QED BY <2>1, <2>2, FS_Subset
<1>6. PICK x \in T, y \in T : x # y
  <2> HIDE DEF T
  <2> QED BY <1>1, <1>5, TwoDiffer
<1>7. PICK c \in S, d \in S : x = db.products[c.id].cas /\ y = db.products[d.id].cas
  BY <1>6
<1>8. PICK c0 \in left, d0 \in left : c0.id = c.id /\ d0.id = d.id
  BY <1>4
<1>9. x # Blank /\ y # Blank
  BY <1>6
<1> QED BY <1>1, <1>6, <1>7, <1>8, <1>9 DEF Ambiguous, left

\* For any catalogue, and whatever valid request is made, a row is answered as
\* the strategy and the policy of brands want it.
THEOREM AnswersFollow ==
    ASSUME NEW q \in Queries, ValidQuery(q), NEW i \in DOMAIN q.rows, NEW db \in Views
    PROVE  FollowsPolicy(q, q.rows[i], Answer(q, q.rows[i], db), db)
<1> DEFINE row == q.rows[i]
           policy == EffectivePolicy(q, row)
           raw == Hits(q, row, db)
           left == Filtered(raw, q, db)
           S == Marked(left, db)
           strategy == StrategyFor(S, q, row, db)
           field == Contenders(q, row, db)
           ans == Answer(q, row, db)
<1>1. /\ row \in Rows /\ policy \in Policies /\ ValidPolicy(policy)
      /\ policy.mode \in {"NONE", "PRIORITY_FALLBACK", "ALLOWLIST_ONLY", "ALL_AVAILABLE"}
  BY PolicyCounts
<1>2. raw \subseteq Fair(db) /\ left \subseteq raw
  BY HitsAreFair, FilteredAreHits
<1>3. S \in SUBSET Candidates
  <2>1. left \subseteq Fair(db)
    BY <1>2
  <2>2. S \subseteq Fair(db)
    BY <2>1, MarkedAreFair
  <2> QED BY <2>2 DEF Fair
<1>4. /\ IsFiniteSet(raw) /\ Cardinality(raw) \in Nat /\ IsFiniteSet(S)
      /\ Cardinality(S) \in Nat /\ Cardinality(S) <= Cardinality(raw)
  <2>1. IsFiniteSet(raw) /\ Cardinality(raw) \in Nat
    BY HitsFinite
  <2>2. IsFiniteSet(left) /\ Cardinality(left) <= Cardinality(raw) /\ Cardinality(left) \in Nat
    BY <1>2, <2>1, FS_Subset, FS_CardinalityType
  <2>3. IsFiniteSet(S) /\ Cardinality(S) \in Nat /\ Cardinality(S) <= Cardinality(left)
    BY <2>2, MarkedFinite
  <2> QED BY <2>1, <2>2, <2>3
<1>5. raw = {} => S = {}
  BY <1>2 DEF Marked
<1>6. field = IF Identified(row) /\ ~NeedsBrand(q, row) THEN FieldOf(S, q, row) ELSE {}
  BY DEF Contenders, FieldOf, InTiers
<1>7. S = {} => field = {}
  BY <1>6 DEF FieldOf
<1>8. ASSUME Preflight(row, db) # "FOUND" PROVE field = {}
  BY <1>5, <1>6, <1>7, <1>8, PreflightFinds
<1>9. /\ {"MISSING_IDENTIFIER", "CODE_HAS_NO_CAS", "CODE_HAS_PLACEHOLDER_CAS",
          "CODE_MULTIPLE_CAS", "CODE_CAS_CONFLICT"} \subseteq Unresolved
      /\ {"BRAND_REQUIRED", "CANDIDATE_LIMIT_EXCEEDED"} \subseteq ToReview
  BY DEF Unresolved, ToReview
<1>10. ASSUME Obeys(ans, field, q.strategy), ~Tiered(q, row)
       PROVE  FollowsPolicy(q, row, ans, db)
  BY <1>8, <1>10 DEF FollowsPolicy, Obeys, Beaten, Tiered
<1>11. ASSUME TierObeys(ans, field, q.strategy, policy), Tiered(q, row)
       PROVE  FollowsPolicy(q, row, ans, db)
  BY <1>8, <1>11 DEF FollowsPolicy, TierObeys, Beaten, Tiered
<1>12. ASSUME ans.chosen = {}, ans.lifecycle = LifecycleOf(ans.reason),
              ans.lifecycle # "SELECTED",
              field = {} \/ Ambiguous(q, row, db) \/ Cardinality(raw) > Limit
       PROVE  FollowsPolicy(q, row, ans, db)
  BY <1>12 DEF FollowsPolicy
<1>13. \A reason \in Unresolved : ans = Nothing("UNRESOLVED", reason) =>
          ans.chosen = {} /\ ans.lifecycle = LifecycleOf(ans.reason)
          /\ ans.lifecycle # "SELECTED"
  BY DEF Nothing, Unchosen, Said, LifecycleOf, ToReview, Unresolved
<1>14. \A reason \in ToReview : ans = Nothing("REVIEW", reason) =>
          ans.chosen = {} /\ ans.lifecycle = LifecycleOf(ans.reason)
          /\ ans.lifecycle # "SELECTED"
  BY DEF Nothing, Unchosen, Said, LifecycleOf, ToReview, Unresolved
<1>15. \/ /\ field = {}
          /\ \E reason \in Unresolved : ans = Nothing("UNRESOLVED", reason)
       \/ /\ field = {} \/ Cardinality(raw) > Limit
          /\ \E reason \in ToReview : ans = Nothing("REVIEW", reason)
       \/ /\ ans = Chosen(raw, S, q, row, strategy)
          /\ Identified(row) /\ ~NeedsBrand(q, row) /\ ~(Cardinality(raw) > Limit)
  <2>1. /\ ByCode(row) /\ row.equivalent /\ CasesOf(row.code, db) = {} => raw = {}
        /\ ByCode(row) /\ row.equivalent /\ ValidCases(row.code, db) = {} => raw = {}
        /\ ByCode(row) /\ row.equivalent /\ Cardinality(ValidCases(row.code, db)) > 1
           => raw = {}
        /\ ByBoth(row) /\ row.equivalent /\ ~Confirmed(row, db) => raw = {}
    BY NothingFound
  <2> HIDE DEF raw, S, strategy, field, row
  <2> QED BY <1>5, <1>6, <1>7, <1>9, <2>1 DEF Answer, raw, S, left, strategy, row
<1>16. ASSUME ans = Chosen(raw, S, q, row, strategy), Identified(row), ~NeedsBrand(q, row),
              ~(Cardinality(raw) > Limit)
       PROVE  FollowsPolicy(q, row, ans, db)
  <2>1. Cardinality(S) <= Limit
    BY <1>4, <1>16, QuoteConstants
  <2>2. RowObeys(ans, field, q, row, strategy)
    <3> HIDE DEF S, raw, row, policy, strategy, ans, field
    <3> QED BY <1>1, <1>3, <1>4, <1>6, <1>16, <2>1, ChosenObeys DEF policy
  <2>3. CASE strategy = q.strategy
    <3> HIDE DEF S, raw, row, policy, strategy, ans, field
    <3> QED BY <1>10, <1>11, <2>2, <2>3 DEF RowObeys, policy
  <2>4. CASE strategy # q.strategy
    <3>1. Ambiguous(q, row, db)
      BY <2>4, ForcedByAmbiguity
    <3>2. strategy = "MANUAL"
      BY <2>4 DEF StrategyFor
    <3> HIDE DEF S, raw, row, policy, strategy, ans, field
    <3>3. ans.chosen = {} /\ ans.lifecycle = LifecycleOf(ans.reason)
          /\ ans.lifecycle # "SELECTED"
      BY <2>2, <3>2 DEF RowObeys, Obeys, TierObeys
    <3> QED BY <1>12, <3>1, <3>3
  <2> QED BY <2>3, <2>4
<1> HIDE DEF S, raw, row, policy, strategy, ans, field
<1>17. FollowsPolicy(q, row, ans, db)
  BY <1>12, <1>13, <1>14, <1>15, <1>16
<1> QED BY <1>17 DEF row, ans

-----------------------------------------------------------------------------
(* What a team does not see does not count. *)

\* Two databases show a team the same: the same products are visible, and for
\* each of them the rate of its brand, whether its brand allows exceptions and
\* whether its CAS number is banned are the same.
LookAlike(d, e) ==
    /\ Visible(d) = Visible(e)
    /\ \A i \in Visible(d) :
          /\ d.products[i] = e.products[i]
          /\ Rate(d.products[i].brand, d) = Rate(d.products[i].brand, e)
          /\ (d.products[i].brand \in d.priority) = (d.products[i].brand \in e.priority)
          /\ (d.products[i].cas \in d.banned) = (d.products[i].cas \in e.banned)

\* A visible product makes the same candidate of both.
LEMMA SameCandidate ==
    ASSUME NEW d, NEW e, LookAlike(d, e), NEW i \in Visible(d)
    PROVE  /\ d.products[i] = e.products[i]
           /\ Candidate(i, d) = Candidate(i, e)
<1> DEFINE p == d.products[i]
<1>1. /\ e.products[i] = p
      /\ Rate(p.brand, d) = Rate(p.brand, e)
      /\ (p.brand \in d.priority) = (p.brand \in e.priority)
      /\ (p.cas \in d.banned) = (p.cas \in e.banned)
  BY Zenon DEF LookAlike
<1> HIDE DEF p
<1>2. UnitPrice(p, d) = UnitPrice(p, e)
  BY <1>1, Zenon DEF UnitPrice
<1>3. Blocked(p, d) = Blocked(p, e)
  BY <1>1, Zenon DEF Blocked
<1>4. Candidate(i, d) = Candidate(i, e)
  <2>1. d.products[i] = p
    BY DEF p
  <2> QED BY <2>1, <1>1, <1>2, <1>3, Zenon DEF Candidate
<1> QED BY <1>1, <1>4 DEF p

\* Both give a code the same CAS numbers and confirm the same pairs.
LEMMA SameSubstances ==
    ASSUME NEW d, NEW e, LookAlike(d, e), NEW row
    PROVE  /\ CasesOf(row.code, d) = CasesOf(row.code, e)
           /\ Confirmed(row, d) = Confirmed(row, e)
<1>1. Visible(d) = Visible(e) /\ \A i \in Visible(d) : d.products[i] = e.products[i]
  BY SameCandidate DEF LookAlike
<1>2. CasesOf(row.code, d) = CasesOf(row.code, e)
  BY <1>1 DEF CasesOf
<1>3. Confirmed(row, d) = Confirmed(row, e)
  BY <1>1 DEF Confirmed
<1> QED BY <1>2, <1>3

\* Both find the same candidates.
LEMMA SameHits ==
    ASSUME NEW d, NEW e, LookAlike(d, e), NEW q, NEW row
    PROVE  Hits(q, row, d) = Hits(q, row, e)
<1> DEFINE In(db) == {j \in Visible(db) : /\ Matches(db.products[j], row, db)
                                          /\ Fits(db.products[j], q)}
<1>1. ASSUME NEW p PROVE Matches(p, row, d) = Matches(p, row, e)
  BY SameSubstances, Zenon DEF Matches, ValidCases
<1>2. Visible(d) = Visible(e) /\ \A i \in Visible(d) : d.products[i] = e.products[i]
  BY SameCandidate DEF LookAlike
<1>3. In(d) = In(e)
  <2>1. ASSUME NEW j \in Visible(d)
        PROVE  (/\ Matches(d.products[j], row, d) /\ Fits(d.products[j], q)) =
               (/\ Matches(e.products[j], row, e) /\ Fits(e.products[j], q))
    BY <1>1, <1>2, Zenon
  <2> QED BY <1>2, <2>1, Zenon
<1>4. \A i \in In(d) : Candidate(i, d) = Candidate(i, e)
  BY SameCandidate
<1>5. {Candidate(i, d) : i \in In(d)} = {Candidate(i, e) : i \in In(e)}
  <2> HIDE DEF In
  <2> QED BY <1>3, <1>4
<1> QED BY <1>5, Zenon DEF Hits

\* What is found is of visible products.
LEMMA HitsAreVisible ==
    ASSUME NEW q, NEW row, NEW db PROVE \A c \in Hits(q, row, db) : c.id \in Visible(db)
BY DEF Hits, Candidate

\* Both filter what is found alike.
LEMMA SameFiltered ==
    ASSUME NEW d, NEW e, LookAlike(d, e), NEW q,
           NEW S, \A c \in S : c.id \in Visible(d)
    PROVE  Filtered(S, q, d) = Filtered(S, q, e)
<1> DEFINE kept(db) == {c \in S : q.unit \in {"ANY", Unit(c, db)}}
           comparable(db) == {c \in kept(db) : Unit(c, db) # Blank}
           peers(c, db) == {x \in comparable(db) :
                               x.brand = c.brand /\ Unit(x, db) = Unit(c, db)}
           low(db) == {c \in comparable(db) :
                          \A x \in peers(c, db) : Amount(c, db) <= Amount(x, db)}
           high(db) == {c \in comparable(db) :
                          \A x \in peers(c, db) : Amount(c, db) >= Amount(x, db)}
<1>1. \A c \in S : Unit(c, d) = Unit(c, e) /\ Amount(c, d) = Amount(c, e)
  BY SameCandidate DEF Unit, Amount
<1>2. kept(d) = kept(e)
  BY <1>1
<1>3. comparable(d) = comparable(e) /\ comparable(d) \subseteq S
  BY <1>1, <1>2
<1>4. \A c \in S : peers(c, d) = peers(c, e) /\ peers(c, d) \subseteq S
  <2> HIDE DEF comparable
  <2> QED BY <1>1, <1>3
<1>5. low(d) = low(e) /\ high(d) = high(e)
  <2> HIDE DEF comparable, peers
  <2> QED BY <1>1, <1>3, <1>4
<1>6. \A db : Filtered(S, q, db) = CASE q.mode = "MIN" -> low(db)
                                     [] q.mode = "MAX" -> high(db)
                                     [] OTHER -> kept(db)
  BY DEF Filtered
<1> HIDE DEF kept, comparable, peers, low, high
<1> QED BY <1>2, <1>5, <1>6, Zenon

\* Both mark the same twins.
LEMMA SameMarked ==
    ASSUME NEW d, NEW e, LookAlike(d, e), NEW S, \A c \in S : c.id \in Visible(d)
    PROVE  Marked(S, d) = Marked(S, e)
<1> DEFINE twin(c, db) == \E x \in S \ {c} : /\ db.products[c.id].code # Blank
                                             /\ SameArticle(c, x, db)
<1>1. \A c \in S : d.products[c.id] = e.products[c.id]
  BY SameCandidate
<1>2. \A c \in S : twin(c, d) = twin(c, e)
  BY <1>1 DEF SameArticle
<1>3. \A db : Marked(S, db) = {[c EXCEPT !.twin = twin(c, db)] : c \in S}
  BY DEF Marked
<1> HIDE DEF twin
<1> QED BY <1>2, <1>3

\* Marked candidates are of the same products.
LEMMA MarkedAreVisible ==
    ASSUME NEW db, NEW S, S \subseteq Fair(db)
    PROVE  \A c \in Marked(S, db) : c.id \in Visible(db)
BY MarkedAreFair DEF Fair

\* The answer to a request depends on nothing the team may not see: where
\* two catalogues show it the same, however they differ in hidden brands and in
\* the trash, so do the answer and the count that comes before it.
THEOREM AnswersIgnoreHidden ==
    ASSUME NEW d \in Views, NEW e \in Views, LookAlike(d, e), NEW q, NEW row
    PROVE  /\ Answer(q, row, d) = Answer(q, row, e)
           /\ Preflight(row, d) = Preflight(row, e)
<1> DEFINE raw(db) == Hits(q, row, db)
           left(db) == Marked(Filtered(raw(db), q, db), db)
<1>1. raw(d) = raw(e)
  BY SameHits
<1>2. Filtered(raw(d), q, d) = Filtered(raw(e), q, e)
  <2>1. \A c \in raw(d) : c.id \in Visible(d)
    BY HitsAreVisible
  <2> HIDE DEF raw
  <2>2. Filtered(raw(d), q, d) = Filtered(raw(d), q, e)
    BY <2>1, SameFiltered
  <2> QED BY <1>1, <2>2, Zenon
<1>3. \A c \in Filtered(raw(d), q, d) : c.id \in Visible(d)
  BY FilteredAreHits, HitsAreVisible
<1>4. left(d) = left(e)
  BY <1>2, <1>3, SameMarked, Zenon
<1>5. \A c \in left(d) : c.id \in Visible(d)
  BY FilteredAreHits, HitsAreFair, MarkedAreVisible
<1>6. StrategyFor(left(d), q, row, d) = StrategyFor(left(e), q, row, e)
  <2> DEFINE cases(db) == {db.products[c.id].cas : c \in left(d)}
  <2>1. cases(d) = cases(e)
    <3>1. \A c \in left(d) : d.products[c.id] = e.products[c.id]
      BY <1>5, SameCandidate
    <3> QED BY <3>1
  <2> HIDE DEF left
  <2> QED BY <1>4, <2>1, Zenon DEF StrategyFor
<1>7. /\ CasesOf(row.code, d) = CasesOf(row.code, e)
      /\ ValidCases(row.code, d) = ValidCases(row.code, e)
      /\ Confirmed(row, d) = Confirmed(row, e)
  BY SameSubstances DEF ValidCases
<1>8. Answer(q, row, d) = Answer(q, row, e)
  <2> HIDE DEF raw, left
  <2>1. \A db : Answer(q, row, db) =
          LET byEquivalentCode == row.equivalent /\ ByCode(row)
          IN IF ~Identified(row) THEN Nothing("UNRESOLVED", "MISSING_IDENTIFIER")
             ELSE IF NeedsBrand(q, row) THEN Nothing("REVIEW", "BRAND_REQUIRED")
             ELSE IF Cardinality(raw(db)) > Limit
                     THEN Nothing("REVIEW", "CANDIDATE_LIMIT_EXCEEDED")
             ELSE IF byEquivalentCode /\ CasesOf(row.code, db) = {}
                     THEN Nothing("UNRESOLVED", "CODE_HAS_NO_CAS")
             ELSE IF byEquivalentCode /\ ValidCases(row.code, db) = {}
                     THEN Nothing("UNRESOLVED", "CODE_HAS_PLACEHOLDER_CAS")
             ELSE IF byEquivalentCode /\ Cardinality(ValidCases(row.code, db)) > 1
                     THEN Nothing("UNRESOLVED", "CODE_MULTIPLE_CAS")
             ELSE IF ByBoth(row) /\ row.equivalent /\ ~Confirmed(row, db)
                     THEN Nothing("UNRESOLVED", "CODE_CAS_CONFLICT")
             ELSE IF ByBoth(row) /\ ~row.equivalent /\ left(db) = {}
                     THEN Nothing("UNRESOLVED", "CODE_CAS_CONFLICT")
             ELSE Chosen(raw(db), left(db), q, row, StrategyFor(left(db), q, row, db))
    BY Zenon DEF Answer, raw, left
  <2> QED BY <1>1, <1>4, <1>6, <1>7, <2>1, Zenon
<1>9. Preflight(row, d) = Preflight(row, e)
  <2> DEFINE found(db) == {i \in Visible(db) :
                     /\ row.code # Blank => db.products[i].code = row.code
                     /\ row.cas # Blank => db.products[i].cas = row.cas}
  <2>1. found(d) = found(e)
    <3>1. Visible(d) = Visible(e) /\ \A i \in Visible(d) : d.products[i] = e.products[i]
      BY SameCandidate DEF LookAlike
    <3> QED BY <3>1
  <2>2. \A db : Preflight(row, db) =
            IF ~Identified(row) THEN "MISSING_IDENTIFIER"
            ELSE IF found(db) # {} THEN "FOUND"
            ELSE IF ByBoth(row) THEN "CODE_CAS_CONFLICT"
            ELSE "NO_MATCH"
    BY Zenon DEF Preflight
  <2> HIDE DEF found
  <2> QED BY <2>1, <2>2, Zenon
<1> QED BY <1>8, <1>9

\* What is put in the trash, taken from it or edited while its brand is hidden
\* changes no answer.
THEOREM HiddenEditsChangeNothing ==
    ASSUME NEW d \in Views, NEW q, NEW row, NEW i \in Ids, NEW p \in Products \cup {Gone},
           i \notin Visible(d), p = Gone \/ p.brand \notin d.brands
    PROVE  LET e == [d EXCEPT !.products[i] = p]
           IN /\ Answer(q, row, d) = Answer(q, row, e)
              /\ Preflight(row, d) = Preflight(row, e)
<1> DEFINE e == [d EXCEPT !.products[i] = p]
<1>1. /\ e \in Views
      /\ e.products = [d.products EXCEPT ![i] = p]
      /\ e.brands = d.brands /\ e.priority = d.priority /\ e.banned = d.banned
      /\ e.currency = d.currency /\ e.rate = d.rate
  BY DEF Views
<1>2. \A j \in Ids : e.products[j] = IF j = i THEN p ELSE d.products[j]
  BY <1>1 DEF Views
<1> HIDE DEF e
<1>3. Visible(d) = Visible(e)
  <2>1. ASSUME NEW j \in Ids PROVE (j \in Visible(d)) <=> (j \in Visible(e))
    BY <1>1, <1>2 DEF Visible
  <2> QED BY <2>1 DEF Visible
<1>4. \A j \in Visible(d) : e.products[j] = d.products[j]
  BY <1>2 DEF Visible
<1>5. LookAlike(d, e)
  BY <1>1, <1>3, <1>4, Zenon DEF LookAlike, Rate
<1>6. Answer(q, row, d) = Answer(q, row, e) /\ Preflight(row, d) = Preflight(row, e)
  BY <1>1, <1>5, AnswersIgnoreHidden
<1> QED BY <1>6 DEF e

-----------------------------------------------------------------------------
(* The policy leaves ties open and nothing else. *)

\* Two answers that both choose, and both as the strategy and the policy ask,
\* choose at the same prices: of all, or brand by brand. What FollowsPolicy says
\* of the code's choice is therefore the whole of it, but for ties.
THEOREM PolicyFixesPrices ==
    ASSUME NEW q, NEW row, NEW db \in Views, NEW a, NEW b,
           FollowsPolicy(q, row, a, db), FollowsPolicy(q, row, b, db),
           b.chosen # {}
    PROVE  \A c \in a.chosen : \E d \in b.chosen :
              /\ Rivals(c, d, q.strategy) /\ c.price = d.price
              /\ \A x \in b.chosen : Rivals(c, x, q.strategy) => x = d
<1> DEFINE field == Contenders(q, row, db)
           policy == EffectivePolicy(q, row)
           tiered == ~ExactCode(row) /\ policy.mode = "PRIORITY_FALLBACK"
           beaten(c, d) == Rivals(c, d, q.strategy) /\ d.price < c.price
<1>1. \A c \in field : c.price \in Nat
  BY HitsAreFair, FilteredAreHits, MarkedAreFair DEF Contenders, Fair, Candidates
<1>2. ASSUME NEW x, FollowsPolicy(q, row, x, db)
      PROVE  /\ x.chosen \subseteq field
             /\ \A c \in x.chosen, d \in field :
                   /\ ~(tiered /\ Earlier(d, c, policy))
                   /\ (tiered /\ Earlier(c, d, policy)) \/ ~beaten(c, d)
             /\ \A c, d \in x.chosen : Rivals(c, d, q.strategy) => c = d
             /\ x.chosen # {} =>
                   \A d \in field : \E c \in x.chosen :
                       Rivals(c, d, q.strategy) \/ (tiered /\ Earlier(c, d, policy))
  BY <1>2, Zenon DEF FollowsPolicy
<1> SUFFICES ASSUME NEW c \in a.chosen
             PROVE  \E d \in b.chosen :
                       /\ Rivals(c, d, q.strategy) /\ c.price = d.price
                       /\ \A x \in b.chosen : Rivals(c, x, q.strategy) => x = d
  OBVIOUS
<1> HIDE DEF field, policy, tiered, beaten
<1>3. c \in field
  BY <1>2
<1>4. PICK d \in b.chosen : Rivals(d, c, q.strategy) \/ (tiered /\ Earlier(d, c, policy))
  BY <1>2, <1>3
<1>5. d \in field
  BY <1>2
<1>6. Rivals(d, c, q.strategy) /\ Rivals(c, d, q.strategy)
  BY <1>2, <1>4, <1>5 DEF Rivals
<1>7. ~(tiered /\ Earlier(c, d, policy)) /\ ~(tiered /\ Earlier(d, c, policy))
  BY <1>2, <1>3, <1>5
<1>8. ~beaten(c, d) /\ ~beaten(d, c)
  BY <1>2, <1>3, <1>5, <1>7
<1>9. c.price = d.price
  BY <1>1, <1>3, <1>5, <1>6, <1>8 DEF beaten
<1>10. \A x \in b.chosen : Rivals(c, x, q.strategy) => x = d
  BY <1>2, <1>6 DEF Rivals
<1> QED BY <1>6, <1>9, <1>10

=============================================================================
