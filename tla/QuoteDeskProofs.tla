---------------------------- MODULE QuoteDeskProofs ----------------------------
(***************************************************************************)
(* Proofs about the quote desk, for any catalogue, team, page and shelf of *)
(* templates.                                                              *)
(***************************************************************************)
EXTENDS QuoteDesk, QuoteMatchingProofs

\* The tables that prices are made of, as they are now.
Prices == [currency |-> db.currency, rate |-> db.rate]

\* The database as the person at the page sees it now.
Now == View(user = "admin", Prices)

\* A line that the workbook may have, as it was shown.
Good(l, view) ==
    /\ l.id \in Visible(view)
    /\ ~Blocked(view.products[l.id], view)
    /\ UnitPrice(view.products[l.id], view) = l.price
    /\ l.price > 0

Sound(l) == l.at <= changes /\ (l.at = changes => Good(l, Now))

\* An answer gives a reason for what it says, and one that a row without lines
\* may have if it shows nothing.
Coherent(ans) ==
    /\ ans.lifecycle = LifecycleOf(ans.reason)
    /\ ans.shown = {} => ans.lifecycle \in {"UNRESOLVED", "BLOCKED", "REVIEW"}

\* What is on the page is no younger than the data, and true if it is as old.
\* Its answers are coherent however old they are.
PageInv ==
    /\ DOMAIN page.results \subseteq RowIds
    /\ \A r \in DOMAIN page.results : Coherent(page.results[r])
    /\ page.at <= changes
    /\ page.at = changes =>
          \A r \in DOMAIN page.results : page.results[r] \in AnswersOf(Fair(Now))
    /\ \A r \in RowIds : \A l \in page.picks[r] : Sound(l)

\* So is what a match has read and answered.
MatchInv ==
    match # Idle =>
        /\ match.at <= changes
        /\ match.stage \in {"admitted", "mapped", "priced"} => ValidQuery(match.query)
        /\ DOMAIN match.answers \subseteq RowIds
        /\ \A r \in DOMAIN match.answers : Coherent(match.answers[r])
        /\ match.stage = "mapped" /\ match.at = changes =>
              match.prices.currency = db.currency
        /\ match.stage = "priced" /\ match.at = changes => match.prices = Prices
        /\ match.stage = "answered" /\ match.at = changes =>
              \A r \in DOMAIN match.answers : match.answers[r] \in AnswersOf(Fair(Now))

\* So are the lines of an export of the page, and it may show prices. Every row
\* without lines gives a reason that is believed, unless it is marked as
\* exported.
ExportInv ==
    export # Idle =>
        /\ export.at <= changes
        /\ export.source = "page" => DOMAIN export.items \subseteq RowIds
        /\ export.source = "page" =>
              \A r \in DOMAIN export.items :
                 /\ \A l \in export.items[r].lines : Sound(l)
                 /\ \/ Believed(export.items[r])
                    \/ export.items[r].reason = "EXPORTED_SUCCESSFULLY"
        /\ export.stage = "mapped" /\ export.at = changes =>
              export.prices.currency = db.currency
        /\ export.stage = "priced" /\ export.at = changes => export.prices = Prices
        /\ /\ export.stage \in {"admitted", "resolved", "mapped", "priced"}
           /\ export.source = "page" /\ ~export.theirs
           => "VIEW_PRICE" \in export.grants

\* Whoever holds the row of a template holds an open one, alone; one activates
\* at a time; a template that is found unassigned stays so while it is held.
Holds(a) ==
    work[a] # Idle /\ work[a].kind \in {"activate", "archive", "archiving"}

ShelfInv ==
    /\ \A a \in Keepers : Holds(a) =>
          work[a].template \in Templates /\ templates[work[a].template] = "open"
    /\ \A a, b \in Keepers : a # b /\ Holds(a) /\ Holds(b) =>
          work[a].template # work[b].template
    /\ \A a \in Keepers : work[a] # Idle /\ work[a].kind = "archiving" =>
          assigned # work[a].template

IInv == TypeOK /\ PageInv /\ MatchInv /\ ExportInv /\ ShelfInv /\ TemplatesStayOpen

-----------------------------------------------------------------------------
(* Sequences, views and prices. *)

\* A function over the domain of a sequence is a sequence.
LEMMA FunctionIsSequence ==
    ASSUME NEW S, NEW n \in Nat, NEW f \in [1..n -> S]
    PROVE  f \in Seq(S) /\ DOMAIN f = 1..n
OBVIOUS

\* The domain of a sequence.
LEMMA DomainOfSequence ==
    ASSUME NEW S, NEW s \in Seq(S)
    PROVE  /\ \E n \in Nat : DOMAIN s = 1..n
           /\ \A r \in DOMAIN s : s[r] \in S
<1>1. Len(s) \in Nat /\ DOMAIN s = 1..Len(s)
  OBVIOUS
<1>2. \A r \in DOMAIN s : s[r] \in S
  OBVIOUS
<1> QED BY <1>1, <1>2

LEMMA EmptyIsSequence ==
    ASSUME NEW S PROVE <<>> \in Seq(S) /\ DOMAIN <<>> = {}
OBVIOUS

\* The tables of prices are read as they are.
LEMMA PricesTyped == TypeOK => Prices \in PriceTables
BY DEF TypeOK, Catalogue, Prices, PriceTables

\* What a statement sees is a database.
LEMMA ViewTyped ==
    ASSUME TypeOK, NEW all, NEW prices \in PriceTables
    PROVE  View(all, prices) \in Views
<1>1. Scope(all) \in SUBSET Brands
  BY DEF Scope, TypeOK, Team
<1> QED BY <1>1 DEF View, Views, PriceTables, TypeOK, Catalogue

\* Fair candidates are candidates, so answers made of them are answers.
LEMMA AnswersTyped == ASSUME NEW view PROVE AnswersOf(Fair(view)) \subseteq Answers
<1>1. Fair(view) \subseteq Candidates /\ Given \subseteq Reasons
  BY DEF Fair, Given
<1> QED BY <1>1 DEF AnswersOf, Answers

\* An answer is coherent: one that shows nothing chooses nothing, so the policy
\* does not let it say that something is selected.
LEMMA AnswersCohere ==
    ASSUME NEW q \in Queries, ValidQuery(q), NEW i \in DOMAIN q.rows, NEW view \in Views
    PROVE  Coherent(Answer(q, q.rows[i], view))
<1> DEFINE ans == Answer(q, q.rows[i], view)
<1>1. ans \in AnswersOf(Fair(view)) /\ FollowsPolicy(q, q.rows[i], ans, view)
  BY AnswersFromFair, AnswersFollow
<1> HIDE DEF ans
<1>2. ans.reason \in Given /\ ans.chosen \subseteq ans.shown
  BY <1>1 DEF AnswersOf
<1>3. /\ ans.lifecycle = LifecycleOf(ans.reason)
      /\ ans.lifecycle = "SELECTED" => ans.chosen # {}
  BY <1>1 DEF FollowsPolicy
<1>4. LifecycleOf(ans.reason) \in {"UNRESOLVED", "BLOCKED", "REVIEW", "SELECTED"}
  BY <1>2 DEF LifecycleOf, Given, Reasons, Unresolved, ToReview
<1>5. ans.shown = {} => ans.lifecycle \in {"UNRESOLVED", "BLOCKED", "REVIEW"}
  BY <1>2, <1>3, <1>4
<1> QED BY <1>3, <1>5 DEF Coherent, ans

\* A fair candidate that may be quoted makes a good line.
LEMMA EligibleIsGood ==
    ASSUME NEW view, NEW c \in Fair(view), Eligible(c), NEW at
    PROVE  Good(LineOf(c, at), view)
BY DEF Fair, Eligible, Good, LineOf, Candidates

LEMMA LineTyped ==
    ASSUME NEW c \in Candidates, NEW at \in Nat
    PROVE  LineOf(c, at) \in Lines
BY DEF LineOf, Lines, Candidates

\* The view of the person depends on the data only.
LEMMA NowStays ==
    ASSUME UNCHANGED dataVars
    PROVE  Now' = Now /\ Prices' = Prices /\ db' = db
BY DEF dataVars, Now, View, Scope, Prices

LEMMA SoundStays ==
    ASSUME UNCHANGED dataVars, NEW l, Sound(l) PROVE Sound(l)'
BY NowStays DEF Sound, dataVars

LEMMA PageStays ==
    ASSUME PageInv, UNCHANGED page, UNCHANGED dataVars PROVE PageInv'
<1>1. Now' = Now /\ changes' = changes /\ page' = page
  BY NowStays DEF dataVars
<1>2. \A l : Sound(l)' <=> Sound(l)
  BY <1>1 DEF Sound
<1> QED BY <1>1, <1>2 DEF PageInv

LEMMA MatchStays ==
    ASSUME MatchInv, UNCHANGED match, UNCHANGED dataVars PROVE MatchInv'
<1>1. /\ Now' = Now /\ Prices' = Prices /\ changes' = changes /\ match' = match
      /\ db' = db
  BY NowStays DEF dataVars
<1> QED BY <1>1 DEF MatchInv

LEMMA ExportStays ==
    ASSUME ExportInv, UNCHANGED export, UNCHANGED dataVars PROVE ExportInv'
<1>1. /\ Now' = Now /\ Prices' = Prices /\ changes' = changes /\ export' = export
      /\ db' = db
  BY NowStays DEF dataVars
<1>2. \A l : Sound(l)' <=> Sound(l)
  BY <1>1 DEF Sound
<1> QED BY <1>1, <1>2 DEF ExportInv, RowIds

LEMMA ShelfStays ==
    ASSUME ShelfInv, TemplatesStayOpen, UNCHANGED shelfVars
    PROVE  ShelfInv' /\ TemplatesStayOpen'
BY DEF ShelfInv, Holds, TemplatesStayOpen, shelfVars

\* A page that is typed and sound makes the invariant of the page.
LEMMA PageKept ==
    ASSUME UNCHANGED dataVars, DOMAIN page'.results \subseteq RowIds,
           \A r \in DOMAIN page'.results : Coherent(page'.results[r]),
           page'.at <= changes,
           page'.at = changes =>
              \A r \in DOMAIN page'.results : page'.results[r] \in AnswersOf(Fair(Now)),
           \A r \in RowIds : \A l \in page'.picks[r] : Sound(l)
    PROVE  PageInv'
<1>1. Now' = Now /\ changes' = changes
  BY NowStays DEF dataVars
<1>2. \A l : Sound(l)' <=> Sound(l)
  BY <1>1 DEF Sound
<1>3. RowIds' = RowIds
  BY DEF RowIds
<1> QED BY <1>1, <1>2, <1>3 DEF PageInv

-----------------------------------------------------------------------------
(* The page. *)

LEMMA EditQueryKeeps ==
    ASSUME TypeOK, PageInv, NEW q \in Edits, EditQuery(q)
    PROVE  TypeOK' /\ PageInv'
<1>1. q \in Inquiries /\ page \in Pages /\ NoPicks \in [RowIds -> SUBSET Lines]
  BY DEF Inquiries, TypeOK, NoPicks
<1>2. <<>> \in Seq(Answers) /\ DOMAIN <<>> = {}
  BY EmptyIsSequence
<1>3. CASE page.results = <<>>
  <2>1. page' = [page EXCEPT !.query = q]
    BY <1>3 DEF EditQuery
  <2>2. page' \in Pages /\ page'.results = page.results /\ page'.at = page.at
        /\ page'.picks = page.picks
    BY <1>1, <2>1 DEF Pages
  <2>3. PageInv'
    BY <2>2, PageKept DEF EditQuery, PageInv
  <2> QED BY <2>2, <2>3 DEF EditQuery, TypeOK, dataVars, shelfVars
<1>4. CASE page.results # <<>>
  <2>1. page' = [query |-> q, results |-> <<>>, at |-> page.at,
                 picks |-> NoPicks, touched |-> {}, exported |-> {}]
    BY <1>4 DEF EditQuery
  <2>2. page' \in Pages /\ page'.results = <<>> /\ page'.at = page.at
        /\ page'.picks = NoPicks
    BY <1>1, <1>2, <2>1 DEF Pages
  <2>3. PageInv'
    BY <1>2, <2>2, PageKept DEF EditQuery, PageInv, NoPicks
  <2> QED BY <2>2, <2>3 DEF EditQuery, TypeOK, dataVars, shelfVars
<1> QED BY <1>3, <1>4

LEMMA SendMatchKeeps ==
    ASSUME TypeOK, PageInv, MatchInv, SendMatch
    PROVE  TypeOK' /\ PageInv' /\ MatchInv'
<1>1. page \in Pages /\ NoPicks \in [RowIds -> SUBSET Lines]
  BY DEF TypeOK, NoPicks
<1>2. page' = [page EXCEPT !.picks = NoPicks, !.touched = {}]
  BY DEF SendMatch
<1>3. /\ page' \in Pages /\ page'.results = page.results /\ page'.at = page.at
      /\ page'.picks = NoPicks /\ page.query \in Inquiries
  BY <1>1, <1>2 DEF Pages
<1>4. PageInv'
  BY <1>3, PageKept DEF SendMatch, PageInv, NoPicks
<1>5. <<>> \in Seq(Answers) /\ DOMAIN <<>> = {}
  BY EmptyIsSequence
<1>6. NoPrices \in PriceTables
  BY DEF NoPrices, PriceTables
<1>7. match' = [stage |-> "sent", query |-> page.query, prices |-> NoPrices,
                at |-> 0, answers |-> <<>>]
  BY DEF SendMatch
<1>8. match' \in MatchRequests
  BY <1>3, <1>5, <1>6, <1>7 DEF MatchRequests
<1>9. changes \in Nat /\ changes' = changes
  BY DEF SendMatch, dataVars, TypeOK
<1>10. MatchInv'
  <2>1. match'.stage = "sent" /\ match'.at = 0 /\ match'.answers = <<>>
    BY <1>7
  <2> QED BY <2>1, <1>5, <1>9 DEF MatchInv
<1> QED BY <1>3, <1>4, <1>8, <1>10 DEF SendMatch, TypeOK, Counted, dataVars, shelfVars

LEMMA TickKeeps ==
    ASSUME TypeOK, PageInv, NEW r \in DOMAIN page.results,
           NEW c \in page.results[r].shown, Tick(r, c)
    PROVE  TypeOK' /\ PageInv'
<1> DEFINE old == page.picks[r]
           same == {l \in old : l.id = c.id}
           new == IF same # {} THEN old \ same ELSE old \cup {LineOf(c, page.at)}
<1>1. page \in Pages /\ page.results \in Seq(Answers) /\ page.at \in Nat
      /\ page.picks \in [RowIds -> SUBSET Lines] /\ page.touched \in SUBSET RowIds
  BY DEF TypeOK, Pages
<1>2. page.results[r] \in Answers /\ r \in RowIds
  BY <1>1, DomainOfSequence DEF PageInv
<1>3. c \in Candidates
  BY <1>2 DEF Answers
<1>4. LineOf(c, page.at) \in Lines
  BY <1>1, <1>3, LineTyped
<1>5. old \in SUBSET Lines
  BY <1>1, <1>2
<1>6. new \in SUBSET Lines
  BY <1>4, <1>5
<1>7. Sound(LineOf(c, page.at))
  <2>1. Eligible(c)
    BY DEF Tick, Selectable
  <2>2. CASE page.at = changes
    <3>1. page.results[r] \in AnswersOf(Fair(Now))
      BY <2>2 DEF PageInv
    <3>2. c \in Fair(Now)
      BY <3>1 DEF AnswersOf
    <3> QED BY <2>1, <2>2, <3>2, EligibleIsGood DEF Sound, PageInv, LineOf
  <2>3. CASE page.at # changes
    BY <2>3 DEF Sound, PageInv, LineOf
  <2> QED BY <2>2, <2>3
<1>8. \A l \in new : Sound(l)
  BY <1>2, <1>7 DEF PageInv
<1>9. page' = [page EXCEPT !.touched = @ \cup {r}, !.picks[r] = new]
  BY DEF Tick
<1> HIDE DEF new
<1>10. /\ page' \in Pages /\ page'.results = page.results /\ page'.at = page.at
       /\ page'.picks = [page.picks EXCEPT ![r] = new]
  <2>1. page'.picks = [page.picks EXCEPT ![r] = new]
    BY <1>1, <1>9 DEF Pages
  <2>2. [page.picks EXCEPT ![r] = new] \in [RowIds -> SUBSET Lines]
    BY <1>1, <1>6
  <2>3. page.touched \cup {r} \in SUBSET RowIds
    BY <1>1, <1>2
  <2> QED BY <1>1, <1>9, <2>1, <2>2, <2>3 DEF Pages
<1>11. \A x \in RowIds : \A l \in page'.picks[x] : Sound(l)
  BY <1>1, <1>8, <1>10 DEF PageInv
<1>12. PageInv'
  BY <1>10, <1>11, PageKept DEF Tick, PageInv
<1> QED BY <1>10, <1>12 DEF Tick, TypeOK, dataVars, shelfVars

\* The lines that go out for a row are lines that are sound.
LEMMA LinesSound ==
    ASSUME TypeOK, PageInv, NEW r \in DOMAIN page.results
    PROVE  ChosenLines(r) \in SUBSET Lines /\ \A l \in ChosenLines(r) : Sound(l)
<1>1. page \in Pages /\ page.results \in Seq(Answers) /\ page.at \in Nat
      /\ page.picks \in [RowIds -> SUBSET Lines]
  BY DEF TypeOK, Pages
<1>2. page.results[r] \in Answers /\ r \in RowIds
  BY <1>1, DomainOfSequence DEF PageInv
<1>3. CASE r \in page.touched
  BY <1>1, <1>2, <1>3 DEF ChosenLines, PageInv
<1>4. CASE r \notin page.touched
  <2>1. ASSUME NEW l \in ChosenLines(r) PROVE l \in Lines /\ Sound(l)
    <3>1. PICK c \in page.results[r].chosen : Eligible(c) /\ l = LineOf(c, page.at)
      BY <1>4, <2>1 DEF ChosenLines
    <3>2. c \in Candidates
      BY <1>2, <3>1 DEF Answers
    <3>3. l \in Lines
      BY <1>1, <3>1, <3>2, LineTyped
    <3>4. l.at = page.at
      BY <3>1 DEF LineOf
    <3>5. ASSUME page.at = changes PROVE Good(l, Now)
      <4>1. page.results[r] \in AnswersOf(Fair(Now))
        BY <3>5 DEF PageInv
      <4>2. c \in Fair(Now)
        BY <3>1, <4>1 DEF AnswersOf
      <4> QED BY <3>1, <4>2, EligibleIsGood
    <3> QED BY <3>3, <3>4, <3>5 DEF Sound, PageInv
  <2> QED BY <2>1
<1> QED BY <1>3, <1>4

LEMMA ReasonShownTyped ==
    ASSUME TypeOK, NEW r \in DOMAIN page.results
    PROVE  ReasonShown(r) \in Reasons /\ LifecycleShown(r) \in Lifecycles
<1>1. page.results[r] \in Answers
  BY DomainOfSequence DEF TypeOK, Pages
<1>2. page.results[r].reason \in Reasons
  BY <1>1 DEF Answers
<1>3. {"EXPORTED_SUCCESSFULLY", "DUPLICATE_CODE_BRAND_SIZE", "MANUAL_SELECTION_REQUIRED",
       "COMPLIANCE_BLOCKED", "NO_VALID_PRICE"} \subseteq Reasons
  BY DEF Reasons, ToReview
<1>4. ReasonShown(r) \in Reasons
  BY <1>2, <1>3 DEF ReasonShown
<1>5. LifecycleShown(r) \in {"BLOCKED", "REVIEW", "UNRESOLVED"}
  BY DEF LifecycleShown
<1> QED BY <1>4, <1>5 DEF Lifecycles

\* What a row says of itself is believed, unless it is marked as exported.
LEMMA RowsBelieved ==
    ASSUME PageInv, NEW r \in DOMAIN page.results
    PROVE  Believed(ItemOf(r)) \/ ItemOf(r).reason = "EXPORTED_SUCCESSFULLY"
<1> DEFINE ans == page.results[r]
<1>1. /\ ItemOf(r).reason = ReasonShown(r)
      /\ ItemOf(r).lifecycle = LifecycleShown(r)
  BY DEF ItemOf
<1>2. CASE r \in page.exported
  BY <1>1, <1>2 DEF ReasonShown
<1>3. CASE r \notin page.exported /\ ans.shown = {}
  <2>1. /\ ans.lifecycle = LifecycleOf(ans.reason)
        /\ ans.lifecycle \in {"UNRESOLVED", "BLOCKED", "REVIEW"}
    BY <1>3 DEF PageInv, Coherent
  <2>2. ReasonShown(r) = ans.reason /\ LifecycleShown(r) = ans.lifecycle
    BY <1>3, <2>1 DEF ReasonShown, LifecycleShown
  <2> QED BY <1>1, <2>1, <2>2 DEF Believed
<1>4. CASE r \notin page.exported /\ ans.shown # {}
  <2>1. ReasonShown(r) \in {"DUPLICATE_CODE_BRAND_SIZE", "MANUAL_SELECTION_REQUIRED",
                            "COMPLIANCE_BLOCKED", "NO_VALID_PRICE"}
    BY <1>4 DEF ReasonShown
  <2>2. LifecycleOf(ReasonShown(r)) \in {"REVIEW", "BLOCKED"}
    BY <2>1 DEF LifecycleOf, Unresolved, ToReview
  <2>3. LifecycleShown(r) = LifecycleOf(ReasonShown(r))
    BY <1>4, <2>2 DEF LifecycleShown
  <2> QED BY <1>1, <2>2, <2>3 DEF Believed
<1> QED BY <1>2, <1>3, <1>4

LEMMA SendExportKeeps ==
    ASSUME TypeOK, PageInv, ExportInv, NEW choice \in Choices, SendExport(choice)
    PROVE  TypeOK' /\ ExportInv'
<1> DEFINE items == [r \in DOMAIN page.results |-> ItemOf(r)]
<1>1. \A r \in DOMAIN page.results : ItemOf(r) \in Items
  BY LinesSound, ReasonShownTyped DEF ItemOf, Items
<1>2. items \in Seq(Items)
  <2>1. PICK n \in Nat : DOMAIN page.results = 1..n
    BY DomainOfSequence DEF TypeOK, Pages
  <2>2. items \in [1..n -> Items]
    BY <1>1, <2>1
  <2> HIDE DEF items
  <2> QED BY <2>2, FunctionIsSequence
<1>3. /\ \A r \in DOMAIN items : \A l \in items[r].lines : Sound(l)
      /\ \A r \in DOMAIN items :
            Believed(items[r]) \/ items[r].reason = "EXPORTED_SUCCESSFULLY"
  <2>1. \A r \in DOMAIN page.results :
           /\ \A l \in ItemOf(r).lines : Sound(l)
           /\ Believed(ItemOf(r)) \/ ItemOf(r).reason = "EXPORTED_SUCCESSFULLY"
    BY LinesSound, RowsBelieved DEF ItemOf
  <2> QED BY <2>1
<1>4. choice.theirs \in BOOLEAN /\ choice.template \in Templates \cup {None}
  BY DeskConstants
<1>5. NoPrices \in PriceTables
  BY DEF NoPrices, PriceTables
<1>6. <<>> \in Seq(SUBSET [id : Ids, price : Nat])
  BY EmptyIsSequence
<1> HIDE DEF items
<1>7. export' = [stage |-> "sent", source |-> "page", items |-> items,
                 theirs |-> choice.theirs, template |-> choice.template, grants |-> {},
                 prices |-> NoPrices, at |-> 0, doc |-> <<>>]
  BY DEF SendExport, items
<1>8. export' \in ExportRequests
  BY <1>2, <1>4, <1>5, <1>6, <1>7 DEF ExportRequests
<1>9. \A l : Sound(l)' <=> Sound(l)
  BY NowStays DEF SendExport, Sound, dataVars
<1>10. changes \in Nat /\ changes' = changes
  BY DEF SendExport, dataVars, TypeOK
<1>11. ExportInv'
  <2>1. /\ export'.stage = "sent" /\ export'.at = 0 /\ export'.items = items
    BY <1>7
  <2>2. DOMAIN items \subseteq RowIds
    BY DEF items, PageInv
  <2> QED BY <2>1, <2>2, <1>3, <1>9, <1>10 DEF ExportInv, RowIds
<1> QED BY <1>8, <1>11 DEF SendExport, TypeOK, Counted, dataVars, shelfVars

LEMMA SendPostedKeeps ==
    ASSUME TypeOK, ExportInv, NEW S \in Posts, NEW choice \in Choices, SendPosted(S, choice)
    PROVE  TypeOK' /\ ExportInv'
<1> DEFINE item == [lines |-> [id : S, price : {0}, at : {0}],
                    lifecycle |-> "UNRESOLVED", reason |-> "NO_MATCH"]
<1>1. item \in Items
  <2>1. S \subseteq Ids
    BY DeskConstants
  <2>2. [id : S, price : {0}, at : {0}] \subseteq Lines
    BY <2>1 DEF Lines
  <2>3. "UNRESOLVED" \in Lifecycles /\ "NO_MATCH" \in Reasons
    BY DEF Lifecycles, Reasons, Unresolved
  <2> QED BY <2>2, <2>3 DEF Items
<1> HIDE DEF item
<1>2. <<item>> \in Seq(Items)
  BY <1>1
<1>4. choice.theirs \in BOOLEAN /\ choice.template \in Templates \cup {None}
  BY DeskConstants
<1>5. NoPrices \in PriceTables
  BY DEF NoPrices, PriceTables
<1>6. <<>> \in Seq(SUBSET [id : Ids, price : Nat])
  BY EmptyIsSequence
<1>7. export' = [stage |-> "sent", source |-> "results", items |-> <<item>>,
                 theirs |-> choice.theirs, template |-> choice.template, grants |-> {},
                 prices |-> NoPrices, at |-> 0, doc |-> <<>>]
  BY DEF SendPosted, item
<1>8. export' \in ExportRequests
  BY <1>2, <1>4, <1>5, <1>6, <1>7 DEF ExportRequests
<1>10. changes \in Nat /\ changes' = changes
  BY DEF SendPosted, dataVars, TypeOK
<1>11. ExportInv'
  BY <1>7, <1>10 DEF ExportInv
<1> QED BY <1>8, <1>11 DEF SendPosted, TypeOK, Counted, dataVars, shelfVars

-----------------------------------------------------------------------------
(* The server. *)

LEMMA AdmitMatchKeeps ==
    ASSUME TypeOK, MatchInv, AdmitMatch PROVE TypeOK' /\ MatchInv'
<1>1. PICK stage \in {"admitted", "failed"} :
         /\ match' = [match EXCEPT !.stage = stage]
         /\ stage = "admitted" => ValidQuery(match.query)
  BY DEF AdmitMatch
<1>2. match \in MatchRequests
  BY DEF AdmitMatch, TypeOK
<1>3. /\ match' \in MatchRequests /\ match'.stage = stage /\ match'.at = match.at
      /\ match'.answers = match.answers /\ match'.query = match.query
  BY <1>1, <1>2 DEF MatchRequests
<1>4. MatchInv'
  BY <1>1, <1>3 DEF MatchInv, AdmitMatch, dataVars, RowIds
<1> QED BY <1>3, <1>4 DEF AdmitMatch, TypeOK, dataVars, shelfVars

LEMMA MatchCurrenciesKeeps ==
    ASSUME TypeOK, MatchInv, MatchCurrencies PROVE TypeOK' /\ MatchInv'
<1>1. match' = [match EXCEPT !.stage = "mapped", !.prices.currency = db.currency,
                             !.at = changes]
  BY DEF MatchCurrencies
<1>2. match \in MatchRequests /\ db \in Catalogue /\ changes \in Nat
  BY DEF MatchCurrencies, TypeOK
<1>3. [match.prices EXCEPT !.currency = db.currency] \in PriceTables
  BY <1>2 DEF MatchRequests, PriceTables, Catalogue
<1>4. /\ match' \in MatchRequests /\ match'.stage = "mapped" /\ match'.at = changes
      /\ match'.answers = match.answers /\ match'.query = match.query
      /\ match'.prices.currency = db.currency
  BY <1>1, <1>2, <1>3 DEF MatchRequests, PriceTables
<1>5. db' = db /\ changes' = changes
  BY DEF MatchCurrencies, dataVars
<1>6. MatchInv'
  BY <1>2, <1>4, <1>5 DEF MatchInv, MatchCurrencies, RowIds
<1> QED BY <1>4, <1>6 DEF MatchCurrencies, TypeOK, dataVars, shelfVars

LEMMA MatchRatesKeeps ==
    ASSUME TypeOK, MatchInv, MatchRates PROVE TypeOK' /\ MatchInv'
<1>1. match' = [match EXCEPT !.stage = "priced", !.prices.rate = db.rate]
  BY DEF MatchRates
<1>2. /\ match \in MatchRequests /\ db \in Catalogue /\ changes \in Nat
      /\ match # Idle /\ match.stage = "mapped"
  BY DEF MatchRates, TypeOK
<1>3. /\ [match.prices EXCEPT !.rate = db.rate] \in PriceTables
      /\ [match.prices EXCEPT !.rate = db.rate] =
            [currency |-> match.prices.currency, rate |-> db.rate]
  BY <1>2 DEF MatchRequests, PriceTables, Catalogue
<1>4. /\ match' \in MatchRequests /\ match'.stage = "priced" /\ match'.at = match.at
      /\ match'.answers = match.answers /\ match'.query = match.query
      /\ match'.prices = [currency |-> match.prices.currency, rate |-> db.rate]
  BY <1>1, <1>2, <1>3 DEF MatchRequests
<1>5. Prices' = Prices /\ changes' = changes
  BY NowStays DEF MatchRates, dataVars
<1>6. match.at = changes => match'.prices = Prices
  BY <1>2, <1>4 DEF MatchInv, Prices
<1>7. MatchInv'
  BY <1>2, <1>4, <1>5, <1>6 DEF MatchInv, RowIds
<1> QED BY <1>4, <1>7 DEF MatchRates, TypeOK, dataVars, shelfVars

LEMMA AnswerMatchKeeps ==
    ASSUME TypeOK, MatchInv, AnswerMatch PROVE TypeOK' /\ MatchInv'
<1> DEFINE view == View(user = "admin", match.prices)
           rows == match.query.rows
           answers == [r \in DOMAIN rows |-> Answer(match.query, rows[r], view)]
<1>1. /\ match \in MatchRequests /\ match.stage = "priced" /\ match # Idle
      /\ match' = [match EXCEPT !.stage = "answered", !.answers = answers]
  BY DEF AnswerMatch, TypeOK
<1>2. match.prices \in PriceTables /\ match.query \in Inquiries
  BY <1>1 DEF MatchRequests
<1>3. view \in Views
  BY <1>2, ViewTyped
<1> HIDE DEF view
<1>4. \A r \in DOMAIN rows : answers[r] \in AnswersOf(Fair(view))
  BY <1>3, AnswersFromFair
<1>5. match.query \in Queries /\ DOMAIN rows \subseteq RowIds
  BY <1>2, DeskConstants DEF Inquiries, RowIds
<1>6. \A r \in DOMAIN rows : Coherent(answers[r])
  <2>1. ValidQuery(match.query)
    BY <1>1 DEF MatchInv
  <2> QED BY <1>3, <1>5, <2>1, AnswersCohere
<1>7. answers \in Seq(Answers) /\ DOMAIN answers = DOMAIN rows
  <2>1. PICK n \in Nat : DOMAIN rows = 1..n
    BY <1>5, DomainOfSequence DEF Queries
  <2>2. \A r \in DOMAIN rows : answers[r] \in Answers
    BY <1>4, AnswersTyped
  <2>3. answers \in [1..n -> Answers] /\ DOMAIN answers = DOMAIN rows
    BY <2>1, <2>2
  <2> HIDE DEF answers
  <2> QED BY <2>1, <2>3, FunctionIsSequence
<1> HIDE DEF answers
<1>8. /\ match' \in MatchRequests /\ match'.stage = "answered" /\ match'.at = match.at
      /\ match'.answers = answers
  BY <1>1, <1>7 DEF MatchRequests
<1>9. Now' = Now /\ changes' = changes
  BY NowStays DEF AnswerMatch, dataVars
<1>10. match.at = changes => view = Now
  BY <1>1 DEF MatchInv, view, Now
<1>11. MatchInv'
  BY <1>1, <1>4, <1>5, <1>6, <1>7, <1>8, <1>9, <1>10 DEF MatchInv, RowIds
<1> QED BY <1>8, <1>11 DEF AnswerMatch, TypeOK, dataVars, shelfVars

LEMMA ReceiveMatchKeeps ==
    ASSUME TypeOK, PageInv, MatchInv, NEW lost \in BOOLEAN, ReceiveMatch(lost)
    PROVE  TypeOK' /\ PageInv' /\ MatchInv'
<1>1. page \in Pages /\ match \in MatchRequests /\ match # Idle
  BY DEF ReceiveMatch, TypeOK
<1>2. <<>> \in Seq(Answers) /\ DOMAIN <<>> = {}
  BY EmptyIsSequence
<1>3. CASE ~lost /\ match.stage = "answered"
  <2>1. page' = [page EXCEPT !.results = match.answers, !.at = match.at]
    BY <1>3 DEF ReceiveMatch
  <2>2. /\ page' \in Pages /\ page'.results = match.answers /\ page'.at = match.at
        /\ page'.picks = page.picks
    BY <1>1, <2>1 DEF Pages, MatchRequests
  <2>3. PageInv'
    BY <1>1, <1>3, <2>2, PageKept DEF ReceiveMatch, PageInv, MatchInv
  <2> QED BY <2>2, <2>3 DEF ReceiveMatch, MatchInv, TypeOK, dataVars, shelfVars
<1>4. CASE ~(~lost /\ match.stage = "answered")
  <2>1. page' = [page EXCEPT !.results = <<>>]
    BY <1>4 DEF ReceiveMatch
  <2>2. /\ page' \in Pages /\ page'.results = <<>> /\ page'.at = page.at
        /\ page'.picks = page.picks
    BY <1>1, <1>2, <2>1 DEF Pages
  <2>3. PageInv'
    BY <1>2, <2>2, PageKept DEF ReceiveMatch, PageInv
  <2> QED BY <2>2, <2>3 DEF ReceiveMatch, MatchInv, TypeOK, dataVars, shelfVars
<1> QED BY <1>3, <1>4

\* An export of the page under way keeps its lines and whose it is.
LEMMA ExportKept ==
    ASSUME ExportInv, export # Idle, UNCHANGED dataVars,
           export'.source = export.source, export'.items = export.items,
           export'.theirs = export.theirs, export'.at <= changes,
           export'.stage = "mapped" /\ export'.at = changes =>
              export'.prices.currency = db.currency,
           export'.stage = "priced" /\ export'.at = changes => export'.prices = Prices,
           /\ export'.stage \in {"admitted", "resolved", "mapped", "priced"}
           /\ export'.source = "page" /\ ~export'.theirs
           => "VIEW_PRICE" \in export'.grants
    PROVE  ExportInv'
<1>1. Prices' = Prices /\ changes' = changes /\ db' = db
  BY NowStays DEF dataVars
<1>2. \A l : Sound(l)' <=> Sound(l)
  BY NowStays DEF Sound, dataVars
<1> QED BY <1>1, <1>2 DEF ExportInv, RowIds

LEMMA AdmitExportKeeps ==
    ASSUME TypeOK, ExportInv, AdmitExport PROVE TypeOK' /\ ExportInv'
<1> DEFINE grants == IF export.theirs THEN team.keys ELSE Own
           ok == /\ ~TooLong(export.items)
                 /\ \A r \in DOMAIN export.items : Believed(export.items[r])
                 /\ Allows("EXPORT", Own)
                 /\ export.source = "page" => Allows("QUICK_QUOTE", Own)
                 /\ export.theirs => team.open /\ Allows("EXPORT", team.keys)
                 /\ export.source = "results" => Allows("SEARCH", grants)
<1>1. export \in ExportRequests /\ export # Idle /\ changes \in Nat
  BY DEF AdmitExport, TypeOK
<1>2. grants \in SUBSET Keys
  BY DEF TypeOK, Team, Own
<1>3. ok /\ export.source = "page" /\ ~export.theirs => "VIEW_PRICE" \in grants
  BY DEF Allows, Requires
<1>4. export' = IF ok THEN [export EXCEPT !.stage = "admitted", !.grants = grants]
                ELSE [export EXCEPT !.stage = "failed"]
  BY DEF AdmitExport
<1> HIDE DEF grants, ok
<1>5. CASE ok
  <2>1. export' = [export EXCEPT !.stage = "admitted", !.grants = grants]
    BY <1>4, <1>5
  <2>2. /\ export' \in ExportRequests /\ export'.stage = "admitted"
        /\ export'.source = export.source /\ export'.items = export.items
        /\ export'.theirs = export.theirs /\ export'.at = export.at
        /\ export'.grants = grants
    BY <1>1, <1>2, <2>1 DEF ExportRequests
  <2>3. ExportInv'
    BY <1>1, <1>3, <1>5, <2>2, ExportKept DEF ExportInv, AdmitExport
  <2> QED BY <2>2, <2>3 DEF AdmitExport, TypeOK, dataVars, shelfVars
<1>6. CASE ~ok
  <2>1. export' = [export EXCEPT !.stage = "failed"]
    BY <1>4, <1>6
  <2>2. /\ export' \in ExportRequests /\ export'.stage = "failed"
        /\ export'.source = export.source /\ export'.items = export.items
        /\ export'.theirs = export.theirs /\ export'.at = export.at
    BY <1>1, <2>1 DEF ExportRequests
  <2>3. ExportInv'
    BY <1>1, <2>2, ExportKept DEF ExportInv, AdmitExport
  <2> QED BY <2>2, <2>3 DEF AdmitExport, TypeOK, dataVars, shelfVars
<1> QED BY <1>5, <1>6

LEMMA ResolveTemplateKeeps ==
    ASSUME TypeOK, ExportInv, ResolveTemplate PROVE TypeOK' /\ ExportInv'
<1>1. export \in ExportRequests /\ export # Idle /\ export.stage = "admitted"
      /\ changes \in Nat
  BY DEF ResolveTemplate, TypeOK
<1>2. PICK stage \in {"resolved", "failed"} : export' = [export EXCEPT !.stage = stage]
  BY DEF ResolveTemplate
<1>3. /\ export' \in ExportRequests /\ export'.stage = stage
      /\ export'.source = export.source /\ export'.items = export.items
      /\ export'.theirs = export.theirs /\ export'.at = export.at
      /\ export'.grants = export.grants
  BY <1>1, <1>2 DEF ExportRequests
<1>4. ExportInv'
  BY <1>1, <1>3, ExportKept DEF ExportInv, ResolveTemplate
<1> QED BY <1>3, <1>4 DEF ResolveTemplate, TypeOK, dataVars, shelfVars

LEMMA ExportCurrenciesKeeps ==
    ASSUME TypeOK, ExportInv, ExportCurrencies PROVE TypeOK' /\ ExportInv'
<1>1. /\ export \in ExportRequests /\ export # Idle /\ export.stage = "resolved"
      /\ changes \in Nat /\ db \in Catalogue
      /\ export' = [export EXCEPT !.stage = "mapped",
                                  !.prices.currency = db.currency, !.at = changes]
  BY DEF ExportCurrencies, TypeOK
<1>2. [export.prices EXCEPT !.currency = db.currency] \in PriceTables
  BY <1>1 DEF ExportRequests, PriceTables, Catalogue
<1>3. /\ export' \in ExportRequests /\ export'.stage = "mapped"
      /\ export'.prices.currency = db.currency
      /\ export'.source = export.source /\ export'.items = export.items
      /\ export'.theirs = export.theirs /\ export'.at = changes
      /\ export'.grants = export.grants
  BY <1>1, <1>2 DEF ExportRequests, PriceTables
<1>4. ExportInv'
  BY <1>1, <1>3, ExportKept DEF ExportInv, ExportCurrencies
<1> QED BY <1>3, <1>4 DEF ExportCurrencies, TypeOK, dataVars, shelfVars

LEMMA ExportRatesKeeps ==
    ASSUME TypeOK, ExportInv, ExportRates PROVE TypeOK' /\ ExportInv'
<1>1. /\ export \in ExportRequests /\ export # Idle /\ export.stage = "mapped"
      /\ changes \in Nat /\ db \in Catalogue
      /\ export' = [export EXCEPT !.stage = "priced", !.prices.rate = db.rate]
  BY DEF ExportRates, TypeOK
<1>2. /\ [export.prices EXCEPT !.rate = db.rate] \in PriceTables
      /\ [export.prices EXCEPT !.rate = db.rate] =
            [currency |-> export.prices.currency, rate |-> db.rate]
  BY <1>1 DEF ExportRequests, PriceTables, Catalogue
<1>3. /\ export' \in ExportRequests /\ export'.stage = "priced"
      /\ export'.prices = [currency |-> export.prices.currency, rate |-> db.rate]
      /\ export'.source = export.source /\ export'.items = export.items
      /\ export'.theirs = export.theirs /\ export'.at = export.at
      /\ export'.grants = export.grants
  BY <1>1, <1>2 DEF ExportRequests
<1>4. export.at = changes => export'.prices = Prices
  BY <1>1, <1>3 DEF ExportInv, Prices
<1>5. ExportInv'
  BY <1>1, <1>3, <1>4, ExportKept DEF ExportInv, ExportRates
<1> QED BY <1>3, <1>5 DEF ExportRates, TypeOK, dataVars, shelfVars

LEMMA BuildWorkbookKeeps ==
    ASSUME TypeOK, ExportInv, BuildWorkbook PROVE TypeOK' /\ ExportInv'
<1> DEFINE view == View(user = "admin" /\ ~export.theirs, export.prices)
           items == export.items
           ok == \A r \in DOMAIN items : \A l \in items[r].lines : Exportable(l, view)
           doc == [r \in DOMAIN items |-> {Written(l, view) : l \in items[r].lines}]
           Entries == [id : Ids, price : Nat]
<1>1. export \in ExportRequests /\ export # Idle /\ changes \in Nat
  BY DEF BuildWorkbook, TypeOK
<1>2. export' = IF ok THEN [export EXCEPT !.stage = "built", !.doc = doc]
                ELSE [export EXCEPT !.stage = "failed"]
  BY DEF BuildWorkbook
<1>3. view \in Views
  BY <1>1, ViewTyped DEF ExportRequests
<1> HIDE DEF view
<1>4. ASSUME ok PROVE doc \in Seq(SUBSET Entries)
  <2>1. ASSUME NEW r \in DOMAIN items, NEW l \in items[r].lines
        PROVE  Written(l, view) \in Entries
    <3>1. l.id \in Visible(view)
      BY <1>4, <2>1 DEF Exportable
    <3>2. l.id \in Ids /\ view.products[l.id] \in Products
      BY <1>3, <3>1, VisibleIsThere
    <3>3. UnitPrice(view.products[l.id], view) \in Nat
      BY <1>3, <3>2, PriceIsNat
    <3> QED BY <3>2, <3>3 DEF Written
  <2>2. \A r \in DOMAIN items : doc[r] \in SUBSET Entries
    BY <2>1
  <2>3. PICK n \in Nat : DOMAIN items = 1..n
    BY <1>1, DomainOfSequence DEF ExportRequests
  <2>4. doc \in [1..n -> SUBSET Entries]
    BY <2>2, <2>3
  <2> HIDE DEF doc, Entries
  <2> QED BY <2>4, FunctionIsSequence
<1> HIDE DEF ok, doc
<1>5. CASE ok
  <2>1. export' = [export EXCEPT !.stage = "built", !.doc = doc]
    BY <1>2, <1>5
  <2>2. /\ export' \in ExportRequests /\ export'.stage = "built"
        /\ export'.source = export.source /\ export'.items = export.items
        /\ export'.theirs = export.theirs /\ export'.at = export.at
    BY <1>1, <1>4, <1>5, <2>1 DEF ExportRequests
  <2>3. ExportInv'
    BY <1>1, <2>2, ExportKept DEF ExportInv, BuildWorkbook
  <2> QED BY <2>2, <2>3 DEF BuildWorkbook, TypeOK, dataVars, shelfVars
<1>6. CASE ~ok
  <2>1. export' = [export EXCEPT !.stage = "failed"]
    BY <1>2, <1>6
  <2>2. /\ export' \in ExportRequests /\ export'.stage = "failed"
        /\ export'.source = export.source /\ export'.items = export.items
        /\ export'.theirs = export.theirs /\ export'.at = export.at
    BY <1>1, <2>1 DEF ExportRequests
  <2>3. ExportInv'
    BY <1>1, <2>2, ExportKept DEF ExportInv, BuildWorkbook
  <2> QED BY <2>2, <2>3 DEF BuildWorkbook, TypeOK, dataVars, shelfVars
<1> QED BY <1>5, <1>6

LEMMA ReceiveExportKeeps ==
    ASSUME TypeOK, PageInv, ExportInv, NEW lost \in BOOLEAN, ReceiveExport(lost)
    PROVE  TypeOK' /\ PageInv' /\ ExportInv'
<1>1. page \in Pages /\ export \in ExportRequests /\ export # Idle
  BY DEF ReceiveExport, TypeOK
<1>2. ExportInv'
  BY DEF ReceiveExport, ExportInv
<1>3. CASE ~lost /\ export.stage = "built" /\ export.source = "page"
  <2> DEFINE more == page.exported \cup
                        {r \in DOMAIN export.items : export.items[r].lines # {}}
  <2>1. page' = [page EXCEPT !.exported = more]
    BY <1>3 DEF ReceiveExport
  <2>2. more \in SUBSET RowIds
    BY <1>1, <1>3 DEF ExportInv, Pages
  <2> HIDE DEF more
  <2>3. /\ page' \in Pages /\ page'.results = page.results /\ page'.at = page.at
        /\ page'.picks = page.picks
    BY <1>1, <2>1, <2>2 DEF Pages
  <2>4. PageInv'
    BY <2>3, PageKept DEF ReceiveExport, PageInv
  <2> QED BY <1>2, <2>3, <2>4 DEF ReceiveExport, TypeOK, dataVars, shelfVars
<1>4. CASE ~(~lost /\ export.stage = "built" /\ export.source = "page")
  <2>1. page' = page
    BY <1>4 DEF ReceiveExport
  <2>2. PageInv'
    BY <2>1, PageStays DEF ReceiveExport
  <2> QED BY <1>2, <2>1, <2>2 DEF ReceiveExport, TypeOK, dataVars, shelfVars
<1> QED BY <1>3, <1>4

-----------------------------------------------------------------------------
(* The data. Whatever changes is younger than all that is on the way. *)

LEMMA ChangedKeeps ==
    ASSUME IInv, Changed, db' \in Catalogue, team' \in Team
    PROVE  IInv'
<1>1. changes \in Nat /\ changes' = changes + 1
  BY DEF IInv, TypeOK, Changed
<1>2. TypeOK'
  BY <1>1 DEF IInv, TypeOK, Changed, Counted, deskVars, shelfVars
<1>3. page' = page /\ match' = match /\ export' = export /\ RowIds' = RowIds
  BY DEF Changed, deskVars, RowIds
<1>4. PageInv'
  <2>1. page \in Pages
    BY DEF IInv, TypeOK
  <2>2. page.at \in Nat /\ page.at <= changes /\ page.at # changes'
    BY <1>1, <2>1 DEF IInv, PageInv, Pages
  <2>3. ASSUME NEW r \in RowIds, NEW l \in page.picks[r]
        PROVE  l.at <= changes' /\ l.at # changes'
    <3>1. l.at \in Nat /\ l.at <= changes
      BY <2>1, <2>3 DEF IInv, PageInv, Pages, Sound, Lines
    <3> QED BY <1>1, <3>1
  <2>4. /\ DOMAIN page.results \subseteq RowIds
        /\ \A r \in DOMAIN page.results : Coherent(page.results[r])
    BY DEF IInv, PageInv
  <2> QED BY <1>1, <1>3, <2>2, <2>3, <2>4 DEF PageInv, Sound
<1>5. MatchInv'
  <2>1. ASSUME match # Idle PROVE match.at \in Nat /\ match.at <= changes
    BY <2>1 DEF IInv, TypeOK, MatchInv, MatchRequests
  <2>2. match # Idle => match.at <= changes' /\ match.at # changes'
    BY <1>1, <2>1
  <2>3. match # Idle =>
           /\ DOMAIN match.answers \subseteq RowIds
           /\ \A r \in DOMAIN match.answers : Coherent(match.answers[r])
           /\ match.stage \in {"admitted", "mapped", "priced"} => ValidQuery(match.query)
    BY DEF IInv, MatchInv
  <2> QED BY <1>3, <2>2, <2>3 DEF MatchInv
<1>6. ExportInv'
  <2>1. ASSUME export # Idle PROVE export.at \in Nat /\ export.at <= changes
    BY <2>1 DEF IInv, TypeOK, ExportInv, ExportRequests
  <2>2. export # Idle => export.at <= changes' /\ export.at # changes'
    BY <1>1, <2>1
  <2>3. ASSUME export # Idle, export.source = "page", NEW r \in DOMAIN export.items,
               NEW l \in export.items[r].lines
        PROVE  l.at <= changes' /\ l.at # changes'
    <3>1. export.items \in Seq(Items)
      BY <2>3 DEF IInv, TypeOK, ExportRequests
    <3>2. export.items[r] \in Items
      BY <3>1, DomainOfSequence
    <3>3. l.at \in Nat /\ l.at <= changes
      BY <2>3, <3>2 DEF IInv, ExportInv, Items, Lines, Sound
    <3> QED BY <1>1, <3>3
  <2>4. /\ export # Idle /\ export.source = "page" =>
              /\ DOMAIN export.items \subseteq RowIds
              /\ \A r \in DOMAIN export.items :
                    \/ Believed(export.items[r])
                    \/ export.items[r].reason = "EXPORTED_SUCCESSFULLY"
        /\ /\ export # Idle
           /\ export.stage \in {"admitted", "resolved", "mapped", "priced"}
           /\ export.source = "page" /\ ~export.theirs
           => "VIEW_PRICE" \in export.grants
    BY DEF IInv, ExportInv
  <2> QED BY <1>3, <2>2, <2>3, <2>4 DEF ExportInv, Sound
<1>7. ShelfInv' /\ TemplatesStayOpen'
  BY ShelfStays DEF IInv, Changed
<1> QED BY <1>2, <1>4, <1>5, <1>6, <1>7 DEF IInv

LEMMA DataStepKeeps == ASSUME IInv, DataStep PROVE IInv'
<1>0. db \in Catalogue /\ team \in Team
  BY DEF IInv, TypeOK
<1>1. ASSUME NEW i \in Ids, NEW product \in Menu[i] \cup {Gone}, ChangeProduct(i, product)
      PROVE  IInv'
  <2>1. product \in Products \cup {Gone}
    BY DeskConstants
  <2>2. [db.products EXCEPT ![i] = product] \in [Ids -> Products \cup {Gone}]
    BY <1>0, <2>1 DEF Catalogue
  <2>3. db' \in Catalogue
    BY <1>0, <1>1, <2>2 DEF ChangeProduct, Catalogue
  <2> QED BY <1>0, <1>1, <2>3, ChangedKeeps DEF ChangeProduct
<1>2. ASSUME NEW cas \in Cases, ChangeRule(cas) PROVE IInv'
  <2>1. db' \in Catalogue
    BY <1>0, <1>2 DEF ChangeRule, Catalogue
  <2> QED BY <1>0, <1>2, <2>1, ChangedKeeps DEF ChangeRule
<1>3. ASSUME NEW brand \in Brands, NEW enabled \in BOOLEAN, SetPriority(brand, enabled)
      PROVE  IInv'
  <2>1. db' \in Catalogue
    BY <1>0, <1>3 DEF SetPriority, Catalogue
  <2> QED BY <1>0, <1>3, <2>1, ChangedKeeps DEF SetPriority
<1>4. ASSUME NEW currency \in Currencies, NEW rate \in RateValues,
             SetRate(currency, rate) \/ CreateCurrency(currency, rate)
      PROVE  IInv'
  <2>1. rate \in Nat
    BY DeskConstants
  <2>2. [db.rate EXCEPT ![currency] = rate] \in [Currencies -> Nat]
    BY <1>0, <2>1 DEF Catalogue
  <2>3. db' = [db EXCEPT !.rate[currency] = rate]
    BY <1>4 DEF SetRate, CreateCurrency
  <2>4. db' \in Catalogue
    BY <1>0, <2>2, <2>3 DEF Catalogue
  <2> QED BY <1>0, <1>4, <2>4, ChangedKeeps DEF SetRate, CreateCurrency
<1>5. ASSUME NEW brand \in Brands, NEW currency \in Currencies,
             SetBrandCurrency(brand, currency)
      PROVE  IInv'
  <2>1. [db.currency EXCEPT ![brand] = currency] \in [Brands -> Currencies \cup {Blank}]
    BY <1>0 DEF Catalogue
  <2>2. db' \in Catalogue
    BY <1>0, <1>5, <2>1 DEF SetBrandCurrency, Catalogue
  <2> QED BY <1>0, <1>5, <2>2, ChangedKeeps DEF SetBrandCurrency
<1>6. ASSUME NEW role \in Roles, ChangeTeam(role) PROVE IInv'
  <2>1. team' \in Team
    BY <1>6, DeskConstants DEF ChangeTeam
  <2> QED BY <1>0, <1>6, <2>1, ChangedKeeps DEF ChangeTeam
<1> QED BY <1>1, <1>2, <1>3, <1>4, <1>5, <1>6 DEF DataStep

-----------------------------------------------------------------------------
(* The shelf. *)

Kinds == {"activate", "assign", "archive", "archiving"}
Works == [kind : Kinds, template : Templates \cup {None}]

\* A keeper that is done holds nothing.
LEMMA DoneKeeps ==
    ASSUME TypeOK, ShelfInv, NEW a \in Keepers,
           work' = [work EXCEPT ![a] = Idle], UNCHANGED <<templates, assigned>>
    PROVE  ShelfInv'
BY DEF TypeOK, ShelfInv, Holds

\* Work that begins or goes on is typed.
LEMMA WorkTyped ==
    ASSUME TypeOK, NEW a \in Keepers, NEW w \in Works \cup {Idle},
           work' = [work EXCEPT ![a] = w]
    PROVE  work' \in [Keepers -> Works \cup {Idle}]
BY DEF TypeOK, Works, Kinds

LEMMA UploadKeeps ==
    ASSUME TypeOK, ShelfInv, TemplatesStayOpen, NEW t \in Templates,
           NEW activate \in BOOLEAN, Upload(t, activate)
    PROVE  TypeOK' /\ ShelfInv' /\ TemplatesStayOpen'
<1>1. /\ templates' = [templates EXCEPT ![t] = "open"] /\ templates[t] = "none"
      /\ active' = IF activate THEN {t} ELSE active
      /\ UNCHANGED <<assigned, work>>
  BY DEF Upload, Insert
<1>2. /\ templates \in [Templates -> {"none", "open", "archived"}]
      /\ active \subseteq Templates /\ assigned \in Templates \cup {None}
  BY DEF TypeOK
<1>3. TypeOK'
  BY <1>1, <1>2 DEF Upload, Insert, TypeOK, Counted, deskVars, dataVars
<1>4. ShelfInv'
  BY <1>1, <1>2 DEF ShelfInv, Holds
<1>5. TemplatesStayOpen'
  BY <1>1, <1>2 DEF TemplatesStayOpen
<1> QED BY <1>3, <1>4, <1>5

\* What a keeper takes hold of is open and held by no other.
LEMMA BeginKeeps ==
    ASSUME TypeOK, ShelfInv, TemplatesStayOpen, NEW a \in Keepers,
           NEW kind \in Kinds \ {"archiving"}, NEW t \in Templates \cup {None},
           Begin(a, kind, t),
           kind # "assign" => t \in Templates /\ templates[t] = "open" /\ ~RowHeld(t)
    PROVE  TypeOK' /\ ShelfInv' /\ TemplatesStayOpen'
<1> DEFINE w == [kind |-> kind, template |-> t]
<1>1. w \in Works /\ w.kind = kind /\ w.template = t
  BY DEF Works
<1> HIDE DEF w
<1>2. /\ work' = [work EXCEPT ![a] = w] /\ UNCHANGED <<templates, active, assigned>>
  BY DEF Begin, w
<1>3. work \in [Keepers -> Works \cup {Idle}]
  BY DEF TypeOK, Works, Kinds
<1>4. TypeOK'
  BY <1>1, <1>2, WorkTyped DEF Begin, TypeOK, Counted, Works, Kinds, deskVars, dataVars
<1>5. work'[a] = w /\ \A b \in Keepers \ {a} : work'[b] = work[b]
  BY <1>2, <1>3
<1>6. ASSUME NEW b \in Keepers \ {a}, Holds(b), kind # "assign"
      PROVE  work[b].template # t
  BY <1>6 DEF Holds, RowHeld
<1>7. ShelfInv'
  <2>1. ASSUME NEW b \in Keepers, Holds(b)'
        PROVE  work'[b].template \in Templates /\ templates'[work'[b].template] = "open"
    BY <1>1, <1>2, <1>5, <2>1 DEF ShelfInv, Holds, Kinds
  <2>2. ASSUME NEW b \in Keepers, NEW c \in Keepers, b # c, Holds(b)', Holds(c)'
        PROVE  work'[b].template # work'[c].template
    BY <1>1, <1>2, <1>5, <1>6, <2>2 DEF ShelfInv, Holds, Kinds
  <2>3. ASSUME NEW b \in Keepers, work'[b] # Idle, work'[b].kind = "archiving"
        PROVE  assigned' # work'[b].template
    BY <1>1, <1>2, <1>5, <2>3 DEF ShelfInv
  <2> QED BY <2>1, <2>2, <2>3 DEF ShelfInv
<1>8. TemplatesStayOpen'
  BY <1>2 DEF TemplatesStayOpen
<1> QED BY <1>4, <1>7, <1>8

LEMMA FinishActivateKeeps ==
    ASSUME TypeOK, ShelfInv, TemplatesStayOpen, NEW a \in Keepers, FinishActivate(a)
    PROVE  TypeOK' /\ ShelfInv' /\ TemplatesStayOpen'
<1>1. work[a].template \in Templates /\ templates[work[a].template] = "open"
  BY DEF FinishActivate, ShelfInv, Holds
<1>2. TypeOK'
  BY <1>1, WorkTyped DEF FinishActivate, TypeOK, Works, Kinds, deskVars, dataVars
<1>3. ShelfInv'
  BY DoneKeeps DEF FinishActivate
<1>4. TemplatesStayOpen'
  BY <1>1 DEF FinishActivate, TemplatesStayOpen
<1> QED BY <1>2, <1>3, <1>4

LEMMA FinishAssignKeeps ==
    ASSUME TypeOK, ShelfInv, TemplatesStayOpen, NEW a \in Keepers, FinishAssign(a)
    PROVE  TypeOK' /\ ShelfInv' /\ TemplatesStayOpen'
<1> DEFINE t == work[a].template
<1>1. work \in [Keepers -> Works \cup {Idle}] /\ work[a] # Idle
      /\ assigned \in Templates \cup {None}
  BY DEF TypeOK, Works, Kinds, FinishAssign
<1>2. t \in Templates \cup {None}
  BY <1>1 DEF Works
<1>3. /\ work' = [work EXCEPT ![a] = Idle] /\ UNCHANGED <<templates, active>>
      /\ assigned' = IF t = None \/ templates[t] = "open" THEN t ELSE assigned
      /\ t # None => ~RowHeld(t)
  BY DEF FinishAssign
<1> HIDE DEF t
<1>4. TypeOK'
  BY <1>1, <1>2, <1>3, WorkTyped DEF FinishAssign, TypeOK, Works, Kinds, deskVars, dataVars
<1>5. /\ \A b \in Keepers : Holds(b)' => Holds(b)
      /\ \A b \in Keepers : b # a => work'[b] = work[b]
      /\ work'[a] = Idle
  BY <1>1, <1>3 DEF Holds
<1>6. ShelfInv'
  <2>1. ASSUME NEW b \in Keepers, work'[b] # Idle, work'[b].kind = "archiving"
        PROVE  assigned' # work'[b].template
    <3>1. b # a /\ work'[b] = work[b] /\ Holds(b)
      BY <1>5, <2>1 DEF Holds
    <3>2. work[b].template \in Templates /\ RowHeld(work[b].template)
      BY <3>1 DEF ShelfInv, Holds, RowHeld
    <3>3. t # work[b].template
      BY <1>3, <3>2, DeskConstants
    <3>4. assigned # work[b].template
      BY <2>1, <3>1 DEF ShelfInv
    <3> QED BY <1>3, <3>1, <3>3, <3>4
  <2> QED BY <1>3, <1>5, <2>1 DEF ShelfInv, Holds
<1>7. TemplatesStayOpen'
  BY <1>3 DEF TemplatesStayOpen
<1> QED BY <1>4, <1>6, <1>7

LEMMA CheckUnassignedKeeps ==
    ASSUME TypeOK, ShelfInv, TemplatesStayOpen, NEW a \in Keepers, CheckUnassigned(a)
    PROVE  TypeOK' /\ ShelfInv' /\ TemplatesStayOpen'
<1>1. TemplatesStayOpen'
  BY DEF CheckUnassigned, TemplatesStayOpen
<1>2. work \in [Keepers -> Works \cup {Idle}] /\ work[a] # Idle /\ work[a].kind = "archive"
  BY DEF TypeOK, Works, Kinds, CheckUnassigned
<1>3. CASE assigned = work[a].template
  <2>1. work' = [work EXCEPT ![a] = Idle]
    BY <1>3 DEF CheckUnassigned
  <2>2. ShelfInv'
    BY <2>1, DoneKeeps DEF CheckUnassigned
  <2>3. TypeOK'
    BY <2>1, WorkTyped DEF CheckUnassigned, TypeOK, Works, Kinds, deskVars, dataVars
  <2> QED BY <1>1, <2>2, <2>3
<1>4. CASE assigned # work[a].template
  <2> DEFINE w == [work[a] EXCEPT !.kind = "archiving"]
  <2>1. work' = [work EXCEPT ![a] = w] /\ UNCHANGED <<templates, active, assigned>>
    BY <1>4 DEF CheckUnassigned
  <2>2. w \in Works /\ w.kind = "archiving" /\ w.template = work[a].template
    BY <1>2 DEF Works, Kinds
  <2> HIDE DEF w
  <2>3. TypeOK'
    BY <2>1, <2>2, WorkTyped DEF CheckUnassigned, TypeOK, Works, Kinds, deskVars, dataVars
  <2>4. work'[a] = w /\ \A b \in Keepers \ {a} : work'[b] = work[b]
    BY <1>2, <2>1
  <2>5. \A b \in Keepers : /\ Holds(b)' => Holds(b)
                           /\ Holds(b)' => work'[b].template = work[b].template
    BY <1>2, <2>2, <2>4 DEF Holds
  <2>6. \A b \in Keepers : work'[b] # Idle /\ work'[b].kind = "archiving"
                           => assigned # work'[b].template
    BY <1>4, <2>2, <2>4 DEF ShelfInv
  <2>7. ShelfInv'
    BY <2>1, <2>5, <2>6 DEF ShelfInv
  <2> QED BY <1>1, <2>3, <2>7
<1> QED BY <1>3, <1>4

LEMMA FinishArchiveKeeps ==
    ASSUME TypeOK, ShelfInv, TemplatesStayOpen, NEW a \in Keepers, FinishArchive(a)
    PROVE  TypeOK' /\ ShelfInv' /\ TemplatesStayOpen'
<1> DEFINE t == work[a].template
<1>1. /\ work \in [Keepers -> Works \cup {Idle}] /\ work[a] # Idle
      /\ work[a].kind = "archiving"
      /\ templates \in [Templates -> {"none", "open", "archived"}]
  BY DEF TypeOK, Works, Kinds, FinishArchive
<1>2. t \in Templates /\ assigned # t
  BY <1>1 DEF ShelfInv, Holds
<1>3. /\ work' = [work EXCEPT ![a] = Idle] /\ UNCHANGED <<active, assigned>>
      /\ templates' = IF t \in active THEN templates
                      ELSE [templates EXCEPT ![t] = "archived"]
  BY DEF FinishArchive
<1>4. \A b \in Keepers \ {a} : Holds(b) => work[b].template # t
  BY <1>1 DEF ShelfInv, Holds
<1> HIDE DEF t
<1>5. TypeOK'
  BY <1>1, <1>2, <1>3, WorkTyped DEF FinishArchive, TypeOK, Works, Kinds, deskVars, dataVars
<1>6. /\ work'[a] = Idle
      /\ \A b \in Keepers \ {a} : work'[b] = work[b]
  BY <1>1, <1>3
<1>7. ShelfInv'
  BY <1>1, <1>2, <1>3, <1>4, <1>6 DEF ShelfInv, Holds
<1>8. TemplatesStayOpen'
  BY <1>1, <1>2, <1>3 DEF TemplatesStayOpen, TypeOK
<1> QED BY <1>5, <1>7, <1>8

LEMMA AbortKeeps ==
    ASSUME TypeOK, ShelfInv, TemplatesStayOpen, NEW a \in Keepers, Abort(a)
    PROVE  TypeOK' /\ ShelfInv' /\ TemplatesStayOpen'
<1>1. ShelfInv'
  BY DoneKeeps DEF Abort
<1>2. TypeOK'
  BY WorkTyped DEF Abort, TypeOK, Works, Kinds, deskVars, dataVars
<1> QED BY <1>1, <1>2 DEF Abort, TemplatesStayOpen

LEMMA KeeperStepKeeps == ASSUME IInv, KeeperStep PROVE IInv'
<1>1. TypeOK /\ ShelfInv /\ TemplatesStayOpen
  BY DEF IInv
<1>2. UNCHANGED <<deskVars, dataVars>>
  BY DEF KeeperStep, Upload, Insert, BeginActivate, BeginArchive, BeginAssign, Begin,
         FinishActivate, FinishAssign, CheckUnassigned, FinishArchive, Abort
<1>3. PageInv' /\ MatchInv' /\ ExportInv'
  BY <1>2, PageStays, MatchStays, ExportStays DEF IInv, deskVars
<1>4. TypeOK' /\ ShelfInv' /\ TemplatesStayOpen'
  <2>1. ASSUME NEW t \in Templates, NEW activate \in BOOLEAN, Upload(t, activate)
        PROVE  TypeOK' /\ ShelfInv' /\ TemplatesStayOpen'
    BY <1>1, <2>1, UploadKeeps
  <2>2. ASSUME NEW a \in Keepers, NEW t \in Templates, BeginActivate(a, t)
        PROVE  TypeOK' /\ ShelfInv' /\ TemplatesStayOpen'
    BY <1>1, <2>2, BeginKeeps DEF BeginActivate, Kinds
  <2>3. ASSUME NEW a \in Keepers, NEW t \in Templates, BeginArchive(a, t)
        PROVE  TypeOK' /\ ShelfInv' /\ TemplatesStayOpen'
    BY <1>1, <2>3, BeginKeeps DEF BeginArchive, Kinds
  <2>4. ASSUME NEW a \in Keepers, NEW t \in Templates \cup {None}, BeginAssign(a, t)
        PROVE  TypeOK' /\ ShelfInv' /\ TemplatesStayOpen'
    BY <1>1, <2>4, BeginKeeps DEF BeginAssign, Kinds
  <2>5. ASSUME NEW a \in Keepers,
               \/ FinishActivate(a) \/ FinishAssign(a)
               \/ CheckUnassigned(a) \/ FinishArchive(a) \/ Abort(a)
        PROVE  TypeOK' /\ ShelfInv' /\ TemplatesStayOpen'
    BY <1>1, <2>5, FinishActivateKeeps, FinishAssignKeeps, CheckUnassignedKeeps,
       FinishArchiveKeeps, AbortKeeps
  <2> QED BY <2>1, <2>2, <2>3, <2>4, <2>5 DEF KeeperStep
<1> QED BY <1>3, <1>4 DEF IInv

-----------------------------------------------------------------------------
(* The specification. *)

LEMMA PageStepKeeps == ASSUME IInv, PageStep PROVE IInv'
<1>1. TypeOK /\ PageInv /\ MatchInv /\ ExportInv /\ ShelfInv /\ TemplatesStayOpen
  BY DEF IInv
<1>2. ASSUME NEW q \in Edits, EditQuery(q) PROVE IInv'
  <2>1. TypeOK' /\ PageInv'
    BY <1>1, <1>2, EditQueryKeeps
  <2> QED BY <1>1, <1>2, <2>1, MatchStays, ExportStays, ShelfStays DEF EditQuery, IInv
<1>3. ASSUME SendMatch PROVE IInv'
  <2>1. TypeOK' /\ PageInv' /\ MatchInv'
    BY <1>1, <1>3, SendMatchKeeps
  <2> QED BY <1>1, <1>3, <2>1, ExportStays, ShelfStays DEF SendMatch, IInv
<1>4. ASSUME NEW r \in DOMAIN page.results, NEW c \in page.results[r].shown, Tick(r, c)
      PROVE  IInv'
  <2>1. TypeOK' /\ PageInv'
    BY <1>1, <1>4, TickKeeps
  <2> QED BY <1>1, <1>4, <2>1, MatchStays, ExportStays, ShelfStays DEF Tick, IInv
<1>5. ASSUME NEW choice \in Choices, SendExport(choice) PROVE IInv'
  <2>1. TypeOK' /\ ExportInv'
    BY <1>1, <1>5, SendExportKeeps
  <2> QED BY <1>1, <1>5, <2>1, PageStays, MatchStays, ShelfStays DEF SendExport, IInv
<1>6. ASSUME NEW S \in Posts, NEW choice \in Choices, SendPosted(S, choice) PROVE IInv'
  <2>1. TypeOK' /\ ExportInv'
    BY <1>1, <1>6, SendPostedKeeps
  <2> QED BY <1>1, <1>6, <2>1, PageStays, MatchStays, ShelfStays DEF SendPosted, IInv
<1> QED BY <1>2, <1>3, <1>4, <1>5, <1>6 DEF PageStep

LEMMA ServerStepKeeps == ASSUME IInv, ServerStep PROVE IInv'
<1>1. TypeOK /\ PageInv /\ MatchInv /\ ExportInv /\ ShelfInv /\ TemplatesStayOpen
  BY DEF IInv
<1>2. ASSUME AdmitMatch \/ MatchCurrencies \/ MatchRates \/ AnswerMatch PROVE IInv'
  <2>1. TypeOK' /\ MatchInv'
    BY <1>1, <1>2, AdmitMatchKeeps, MatchCurrenciesKeeps, MatchRatesKeeps,
       AnswerMatchKeeps
  <2>2. UNCHANGED <<page, export, dataVars, shelfVars>>
    BY <1>2 DEF AdmitMatch, MatchCurrencies, MatchRates, AnswerMatch
  <2> QED BY <1>1, <2>1, <2>2, PageStays, ExportStays, ShelfStays DEF IInv
<1>3. ASSUME \/ AdmitExport \/ ResolveTemplate \/ ExportCurrencies \/ ExportRates
             \/ BuildWorkbook
      PROVE  IInv'
  <2>1. TypeOK' /\ ExportInv'
    BY <1>1, <1>3, AdmitExportKeeps, ResolveTemplateKeeps,
       ExportCurrenciesKeeps, ExportRatesKeeps, BuildWorkbookKeeps
  <2>2. UNCHANGED <<page, match, dataVars, shelfVars>>
    BY <1>3 DEF AdmitExport, ResolveTemplate, ExportCurrencies, ExportRates,
                 BuildWorkbook
  <2> QED BY <1>1, <2>1, <2>2, PageStays, MatchStays, ShelfStays DEF IInv
<1>4. ASSUME NEW lost \in BOOLEAN, ReceiveMatch(lost) PROVE IInv'
  <2>1. TypeOK' /\ PageInv' /\ MatchInv'
    BY <1>1, <1>4, ReceiveMatchKeeps
  <2> QED BY <1>1, <1>4, <2>1, ExportStays, ShelfStays DEF ReceiveMatch, IInv
<1>5. ASSUME NEW lost \in BOOLEAN, ReceiveExport(lost) PROVE IInv'
  <2>1. TypeOK' /\ PageInv' /\ ExportInv'
    BY <1>1, <1>5, ReceiveExportKeeps
  <2> QED BY <1>1, <1>5, <2>1, MatchStays, ShelfStays DEF ReceiveExport, IInv
<1> QED BY <1>2, <1>3, <1>4, <1>5 DEF ServerStep

LEMMA InitInv == Init => IInv
<1> SUFFICES ASSUME Init PROVE IInv
  OBVIOUS
<1>1. PICK start \in Starts :
         /\ db = start.db /\ team = start.team /\ user = start.user
         /\ page = [query |-> start.query, results |-> <<>>, at |-> 0,
                    picks |-> NoPicks, touched |-> {}, exported |-> {}]
  BY DEF Init
<1>2. /\ start.db \in Catalogue /\ start.team \in Team /\ start.user \in {"staff", "admin"}
      /\ start.query \in Inquiries
  BY DeskConstants DEF Inquiries
<1>3. <<>> \in Seq(Answers) /\ DOMAIN <<>> = {}
  BY EmptyIsSequence
<1>4. page \in Pages
  BY <1>1, <1>2, <1>3 DEF Pages, NoPicks
<1>5. /\ active \subseteq Uploaded /\ Uploaded \subseteq Templates
      /\ \A t, u \in active : t = u
      /\ templates = [t \in Templates |-> IF t \in Uploaded THEN "open" ELSE "none"]
      /\ assigned = None /\ work = [a \in Keepers |-> Idle]
      /\ match = Idle /\ export = Idle /\ changes = 0 /\ events = 0
  BY DeskConstants DEF Init
<1>6. TypeOK
  BY <1>1, <1>2, <1>4, <1>5 DEF TypeOK
<1>7. PageInv
  BY <1>1, <1>3, <1>5 DEF PageInv, NoPicks
<1>8. MatchInv /\ ExportInv
  BY <1>5 DEF MatchInv, ExportInv
<1>9. ShelfInv /\ TemplatesStayOpen
  BY <1>5 DEF ShelfInv, Holds, TemplatesStayOpen
<1> QED BY <1>6, <1>7, <1>8, <1>9 DEF IInv

LEMMA NextInv == IInv /\ [Next]_vars => IInv'
<1> SUFFICES ASSUME IInv, [Next]_vars PROVE IInv'
  OBVIOUS
<1>1. CASE Next
  BY <1>1, PageStepKeeps, ServerStepKeeps, DataStepKeeps, KeeperStepKeeps DEF Next
<1>2. CASE UNCHANGED vars
  <2>1. TypeOK'
    BY <1>2 DEF IInv, TypeOK, vars
  <2> QED BY <1>2, <2>1, PageStays, MatchStays, ExportStays, ShelfStays
          DEF IInv, vars, dataVars, shelfVars
<1> QED BY <1>1, <1>2

\* The invariant holds in every reachable state.
THEOREM Invariant == Spec => []IInv
BY InitInv, NextInv, PTL DEF Spec

\* The page, the requests under way and the tables keep their shape, whatever
\* overlaps: in particular a late answer marks rows of the page only.
THEOREM Typed == Spec => []TypeOK
<1>1. IInv => TypeOK
  BY DEF IInv
<1> QED BY <1>1, Invariant, PTL

\* No template that is active or assigned to the team is archived, and at most
\* one is active, for any number of keepers and templates.
THEOREM TemplatesInUseStayOpen == Spec => []TemplatesStayOpen
<1>1. IInv => TemplatesStayOpen
  BY DEF IInv
<1> QED BY <1>1, Invariant, PTL

-----------------------------------------------------------------------------
(* What is shown can be exported. *)

\* Only its own statements take an export on.
LEMMA OnlyTheServer ==
    ASSUME [Next]_vars, export # Idle, export' \notin {Idle, export}
    PROVE  \/ AdmitExport \/ ResolveTemplate \/ ExportCurrencies \/ ExportRates
           \/ BuildWorkbook
<1>1. ASSUME PageStep PROVE FALSE
  BY <1>1 DEF PageStep, EditQuery, SendMatch, Tick, SendExport, SendPosted
<1>2. ASSUME ServerStep
      PROVE  \/ AdmitExport \/ ResolveTemplate \/ ExportCurrencies \/ ExportRates
             \/ BuildWorkbook
  BY <1>2 DEF ServerStep, AdmitMatch, MatchCurrencies, MatchRates, AnswerMatch,
         ReceiveMatch, ReceiveExport
<1>3. ASSUME DataStep PROVE FALSE
  BY <1>3 DEF DataStep, ChangeProduct, ChangeRule, SetPriority, SetRate,
         CreateCurrency, SetBrandCurrency, ChangeTeam, Changed, deskVars
<1>4. ASSUME KeeperStep PROVE FALSE
  BY <1>4 DEF KeeperStep, Upload, Insert, BeginActivate, BeginArchive, BeginAssign, Begin,
         FinishActivate, FinishAssign, CheckUnassigned, FinishArchive, Abort, deskVars
<1> QED BY <1>1, <1>2, <1>3, <1>4 DEF Next, vars

\* Admission refuses an export of the page for a known reason only: what a row
\* without lines says is believed, by the invariant.
LEMMA AdmissionRefuses ==
    ASSUME IInv, AdmitExport, export.source = "page", ~export.theirs
    PROVE  /\ export'.stage \in {"admitted", "failed"}
           /\ export'.stage = "failed" => KnownRefusal
<1> DEFINE grants == IF export.theirs THEN team.keys ELSE Own
           ok == /\ ~TooLong(export.items)
                 /\ \A r \in DOMAIN export.items : Believed(export.items[r])
                 /\ Allows("EXPORT", Own)
                 /\ export.source = "page" => Allows("QUICK_QUOTE", Own)
                 /\ export.theirs => team.open /\ Allows("EXPORT", team.keys)
                 /\ export.source = "results" => Allows("SEARCH", grants)
<1>1. export \in ExportRequests /\ export # Idle /\ export.stage = "sent"
  BY DEF AdmitExport, IInv, TypeOK
<1>2. export' = IF ok THEN [export EXCEPT !.stage = "admitted", !.grants = grants]
                ELSE [export EXCEPT !.stage = "failed"]
  BY DEF AdmitExport
<1>3. ASSUME ~ok PROVE KnownRefusal
  <2>1. \/ TooLong(export.items)
        \/ \E r \in DOMAIN export.items : ~Believed(export.items[r])
        \/ ~Allows("EXPORT", Own) \/ ~Allows("QUICK_QUOTE", Own)
    BY <1>3
  <2>2. ASSUME NEW r \in DOMAIN export.items, ~Believed(export.items[r])
        PROVE  /\ export.items[r].lines = {}
               /\ export.items[r].reason = "EXPORTED_SUCCESSFULLY"
    <3>1. export.items[r].lines = {}
      BY <2>2 DEF Believed
    <3>2. export.items[r].reason = "EXPORTED_SUCCESSFULLY"
      BY <1>1, <2>2 DEF IInv, ExportInv
    <3> QED BY <3>1, <3>2
  <2> QED BY <1>1, <2>1, <2>2 DEF KnownRefusal
<1> HIDE DEF ok, grants
<1>4. export'.stage = IF ok THEN "admitted" ELSE "failed"
  BY <1>1, <1>2 DEF ExportRequests
<1> QED BY <1>3, <1>4

\* Sound lines that are as old as the data are written with their prices.
LEMMA FreshLinesAreWritten ==
    ASSUME IInv, BuildWorkbook, export.source = "page", ~export.theirs,
           export.at = changes,
           \A r \in DOMAIN export.items :
              \A l \in export.items[r].lines : l.at = changes
    PROVE  /\ export'.stage = "built"
           /\ \A r \in DOMAIN export.items :
                 export'.doc[r] = {[id |-> l.id, price |-> l.price] :
                                      l \in export.items[r].lines}
<1> DEFINE view == View(user = "admin" /\ ~export.theirs, export.prices)
           items == export.items
           ok == \A r \in DOMAIN items : \A l \in items[r].lines : Exportable(l, view)
           doc == [r \in DOMAIN items |-> {Written(l, view) : l \in items[r].lines}]
           lines(r) == {[id |-> l.id, price |-> l.price] : l \in items[r].lines}
<1>1. export \in ExportRequests /\ export # Idle /\ export.stage = "priced"
  BY DEF BuildWorkbook, IInv, TypeOK
<1>2. /\ export.prices = Prices /\ "VIEW_PRICE" \in export.grants
      /\ \A r \in DOMAIN items : \A l \in items[r].lines : Sound(l)
  BY <1>1 DEF IInv, ExportInv
<1>3. view = Now
  BY <1>2 DEF Now, View, Scope
<1>4. ASSUME NEW r \in DOMAIN items, NEW l \in items[r].lines
      PROVE  Exportable(l, view) /\ Written(l, view) = [id |-> l.id, price |-> l.price]
  <2>1. Good(l, view)
    BY <1>2, <1>3, <1>4 DEF Sound
  <2> HIDE DEF view
  <2> QED BY <1>2, <2>1 DEF Good, Exportable, Written
<1>5. ok
  BY <1>4
<1>6. export' = IF ok THEN [export EXCEPT !.stage = "built", !.doc = doc]
                ELSE [export EXCEPT !.stage = "failed"]
  BY DEF BuildWorkbook
<1>7. \A r \in DOMAIN items : doc[r] = lines(r)
  BY <1>4
<1> HIDE DEF ok, doc, lines, view
<1>8. export'.stage = "built" /\ export'.doc = doc
  BY <1>1, <1>5, <1>6 DEF ExportRequests
<1> QED BY <1>7, <1>8 DEF lines

\* If nothing has changed since the answers on the page, the page is exported as
\* it stands: from admission to workbook it is refused only to a person who may
\* not export, for more lines than an export may have, for want of an open
\* template, or for a row marked as exported whose boxes were cleared; and every
\* line has the price that was shown. Match, page and export agree on what may
\* be quoted, on its price and on why a row has no lines, for any catalogue and
\* request.
THEOREM WhatIsShownIsExported == Spec => ShownCanBeExported
<1> DEFINE fresh ==
              /\ export # Idle /\ export' \notin {Idle, export}
              /\ export.source = "page" /\ ~export.theirs
              /\ export.stage \in {"mapped", "priced"} => export.at = changes
              /\ \A r \in DOMAIN export.items :
                    \A l \in export.items[r].lines : l.at = changes
           asShown ==
              \A r \in DOMAIN export.items :
                 export'.doc[r] = {[id |-> l.id, price |-> l.price] :
                                      l \in export.items[r].lines}
<1>1. ASSUME IInv, [Next]_vars, fresh
      PROVE  /\ export'.stage = "failed" => KnownRefusal
             /\ export'.stage = "built" => asShown
  <2>1. CASE AdmitExport
    BY <1>1, <2>1, AdmissionRefuses
  <2>2. CASE ResolveTemplate
    <3>1. export \in ExportRequests /\ export.stage = "admitted"
      BY <1>1, <2>2 DEF ResolveTemplate, IInv, TypeOK
    <3>2. export'.stage = IF ResolvedTemplates # {} THEN "resolved" ELSE "failed"
      BY <2>2, <3>1 DEF ResolveTemplate, ExportRequests
    <3> QED BY <3>1, <3>2 DEF KnownRefusal
  <2>3. CASE ExportCurrencies \/ ExportRates
    <3>1. export \in ExportRequests
      BY <1>1 DEF IInv, TypeOK
    <3>2. export'.stage \in {"mapped", "priced"}
      BY <2>3, <3>1 DEF ExportCurrencies, ExportRates, ExportRequests
    <3> QED BY <3>2
  <2>4. CASE BuildWorkbook
    <3>1. export.at = changes
      BY <1>1, <2>4 DEF BuildWorkbook
    <3>2. export'.stage = "built" /\ asShown
      BY <1>1, <2>4, <3>1, FreshLinesAreWritten
    <3> QED BY <3>2
  <2> QED BY <1>1, <2>1, <2>2, <2>3, <2>4, OnlyTheServer
<1>2. IInv /\ [Next]_vars =>
        [fresh => /\ export'.stage = "failed" => KnownRefusal
                  /\ export'.stage = "built" => asShown]_vars
  <2> HIDE DEF fresh, asShown
  <2> QED BY <1>1
<1> QED BY <1>2, Invariant, PTL DEF Spec, ShownCanBeExported

-----------------------------------------------------------------------------
(* What is answered follows strategy and policy. *)

\* Only the big statement takes a match from its prices to its answers.
LEMMA OnlyTheStatement ==
    ASSUME [Next]_vars, match # Idle, match.stage = "priced", match' # Idle,
           match'.stage = "answered"
    PROVE  AnswerMatch
<1>1. match' # match
  OBVIOUS
<1>2. ASSUME PageStep PROVE FALSE
  BY <1>1, <1>2 DEF PageStep, EditQuery, SendMatch, Tick, SendExport, SendPosted
<1>3. ASSUME ServerStep PROVE AnswerMatch
  BY <1>1, <1>3 DEF ServerStep, AdmitMatch, MatchCurrencies, MatchRates,
         ReceiveMatch, ReceiveExport, AdmitExport, ResolveTemplate, ExportCurrencies,
         ExportRates, BuildWorkbook
<1>4. ASSUME DataStep PROVE FALSE
  BY <1>1, <1>4 DEF DataStep, ChangeProduct, ChangeRule, SetPriority, SetRate,
         CreateCurrency, SetBrandCurrency, ChangeTeam, Changed, deskVars
<1>5. ASSUME KeeperStep PROVE FALSE
  BY <1>1, <1>5 DEF KeeperStep, Upload, Insert, BeginActivate, BeginArchive, BeginAssign, Begin,
         FinishActivate, FinishAssign, CheckUnassigned, FinishArchive, Abort, deskVars
<1>6. match' = match => FALSE
  BY <1>1
<1> QED BY <1>2, <1>3, <1>4, <1>5, <1>6 DEF Next, vars

LEMMA StatementFollows ==
    ASSUME IInv, AnswerMatch, NEW r \in DOMAIN match.query.rows
    PROVE  FollowsPolicy(match.query, match.query.rows[r], match'.answers[r],
                         View(user = "admin", match.prices))
<1> DEFINE view == View(user = "admin", match.prices)
           answers == [x \in DOMAIN match.query.rows |->
                          Answer(match.query, match.query.rows[x], view)]
<1>1. match \in MatchRequests /\ match # Idle /\ match.stage = "priced"
  BY DEF AnswerMatch, IInv, TypeOK
<1>2. match' = [match EXCEPT !.stage = "answered", !.answers = answers]
  BY DEF AnswerMatch
<1>3. match'.answers = answers
  <2> HIDE DEF answers
  <2> QED BY <1>1, <1>2 DEF MatchRequests
<1>4. match.query \in Queries /\ ValidQuery(match.query)
  BY <1>1, DeskConstants DEF MatchRequests, Inquiries, IInv, MatchInv
<1>5. view \in Views
  BY <1>1, ViewTyped DEF MatchRequests, IInv
<1>6. match'.answers[r] = Answer(match.query, match.query.rows[r], view)
  BY <1>3
<1> HIDE DEF view, answers
<1>7. FollowsPolicy(match.query, match.query.rows[r], match'.answers[r], view)
  BY <1>4, <1>5, <1>6, AnswersFollow
<1> QED BY <1>7 DEF view

\* Whatever a match has read, it chooses and leaves open what the strategy and
\* the policy of brands want, for any catalogue, team and request.
THEOREM AnswersAsAsked == Spec => AnswersFollowPolicy
<1>1. IInv /\ [Next]_vars =>
        [(/\ match # Idle /\ match.stage = "priced" /\ match' # Idle
          /\ match'.stage = "answered") =>
            \A r \in DOMAIN match.query.rows :
                FollowsPolicy(match.query, match.query.rows[r], match'.answers[r],
                              View(user = "admin", match.prices))]_vars
  BY OnlyTheStatement, StatementFollows
<1> QED BY <1>1, Invariant, PTL DEF Spec, AnswersFollowPolicy
=============================================================================
