------------------------------- MODULE QuoteDesk -------------------------------
(***************************************************************************)
(* The desk where quotes are made: a page of the browser that matches      *)
(* requests and exports what was chosen as a workbook, the server that     *)
(* answers both in several statements, each of which sees the database as  *)
(* it is then, the administrators who change products, prices, rules and   *)
(* the rights of the team meanwhile, and the keepers of the templates of   *)
(* the workbooks with their transactions.                                  *)
(***************************************************************************)
EXTENDS QuoteMatching

CONSTANTS
    Templates,      \* workbook templates
    Uploaded,       \* those that are open at first
    Keepers,        \* administrators that keep the templates
    None, Idle,     \* no template; no transaction or no request
    Width,          \* QUOTE_MAX_ROWS: rows of the page, lines of an export
    Starts,         \* the data, the person and the request of the page at first
    Edits,          \* what may be typed into the page later
    Choices,        \* teams and templates an admin may choose for an export
    Menu,           \* what may become of a product: id -> set of products
    Roles,          \* states of the team: its brands, rights and lifecycle
    RateValues,     \* rates an administrator may enter
    Posts,          \* sets of ids that a page of search results may post
    MaxChanges,     \* bound: changes of the data while quotes are made
    MaxEvents       \* bound: changes, requests and transactions on templates

Keys == {"QUICK_QUOTE", "SEARCH_BY_CAS", "SEARCH", "EXPORT", "VIEW_PRICE",
         "VIEW_COMPLIANCE"}

Catalogue ==
    [products : [Ids -> Products \cup {Gone}], priority : SUBSET Brands,
     banned : SUBSET Cases, currency : [Brands -> Currencies \cup {Blank}],
     rate : [Currencies -> Nat]]

Team == [brands : SUBSET Brands, keys : SUBSET Keys, open : BOOLEAN]

\* A product as it was shown, and how many changes there had been by then.
Lines == [id : Ids, price : Nat, at : Nat]

\* What a request brings: lines, or why there are none.
Items == [lines : SUBSET Lines, lifecycle : Lifecycles, reason : Reasons]

\* What may be asked.
Inquiries == {start.query : start \in Starts} \cup Edits

ASSUME DeskConstants ==
    /\ Uploaded \subseteq Templates /\ None \notin Templates
    /\ Idle \notin [kind : {"activate", "assign", "archive", "archiving"},
                    template : Templates \cup {None}]
    /\ Width \in Nat /\ MaxChanges \in Nat /\ MaxEvents \in Nat
    /\ Starts \subseteq [db : Catalogue, team : Team, user : {"staff", "admin"},
                         query : Queries]
    /\ Edits \subseteq Queries
    /\ Roles \subseteq Team
    /\ Choices \subseteq [theirs : BOOLEAN, template : Templates \cup {None}]
    /\ \A q \in Inquiries : DOMAIN q.rows \subseteq 1..Width
    /\ Menu \in [Ids -> SUBSET Products]
    /\ RateValues \subseteq Nat \ {0}
    /\ Posts \subseteq SUBSET Ids /\ {} \notin Posts

VARIABLES
    db,         \* products, rules and rates
    team,       \* the team of the person at the page
    user,       \* who that is: "staff" or "admin"
    page,       \* the page
    match,      \* the match under way
    export,     \* the export under way
    templates,  \* template -> "none", "open" or "archived"
    active,     \* the templates with is_active
    assigned,   \* the template of the team
    work,       \* keeper -> transaction on templates
    changes,    \* changes of the data so far
    events      \* changes, requests and transactions so far

deskVars == <<page, match, export>>
dataVars == <<db, team, user, changes>>
shelfVars == <<templates, active, assigned, work>>
vars == <<db, team, user, page, match, export, templates, active, assigned,
          work, changes, events>>

\* Everything that starts something new is counted.
Counted == events < MaxEvents /\ events' = events + 1

RowIds == 1..Width
NoPicks == [r \in RowIds |-> {}]

NoPrices == [currency |-> [b \in Brands |-> Blank], rate |-> [c \in Currencies |-> 0]]

Init ==
    /\ \E start \in Starts :
          /\ db = start.db /\ team = start.team /\ user = start.user
          /\ page = [query |-> start.query, results |-> <<>>, at |-> 0,
                     picks |-> NoPicks, touched |-> {}, exported |-> {}]
    /\ match = Idle /\ export = Idle
    /\ templates = [t \in Templates |-> IF t \in Uploaded THEN "open" ELSE "none"]
    /\ active \in {{}} \cup {{t} : t \in Uploaded}
    /\ assigned = None
    /\ work = [a \in Keepers |-> Idle]
    /\ changes = 0 /\ events = 0

------------------------------------------------------------------------------
(* Rights. A right counts with those it depends on.                        *)

Requires(key) ==
    CASE key = "QUICK_QUOTE" -> {"VIEW_PRICE"}
      [] key = "EXPORT" -> {"VIEW_COMPLIANCE"}
      [] OTHER -> {}

Allows(key, grants) == key \in grants /\ Requires(key) \subseteq grants

\* The rights of the person; a team that is not ACTIVE has none (503).
Own == IF user = "admin" THEN Keys ELSE IF team.open THEN team.keys ELSE {}

\* The brands a team sees, or all if an admin has chosen no team.
Scope(all) == IF all THEN Brands ELSE IF team.open THEN team.brands ELSE {}

\* The database as the one big statement sees it, with the prices read before.
View(all, prices) ==
    [products |-> db.products, brands |-> Scope(all), priority |-> db.priority,
     banned |-> db.banned, currency |-> prices.currency, rate |-> prices.rate]

------------------------------------------------------------------------------
(* The page.                                                               *)

\* qqInvalidateResults does nothing while there are no results.
EditQuery(q) ==
    /\ page' = IF page.results = <<>> THEN [page EXCEPT !.query = q]
               ELSE [query |-> q, results |-> <<>>, at |-> page.at,
                     picks |-> NoPicks, touched |-> {}, exported |-> {}]
    /\ UNCHANGED <<match, export, dataVars, shelfVars, events>>

\* The old results stay on the page, without what was picked in them.
SendMatch ==
    /\ match = Idle
    /\ match' = [stage |-> "sent", query |-> page.query, prices |-> NoPrices,
                 at |-> 0, answers |-> <<>>]
    /\ page' = [page EXCEPT !.picks = NoPicks, !.touched = {}]
    /\ Counted
    /\ UNCHANGED <<export, dataVars, shelfVars>>

LineOf(c, at) == [id |-> c.id, price |-> c.price, at |-> at]

\* A change of Tick: also what may not be quoted can be ticked.
TickAnything(r, c) ==
    /\ page.query.strategy = "MANUAL"
    /\ page' = [page EXCEPT !.touched = @ \cup {r},
                           !.picks[r] = @ \cup {LineOf(c, page.at)}]
    /\ UNCHANGED <<match, export, dataVars, shelfVars, events>>

\* A box under MANUAL is ticked or cleared; from then on the row has the picks
\* of the person, even if there are none.
Tick(r, c) ==
    LET old == page.picks[r]
        same == {l \in old : l.id = c.id}
    IN /\ page.query.strategy = "MANUAL"
       /\ Selectable(c)
       /\ page' = [page EXCEPT !.touched = @ \cup {r},
                       !.picks[r] = IF same # {} THEN old \ same
                                    ELSE old \cup {LineOf(c, page.at)}]
       /\ UNCHANGED <<match, export, dataVars, shelfVars, events>>

ChosenLines(r) ==
    IF r \in page.touched THEN page.picks[r]
    ELSE {LineOf(c, page.at) : c \in {d \in page.results[r].chosen : Eligible(d)}}

\* qqGetRequestLifecycle, for a row that has no lines to export.
ReasonShown(r) ==
    LET shown == page.results[r].shown
    IN IF r \in page.exported THEN "EXPORTED_SUCCESSFULLY"
       ELSE IF shown = {} THEN page.results[r].reason
       ELSE IF \E c \in shown : Eligible(c)
               THEN IF \E c \in shown : c.twin THEN "DUPLICATE_CODE_BRAND_SIZE"
                    ELSE "MANUAL_SELECTION_REQUIRED"
       ELSE IF AllBlocked(shown) THEN "COMPLIANCE_BLOCKED"
       ELSE IF page.query.strategy = "MANUAL" /\ ~AllUnpriced(shown)
               THEN "COMPLIANCE_BLOCKED"
       ELSE "NO_VALID_PRICE"

\* What qqBuildExportPlaceholder makes of its lifecycle.
LifecycleShown(r) ==
    LET own == IF page.results[r].shown = {} /\ r \notin page.exported
                  THEN page.results[r].lifecycle
                  ELSE LifecycleOf(ReasonShown(r))
    IN IF own \in {"BLOCKED", "REVIEW"} THEN own ELSE "UNRESOLVED"

ItemOf(r) == [lines |-> ChosenLines(r), lifecycle |-> LifecycleShown(r),
              reason |-> ReasonShown(r)]

\* An admin may choose the team and the template of an export.
SendExport(choice) ==
    /\ export = Idle /\ page.results # <<>>
    /\ user = "staff" => ~choice.theirs /\ choice.template = None
    /\ export' = [stage |-> "sent", source |-> "page",
                  items |-> [r \in DOMAIN page.results |-> ItemOf(r)],
                  theirs |-> choice.theirs, template |-> choice.template, grants |-> {},
                  prices |-> NoPrices, at |-> 0, doc |-> <<>>]
    /\ Counted
    /\ UNCHANGED <<page, match, dataVars, shelfVars>>

\* Pages of search results post bare ids, of any age.
SendPosted(S, choice) ==
    /\ export = Idle
    /\ user = "staff" => ~choice.theirs /\ choice.template = None
    /\ export' = [stage |-> "sent", source |-> "results",
                  items |-> <<[lines |-> [id : S, price : {0}, at : {0}],
                               lifecycle |-> "UNRESOLVED", reason |-> "NO_MATCH"]>>,
                  theirs |-> choice.theirs, template |-> choice.template, grants |-> {},
                  prices |-> NoPrices, at |-> 0, doc |-> <<>>]
    /\ Counted
    /\ UNCHANGED <<page, match, dataVars, shelfVars>>

------------------------------------------------------------------------------
(* The server, a statement at a time.                                      *)

AdmitMatch ==
    /\ match # Idle /\ match.stage = "sent"
    /\ match' = [match EXCEPT !.stage =
          IF /\ Allows("QUICK_QUOTE", Own) /\ ValidQuery(match.query)
             /\ \/ Allows("SEARCH_BY_CAS", Own)
                \/ \A r \in DOMAIN match.query.rows : ~NeedsCas(match.query.rows[r])
             THEN "admitted" ELSE "failed"]
    /\ UNCHANGED <<page, export, dataVars, shelfVars, events>>

\* The resolver of prices is loaded by two statements.
MatchCurrencies ==
    /\ match # Idle /\ match.stage = "admitted"
    /\ match' = [match EXCEPT !.stage = "mapped",
                              !.prices.currency = db.currency, !.at = changes]
    /\ UNCHANGED <<page, export, dataVars, shelfVars, events>>

MatchRates ==
    /\ match # Idle /\ match.stage = "mapped"
    /\ match' = [match EXCEPT !.stage = "priced", !.prices.rate = db.rate]
    /\ UNCHANGED <<page, export, dataVars, shelfVars, events>>

AnswerMatch ==
    LET view == View(user = "admin", match.prices)
    IN /\ match # Idle /\ match.stage = "priced"
       /\ match' = [match EXCEPT !.stage = "answered",
                       !.answers = [r \in DOMAIN match.query.rows |->
                           Answer(match.query, match.query.rows[r], view)]]
       /\ UNCHANGED <<page, export, dataVars, shelfVars, events>>

\* A failure, an answer that is no answer, and silence clear the page alike.
ReceiveMatch(lost) ==
    /\ match # Idle
    /\ lost \/ match.stage \in {"answered", "failed"}
    /\ page' = IF ~lost /\ match.stage = "answered"
               THEN [page EXCEPT !.results = match.answers, !.at = match.at]
               ELSE [page EXCEPT !.results = <<>>]
    /\ match' = Idle
    /\ UNCHANGED <<export, dataVars, shelfVars, events>>

\* A request without lines says why, in a way the server believes.
Believed(item) ==
    item.lines = {} =>
        /\ item.lifecycle \in {"UNRESOLVED", "BLOCKED", "REVIEW"}
        /\ LifecycleOf(item.reason) = item.lifecycle

\* All lines of an export, each with its row.
LinesOf(items) == UNION {{r} \X items[r].lines : r \in DOMAIN items}

TooLong(items) == Cardinality(LinesOf(items)) > Width

\* The rights that count are those of the team whose quote it is.
AdmitExport ==
    LET grants == IF export.theirs THEN team.keys ELSE Own
        ok == /\ ~TooLong(export.items)
              /\ \A r \in DOMAIN export.items : Believed(export.items[r])
              /\ Allows("EXPORT", Own)
              /\ export.source = "page" => Allows("QUICK_QUOTE", Own)
              /\ export.theirs => team.open /\ Allows("EXPORT", team.keys)
              /\ export.source = "results" => Allows("SEARCH", grants)
    IN /\ export # Idle /\ export.stage = "sent"
       /\ export' = IF ok THEN [export EXCEPT !.stage = "admitted", !.grants = grants]
                    ELSE [export EXCEPT !.stage = "failed"]
       /\ UNCHANGED <<page, match, dataVars, shelfVars, events>>

\* The template the admin chose, or that of the team, or the active one.
ResolvedTemplates ==
    IF export.template # None
       THEN {export.template} \cap {t \in Templates : templates[t] = "open"}
    ELSE IF /\ user = "staff" \/ export.theirs
            /\ team.open /\ assigned # None /\ templates[assigned] = "open"
       THEN {assigned}
    ELSE {t \in active : templates[t] = "open"}

ResolveTemplate ==
    /\ export # Idle /\ export.stage = "admitted"
    /\ export' = [export EXCEPT !.stage =
                     IF ResolvedTemplates # {} THEN "resolved" ELSE "failed"]
    /\ UNCHANGED <<page, match, dataVars, shelfVars, events>>

ExportCurrencies ==
    /\ export # Idle /\ export.stage = "resolved"
    /\ export' = [export EXCEPT !.stage = "mapped",
                                !.prices.currency = db.currency, !.at = changes]
    /\ UNCHANGED <<page, match, dataVars, shelfVars, events>>

ExportRates ==
    /\ export # Idle /\ export.stage = "mapped"
    /\ export' = [export EXCEPT !.stage = "priced", !.prices.rate = db.rate]
    /\ UNCHANGED <<page, match, dataVars, shelfVars, events>>

\* A line is written if its product is there for the team and not blocked, and
\* has a price, unless the reader of the workbook may not see any.
Exportable(l, view) ==
    /\ l.id \in Visible(view)
    /\ ~Blocked(view.products[l.id], view)
    /\ "VIEW_PRICE" \in export.grants => UnitPrice(view.products[l.id], view) > 0

Written(l, view) ==
    [id |-> l.id,
     price |-> IF "VIEW_PRICE" \in export.grants
               THEN UnitPrice(view.products[l.id], view) ELSE 0]

BuildWorkbook ==
    LET view == View(user = "admin" /\ ~export.theirs, export.prices)
        items == export.items
    IN /\ export # Idle /\ export.stage = "priced"
       /\ export' =
             IF \A r \in DOMAIN items : \A l \in items[r].lines : Exportable(l, view)
             THEN [export EXCEPT !.stage = "built",
                     !.doc = [r \in DOMAIN items |->
                                 {Written(l, view) : l \in items[r].lines}]]
             ELSE [export EXCEPT !.stage = "failed"]
       /\ UNCHANGED <<page, match, dataVars, shelfVars, events>>

\* A change of ReceiveExport: the products are marked in place of the rows.
ReceiveProducts(lost) ==
    /\ export # Idle
    /\ lost \/ export.stage \in {"built", "failed"}
    /\ page' = IF ~lost /\ export.stage = "built" /\ export.source = "page"
               THEN [page EXCEPT !.exported = page.exported \cup
                        {l.id : l \in UNION {export.items[r].lines :
                                                 r \in DOMAIN export.items}}]
               ELSE page
    /\ export' = Idle
    /\ UNCHANGED <<match, dataVars, shelfVars, events>>

\* The rows that went out with lines are marked, whatever the page shows now.
ReceiveExport(lost) ==
    /\ export # Idle
    /\ lost \/ export.stage \in {"built", "failed"}
    /\ page' = IF ~lost /\ export.stage = "built" /\ export.source = "page"
               THEN [page EXCEPT !.exported = page.exported \cup
                        {r \in DOMAIN export.items : export.items[r].lines # {}}]
               ELSE page
    /\ export' = Idle
    /\ UNCHANGED <<match, dataVars, shelfVars, events>>

------------------------------------------------------------------------------
(* Those who change the data meanwhile, MaxChanges times at most.          *)

Changed == /\ changes < MaxChanges /\ changes' = changes + 1 /\ Counted
           /\ UNCHANGED <<user, deskVars, shelfVars>>

\* Products are edited, imported, deleted and restored.
ChangeProduct(i, product) ==
    /\ product # db.products[i]
    /\ db' = [db EXCEPT !.products[i] = product]
    /\ Changed /\ UNCHANGED team

\* A rule is added for a CAS number, switched on or off, or removed.
ChangeRule(cas) ==
    /\ db' = [db EXCEPT !.banned = IF cas \in @ THEN @ \ {cas} ELSE @ \cup {cas}]
    /\ Changed /\ UNCHANGED team

\* A brand that is gone from the products keeps its setting.
SetPriority(brand, enabled) ==
    /\ \E i \in Ids : db.products[i] # Gone /\ db.products[i].brand = brand
    /\ db' = [db EXCEPT !.priority = IF enabled THEN @ \cup {brand} ELSE @ \ {brand}]
    /\ Changed /\ UNCHANGED team

\* The rate of a currency that exists; 0 stands for one that does not.
SetRate(currency, rate) ==
    /\ currency # VND /\ db.rate[currency] # 0
    /\ db' = [db EXCEPT !.rate[currency] = rate]
    /\ Changed /\ UNCHANGED team

CreateCurrency(currency, rate) ==
    /\ currency = VND => rate = 1
    /\ db.rate[currency] = 0
    /\ db' = [db EXCEPT !.rate[currency] = rate]
    /\ Changed /\ UNCHANGED team

SetBrandCurrency(brand, currency) ==
    /\ db.rate[currency] # 0
    /\ db' = [db EXCEPT !.currency[brand] = currency]
    /\ Changed /\ UNCHANGED team

\* An assignment under way holds the row of the team.
TeamHeld == \E a \in Keepers : work[a] # Idle /\ work[a].kind = "assign"

ChangeTeam(role) ==
    /\ role # team /\ ~TeamHeld
    /\ team' = role
    /\ Changed /\ UNCHANGED db

------------------------------------------------------------------------------
(* The keepers of the templates. The locks a transaction holds follow from *)
(* what it is doing.                                                       *)

\* pg_advisory_xact_lock(QUOTE_TEMPLATE_ACTIVE_LOCK_ID)
ActiveLockTaken == \E a \in Keepers : work[a] # Idle /\ work[a].kind = "activate"

RowHeld(t) ==
    \E a \in Keepers : /\ work[a] # Idle
                       /\ work[a].kind \in {"activate", "archive", "archiving"}
                       /\ work[a].template = t

\* A new template waits for whoever activates, and if it is to be active itself,
\* for the row of the one that is.
Insert(t, activate) ==
    /\ templates[t] = "none" /\ ~ActiveLockTaken
    /\ activate => \A u \in active : ~RowHeld(u)
    /\ templates' = [templates EXCEPT ![t] = "open"]
    /\ active' = IF activate THEN {t} ELSE active

Upload(t, activate) ==
    /\ Insert(t, activate)
    /\ Counted
    /\ UNCHANGED <<assigned, work, deskVars, dataVars>>

Begin(a, kind, t) ==
    /\ work[a] = Idle /\ Counted
    /\ work' = [work EXCEPT ![a] = [kind |-> kind, template |-> t]]
    /\ UNCHANGED <<templates, active, assigned, deskVars, dataVars>>

BeginActivate(a, t) ==
    /\ ~ActiveLockTaken /\ ~RowHeld(t) /\ templates[t] = "open"
    /\ Begin(a, "activate", t)

FinishActivate(a) ==
    /\ work[a] # Idle /\ work[a].kind = "activate"
    /\ \A u \in active \ {work[a].template} : ~RowHeld(u)
    /\ active' = {work[a].template}
    /\ work' = [work EXCEPT ![a] = Idle]
    /\ UNCHANGED <<templates, assigned, events, deskVars, dataVars>>

\* None gives the team the active template again.
BeginAssign(a, t) ==
    /\ team.open /\ ~TeamHeld
    /\ Begin(a, "assign", t)

\* A change of FinishAssign: the row of the template is not locked.
AssignWithoutLock(a) ==
    LET t == work[a].template
    IN /\ work[a] # Idle /\ work[a].kind = "assign"
       /\ assigned' = IF t = None \/ templates[t] = "open" THEN t ELSE assigned
       /\ work' = [work EXCEPT ![a] = Idle]
       /\ UNCHANGED <<templates, active, events, deskVars, dataVars>>

FinishAssign(a) ==
    LET t == work[a].template
    IN /\ work[a] # Idle /\ work[a].kind = "assign"
       /\ t # None => ~RowHeld(t)
       /\ assigned' = IF t = None \/ templates[t] = "open" THEN t ELSE assigned
       /\ work' = [work EXCEPT ![a] = Idle]
       /\ UNCHANGED <<templates, active, events, deskVars, dataVars>>

BeginArchive(a, t) ==
    /\ ~RowHeld(t) /\ templates[t] = "open" /\ t \notin active
    /\ Begin(a, "archive", t)

\* An assignment counts even if the team is not ACTIVE.
CheckUnassigned(a) ==
    /\ work[a] # Idle /\ work[a].kind = "archive"
    /\ work' = [work EXCEPT ![a] = IF assigned = work[a].template THEN Idle
                                   ELSE [@ EXCEPT !.kind = "archiving"]]
    /\ UNCHANGED <<templates, active, assigned, events, deskVars, dataVars>>

FinishArchive(a) ==
    LET t == work[a].template
    IN /\ work[a] # Idle /\ work[a].kind = "archiving"
       /\ templates' = IF t \in active THEN templates
                       ELSE [templates EXCEPT ![t] = "archived"]
       /\ work' = [work EXCEPT ![a] = Idle]
       /\ UNCHANGED <<active, assigned, events, deskVars, dataVars>>

\* The connection breaks, and the transaction is rolled back.
Abort(a) ==
    /\ work[a] # Idle
    /\ work' = [work EXCEPT ![a] = Idle]
    /\ UNCHANGED <<templates, active, assigned, events, deskVars, dataVars>>

------------------------------------------------------------------------------

PageStep ==
    \/ \E q \in Edits : EditQuery(q)
    \/ SendMatch
    \/ \E r \in DOMAIN page.results : \E c \in page.results[r].shown : Tick(r, c)
    \/ \E choice \in Choices :
          SendExport(choice) \/ \E S \in Posts : SendPosted(S, choice)

ServerStep ==
    \/ AdmitMatch \/ MatchCurrencies \/ MatchRates \/ AnswerMatch
    \/ AdmitExport \/ ResolveTemplate \/ ExportCurrencies \/ ExportRates
    \/ BuildWorkbook
    \/ \E lost \in BOOLEAN : ReceiveMatch(lost) \/ ReceiveExport(lost)

DataStep ==
    \/ \E i \in Ids : \E product \in Menu[i] \cup {Gone} : ChangeProduct(i, product)
    \/ \E cas \in Cases : ChangeRule(cas)
    \/ \E brand \in Brands, enabled \in BOOLEAN : SetPriority(brand, enabled)
    \/ \E currency \in Currencies, rate \in RateValues :
          SetRate(currency, rate) \/ CreateCurrency(currency, rate)
    \/ \E brand \in Brands, currency \in Currencies : SetBrandCurrency(brand, currency)
    \/ \E role \in Roles : ChangeTeam(role)

KeeperStep ==
    \/ \E t \in Templates, activate \in BOOLEAN : Upload(t, activate)
    \/ \E a \in Keepers :
          \/ \E t \in Templates : BeginActivate(a, t) \/ BeginArchive(a, t)
          \/ \E t \in Templates \cup {None} : BeginAssign(a, t)
          \/ FinishActivate(a) \/ FinishAssign(a)
          \/ CheckUnassigned(a) \/ FinishArchive(a) \/ Abort(a)

Next == PageStep \/ ServerStep \/ DataStep \/ KeeperStep

Spec == Init /\ [][Next]_vars

------------------------------------------------------------------------------
(* Properties.                                                             *)

PriceTables == [currency : [Brands -> Currencies \cup {Blank}],
                rate : [Currencies -> Nat]]

MatchRequests == [stage : {"sent", "admitted", "mapped", "priced", "answered", "failed"},
             query : Inquiries, prices : PriceTables, at : Nat,
             answers : Seq(Answers)]

ExportRequests ==
           [stage : {"sent", "admitted", "resolved", "mapped", "priced", "built", "failed"},
            source : {"page", "results"}, items : Seq(Items), theirs : BOOLEAN,
            template : Templates \cup {None}, grants : SUBSET Keys,
            prices : PriceTables, at : Nat,
            doc : Seq(SUBSET [id : Ids, price : Nat])]

Pages == [query : Inquiries, results : Seq(Answers), at : Nat,
          picks : [RowIds -> SUBSET Lines], touched : SUBSET RowIds,
          exported : SUBSET RowIds]

\* Everything the page, the requests and the tables hold has its shape.
TypeOK ==
    /\ db \in Catalogue /\ team \in Team /\ user \in {"staff", "admin"}
    /\ page \in Pages
    /\ match \in MatchRequests \cup {Idle} /\ export \in ExportRequests \cup {Idle}
    /\ templates \in [Templates -> {"none", "open", "archived"}]
    /\ active \subseteq Templates /\ assigned \in Templates \cup {None}
    /\ work \in [Keepers -> [kind : {"activate", "assign", "archive", "archiving"},
                             template : Templates \cup {None}] \cup {Idle}]
    /\ changes \in Nat /\ events \in Nat

\* What a match chooses by itself is exactly what the request asks for: only
\* visible products that may be exported and have a price, only brands of the
\* policy, none from a later tier than another that would do, none dearer than
\* another of its class; and it leaves the choice to a person only if it is
\* asked to, if there is no choice, or if the code stands for several
\* substances.
AnswersFollowPolicy ==
    [][(/\ match # Idle /\ match.stage = "priced" /\ match' # Idle
        /\ match'.stage = "answered") =>
          \A r \in DOMAIN match.query.rows :
              FollowsPolicy(match.query, match.query.rows[r], match'.answers[r],
                            View(user = "admin", match.prices))]_vars

\* The refusals of an export of the page that have nothing to do with what it
\* shows: the person may not export, it has more lines than an export may have,
\* or no template is open. And the one that has: a row that is marked as
\* exported and has no lines, since its boxes were cleared, is sent with a
\* reason that the server does not believe.
KnownRefusal ==
    \/ /\ export.stage = "sent"
       /\ \/ ~Allows("EXPORT", Own) \/ ~Allows("QUICK_QUOTE", Own)
          \/ TooLong(export.items)
          \/ \E r \in DOMAIN export.items :
                /\ export.items[r].lines = {}
                /\ export.items[r].reason = "EXPORTED_SUCCESSFULLY"
    \/ export.stage = "admitted" /\ ResolvedTemplates = {}

\* If nothing has changed since the answers it shows, the page is exported as
\* it stands: from its admission to its workbook no step refuses it but by one
\* of the known refusals, and every line has the price that was shown. So the
\* server believes every other reason of the page for a row without lines.
ShownCanBeExported ==
    [][(/\ export # Idle /\ export' \notin {Idle, export}
        /\ export.source = "page" /\ ~export.theirs
        /\ export.stage \in {"mapped", "priced"} => export.at = changes
        /\ \A r \in DOMAIN export.items :
              \A l \in export.items[r].lines : l.at = changes) =>
          /\ export'.stage = "failed" => KnownRefusal
          /\ export'.stage = "built" =>
                \A r \in DOMAIN export.items :
                    export'.doc[r] = {[id |-> l.id, price |-> l.price] :
                                         l \in export.items[r].lines}]_vars

\* A template that is active or assigned to a team is not archived, and at most
\* one is active, however activation, assignment and archiving overlap.
TemplatesStayOpen ==
    /\ \A t \in active \cup ({assigned} \ {None}) : templates[t] = "open"
    /\ \A t, u \in active : t = u
==============================================================================
