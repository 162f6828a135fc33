------------------------------ MODULE ProductDesk ------------------------------
(***************************************************************************)
(* The pages on which administrators change single products:               *)
(* admin_products.py (create, edit, delete with a preview, restore from    *)
(* the trash), the quick forms of search.py and import_quick_delete.py,    *)
(* beside the imports, which change the same table, and the renaming of    *)
(* regulatory statuses, which changes a copy of the label in it.           *)
(*                                                                         *)
(* All but the renaming take the lock on products first.  All products of  *)
(* the model have one code: identities only meet within a code.  A request *)
(* whose actor is no longer authorised changes nothing; see Accounts.      *)
(***************************************************************************)
EXTENDS Naturals, FiniteSets, Functions

CONSTANTS
    Ids,            \* ids of products, each given once
    Brands,         \* canonical brands
    Sources,        \* values of source_brand
    Sizes,          \* values of size, Blank among them
    Statuses,       \* ids of regulatory statuses
    Labels,         \* their labels
    Admins,
    Tokens,         \* of previews of deletions
    Forms,          \* identities that forms and files carry
    Scopes,         \* what deletions are asked for
    MaxWrites,      \* bound on the versions of all rows together
    MaxOthers,      \* bound on imports, renamings and ends of sessions
    Blank,          \* no size
    AnyValue,       \* a parameter that was left out
    NoStatus,       \* SQL NULL in manual_compliance_status_id
    NoLabel,        \* SQL NULL in manual_compliance
    Absent,         \* no row, no page, no preview, nothing in progress
    Spent           \* a preview that was used or is too old

Status == Statuses \cup {NoStatus}

Identity == [brand: Brands, source: Sources, size: Sizes]

\* manual_compliance is a copy of the label of the status.
Row == [brand: Brands, source: Sources, size: Sizes,
        status: Status, label: Labels \cup {NoLabel}]

\* What a deletion is about: one product, a canonical brand, or what a quick
\* form says of brand, source and size.
Scope ==
    [kind: {"product"}, id: Ids, brand: Brands, source: {AnyValue}, size: {AnyValue}] \cup
    [kind: {"brand"}, id: {AnyValue}, brand: Brands, source: {AnyValue}, size: {AnyValue}] \cup
    [kind: {"quick"}, id: {AnyValue}, brand: Brands,
     source: Sources \cup {AnyValue}, size: Sizes \cup {AnyValue}]

ASSUME ProductAssumption ==
    /\ MaxWrites \in Nat
    /\ MaxOthers \in Nat
    /\ Blank \in Sizes
    /\ Forms \subseteq Identity
    /\ Scopes \subseteq Scope
    /\ AnyValue \notin Ids \cup Sources \cup Sizes
    /\ NoStatus \notin Statuses
    /\ NoLabel \notin Labels
    /\ Absent \notin Row

VARIABLES
    products,       \* table products
    stamp,          \* xmin: the version of a row, 0 before its id is given
    labels,         \* the label of each status
    auth,           \* auth_version of each administrator
    page,           \* the form for editing that each of them has open
    previews,       \* table product_delete_previews, and the signed tokens of
                    \* the quick form
    trash,          \* tables product_delete_batches and product_deleted_rows,
                    \* by the token that made the batch
    desk,           \* a create, or an edit and its form, not yet committed
    others          \* number of such steps, for the bound

vars == <<products, stamp, labels, auth, page, previews, trash, desk, others>>

Live(p) == {i \in Ids : p[i] # Absent}

\* A version of a row, as _fingerprint and the digest of the quick form see it.
Version == [id: Ids, stamp: Nat, row: Row]

Preview == [by: Admins, auth: Nat, scope: Scope,
            seen: SUBSET Version]

Batch == [scope: Scope, rows: [Ids -> Row \cup {Absent}], restored: BOOLEAN]

Work == [kind: {"create", "edit"}, shown: Version \cup {Absent}, id: Ids,
         chosen: Status, row: Row, stage: {"checked", "written"}]

TypeOK ==
    /\ products \in [Ids -> Row \cup {Absent}]
    /\ stamp \in [Ids -> Nat]
    /\ labels \in [Statuses -> Labels]
    /\ auth \in [Admins -> Nat]
    /\ page \in [Admins -> Version \cup {Absent}]
    /\ previews \in [Tokens -> Preview \cup {Absent, Spent}]
    /\ trash \in [Tokens -> Batch \cup {Absent}]
    /\ desk \in Work \cup {Absent}
    /\ others \in 0..MaxOthers

Init ==
    /\ products = [i \in Ids |-> Absent]
    /\ stamp = [i \in Ids |-> 0]
    /\ \E f \in [Statuses -> Labels] :
           /\ labels = f
           /\ \A s, t \in Statuses : f[s] = f[t] => s = t
    /\ auth = [a \in Admins |-> 0]
    /\ page = [a \in Admins |-> Absent]
    /\ previews = [t \in Tokens |-> Absent]
    /\ trash = [t \in Tokens |-> Absent]
    /\ desk = Absent
    /\ others = 0

------------------------------------------------------------------------------
(* Identities                                                              *)

Narrowed(c, fitting) == IF c \cap fitting = {} THEN c ELSE c \cap fitting

\* resolve_product_candidates: brand, then source, then size if there is one;
\* a criterion that fits no candidate is passed over.
Resolve(p, r) ==
    Narrowed(
        Narrowed({i \in Live(p) : p[i].brand = r.brand},
                 {i \in Live(p) : p[i].source = r.source}),
        {i \in Live(p) : r.size # Blank /\ p[i].size = r.size})

\* Mutant of Selects: a product that stays in its brand is not looked at.
SelectsElsewhere(i, r) ==
    \/ i \in Live(products) /\ products[i].brand = r.brand
    \/ Resolve([products EXCEPT ![i] = r], r) = {i}

\* _require_selected_identity: with r stored as product i, r resolves to i.
Selects(i, r) == Resolve([products EXCEPT ![i] = r], r) = {i}

SameIdentity(r, q) ==
    r.brand = q.brand /\ r.source = q.source /\ r.size = q.size

------------------------------------------------------------------------------
(* The lock on products, and the writes under it                           *)

LockFree == desk = Absent

Fresh(i) == stamp[i] = 0

Writable(n) == FoldFunction(+, n, stamp) <= MaxWrites

Stamped(I) ==
    /\ Writable(Cardinality(I))
    /\ stamp' = [i \in Ids |-> IF i \in I THEN stamp[i] + 1 ELSE stamp[i]]

LabelOf(s) == IF s = NoStatus THEN NoLabel ELSE labels[s]

NewRow(r, s, l) ==
    [brand |-> r.brand, source |-> r.source, size |-> r.size,
     status |-> s, label |-> l]

Write(i, r) ==
    /\ products' = [products EXCEPT ![i] = r]
    /\ Stamped({i})

------------------------------------------------------------------------------
(* Create and edit                                                         *)

\* product_row, shown by the page of a product.
VersionOf(i) == [id |-> i, stamp |-> stamp[i], row |-> products[i]]

OpenPage(a, i) ==
    /\ i \in Live(products)
    /\ page' = [page EXCEPT ![a] = VersionOf(i)]
    /\ UNCHANGED <<products, stamp, labels, auth, previews, trash, desk, others>>

\* _validated_product: the form carries the id of a status, whose label is read.
Check(kind, form, i, r, s) ==
    /\ LockFree
    /\ Writable(1)
    /\ desk' = [kind |-> kind, shown |-> form, id |-> i, chosen |-> s,
                row |-> NewRow(r, s, LabelOf(s)), stage |-> "checked"]
    /\ UNCHANGED <<products, stamp, labels, auth, previews, trash, others>>

\* _identity_conflicts: a new product is refused where its code has the brand.
Conflicts(r) == {j \in Live(products) : products[j].brand = r.brand}

StartCreate(i, r, s) ==
    /\ Fresh(i)
    /\ Conflicts(r) = {}
    /\ Check("create", Absent, i, r, s)
    /\ UNCHANGED page

\* Mutant of AsShown: the revision of the form is not compared.
StillThere(a) == page[a] # Absent /\ page[a].id \in Live(products)

\* The row, now locked, still is the one on the form.
AsShown(a) ==
    /\ page[a] # Absent
    /\ page[a].id \in Live(products)
    /\ stamp[page[a].id] = page[a].stamp

StartEdit(a, r, s) ==
    /\ AsShown(a)
    /\ \/ SameIdentity(products[page[a].id], r)
       \/ Selects(page[a].id, NewRow(r, s, LabelOf(s)))
    /\ Check("edit", page[a], page[a].id, r, s)
    /\ page' = [page EXCEPT ![a] = Absent]

Named(l) == {s \in Statuses : labels[s] = l}

\* The trigger trg_products_manual_regulatory_status, before the statement's
\* row is written: a label is looked up again, by name.
FireTrigger ==
    /\ desk # Absent /\ desk.stage = "checked"
    /\ \/ /\ desk.row.label = NoLabel
          /\ desk' = [desk EXCEPT !.stage = "written"]
       \/ \E s \in Named(desk.row.label) :
              desk' = [desk EXCEPT !.stage = "written", !.row.status = s]
       \/ /\ desk.row.label # NoLabel
          /\ Named(desk.row.label) = {}
          /\ desk' = Absent
    /\ UNCHANGED <<products, stamp, labels, auth, page, previews, trash, others>>

Commit ==
    /\ desk # Absent /\ desk.stage = "written"
    /\ Write(desk.id, desk.row)
    /\ desk' = Absent
    /\ UNCHANGED <<labels, auth, page, previews, trash, others>>

\* The one product that the row resolves to is written, or a new one.
Upsert(r) ==
    \/ \E i \in Ids :
           /\ Resolve(products, r) = {i}
           /\ Write(i, NewRow(r, products[i].status, products[i].label))
    \/ /\ Resolve(products, r) = {}
       /\ \E i \in Ids : Fresh(i) /\ Write(i, NewRow(r, NoStatus, NoLabel))

\* quick-product.
QuickUpsert(r) ==
    /\ LockFree
    /\ Upsert(r)
    /\ UNCHANGED <<labels, auth, page, previews, trash, desk, others>>

------------------------------------------------------------------------------
(* Delete and restore                                                      *)

Targets(scope) ==
    {i \in Live(products) :
        IF scope.kind = "product" THEN i = scope.id
        ELSE /\ products[i].brand = scope.brand
             /\ scope.source \in {AnyValue, products[i].source}
             /\ scope.size \in {AnyValue, products[i].size}}

\* Mutant of Fingerprint: the ids, not the versions.
IdsOnly(scope) == Targets(scope)

\* _fingerprint, and the digest of the quick form: collisions are left out.
Fingerprint(scope) == {VersionOf(i) : i \in Targets(scope)}

\* The scope of a product carries the brand that the product has.
Sensible(scope) ==
    scope.kind = "product" =>
        scope.id \in Live(products) /\ products[scope.id].brand = scope.brand

\* The quick form only reads, and does not wait for the lock.
MakePreview(a, t, scope) ==
    /\ scope.kind # "quick" => LockFree
    /\ previews[t] = Absent
    /\ Sensible(scope)
    /\ Targets(scope) # {}
    /\ previews' = [previews EXCEPT ![t] =
           [by |-> a, auth |-> auth[a], scope |-> scope,
            seen |-> Fingerprint(scope)]]
    /\ UNCHANGED <<products, stamp, labels, auth, page, trash, desk, others>>

Open(t) == previews[t] \notin {Absent, Spent}

Expire(t) ==
    /\ Open(t)
    /\ previews' = [previews EXCEPT ![t] = Spent]
    /\ UNCHANGED <<products, stamp, labels, auth, page, trash, desk, others>>

\* Mutant of Confirmed: any session of the same administrator.
ConfirmedBy(a, v) ==
    /\ v.by = a
    /\ Fingerprint(v.scope) = v.seen

\* The token is that of this session, and its scope is as it was shown.
Confirmed(a, v) ==
    /\ v.by = a
    /\ v.auth = auth[a]
    /\ Fingerprint(v.scope) = v.seen

Removed(I) == [i \in Ids |-> IF i \in I THEN Absent ELSE products[i]]

Kept(I) == [i \in Ids |-> IF i \in I THEN products[i] ELSE Absent]

\* delete_apply: the rows move to the trash; the token is spent.
Delete(a, t) ==
    /\ LockFree
    /\ Open(t) /\ previews[t].scope.kind # "quick"
    /\ Confirmed(a, previews[t])
    /\ products' = Removed(Targets(previews[t].scope))
    /\ trash' = [trash EXCEPT ![t] =
           [scope |-> previews[t].scope, restored |-> FALSE,
            rows |-> Kept(Targets(previews[t].scope))]]
    /\ previews' = [previews EXCEPT ![t] = Spent]
    /\ UNCHANGED <<stamp, labels, auth, page, desk, others>>

\* quick-product/delete: no trash, and the token is not spent.
QuickDelete(a, t) ==
    /\ LockFree
    /\ Open(t) /\ previews[t].scope.kind = "quick"
    /\ Confirmed(a, previews[t])
    /\ products' = Removed(Targets(previews[t].scope))
    /\ UNCHANGED <<stamp, labels, auth, page, previews, trash, desk, others>>

BatchIds(b) == Live(b.rows)

Waiting(b) == b # Absent /\ ~b.restored

\* A brand comes back only where nothing has taken its place, a product only
\* if it does not take the place of another one.
MayReturn(b) ==
    IF b.scope.kind = "brand"
    THEN \A i \in Live(products) : products[i].brand # b.scope.brand
    ELSE b.scope.id \in BatchIds(b) /\ Selects(b.scope.id, b.rows[b.scope.id])

\* Mutant of Marked: the batch is not marked.
Unmarked(b) == b

Marked(b) == [b EXCEPT !.restored = TRUE]

\* The rows are inserted with their ids and the ids of their statuses; the
\* trigger takes the labels from the statuses.
Restore(t) ==
    /\ LockFree
    /\ Waiting(trash[t])
    /\ BatchIds(trash[t]) \cap Live(products) = {}
    /\ MayReturn(trash[t])
    /\ products' = [i \in Ids |->
           IF i \in BatchIds(trash[t])
           THEN NewRow(trash[t].rows[i], trash[t].rows[i].status,
                       LabelOf(trash[t].rows[i].status))
           ELSE products[i]]
    /\ Stamped(BatchIds(trash[t]))
    /\ trash' = [trash EXCEPT ![t] = Marked(@)]
    /\ UNCHANGED <<labels, auth, page, previews, desk, others>>

------------------------------------------------------------------------------
(* Others                                                                  *)

Other ==
    /\ others < MaxOthers
    /\ others' = others + 1
    /\ UNCHANGED <<page, previews, trash, desk>>

\* import_preserved: a product that is replaced by the one row with its
\* identity keeps its status.
Preserves(gone, r, s) ==
    LET alike == {i \in gone : SameIdentity(products[i], r)}
    IN  IF \E i \in alike : alike = {i}
        THEN \E i \in alike : s = products[i].status
        ELSE s = NoStatus

\* apply_plan of the import queue: a brand is replaced, or rows are added to it
\* without a look at identities.  One that updates does as QuickUpsert.
Import(i, r, gone) ==
    /\ LockFree
    /\ Fresh(i)
    /\ \E s \in Status :
           /\ Preserves(gone, r, s)
           /\ products' = [Removed(gone) EXCEPT ![i] = NewRow(r, s, LabelOf(s))]
    /\ Stamped({i})
    /\ Other
    /\ UNCHANGED <<labels, auth>>

\* status_action, rename.  It does not take the lock on products: it waits for
\* a row that an edit has locked, and does not see a row not yet committed.
Rename(s, l) ==
    LET holders == {i \in Live(products) : products[i].status = s}
    IN  /\ Named(l) = {}
        /\ desk # Absent /\ desk.kind = "edit" => desk.id \notin holders
        /\ labels' = [labels EXCEPT ![s] = l]
        /\ products' = [i \in Ids |->
               IF i \in holders
               THEN [products[i] EXCEPT !.label = l] ELSE products[i]]
        /\ Stamped(holders)
        /\ Other
        /\ UNCHANGED auth

\* Whatever ends the sessions of a user: the next one has a new auth_version.
EndSessions(a) ==
    /\ auth' = [auth EXCEPT ![a] = @ + 1]
    /\ Other
    /\ UNCHANGED <<products, stamp, labels>>

------------------------------------------------------------------------------

Saving ==
    \/ \E a \in Admins, i \in Ids : OpenPage(a, i)
    \/ \E r \in Forms, s \in Status :
           \/ \E i \in Ids : StartCreate(i, r, s)
           \/ \E a \in Admins : StartEdit(a, r, s)
    \/ FireTrigger
    \/ Commit
    \/ \E r \in Forms : QuickUpsert(r)

Deleting ==
    \E t \in Tokens :
        \/ \E a \in Admins :
               \/ \E scope \in Scopes : MakePreview(a, t, scope)
               \/ Delete(a, t)
               \/ QuickDelete(a, t)
        \/ Expire(t)
        \/ Restore(t)

Importing ==
    \E i \in Ids, r \in Forms :
        \/ Import(i, r, {})
        \/ Import(i, r, {j \in Live(products) : products[j].brand = r.brand})

Next ==
    \/ Saving
    \/ Deleting
    \/ Importing
    \/ \E s \in Statuses, l \in Labels : Rename(s, l)
    \/ \E a \in Admins : EndSessions(a)

Spec == Init /\ [][Next]_vars

------------------------------------------------------------------------------
(* Properties                                                              *)

\* A deletion that is not an import's removes what its author was shown in the
\* session that confirms it: these rows, all of them, in these versions.  A
\* brand may change a hundred times between the preview and the confirmation.
DeletionsAsShown ==
    [][ LET gone == Live(products) \ Live(products')
        IN  gone = {} \/ others' # others \/
            \E t \in Tokens :
                /\ Open(t)
                /\ previews[t].auth = auth[previews[t].by]
                /\ previews[t].seen = {VersionOf(i) : i \in gone} ]_vars

\* A product is in the table or waits in the trash, never both, and waits in
\* one batch only: however deletions and restorations follow each other, no
\* restoration brings back an older version of a product.
OnePlace ==
    \A t \in Tokens : Waiting(trash[t]) =>
        /\ BatchIds(trash[t]) \cap Live(products) = {}
        /\ \A u \in Tokens : u # t /\ Waiting(trash[u]) =>
               BatchIds(trash[t]) \cap BatchIds(trash[u]) = {}

\* An edit replaces the row that its form showed, though the new row is written
\* two statements after the form was compared, and labels change meanwhile.
EditsWhatIsShown ==
    [][ desk # Absent /\ desk.kind = "edit" /\ products' # products =>
            others' # others \/ desk.shown = VersionOf(desk.id) ]_vars

Twins(p) ==
    {e \in Ids \X Ids : /\ e[1] # e[2]
                        /\ e[1] \in Live(p) /\ e[2] \in Live(p)
                        /\ SameIdentity(p[e[1]], p[e[2]])}

\* No form makes two products with the same identity, which no later import
\* could tell apart.  Imports may, and a brand that is restored comes back as
\* it was.
FormsKeepApart ==
    [][ others' = others =>
            \A e \in Twins(products') :
                \/ e \in Twins(products)
                \/ e[1] \notin Live(products) /\ e[2] \notin Live(products) ]_vars

\* The status that a product gets is the one chosen on the form.
StatusAsChosen ==
    desk # Absent /\ desk.stage = "written" => desk.row.status = desk.chosen

\* The label a product carries is that of its status.
LabelsAreCurrent ==
    \A i \in Live(products) : products[i].label = LabelOf(products[i].status)

================================================================================
