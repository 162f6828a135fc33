--------------------------- MODULE ProductDeskProofs ---------------------------
(***************************************************************************)
(* Proofs about ProductDesk, for any number of products, administrators    *)
(* and previews, and any forms and scopes.                                 *)
(*                                                                         *)
(* The forms are checked before the lock on products is given up, but what *)
(* they were checked against must last until the row is written, while     *)
(* labels change: that is DeskInv.  What the trash says of a batch by its  *)
(* scope is BatchInv; that an id never used is nowhere is FreshInv.        *)
(***************************************************************************)
EXTENDS ProductDesk, TLAPS

\* An id that was not given yet is neither in the table nor in the trash.
FreshInv ==
    \A i \in Ids : Fresh(i) =>
        /\ i \notin Live(products)
        /\ \A t \in Tokens : trash[t] # Absent => i \notin BatchIds(trash[t])

\* Nothing live has the identity of r, but i.
Alone(i, r) ==
    \A j \in Live(products) \ {i} : ~SameIdentity(products[j], r)

DeskInv ==
    desk # Absent =>
        /\ desk.kind = "create" =>
               /\ Fresh(desk.id)
               /\ Alone(desk.id, desk.row)
        /\ desk.kind = "edit" =>
               /\ desk.id \in Live(products)
               /\ desk.shown = VersionOf(desk.id)
               /\ SameIdentity(products[desk.id], desk.row)
                  \/ Alone(desk.id, desk.row)

BatchFine(b) ==
    /\ b.scope.kind = "product" => BatchIds(b) \subseteq {b.scope.id}
    /\ b.scope.kind = "brand" =>
           \A i \in BatchIds(b) : b.rows[i].brand = b.scope.brand
    /\ b.scope.kind \in {"product", "brand"}

BatchInv == \A t \in Tokens : trash[t] # Absent => BatchFine(trash[t])

\* A form shows what the row is while the row has the version of the form.
PageInv ==
    \A a \in Admins : page[a] # Absent =>
        /\ page[a].stamp <= stamp[page[a].id]
        /\ page[a].id \in Live(products) /\ page[a].stamp = stamp[page[a].id] =>
               page[a].row = products[page[a].id]

IInv == TypeOK /\ OnePlace /\ FreshInv /\ DeskInv /\ BatchInv /\ PageInv

------------------------------------------------------------------------------
(* Identities                                                              *)

\* A product with the identity of r is among those that r resolves to.
LEMMA SameResolves ==
    ASSUME NEW p, NEW r, NEW j \in Live(p), SameIdentity(r, p[j])
    PROVE  j \in Resolve(p, r)
<1> DEFINE C == {i \in Live(p) : p[i].brand = r.brand}
           S == {i \in Live(p) : p[i].source = r.source}
           Z == {i \in Live(p) : r.size # Blank /\ p[i].size = r.size}
<1>1. j \in C /\ j \in S
  BY DEF SameIdentity
<1>2. j \in Narrowed(C, S)
  BY <1>1 DEF Narrowed
<1>3. CASE r.size = Blank
  <2>1. Z = {}
    BY <1>3
  <2>2. QED
    BY <1>2, <2>1 DEF Narrowed, Resolve
<1>4. CASE r.size # Blank
  <2>1. j \in Z
    BY <1>4 DEF SameIdentity
  <2>2. QED
    BY <1>2, <2>1 DEF Narrowed, Resolve
<1>5. QED
  BY <1>3, <1>4

LEMMA SelectsAlone ==
    ASSUME TypeOK, NEW i \in Ids, NEW r \in Row, Selects(i, r)
    PROVE  Alone(i, r)
<1> SUFFICES ASSUME NEW j \in Live(products) \ {i}, SameIdentity(products[j], r)
             PROVE  FALSE
  BY DEF Alone
<1> DEFINE p == [products EXCEPT ![i] = r]
<1>1. j \in Live(p) /\ p[j] = products[j]
  BY DEF Live, TypeOK
<1>2. j \in Resolve(p, r)
  BY <1>1, SameResolves DEF SameIdentity
<1>3. QED
  BY <1>2 DEF Selects

LEMMA RowTyping ==
    ASSUME TypeOK, NEW r \in Forms, NEW s \in Status
    PROVE  /\ LabelOf(s) \in Labels \cup {NoLabel}
           /\ NewRow(r, s, LabelOf(s)) \in Row
           /\ SameIdentity(NewRow(r, s, LabelOf(s)), r)
<1>1. LabelOf(s) \in Labels \cup {NoLabel}
  BY DEF LabelOf, TypeOK, Status
<1>2. r \in Identity
  BY ProductAssumption
<1>3. QED
  BY <1>1, <1>2 DEF NewRow, Row, Identity, SameIdentity

LEMMA VersionTyping ==
    ASSUME TypeOK
    PROVE  \A i \in Live(products) : products[i] \in Row /\ VersionOf(i) \in Version
  BY DEF TypeOK, Live, VersionOf, Version

------------------------------------------------------------------------------
(* The step of each action                                                 *)

\* What concerns the table and the trash stays as it is.
LEMMA TableStays ==
    ASSUME IInv, UNCHANGED <<products, stamp, trash>>
    PROVE  OnePlace' /\ FreshInv' /\ BatchInv'
  BY DEF IInv, OnePlace, FreshInv, BatchInv, Fresh, Live, BatchIds, Waiting, BatchFine

\* Nobody has the desk.
LEMMA DeskFree ==
    ASSUME desk' = Absent
    PROVE  DeskInv'
  BY DEF DeskInv

\* A row is written with a new version only.
Versioned ==
    \A i \in Ids : /\ stamp'[i] \in Nat /\ stamp'[i] >= stamp[i]
                   /\ stamp'[i] = stamp[i] /\ i \in Live(products') =>
                          i \in Live(products) /\ products'[i] = products[i]

LEMMA PagesStay ==
    ASSUME IInv, Versioned,
           \A a \in Admins : page'[a] \in {page[a], Absent}
    PROVE  PageInv'
<1> SUFFICES ASSUME NEW a \in Admins, page'[a] # Absent
             PROVE  /\ page'[a].stamp <= stamp'[page'[a].id]
                    /\ page'[a].id \in Live(products)' /\ page'[a].stamp = stamp'[page'[a].id] =>
                           page'[a].row = products'[page'[a].id]
  BY DEF PageInv
<1> DEFINE i == page[a].id
<1>1. page'[a] = page[a] /\ page[a] \in Version /\ i \in Ids
  BY DEF IInv, TypeOK, Version
<1>2. page[a].stamp \in Nat /\ stamp[i] \in Nat /\ page[a].stamp <= stamp[i]
  BY <1>1 DEF IInv, TypeOK, Version, PageInv
<1>3. stamp'[i] \in Nat /\ stamp'[i] >= stamp[i]
  BY <1>1 DEF Versioned
<1>4. QED
  BY <1>1, <1>2, <1>3 DEF IInv, PageInv, Versioned, Live

LEMMA PagesSame ==
    ASSUME IInv, UNCHANGED <<products, stamp>>,
           \A a \in Admins : page'[a] \in {page[a], Absent}
    PROVE  PageInv'
  BY PagesStay DEF Versioned, Live, IInv, TypeOK

------------------------------------------------------------------------------
(* The step of each action                                                 *)

LEMMA OpenStep ==
    ASSUME IInv, NEW a \in Admins, NEW i \in Ids, OpenPage(a, i)
    PROVE  IInv'
<1>1. TypeOK'
  BY VersionTyping DEF IInv, TypeOK, OpenPage
<1>2. PageInv'
  BY DEF IInv, PageInv, OpenPage, VersionOf, TypeOK, Live
<1>3. DeskInv'
  BY DEF IInv, OpenPage, DeskInv, Alone, Fresh, VersionOf, Live
<1>4. QED
  BY <1>1, <1>2, <1>3, TableStays DEF IInv, OpenPage

LEMMA StartCreateStep ==
    ASSUME IInv, NEW i \in Ids, NEW r \in Forms, NEW s \in Status, StartCreate(i, r, s)
    PROVE  IInv'
<1>1. NewRow(r, s, LabelOf(s)) \in Row /\ SameIdentity(NewRow(r, s, LabelOf(s)), r)
  BY RowTyping DEF IInv
<1>2. TypeOK'
  BY <1>1 DEF IInv, TypeOK, StartCreate, Check, Work
<1>3. Alone(i, NewRow(r, s, LabelOf(s)))
  BY <1>1 DEF Alone, SameIdentity, StartCreate, Conflicts
<1>4. DeskInv'
  BY <1>3 DEF DeskInv, StartCreate, Check, Fresh, Alone, Live
<1>5. QED
  BY <1>2, <1>4, TableStays, PagesSame DEF IInv, StartCreate, Check

LEMMA StartEditStep ==
    ASSUME IInv, NEW a \in Admins, NEW r \in Forms, NEW s \in Status, StartEdit(a, r, s)
    PROVE  IInv'
<1> DEFINE i == page[a].id
           n == NewRow(r, s, LabelOf(s))
<1>1. n \in Row /\ SameIdentity(n, r)
  BY RowTyping DEF IInv
<1>2. page[a] \in Version /\ i \in Live(products) /\ i \in Ids
  BY DEF IInv, TypeOK, StartEdit, AsShown, Version
<1>3. TypeOK'
  BY <1>1, <1>2 DEF IInv, TypeOK, StartEdit, Check, Work
<1>4. SameIdentity(products[i], n) \/ Alone(i, n)
  <2>1. CASE SameIdentity(products[i], r)
    BY <2>1, <1>1 DEF SameIdentity
  <2>2. CASE Selects(i, n)
    BY <2>2, <1>1, <1>2, SelectsAlone DEF IInv
  <2>3. QED
    BY <2>1, <2>2 DEF StartEdit
<1>5. page[a] = VersionOf(i)
  <2>1. page[a].stamp = stamp[i] /\ page[a].row = products[i]
    BY <1>2 DEF IInv, PageInv, StartEdit, AsShown
  <2>2. page[a] = [id |-> page[a].id, stamp |-> page[a].stamp, row |-> page[a].row]
    BY <1>2 DEF Version
  <2>3. QED
    BY <2>1, <2>2 DEF VersionOf
<1>6. DeskInv'
  BY <1>2, <1>4, <1>5 DEF DeskInv, StartEdit, Check, Alone, Live, VersionOf
<1>7. \A b \in Admins : page'[b] \in {page[b], Absent}
  BY DEF StartEdit, IInv, TypeOK
<1>8. QED
  BY <1>3, <1>6, <1>7, TableStays, PagesSame DEF IInv, StartEdit, Check

LEMMA TriggerStep ==
    ASSUME IInv, FireTrigger
    PROVE  IInv'
<1>1. desk \in Work
  BY DEF IInv, TypeOK, FireTrigger
<1>2. CASE desk.row.label = NoLabel /\ desk' = [desk EXCEPT !.stage = "written"]
  <2>1. desk' \in Work
    BY <1>1, <1>2 DEF Work
  <2>2. TypeOK'
    BY <2>1 DEF IInv, TypeOK, FireTrigger
  <2>3. DeskInv'
    BY <1>1, <1>2 DEF IInv, DeskInv, FireTrigger, Work, Alone, Fresh, Live, VersionOf
  <2>4. QED
    BY <2>2, <2>3, TableStays, PagesSame DEF IInv, FireTrigger
<1>3. ASSUME NEW s \in Statuses,
             desk' = [desk EXCEPT !.stage = "written", !.row.status = s]
      PROVE  IInv'
  <2> DEFINE n == [desk.row EXCEPT !.status = s]
  <2>1. n \in Row /\ \A q : SameIdentity(q, n) <=> SameIdentity(q, desk.row)
    BY <1>1 DEF Work, Row, Status, SameIdentity
  <2>2. desk' = [kind |-> desk.kind, shown |-> desk.shown, id |-> desk.id,
                 chosen |-> desk.chosen, row |-> n, stage |-> "written"]
    BY <1>1, <1>3 DEF Work
  <2> HIDE DEF n
  <2>3. desk' \in Work
    BY <1>1, <2>1, <2>2 DEF Work
  <2>4. TypeOK'
    BY <2>3 DEF IInv, TypeOK, FireTrigger
  <2>5. DeskInv'
    BY <1>1, <2>1, <2>2 DEF IInv, DeskInv, FireTrigger, Work, Alone, Fresh, Live, VersionOf
  <2>6. QED
    BY <2>4, <2>5, TableStays, PagesSame DEF IInv, FireTrigger
<1>4. CASE desk' = Absent
  BY <1>4, TableStays, PagesSame, DeskFree DEF IInv, TypeOK, FireTrigger
<1>5. QED
  BY <1>2, <1>3, <1>4 DEF FireTrigger, Named

\* The writes of one row, to an id that is new or in the table.
LEMMA WriteKeeps ==
    ASSUME IInv, NEW i \in Ids, NEW r \in Row, Write(i, r),
           Fresh(i) \/ i \in Live(products), trash' = trash,
           \A a \in Admins : page'[a] \in {page[a], Absent}
    PROVE  /\ products' \in [Ids -> Row \cup {Absent}] /\ stamp' \in [Ids -> Nat]
           /\ OnePlace' /\ FreshInv' /\ BatchInv' /\ PageInv'
<1>1. /\ products' = [products EXCEPT ![i] = r]
      /\ stamp' = [j \in Ids |-> IF j = i THEN stamp[j] + 1 ELSE stamp[j]]
      /\ products' \in [Ids -> Row \cup {Absent}] /\ stamp' \in [Ids -> Nat]
  BY DEF IInv, TypeOK, Write, Stamped
<1>2. Live(products') = Live(products) \cup {i}
  BY <1>1, ProductAssumption DEF Live, IInv, TypeOK
<1>3. \A t \in Tokens : Waiting(trash[t]) => i \notin BatchIds(trash[t])
  BY DEF IInv, FreshInv, OnePlace, Waiting
<1>4. OnePlace'
  BY <1>2, <1>3 DEF IInv, OnePlace, Waiting, BatchIds, Live
<1>5. FreshInv'
  BY <1>1, <1>2 DEF IInv, FreshInv, Fresh, BatchIds, TypeOK, Live
<1>6. BatchInv'
  BY DEF IInv, BatchInv, BatchFine, BatchIds, Live
<1>7. PageInv'
  <2>1. \A j \in Ids : /\ stamp[j] \in Nat /\ stamp'[j] \in Nat
                       /\ stamp'[j] >= stamp[j]
                       /\ stamp'[j] = stamp[j] => j # i
    BY <1>1 DEF IInv, TypeOK
  <2>2. Versioned
    <3>1. \A j \in Ids \ {i} : products'[j] = products[j]
      BY <1>1 DEF IInv, TypeOK
    <3>2. \A j \in Live(products') \ {i} : j \in Live(products)
      BY <1>2
    <3>3. ASSUME NEW j \in Ids, stamp'[j] = stamp[j], j \in Live(products')
          PROVE  j \in Live(products) /\ products'[j] = products[j]
      BY <2>1, <3>1, <3>2, <3>3
    <3>4. QED
      BY <2>1, <3>3 DEF Versioned
  <2>3. QED
    BY <2>2, PagesStay
<1>8. QED
  BY <1>1, <1>4, <1>5, <1>6, <1>7

LEMMA CommitStep ==
    ASSUME IInv, Commit
    PROVE  IInv'
<1>1. desk \in Work /\ desk.id \in Ids /\ desk.row \in Row
  BY DEF IInv, TypeOK, Commit, Work
<1>2. Fresh(desk.id) \/ desk.id \in Live(products)
  BY <1>1 DEF IInv, DeskInv, Commit, Work
<1>3. QED
  BY <1>1, <1>2, WriteKeeps, DeskFree DEF IInv, TypeOK, Commit

LEMMA QuickUpsertStep ==
    ASSUME IInv, NEW r \in Forms, QuickUpsert(r)
    PROVE  IInv'
<1>1. PICK i \in Ids, n \in Row : Write(i, n) /\ (Fresh(i) \/ i \in Live(products))
  <2>1. ASSUME NEW i \in Ids, Resolve(products, r) = {i}
        PROVE  i \in Live(products)
    BY <2>1 DEF Resolve, Narrowed
  <2>2. r \in Identity
    BY ProductAssumption
  <2>3. \A i \in Live(products) : NewRow(r, products[i].status, products[i].label) \in Row
    BY <2>2, VersionTyping DEF IInv, NewRow, Row, Identity
  <2>4. NewRow(r, NoStatus, NoLabel) \in Row
    BY <2>2 DEF NewRow, Row, Identity, Status
  <2>5. QED
    BY <2>1, <2>3, <2>4 DEF QuickUpsert, Upsert
<1>2. QED
  BY <1>1, WriteKeeps, DeskFree DEF IInv, TypeOK, QuickUpsert, Upsert, LockFree

LEMMA PreviewStep ==
    ASSUME IInv, NEW a \in Admins, NEW t \in Tokens, NEW scope \in Scopes,
           MakePreview(a, t, scope)
    PROVE  IInv'
<1>1. Fingerprint(scope) \in SUBSET Version
  BY VersionTyping DEF IInv, Fingerprint, Targets, Live
<1>2. scope \in Scope
  BY ProductAssumption
<1>3. [by |-> a, auth |-> auth[a], scope |-> scope, seen |-> Fingerprint(scope)] \in Preview
  BY <1>1, <1>2 DEF Preview, IInv, TypeOK
<1>4. TypeOK'
  BY <1>3 DEF IInv, TypeOK, MakePreview
<1>5. DeskInv'
  BY DEF IInv, MakePreview, DeskInv, Alone, Fresh, VersionOf, Live
<1>6. QED
  BY <1>4, <1>5, TableStays, PagesSame DEF IInv, TypeOK, MakePreview

LEMMA ExpireStep ==
    ASSUME IInv, NEW t \in Tokens, Expire(t)
    PROVE  IInv'
<1>1. TypeOK'
  BY DEF IInv, TypeOK, Expire
<1>2. DeskInv'
  BY DEF IInv, Expire, DeskInv, Alone, Fresh, VersionOf, Live
<1>3. QED
  BY <1>1, <1>2, TableStays, PagesSame DEF IInv, TypeOK, Expire

\* Rows that go, by a deletion or by an import.
LEMMA RemovedFacts ==
    ASSUME TypeOK, NEW I
    PROVE  /\ Removed(I) \in [Ids -> Row \cup {Absent}]
           /\ Kept(I) \in [Ids -> Row \cup {Absent}]
           /\ Live(Removed(I)) = Live(products) \ I
           /\ \A i \in Live(products) \ I : Removed(I)[i] = products[i]
           /\ Live(Kept(I)) = Live(products) \cap I
           /\ \A i \in Live(Kept(I)) : Kept(I)[i] = products[i]
  BY DEF TypeOK, Removed, Kept, Live

LEMMA DeleteStep ==
    ASSUME IInv, NEW a \in Admins, NEW t \in Tokens, Delete(a, t)
    PROVE  IInv'
<1> DEFINE v == previews[t]
           I == Targets(v.scope)
           b == [scope |-> v.scope, restored |-> FALSE, rows |-> Kept(I)]
<1>1. v \in Preview /\ v.scope \in Scope /\ v.scope.kind \in {"product", "brand"}
  BY DEF IInv, TypeOK, Delete, Open, Preview, Scope
<1>2. I \subseteq Live(products)
  BY DEF Targets
<1>3. b \in Batch
  BY <1>1, RemovedFacts DEF Batch, IInv
<1>4. BatchIds(b) = I
  <2>1. b.rows = Kept(I)
    OBVIOUS
  <2>2. Live(Kept(I)) = I
    <3>1. Live(Kept(I)) = Live(products) \cap I
      BY RemovedFacts DEF IInv
    <3>2. QED
      BY <1>2, <3>1
  <2>3. QED
    BY <2>1, <2>2 DEF BatchIds
<1>5. BatchFine(b)
  <2>1. v.scope.kind = "product" => I \subseteq {v.scope.id}
    BY DEF Targets
  <2>2. v.scope.kind = "brand" => \A i \in I : products[i].brand = v.scope.brand
    BY DEF Targets
  <2>3. QED
    BY <1>1, <1>4, <2>1, <2>2, RemovedFacts DEF IInv, BatchFine, BatchIds
<1> HIDE DEF I
<1>6. /\ trash' = [trash EXCEPT ![t] = b] /\ stamp' = stamp
      /\ products' = Removed(I) /\ Live(products') = Live(products) \ I
  BY RemovedFacts DEF Delete, IInv, I
<1> HIDE DEF b
<1>7. TypeOK'
  <2>1. previews' \in [Tokens -> Preview \cup {Absent, Spent}]
    BY DEF IInv, TypeOK, Delete
  <2>2. products' \in [Ids -> Row \cup {Absent}] /\ trash' \in [Tokens -> Batch \cup {Absent}]
    BY <1>3, <1>6, RemovedFacts DEF IInv, TypeOK
  <2>3. UNCHANGED <<stamp, labels, auth, page, desk, others>>
    BY DEF Delete
  <2>4. QED
    BY <2>1, <2>2, <2>3 DEF IInv, TypeOK
<1>8. OnePlace'
  BY <1>2, <1>4, <1>6 DEF IInv, OnePlace, TypeOK, Waiting, BatchIds, Live
<1>9. FreshInv'
  BY <1>2, <1>4, <1>6 DEF IInv, FreshInv, TypeOK, Fresh, BatchIds, Live
<1>10. BatchInv'
  BY <1>5, <1>6 DEF IInv, BatchInv, TypeOK, BatchFine, BatchIds, Live
<1>11. PageInv'
  BY <1>6, RemovedFacts, PagesStay DEF IInv, TypeOK, Versioned, Delete
<1>12. QED
  BY <1>7, <1>8, <1>9, <1>10, <1>11, DeskFree DEF IInv, Delete, LockFree

LEMMA QuickDeleteStep ==
    ASSUME IInv, NEW a \in Admins, NEW t \in Tokens, QuickDelete(a, t)
    PROVE  IInv'
<1> DEFINE I == Targets(previews[t].scope)
<1>1. /\ trash' = trash /\ stamp' = stamp
      /\ products' = Removed(I) /\ Live(products') = Live(products) \ I
  BY RemovedFacts DEF QuickDelete, IInv
<1> HIDE DEF I
<1>2. TypeOK'
  BY <1>1, RemovedFacts DEF IInv, TypeOK, QuickDelete
<1>3. OnePlace' /\ FreshInv' /\ BatchInv'
  BY <1>1 DEF IInv, OnePlace, FreshInv, BatchInv, Fresh, Live, BatchIds, Waiting, BatchFine
<1>4. PageInv'
  BY <1>1, RemovedFacts, PagesStay DEF IInv, TypeOK, Versioned, QuickDelete
<1>5. QED
  BY <1>2, <1>3, <1>4, DeskFree DEF IInv, QuickDelete, LockFree

\* The rows of a batch as they come back.
Returned(b) ==
    [i \in Ids |->
        IF i \in BatchIds(b)
        THEN NewRow(b.rows[i], b.rows[i].status, LabelOf(b.rows[i].status))
        ELSE products[i]]

LEMMA ReturnedFacts ==
    ASSUME TypeOK, NEW b \in Batch
    PROVE  /\ Returned(b) \in [Ids -> Row \cup {Absent}]
           /\ Live(Returned(b)) = Live(products) \cup BatchIds(b)
           /\ \A i \in BatchIds(b) : SameIdentity(Returned(b)[i], b.rows[i])
           /\ \A i \in Live(products) \ BatchIds(b) : Returned(b)[i] = products[i]
<1>1. b.rows \in [Ids -> Row \cup {Absent}]
  BY DEF Batch
<1>2. ASSUME NEW i \in BatchIds(b)
      PROVE  /\ b.rows[i] \in Row /\ i \in Ids
             /\ Returned(b)[i] \in Row
             /\ SameIdentity(Returned(b)[i], b.rows[i])
  <2>1. b.rows[i] \in Row /\ i \in Ids
    BY <1>1 DEF BatchIds, Live
  <2>2. LabelOf(b.rows[i].status) \in Labels \cup {NoLabel}
    BY <2>1 DEF LabelOf, TypeOK, Row, Status
  <2>3. QED
    BY <2>1, <2>2 DEF Returned, NewRow, Row, SameIdentity
<1>3. \A i \in Ids \ BatchIds(b) : Returned(b)[i] = products[i]
  BY DEF Returned
<1>4. Returned(b) \in [Ids -> Row \cup {Absent}]
  <2>1. \A i \in Ids : Returned(b)[i] \in Row \cup {Absent}
    BY <1>2, <1>3 DEF TypeOK
  <2>2. QED
    BY <2>1 DEF Returned
<1>5. \A i \in Ids : Returned(b)[i] # Absent <=> i \in Live(products) \cup BatchIds(b)
  BY <1>2, <1>3, ProductAssumption DEF Live, BatchIds
<1>6. QED
  BY <1>2, <1>3, <1>4, <1>5 DEF Live, BatchIds

LEMMA RestoreStep ==
    ASSUME IInv, NEW t \in Tokens, Restore(t)
    PROVE  IInv'
<1> DEFINE b == trash[t]
           I == BatchIds(b)
<1>1. b \in Batch /\ ~b.restored /\ I \cap Live(products) = {} /\ I \subseteq Ids
  BY DEF IInv, TypeOK, Restore, Waiting, BatchIds, Live
<1>2. Marked(b) \in Batch /\ BatchIds(Marked(b)) = I /\ Marked(b).restored = TRUE
      /\ Marked(b).rows = b.rows /\ Marked(b).scope = b.scope
  BY <1>1 DEF Marked, Batch, BatchIds
<1>3. /\ products' = Returned(b) /\ products' \in [Ids -> Row \cup {Absent}]
      /\ Live(products') = Live(products) \cup I
      /\ \A i \in Live(products) : products'[i] = products[i]
  BY <1>1, ReturnedFacts DEF Restore, Returned, IInv
<1>4. /\ trash' = [trash EXCEPT ![t] = Marked(b)]
      /\ stamp' = [i \in Ids |-> IF i \in I THEN stamp[i] + 1 ELSE stamp[i]]
  BY DEF Restore, Stamped
<1>5. TypeOK'
  BY <1>2, <1>3, <1>4 DEF IInv, TypeOK, Restore
<1>6. \A u \in Tokens : Waiting(trash[u]) /\ u # t => I \cap BatchIds(trash[u]) = {}
  BY DEF IInv, OnePlace, Restore
<1>7. \A u \in Tokens : /\ trash'[u] # Absent => trash[u] # Absent
                        /\ BatchIds(trash'[u]) = BatchIds(trash[u])
                        /\ trash'[u].rows = trash[u].rows
                        /\ trash'[u].scope = trash[u].scope
                        /\ Waiting(trash'[u]) => Waiting(trash[u]) /\ u # t
  BY <1>2, <1>4 DEF IInv, TypeOK, Waiting, Restore
<1>8. OnePlace'
  <2>1. ASSUME NEW u \in Tokens, Waiting(trash'[u])
        PROVE  /\ BatchIds(trash'[u]) \cap Live(products') = {}
               /\ \A w \in Tokens : w # u /\ Waiting(trash'[w]) =>
                      BatchIds(trash'[u]) \cap BatchIds(trash'[w]) = {}
    BY <1>3, <1>6, <1>7, <2>1 DEF IInv, OnePlace
  <2>2. QED
    BY <2>1 DEF OnePlace, BatchIds, Live, Waiting
<1>9. FreshInv'
  <2>1. ASSUME NEW i \in Ids, stamp'[i] = 0
        PROVE  i \notin I /\ Fresh(i)
    BY <1>4, <2>1 DEF IInv, TypeOK, Fresh
  <2>2. QED
    BY <1>3, <1>7, <2>1 DEF IInv, FreshInv, Fresh, BatchIds, Live
<1>10. BatchInv'
  BY <1>7 DEF IInv, BatchInv, BatchFine, BatchIds, Live
<1>11. PageInv'
  BY <1>1, <1>3, <1>4, PagesStay DEF IInv, TypeOK, Versioned, Restore
<1>12. QED
  BY <1>5, <1>8, <1>9, <1>10, <1>11, DeskFree DEF IInv, Restore, LockFree

LEMMA ImportStep ==
    ASSUME IInv, NEW i \in Ids, NEW r \in Forms, NEW gone \in SUBSET Ids,
           Import(i, r, gone)
    PROVE  IInv'
<1> PICK s \in Status : products' = [Removed(gone) EXCEPT ![i] = NewRow(r, s, LabelOf(s))]
  BY DEF Import
<1> DEFINE n == NewRow(r, s, LabelOf(s))
<1>1. n \in Row
  BY RowTyping DEF IInv
<1>2. /\ products' = [Removed(gone) EXCEPT ![i] = n]
      /\ stamp' = [j \in Ids |-> IF j = i THEN stamp[j] + 1 ELSE stamp[j]]
      /\ trash' = trash
  BY DEF Import, Other, Stamped
<1> HIDE DEF n
<1>3. /\ products' \in [Ids -> Row \cup {Absent}]
      /\ Live(products') = (Live(products) \ gone) \cup {i}
      /\ \A j \in Live(products) \ (gone \cup {i}) : products'[j] = products[j]
  BY <1>1, <1>2, RemovedFacts, ProductAssumption DEF IInv, Live, Removed
<1>4. TypeOK'
  BY <1>2, <1>3, ProductAssumption DEF IInv, TypeOK, Import, Other
<1>5. \A t \in Tokens : Waiting(trash[t]) => i \notin BatchIds(trash[t])
  BY DEF IInv, FreshInv, Waiting, Import
<1>6. OnePlace'
  BY <1>2, <1>3, <1>5 DEF IInv, OnePlace, Waiting, BatchIds, Live
<1>7. FreshInv'
  BY <1>2, <1>3 DEF IInv, FreshInv, Fresh, BatchIds, TypeOK, Live
<1>8. BatchInv'
  BY <1>2 DEF IInv, BatchInv, BatchFine, BatchIds, Live
<1>9. PageInv'
  <2>1. \A j \in Ids : /\ stamp[j] \in Nat /\ stamp'[j] \in Nat
                       /\ stamp'[j] >= stamp[j]
                       /\ stamp'[j] = stamp[j] => j # i
    BY <1>2 DEF IInv, TypeOK
  <2>2. Versioned
    <3>1. \A j \in Live(products') \ {i} :
              j \in Live(products) /\ products'[j] = products[j]
      BY <1>3
    <3>2. ASSUME NEW j \in Ids, stamp'[j] = stamp[j], j \in Live(products')
          PROVE  j \in Live(products) /\ products'[j] = products[j]
      BY <2>1, <3>1, <3>2
    <3>3. QED
      BY <2>1, <3>2 DEF Versioned
  <2>3. QED
    BY <2>2, PagesStay DEF Import, Other
<1>10. QED
  BY <1>4, <1>6, <1>7, <1>8, <1>9, DeskFree DEF IInv, Import, Other, LockFree

LEMMA RenameStep ==
    ASSUME IInv, NEW s \in Statuses, NEW l \in Labels, Rename(s, l)
    PROVE  IInv'
<1> DEFINE H == {i \in Live(products) : products[i].status = s}
<1>1. /\ desk # Absent /\ desk.kind = "edit" => desk.id \notin H
      /\ products' = [i \in Ids |-> IF i \in H
                                    THEN [products[i] EXCEPT !.label = l] ELSE products[i]]
      /\ stamp' = [i \in Ids |-> IF i \in H THEN stamp[i] + 1 ELSE stamp[i]]
      /\ UNCHANGED <<page, previews, trash, desk, auth>>
      /\ labels' = [labels EXCEPT ![s] = l]
      /\ others' = others + 1 /\ others < MaxOthers
  BY DEF Rename, Other, Stamped
<1>2. \A i \in H : /\ i \in Live(products)
                   /\ [products[i] EXCEPT !.label = l] \in Row
                   /\ SameIdentity([products[i] EXCEPT !.label = l], products[i])
  BY VersionTyping DEF IInv, Row, SameIdentity
<1> HIDE DEF H
<1>3. products' \in [Ids -> Row \cup {Absent}] /\ stamp' \in [Ids -> Nat]
  BY <1>1, <1>2 DEF IInv, TypeOK
<1>4. Live(products') = Live(products)
  BY <1>1, <1>2, <1>3, ProductAssumption DEF Live
<1>5. \A i \in Live(products) : SameIdentity(products'[i], products[i])
  BY <1>1, <1>2 DEF SameIdentity, Live
<1>6. TypeOK'
  BY <1>1, <1>3, ProductAssumption DEF IInv, TypeOK
<1>7. OnePlace'
  <2>1. /\ \A t \in Tokens : Waiting(trash[t]) => BatchIds(trash[t]) \cap Live(products') = {}
        /\ \A t, u \in Tokens : t # u /\ Waiting(trash[t]) /\ Waiting(trash[u]) =>
               BatchIds(trash[t]) \cap BatchIds(trash[u]) = {}
    BY <1>4 DEF IInv, OnePlace
  <2>2. QED
    BY <1>1, <2>1 DEF OnePlace, Waiting, BatchIds, Live
<1>8. FreshInv'
  <2>1. \A i \in Ids : stamp'[i] = 0 => stamp[i] = 0
    BY <1>1 DEF IInv, TypeOK
  <2>2. QED
    BY <1>1, <1>4, <2>1 DEF IInv, FreshInv, Fresh, BatchIds, Live
<1>9. BatchInv'
  BY <1>1 DEF IInv, BatchInv, BatchFine, BatchIds, Live
<1>10. PageInv'
  BY <1>1, <1>4, PagesStay DEF IInv, TypeOK, Versioned
<1>11. DeskInv'
  <2> SUFFICES ASSUME desk # Absent, desk \in Work
               PROVE  DeskInv'
    BY <1>1 DEF DeskInv, IInv, TypeOK
  <2>1. ASSUME Alone(desk.id, desk.row)
        PROVE  Alone(desk.id, desk.row)'
    <3>1. desk' = desk
      BY <1>1
    <3>2. ASSUME NEW j \in Live(products') \ {desk.id}
          PROVE  ~SameIdentity(products'[j], desk.row)
      <4>1. j \in Live(products) \ {desk.id}
        BY <1>4
      <4>2. ~SameIdentity(products[j], desk.row)
        BY <2>1, <4>1 DEF Alone
      <4>3. SameIdentity(products'[j], products[j])
        BY <1>5, <4>1
      <4>4. QED
        BY <4>2, <4>3 DEF SameIdentity
    <3>3. QED
      BY <3>1, <3>2 DEF Alone
  <2>2. ASSUME desk.kind = "create"
        PROVE  Fresh(desk.id)'
    <3>1. Fresh(desk.id) /\ desk.id \notin H /\ desk.id \in Ids
      BY <1>2, <2>2 DEF IInv, DeskInv, FreshInv, Work
    <3>2. QED
      BY <1>1, <3>1 DEF Fresh
  <2>3. ASSUME desk.kind = "edit"
        PROVE  /\ desk.id \in Live(products)
               /\ desk.shown = VersionOf(desk.id)'
               /\ products'[desk.id] = products[desk.id]
    BY <1>1, <2>3 DEF IInv, DeskInv, Work, VersionOf
  <2>4. QED
    BY <1>1, <1>4, <2>1, <2>2, <2>3 DEF IInv, DeskInv
<1>12. QED
  BY <1>6, <1>7, <1>8, <1>9, <1>10, <1>11 DEF IInv

LEMMA EndSessionsStep ==
    ASSUME IInv, NEW a \in Admins, EndSessions(a)
    PROVE  IInv'
<1>1. TypeOK'
  BY ProductAssumption DEF IInv, TypeOK, EndSessions, Other
<1>2. DeskInv'
  BY DEF IInv, EndSessions, Other, DeskInv, Alone, Fresh, VersionOf, Live
<1>3. QED
  BY <1>1, <1>2, TableStays, PagesSame DEF IInv, TypeOK, EndSessions, Other

------------------------------------------------------------------------------
(* The invariant                                                           *)

LEMMA InitIInv ==
    Init => IInv
<1> SUFFICES ASSUME Init
             PROVE  IInv
  OBVIOUS
<1>1. PICK f \in [Statuses -> Labels] : labels = f
  BY DEF Init
<1>2. TypeOK
  BY <1>1, ProductAssumption DEF Init, TypeOK
<1>3. QED
  BY <1>2 DEF Init, IInv, OnePlace, FreshInv, DeskInv, BatchInv, PageInv, Live, Waiting

LEMMA StutterStep ==
    ASSUME IInv, UNCHANGED vars
    PROVE  IInv'
<1>1. TypeOK'
  BY DEF IInv, TypeOK, vars
<1>2. DeskInv'
  BY DEF IInv, vars, DeskInv, Alone, Fresh, VersionOf, Live
<1>3. QED
  BY <1>1, <1>2, TableStays, PagesSame DEF IInv, TypeOK, vars

LEMMA StepIInv ==
    IInv /\ [Next]_vars => IInv'
<1> SUFFICES ASSUME IInv, [Next]_vars
             PROVE  IInv'
  OBVIOUS
<1>1. CASE Saving
  BY <1>1, OpenStep, StartCreateStep, StartEditStep, TriggerStep, CommitStep,
     QuickUpsertStep DEF Saving
<1>2. CASE Deleting
  BY <1>2, PreviewStep, DeleteStep, QuickDeleteStep, ExpireStep, RestoreStep DEF Deleting
<1>3. CASE Importing
  <2>1. \A I : {j \in Live(products) : products[j].brand = I} \in SUBSET Ids
    BY DEF Live
  <2>2. QED
    BY <1>3, <2>1, ImportStep DEF Importing
<1>4. CASE UNCHANGED vars
  BY <1>4, StutterStep
<1>5. QED
  BY <1>1, <1>2, <1>3, <1>4, RenameStep, EndSessionsStep DEF Next

LEMMA InvariantIInv ==
    Spec => []IInv
  BY InitIInv, StepIInv, PTL DEF Spec

\* The types of all variables, for any instance.
THEOREM Typed ==
    Spec => []TypeOK
  BY InvariantIInv, PTL DEF IInv

\* However deletions and restorations follow each other, a product is in one
\* place.
THEOREM ProductInOnePlace ==
    Spec => []OnePlace
  BY InvariantIInv, PTL DEF IInv

------------------------------------------------------------------------------
(* What steps may do                                                       *)

LEMMA OthersCounted ==
    ASSUME IInv, [Next]_vars, others' = others
    PROVE  Saving \/ Deleting \/ UNCHANGED vars
<1>1. others \in Nat
  BY DEF IInv, TypeOK
<1>2. ~Other
  BY <1>1 DEF Other
<1>3. ~Importing
  BY <1>2 DEF Importing, Import
<1>4. ~ \E s \in Statuses, l \in Labels : Rename(s, l)
  BY <1>2 DEF Rename
<1>5. ~ \E a \in Admins : EndSessions(a)
  BY <1>2 DEF EndSessions
<1>6. QED
  BY <1>3, <1>4, <1>5 DEF Next

\* Steps that remove nothing, beside those of imports and of the status page.
LEMMA NothingGoes ==
    ASSUME IInv, others' = others, [Next]_vars,
           ~ \E a \in Admins, t \in Tokens : Delete(a, t) \/ QuickDelete(a, t)
    PROVE  Live(products) \subseteq Live(products')
<1>1. CASE products' = products
  BY <1>1 DEF Live
<1>2. CASE \E t \in Tokens : Restore(t)
  <2> PICK t \in Tokens : Restore(t)
    BY <1>2
  <2>1. trash[t] \in Batch /\ products' = Returned(trash[t])
    BY DEF IInv, TypeOK, Restore, Waiting, Returned
  <2>2. QED
    BY <2>1, ReturnedFacts DEF IInv
<1>3. CASE \E i \in Ids, n \in Row : Write(i, n)
  BY <1>3, ProductAssumption DEF Write, Live, IInv, TypeOK
<1>4. Commit => desk.id \in Ids /\ desk.row \in Row
  BY DEF IInv, TypeOK, Commit, Work
<1>5. ASSUME NEW r \in Forms, QuickUpsert(r)
      PROVE  \E i \in Ids, n \in Row : Write(i, n)
  <2>1. r \in Identity
    BY ProductAssumption
  <2>2. ASSUME NEW i \in Ids, Resolve(products, r) = {i}
        PROVE  NewRow(r, products[i].status, products[i].label) \in Row
    <3>1. i \in Live(products)
      BY <2>2 DEF Resolve, Narrowed
    <3>2. QED
      BY <2>1, <3>1, VersionTyping DEF IInv, NewRow, Row, Identity
  <2>3. NewRow(r, NoStatus, NoLabel) \in Row
    BY <2>1 DEF NewRow, Row, Identity, Status
  <2>4. QED
    BY <1>5, <2>2, <2>3 DEF QuickUpsert, Upsert
<1>6. CASE Saving
  <2>1. CASE \E a \in Admins, i \in Ids : OpenPage(a, i)
    BY <1>1, <2>1 DEF OpenPage
  <2>2. CASE \E r \in Forms, s \in Status :
                 \/ \E i \in Ids : StartCreate(i, r, s)
                 \/ \E a \in Admins : StartEdit(a, r, s)
    BY <1>1, <2>2 DEF StartCreate, StartEdit, Check
  <2>3. CASE FireTrigger
    BY <1>1, <2>3 DEF FireTrigger
  <2>4. CASE Commit
    BY <1>3, <1>4, <2>4 DEF Commit
  <2>5. CASE \E r \in Forms : QuickUpsert(r)
    BY <1>3, <1>5, <2>5
  <2>6. QED
    BY <1>6, <2>1, <2>2, <2>3, <2>4, <2>5 DEF Saving
<1>7. CASE Deleting
  <2>1. CASE \E t \in Tokens, a \in Admins, scope \in Scopes : MakePreview(a, t, scope)
    BY <1>1, <2>1 DEF MakePreview
  <2>2. CASE \E t \in Tokens : Expire(t)
    BY <1>1, <2>2 DEF Expire
  <2>3. QED
    BY <1>2, <1>7, <2>1, <2>2 DEF Deleting
<1>8. QED
  BY <1>1, <1>6, <1>7, OthersCounted DEF vars

LEMMA GoneAsSeen ==
    ASSUME IInv, NEW a \in Admins, NEW t \in Tokens, Delete(a, t) \/ QuickDelete(a, t)
    PROVE  /\ Open(t)
           /\ previews[t].auth = auth[previews[t].by]
           /\ previews[t].seen = {VersionOf(i) : i \in Live(products) \ Live(products')}
<1> DEFINE I == Targets(previews[t].scope)
<1>1. Open(t) /\ Confirmed(a, previews[t]) /\ products' = Removed(I)
  BY DEF Delete, QuickDelete
<1>2. Live(products) \ Live(products') = I
  <2>1. I \subseteq Live(products)
    BY DEF Targets
  <2>2. QED
    BY <1>1, <2>1, RemovedFacts DEF IInv
<1>3. QED
  BY <1>1, <1>2 DEF Confirmed, Fingerprint

\* What is deleted is what the preview showed to this session, version by
\* version.
THEOREM DeletedAsPreviewed ==
    Spec => DeletionsAsShown
<1>1. IInv /\ [Next]_vars =>
        [ LET gone == Live(products) \ Live(products')
          IN  gone = {} \/ others' # others \/
              \E t \in Tokens :
                  /\ Open(t)
                  /\ previews[t].auth = auth[previews[t].by]
                  /\ previews[t].seen = {VersionOf(i) : i \in gone} ]_vars
  <2> SUFFICES ASSUME IInv, [Next]_vars, others' = others,
                      Live(products) \ Live(products') # {}
               PROVE  \E t \in Tokens :
                          /\ Open(t)
                          /\ previews[t].auth = auth[previews[t].by]
                          /\ previews[t].seen =
                                 {VersionOf(i) : i \in Live(products) \ Live(products')}
    OBVIOUS
  <2>1. PICK a \in Admins, t \in Tokens : Delete(a, t) \/ QuickDelete(a, t)
    BY NothingGoes
  <2>2. QED
    BY <2>1, GoneAsSeen
<1>2. QED
  BY <1>1, InvariantIInv, PTL DEF Spec, DeletionsAsShown

\* Products change under a form only by the form.
LEMMA EditedRow ==
    ASSUME IInv, [Next]_vars, desk # Absent, products' # products, others' = others
    PROVE  Commit
<1>1. CASE UNCHANGED vars
  BY <1>1 DEF vars
<1>2. CASE Saving
  BY <1>2 DEF Saving, OpenPage, StartCreate, StartEdit, Check, FireTrigger,
              QuickUpsert, Upsert, LockFree
<1>3. CASE Deleting
  BY <1>3 DEF Deleting, MakePreview, Expire, Delete, QuickDelete, Restore, LockFree
<1>4. QED
  BY <1>1, <1>2, <1>3, OthersCounted

\* An edit replaces the row of its form.
THEOREM EditedAsShown ==
    Spec => EditsWhatIsShown
<1>1. IInv /\ [Next]_vars =>
        [ desk # Absent /\ desk.kind = "edit" /\ products' # products =>
              others' # others \/ desk.shown = VersionOf(desk.id) ]_vars
  BY EditedRow DEF IInv, DeskInv
<1>2. QED
  BY <1>1, InvariantIInv, PTL DEF Spec, EditsWhatIsShown

\* A row that is alone with its identity, or keeps the one it has, makes no
\* new pair.
LEMMA WriteKeepsApart ==
    ASSUME IInv, NEW i \in Ids, NEW r \in Row, Write(i, r),
           Alone(i, r) \/ (i \in Live(products) /\ SameIdentity(products[i], r))
    PROVE  Twins(products') \subseteq Twins(products)
<1> SUFFICES ASSUME NEW e \in Twins(products')
             PROVE  e \in Twins(products)
  OBVIOUS
<1>1. products' = [products EXCEPT ![i] = r] /\ products \in [Ids -> Row \cup {Absent}]
  BY DEF Write, IInv, TypeOK
<1>2. /\ e \in Ids \X Ids /\ e[1] # e[2] /\ e[1] \in Ids /\ e[2] \in Ids
      /\ e[1] \in Live(products') /\ e[2] \in Live(products')
      /\ SameIdentity(products'[e[1]], products'[e[2]])
  BY DEF Twins
<1>3. CASE e[1] # i /\ e[2] # i
  BY <1>1, <1>2, <1>3 DEF Twins, Live
<1>4. ASSUME Alone(i, r), e[1] = i \/ e[2] = i
      PROVE  FALSE
  BY <1>1, <1>2, <1>4 DEF Alone, SameIdentity, Live
<1>5. CASE i \in Live(products) /\ SameIdentity(products[i], r) /\ (e[1] = i \/ e[2] = i)
  BY <1>1, <1>2, <1>5 DEF Twins, SameIdentity, Live
<1>6. QED
  BY <1>3, <1>4, <1>5

LEMMA RestoreKeepsApart ==
    ASSUME IInv, NEW t \in Tokens, Restore(t), NEW e \in Twins(products')
    PROVE  \/ e \in Twins(products)
           \/ e[1] \notin Live(products) /\ e[2] \notin Live(products)
<1> DEFINE b == trash[t]
           I == BatchIds(b)
<1>1. b \in Batch /\ BatchFine(b) /\ I \cap Live(products) = {} /\ MayReturn(b)
  BY DEF IInv, TypeOK, Restore, Waiting, BatchInv
<1>2. /\ products' = Returned(b)
      /\ Live(products') = Live(products) \cup I
      /\ \A i \in I : SameIdentity(products'[i], b.rows[i])
      /\ \A i \in Live(products) : products'[i] = products[i]
  BY <1>1, ReturnedFacts DEF Restore, Returned, IInv
<1>3. ASSUME NEW i \in I, NEW j \in Live(products)
      PROVE  ~SameIdentity(b.rows[i], products[j])
  <2>1. CASE b.scope.kind = "brand"
    BY <1>1, <2>1 DEF MayReturn, BatchFine, SameIdentity
  <2>2. CASE b.scope.kind = "product"
    <3>1. i = b.scope.id /\ i \in Ids /\ b.rows[i] \in Row /\ Selects(i, b.rows[i]) /\ i # j
      BY <1>1, <2>2 DEF MayReturn, BatchFine, BatchIds, Live, Batch
    <3>2. QED
      BY <3>1, SelectsAlone DEF IInv, Alone, SameIdentity
  <2>3. QED
    BY <1>1, <2>1, <2>2 DEF BatchFine
<1>4. /\ e \in Ids \X Ids /\ e[1] # e[2]
      /\ e[1] \in Live(products') /\ e[2] \in Live(products')
      /\ SameIdentity(products'[e[1]], products'[e[2]])
  BY DEF Twins
<1> HIDE DEF I, b
<1>5. QED
  BY <1>2, <1>3, <1>4 DEF Twins, SameIdentity

\* No form makes a pair of products with one identity.
LEMMA KeptApart ==
    ASSUME IInv, [Next]_vars, others' = others, NEW e \in Twins(products')
    PROVE  \/ e \in Twins(products)
           \/ e[1] \notin Live(products) /\ e[2] \notin Live(products)
<1>1. CASE products' = products
  BY <1>1
<1>2. ASSUME Commit
      PROVE  e \in Twins(products)
  <2>1. desk \in Work /\ desk.id \in Ids /\ desk.row \in Row
    BY <1>2 DEF IInv, TypeOK, Commit, Work
  <2>2. \/ Alone(desk.id, desk.row)
        \/ desk.id \in Live(products) /\ SameIdentity(products[desk.id], desk.row)
    BY <1>2, <2>1 DEF IInv, DeskInv, Commit, Work
  <2>3. Write(desk.id, desk.row)
    BY <1>2 DEF Commit
  <2> DEFINE i == desk.id
             r == desk.row
  <2> HIDE DEF i, r
  <2>4. QED
    BY <2>1, <2>2, <2>3, WriteKeepsApart
<1>3. ASSUME NEW r \in Forms, QuickUpsert(r)
      PROVE  e \in Twins(products)
  <2>1. r \in Identity
    BY ProductAssumption
  <2>2. ASSUME NEW j \in Live(products), SameIdentity(products[j], r)
        PROVE  j \in Resolve(products, r)
    BY <2>2, SameResolves DEF SameIdentity
  <2>3. ASSUME NEW i \in Ids, NEW s \in Status, NEW l \in Labels \cup {NoLabel},
               Resolve(products, r) \subseteq {i}, Write(i, NewRow(r, s, l))
        PROVE  e \in Twins(products)
    <3>1. NewRow(r, s, l) \in Row /\ \A q : SameIdentity(q, NewRow(r, s, l)) <=> SameIdentity(q, r)
      BY <2>1 DEF NewRow, Row, Identity, SameIdentity
    <3>2. Alone(i, NewRow(r, s, l))
      BY <2>2, <2>3, <3>1 DEF Alone
    <3> DEFINE n == NewRow(r, s, l)
    <3>3. n \in Row /\ Alone(i, n) /\ Write(i, n)
      BY <2>3, <3>1, <3>2
    <3> HIDE DEF n
    <3>4. QED
      BY <3>3, WriteKeepsApart
  <2>4. ASSUME NEW i \in Ids, Resolve(products, r) = {i}
        PROVE  products[i].status \in Status /\ products[i].label \in Labels \cup {NoLabel}
    <3>1. i \in Live(products)
      BY <2>4 DEF Resolve, Narrowed
    <3>2. QED
      BY <3>1, VersionTyping DEF IInv, Row
  <2>5. QED
    BY <1>3, <2>3, <2>4 DEF QuickUpsert, Upsert, Status
<1>4. CASE Saving
  <2>1. CASE \E a \in Admins, i \in Ids : OpenPage(a, i)
    BY <1>1, <2>1 DEF OpenPage
  <2>2. CASE \E r \in Forms, s \in Status :
                 \/ \E i \in Ids : StartCreate(i, r, s)
                 \/ \E a \in Admins : StartEdit(a, r, s)
    BY <1>1, <2>2 DEF StartCreate, StartEdit, Check
  <2>3. CASE FireTrigger
    BY <1>1, <2>3 DEF FireTrigger
  <2>4. QED
    BY <1>2, <1>3, <1>4, <2>1, <2>2, <2>3 DEF Saving
<1>5. ASSUME NEW a \in Admins, NEW t \in Tokens, Delete(a, t) \/ QuickDelete(a, t)
      PROVE  e \in Twins(products)
  <2>1. PICK I : products' = Removed(I)
    BY <1>5 DEF Delete, QuickDelete
  <2>2. QED
    BY <2>1, RemovedFacts DEF IInv, Twins
<1>6. CASE Deleting
  <2>1. CASE \E t \in Tokens, a \in Admins, scope \in Scopes : MakePreview(a, t, scope)
    BY <1>1, <2>1 DEF MakePreview
  <2>2. CASE \E t \in Tokens : Expire(t)
    BY <1>1, <2>2 DEF Expire
  <2>3. QED
    BY <1>5, <1>6, <2>1, <2>2, RestoreKeepsApart DEF Deleting
<1>7. QED
  BY <1>1, <1>4, <1>6, OthersCounted DEF vars

THEOREM FormsMakeNoTwins ==
    Spec => FormsKeepApart
<1>1. IInv /\ [Next]_vars =>
        [ others' = others =>
              \A e \in Twins(products') :
                  \/ e \in Twins(products)
                  \/ e[1] \notin Live(products) /\ e[2] \notin Live(products) ]_vars
  BY KeptApart
<1>2. QED
  BY <1>1, InvariantIInv, PTL DEF Spec, FormsKeepApart

------------------------------------------------------------------------------
(* If renaming took the lock that all others take                          *)

\* A status is renamed only while no form is under way, as if the transaction
\* that renames had waited for the lock on products.
RenamesWait ==
    [][\A s \in Statuses, l \in Labels : Rename(s, l) => LockFree]_vars

\* No two statuses have one label; the copies of the labels are right, also on
\* the desk.
LabelInv ==
    /\ \A s, t \in Statuses : labels[s] = labels[t] => s = t
    /\ LabelsAreCurrent
    /\ desk # Absent => /\ desk.row.status = desk.chosen
                        /\ desk.row.label = LabelOf(desk.chosen)

\* The table changes by rows whose label is that of their status.
Labelled ==
    /\ labels' = labels
    /\ \A i \in Ids : \/ products'[i] \in {products[i], Absent}
                      \/ products'[i].label = LabelOf(products'[i].status)

LEMMA LabelsKept ==
    ASSUME LabelInv, Labelled, desk' \in {desk, Absent}
    PROVE  LabelInv'
<1>1. \A s : LabelOf(s)' = LabelOf(s)
  BY DEF Labelled, LabelOf
<1>2. ASSUME NEW i \in Live(products')
      PROVE  products'[i].label = LabelOf(products'[i].status)
  BY <1>2 DEF LabelInv, LabelsAreCurrent, Labelled, Live
<1>3. LabelsAreCurrent'
  BY <1>1, <1>2 DEF LabelsAreCurrent, Live
<1>4. (desk # Absent => /\ desk.row.status = desk.chosen
                         /\ desk.row.label = LabelOf(desk.chosen))'
  BY <1>1 DEF LabelInv
<1>5. QED
  BY <1>3, <1>4 DEF LabelInv, Labelled

\* A form comes with the label of its status.
LEMMA CheckLabels ==
    ASSUME LabelInv, NEW kind, NEW form, NEW i, NEW r, NEW s, Check(kind, form, i, r, s)
    PROVE  LabelInv'
<1>1. /\ products' = products /\ labels' = labels
      /\ desk'.row = NewRow(r, s, LabelOf(s)) /\ desk'.chosen = s
  BY DEF Check
<1>2. desk'.row.status = s /\ desk'.row.label = LabelOf(s)
  BY <1>1 DEF NewRow
<1>3. \A t : LabelOf(t)' = LabelOf(t)
  BY <1>1 DEF LabelOf
<1>4. LabelsAreCurrent'
  BY <1>1, <1>3 DEF LabelInv, LabelsAreCurrent, Live
<1>5. QED
  BY <1>1, <1>2, <1>3, <1>4 DEF LabelInv

\* The trigger finds the status that was chosen: its label is still the same,
\* and no other status has it.
LEMMA TriggerLabels ==
    ASSUME IInv, LabelInv, FireTrigger
    PROVE  LabelInv'
<1>1. /\ desk \in Work /\ desk # Absent
      /\ products' = products /\ labels' = labels
  BY DEF IInv, TypeOK, FireTrigger
<1>2. \A t : LabelOf(t)' = LabelOf(t)
  BY <1>1 DEF LabelOf
<1>3. LabelsAreCurrent'
  BY <1>1, <1>2 DEF LabelInv, LabelsAreCurrent, Live
<1>4. desk.row \in Row /\ desk.chosen \in Status
  BY <1>1 DEF Work
<1>5. CASE desk' = Absent
  BY <1>1, <1>3, <1>5 DEF LabelInv
<1>6. CASE desk' = [desk EXCEPT !.stage = "written"]
  <2>1. desk'.row = desk.row /\ desk'.chosen = desk.chosen
    BY <1>1, <1>6 DEF Work
  <2>2. QED
    BY <1>1, <1>2, <1>3, <2>1 DEF LabelInv
<1>7. ASSUME NEW s \in Named(desk.row.label), desk.row.label # NoLabel,
             desk' = [desk EXCEPT !.stage = "written", !.row.status = s]
      PROVE  LabelInv'
  <2>1. desk.chosen \in Statuses /\ desk.row.label = labels[desk.chosen]
    BY <1>1, <1>4, <1>7 DEF LabelInv, LabelOf, Status
  <2>2. s = desk.chosen
    BY <2>1 DEF Named, LabelInv
  <2>3. /\ desk'.chosen = desk.chosen
        /\ desk'.row.status = s /\ desk'.row.label = desk.row.label
    BY <1>1, <1>4, <1>7 DEF Work, Row
  <2>4. QED
    BY <1>1, <1>2, <1>3, <2>2, <2>3 DEF LabelInv
<1>8. /\ desk.row.label # NoLabel => \A s \in Named(desk.row.label) : s \in Statuses
      /\ \/ desk' = [desk EXCEPT !.stage = "written"]
         \/ desk' = Absent
         \/ \E s \in Named(desk.row.label) :
                desk' = [desk EXCEPT !.stage = "written", !.row.status = s]
  BY DEF FireTrigger, Named
<1>9. CASE desk.row.label = NoLabel /\ desk' = [desk EXCEPT !.stage = "written"]
  BY <1>6, <1>9
<1>10. CASE \E s \in Named(desk.row.label) :
                desk' = [desk EXCEPT !.stage = "written", !.row.status = s]
  <2>1. desk.row.label # NoLabel
    BY <1>10, ProductAssumption DEF Named, IInv, TypeOK
  <2>2. QED
    BY <1>7, <1>10, <2>1
<1>11. QED
  BY <1>5, <1>6, <1>8, <1>10

\* What is written, restored or imported carries the label of its status.
LEMMA WriteLabels ==
    ASSUME TypeOK, NEW i \in Ids, NEW r, Write(i, r), r.label = LabelOf(r.status),
           labels' = labels
    PROVE  Labelled
<1>1. products' = [products EXCEPT ![i] = r]
  BY DEF Write
<1>2. QED
  BY <1>1 DEF TypeOK, Labelled

LEMMA UpsertLabels ==
    ASSUME IInv, LabelInv, NEW r, Upsert(r), labels' = labels
    PROVE  Labelled
<1>1. ASSUME NEW s, NEW l PROVE NewRow(r, s, l).label = l /\ NewRow(r, s, l).status = s
  BY DEF NewRow
<1>2. ASSUME NEW i \in Ids, Resolve(products, r) = {i}
      PROVE  products[i].label = LabelOf(products[i].status)
  <2>1. i \in Live(products)
    BY <1>2 DEF Resolve, Narrowed
  <2>2. QED
    BY <2>1 DEF LabelInv, LabelsAreCurrent
<1>3. LabelOf(NoStatus) = NoLabel
  BY DEF LabelOf
<1>4. PICK i, n : i \in Ids /\ Write(i, n) /\ n.label = LabelOf(n.status)
  BY <1>1, <1>2, <1>3 DEF Upsert
<1>5. QED
  BY <1>4, WriteLabels DEF IInv

LEMMA RestoreLabels ==
    ASSUME NEW t, Restore(t)
    PROVE  Labelled
<1>1. /\ labels' = labels
      /\ \A i \in Ids : products'[i] =
             IF i \in BatchIds(trash[t])
             THEN NewRow(trash[t].rows[i], trash[t].rows[i].status,
                         LabelOf(trash[t].rows[i].status))
             ELSE products[i]
  BY DEF Restore
<1>2. \A s, l, r : NewRow(r, s, l).label = l /\ NewRow(r, s, l).status = s
  BY DEF NewRow
<1>3. QED
  BY <1>1, <1>2 DEF Labelled

LEMMA ImportLabels ==
    ASSUME IInv, NEW i \in Ids, NEW r, NEW gone, Import(i, r, gone)
    PROVE  Labelled
<1>1. PICK s : /\ labels' = labels
               /\ products' = [Removed(gone) EXCEPT ![i] = NewRow(r, s, LabelOf(s))]
  BY DEF Import
<1>2. \A j \in Ids : products'[j] =
          IF j = i THEN NewRow(r, s, LabelOf(s))
          ELSE IF j \in gone THEN Absent ELSE products[j]
  BY <1>1 DEF Removed
<1>3. QED
  BY <1>1, <1>2 DEF Labelled, NewRow

\* All copies of the label change with it, if none is on the desk.
LEMMA RenameLabels ==
    ASSUME IInv, LabelInv, NEW s \in Statuses, NEW l \in Labels, Rename(s, l), LockFree
    PROVE  LabelInv'
<1>1. /\ labels' = [labels EXCEPT ![s] = l] /\ labels \in [Statuses -> Labels]
      /\ Named(l) = {} /\ desk' = Absent
      /\ \A i \in Ids : products'[i] =
             IF i \in Live(products) /\ products[i].status = s
             THEN [products[i] EXCEPT !.label = l] ELSE products[i]
  BY DEF Rename, Other, LockFree, IInv, TypeOK
<1>2. \A a, b \in Statuses : labels'[a] = labels'[b] => a = b
  BY <1>1 DEF Named, LabelInv
<1>3. ASSUME NEW i \in Live(products')
      PROVE  (products[i].label = LabelOf(products[i].status))'
  <2>1. i \in Live(products) /\ products[i] \in Row
    BY <1>1, <1>3, VersionTyping DEF IInv, Live
  <2>2. products[i].label = LabelOf(products[i].status)
    BY <2>1 DEF LabelInv, LabelsAreCurrent
  <2>3. CASE products[i].status = s
    <3>1. products'[i].status = s /\ products'[i].label = l
      BY <1>1, <2>1, <2>3 DEF Live, Row
    <3>2. QED
      BY <1>1, <3>1, ProductAssumption DEF LabelOf
  <2>4. CASE products[i].status # s
    <3>1. products'[i] = products[i]
      BY <1>1, <2>1, <2>4 DEF Live
    <3>2. products[i].status \in Statuses \cup {NoStatus}
      BY <2>1 DEF Row, Status
    <3>3. QED
      BY <1>1, <2>2, <2>4, <3>1, <3>2 DEF LabelOf
  <2>5. QED
    BY <2>3, <2>4
<1>4. QED
  <2>1. LabelsAreCurrent'
    BY <1>3 DEF LabelsAreCurrent
  <2>2. QED
    BY <1>1, <1>2, <2>1 DEF LabelInv

LEMMA StepLabels ==
    ASSUME IInv, LabelInv, Next,
           \A s \in Statuses, l \in Labels : Rename(s, l) => LockFree
    PROVE  LabelInv'
<1>1. CASE Saving
  <2>1. ASSUME NEW a \in Admins, NEW i \in Ids, OpenPage(a, i) PROVE LabelInv'
    BY <2>1, LabelsKept DEF OpenPage, Labelled
  <2>2. ASSUME NEW r \in Forms, NEW s \in Status,
               \/ \E i \in Ids : StartCreate(i, r, s)
               \/ \E a \in Admins : StartEdit(a, r, s)
        PROVE  LabelInv'
    BY <2>2, CheckLabels DEF StartCreate, StartEdit
  <2>3. CASE Commit
    <3>1. /\ desk # Absent /\ Write(desk.id, desk.row) /\ desk' = Absent
          /\ labels' = labels /\ desk.id \in Ids
      BY <2>3 DEF Commit, IInv, TypeOK, Work
    <3>2. desk.row.label = LabelOf(desk.row.status)
      BY <3>1 DEF LabelInv
    <3>3. QED
      BY <3>1, <3>2, WriteLabels, LabelsKept DEF IInv
  <2>4. ASSUME NEW r \in Forms, QuickUpsert(r) PROVE LabelInv'
    BY <2>4, UpsertLabels, LabelsKept DEF QuickUpsert
  <2>5. QED
    BY <1>1, <2>1, <2>2, <2>3, <2>4, TriggerLabels DEF Saving
<1>2. CASE Deleting
  <2>1. ASSUME NEW t \in Tokens, Restore(t) PROVE LabelInv'
    BY <2>1, RestoreLabels, LabelsKept DEF Restore
  <2>2. ASSUME NEW t \in Tokens, NEW a \in Admins,
               Delete(a, t) \/ QuickDelete(a, t)
        PROVE  LabelInv'
    BY <2>2, LabelsKept DEF Delete, QuickDelete, Removed, Labelled
  <2>3. ASSUME NEW t \in Tokens,
               Expire(t) \/ \E a \in Admins, scope \in Scopes : MakePreview(a, t, scope)
        PROVE  LabelInv'
    BY <2>3, LabelsKept DEF Expire, MakePreview, Labelled
  <2>4. QED
    BY <1>2, <2>1, <2>2, <2>3 DEF Deleting
<1>3. CASE Importing
  <2>1. ASSUME NEW i \in Ids, NEW r, NEW gone, Import(i, r, gone) PROVE LabelInv'
    BY <2>1, ImportLabels, LabelsKept DEF Import, Other
  <2>2. QED
    BY <1>3, <2>1 DEF Importing
<1>4. ASSUME NEW a \in Admins, EndSessions(a) PROVE LabelInv'
  BY <1>4, LabelsKept DEF EndSessions, Other, Labelled
<1>5. QED
  BY <1>1, <1>2, <1>3, <1>4, RenameLabels DEF Next

\* That a product may get another status than the one chosen, or keep a label
\* its status has not, is due to renaming alone: it would be enough if that
\* waited for the lock on products like everybody else.
THEOREM WaitingWouldDo ==
    Spec /\ RenamesWait => [](StatusAsChosen /\ LabelsAreCurrent)
<1> DEFINE Waits == \A s \in Statuses, l \in Labels : Rename(s, l) => LockFree
<1>1. Init => LabelInv
  <2> SUFFICES ASSUME Init PROVE LabelInv
    OBVIOUS
  <2>1. PICK f \in [Statuses -> Labels] :
            labels = f /\ \A s, t \in Statuses : f[s] = f[t] => s = t
    BY DEF Init
  <2>2. Live(products) = {} /\ desk = Absent
    BY DEF Init, Live
  <2>3. QED
    BY <2>1, <2>2 DEF LabelInv, LabelsAreCurrent
<1>2. IInv /\ LabelInv /\ [Next]_vars /\ [Waits]_vars => LabelInv'
  <2>1. ASSUME LabelInv, UNCHANGED vars PROVE LabelInv'
    BY <2>1, LabelsKept DEF vars, Labelled
  <2>2. QED
    BY <2>1, StepLabels
<1>3. LabelInv => StatusAsChosen /\ LabelsAreCurrent
  BY DEF LabelInv, StatusAsChosen
<1> HIDE DEF Waits
<1>4. [][Waits]_vars <=> RenamesWait
  BY DEF Waits, RenamesWait
<1>5. QED
  BY <1>1, <1>2, <1>3, <1>4, InvariantIInv, PTL DEF Spec

================================================================================
