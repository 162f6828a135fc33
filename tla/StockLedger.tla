----------------------------- MODULE StockLedger -----------------------------
(***************************************************************************)
(* The stock list as a history of immutable snapshots: stock.py,           *)
(* stock_import_jobs.py and stock_manual.py over migrations 029 and 032.   *)
(*                                                                         *)
(* A full import, the restoration of an old snapshot and the edit of one   *)
(* row all insert a new snapshot and move the singleton stock_state to it. *)
(* Each of them was looked at before, in another transaction, by somebody  *)
(* who saw the snapshot that is to be replaced: the preview of a job, the  *)
(* stock page, or the signed review of an edit, which a browser may send   *)
(* late, twice or never.                                                   *)
(*                                                                         *)
(* All writers share the stock lock; imports and edits take the products   *)
(* lock before it, because they may register a brand.  A transaction of    *)
(* the web application that holds the locks is one step; that of a worker  *)
(* is several, since a cancel request does not wait for them.              *)
(***************************************************************************)
EXTENDS Integers, Sequences, FiniteSets

CONSTANTS
    MaxJobs,        \* bound on the import jobs
    Workers,        \* import worker processes
    Admins,         \* administrators, each with a browser
    Requests,       \* request ids of the forms of one administrator
    Codes,          \* what identifies a row, the brand aside
    Amounts,        \* the other fields of a row
    Spellings,      \* ways to write the one brand all rows are of
    Workbooks,      \* the uploaded workbooks
    Edits,          \* the rows typed into the form
    MaxAttempts,    \* limit("MAX_ATTEMPTS", 6)
    MaxReviews,     \* bound on the reviews that were signed
    MaxSnapshots,   \* bound on the snapshots a restoration may add to
    MaxCrashes,     \* bound on worker crashes
    NoWorker,       \* nobody holds the lock
    NoPlan,         \* SQL NULL in the column "preview"
    NoItem,         \* the form adds a row
    NoBrand         \* the brand is not in brand_master

\* The import resolves the brand of all rows at once, whichever way the first
\* of them writes it.  A workbook without rows is refused.
Workbook == [rows: (SUBSET [code: Codes, amount: Amounts]) \ {{}},
             brand: Spellings]
Item == [code: Codes, amount: Amounts, brand: Spellings]

ASSUME StockLedgerAssumption ==
    /\ MaxJobs \in Nat
    /\ MaxAttempts \in Nat
    /\ MaxReviews \in Nat
    /\ MaxSnapshots \in Nat
    /\ MaxCrashes \in Nat
    /\ Workbooks \subseteq Workbook
    /\ Edits \subseteq Item
    /\ NoWorker \notin Workers
    /\ NoPlan \notin [base: Nat, items: SUBSET Item, created: SUBSET Spellings]
    /\ NoPlan \notin Nat
    /\ NoItem \notin Item
    /\ NoBrand \notin Spellings

VARIABLES
    snapshots,      \* tables stock_snapshots and stock_items, in commit order
    state,          \* the singleton stock_state
    brand,          \* how brand_master spells the brand
    tokens,         \* the reviews that were signed
    receipts,       \* table stock_manual_requests
    jobs,           \* table stock_import_jobs
    locks,          \* session advisory lock of each job
    writer,         \* the worker in its main transaction: it has both locks
    pc,             \* what each worker is doing
    task,           \* the job a worker runs, and the plan it made
    screen,         \* what each administrator looks at
    valid,          \* administrators whose account and session are valid
    crashes         \* how many worker crashes there were

ledger == <<snapshots, state, brand, receipts>>
worker == <<pc, task, locks, writer>>
people == <<screen, valid, tokens>>
vars == <<ledger, jobs, worker, people, crashes>>

------------------------------------------------------------------------------
(* Types                                                                   *)

Jobs == 1..MaxJobs
NoJob == 0

Plan == [base: Nat, items: SUBSET Item, created: SUBSET Spellings]

\* Snapshots are numbered in the order of their commits; 0 is no snapshot.
Snapshot == [kind: {"IMPORT", "RESTORE", "MANUAL"}, job: Jobs \cup {NoJob},
             source: Nat, replaced: Nat, items: SUBSET Item]

\* What review signs.  The token is also what the receipt keeps a hash of.
Token == [actor: Admins, request: Requests, base: Nat,
          before: Item \cup {NoItem}, after: Item, created: SUBSET Spellings]

Receipt == [token: Token, result: Nat]

Status == {"queued", "running", "completed", "failed", "cancelled"}
Active == {"queued", "running"}
Phase == {"preview", "apply"}

Row == [status: Status, phase: Phase, preview_ready: BOOLEAN,
        preview: Plan \cup {NoPlan}, cancel_requested: BOOLEAN,
        attempts: 0..MaxAttempts, actor: Admins, file: Workbooks]

\* The defaults of the columns when submit inserts the row.
NewRow(o, book) ==
    [status |-> "queued", phase |-> "preview", preview_ready |-> FALSE,
     preview |-> NoPlan, cancel_requested |-> FALSE, attempts |-> 0,
     actor |-> o, file |-> book]

Task == [job: Jobs \cup {NoJob}, plan: Plan \cup {NoPlan}]
NoTask == [job |-> NoJob, plan |-> NoPlan]

\* The stock page (no job) with its revision, or the page of a job.
Screen == [job: Jobs \cup {NoJob}, revision: Nat, preview: Plan \cup {NoPlan}]

\* A worker with a claimed job, up to the end of its main transaction.
Working == {"claimed", "locked", "planned"}
Holding == Working \cup {"failing", "closing"}

Init ==
    /\ snapshots = <<>>
    /\ state = [active |-> 0, revision |-> 0]
    /\ brand \in Spellings \cup {NoBrand}
    /\ tokens = {}
    /\ receipts = {}
    /\ jobs = <<>>
    /\ locks = [j \in Jobs |-> NoWorker]
    /\ writer = NoWorker
    /\ pc = [w \in Workers |-> "idle"]
    /\ task = [w \in Workers |-> NoTask]
    /\ screen = [o \in Admins |-> [job |-> NoJob, revision |-> 0,
                                   preview |-> NoPlan]]
    /\ valid = Admins
    /\ crashes = 0

------------------------------------------------------------------------------
(* The snapshots                                                           *)

\* The items of snapshot i, also of the empty one before the first.
Items(i) == IF i = 0 THEN {} ELSE snapshots[i].items

\* How the brand will be spelled: as it is registered, else as proposed.
Canonical(name) == IF brand = NoBrand THEN name ELSE brand
NewBrands(name) == IF brand = NoBrand THEN {name} ELSE {}

\* Brand, code, size and expiry date identify a row; the amount does not.
Distinct(items) == \A a, b \in items : a.code = b.code => a = b

\* The rows as the import would write them.
Prepared(file) ==
    {[code |-> r.code, amount |-> r.amount, brand |-> Canonical(file.brand)] :
        r \in file.rows}

\* build_plan: what a worker finds out about a workbook.
PlanOf(file) == [base |-> state.revision, items |-> Prepared(file),
                 created |-> NewBrands(file.brand)]

\* The transaction inserts a snapshot and moves the singleton to it; a brand it
\* needs is registered in the same transaction.
Activate(snapshot, name) ==
    /\ snapshots' = Append(snapshots, snapshot)
    /\ state' = [active |-> Len(snapshots) + 1, revision |-> state.revision + 1]
    /\ brand' = Canonical(name)

\* Mutant of LocksFree: a writer that does not wait for the others.
LocksFreeOrNot == TRUE

\* acquire_products_import_lock and acquire_stock_lock do not have to wait.
LocksFree == writer = NoWorker

------------------------------------------------------------------------------
(* The pages of an administrator                                           *)

\* /admin/stock, from which an old snapshot can be restored.
OpenStock(o) ==
    /\ screen' = [screen EXCEPT ![o] = [job |-> NoJob, preview |-> NoPlan,
                                        revision |-> state.revision]]
    /\ UNCHANGED <<ledger, jobs, worker, valid, tokens, crashes>>

OpenJob(o, j) ==
    /\ screen' = [screen EXCEPT ![o] = [job |-> j, revision |-> 0,
                                        preview |-> jobs[j].preview]]
    /\ UNCHANGED <<ledger, jobs, worker, valid, tokens, crashes>>

------------------------------------------------------------------------------
(* Restoration                                                             *)

\* Mutant of Expected: the revision on the page is not compared.
ExpectedOrNot(o) == TRUE

\* The revision and the fingerprint on the page are those of the state.
Expected(o) == screen[o].revision = state.revision

Restore(o, i) ==
    /\ screen[o].job = NoJob
    /\ Len(snapshots) < MaxSnapshots
    /\ LocksFree
    /\ o \in valid
    /\ Expected(o)
    /\ i # state.active
    /\ Activate([kind |-> "RESTORE", job |-> NoJob, source |-> i,
                 replaced |-> state.active, items |-> Items(i)], brand)
    /\ UNCHANGED <<receipts, jobs, worker, people, crashes>>

------------------------------------------------------------------------------
(* The edit of one row                                                     *)

\* What plan finds out about a form: the row before, the row after, and the
\* brand to be registered.
Reviewed(o, r, before, data) ==
    [actor |-> o, request |-> r, base |-> state.revision, before |-> before,
     after |-> [data EXCEPT !.brand = Canonical(@)],
     created |-> NewBrands(data.brand)]

\* The snapshot the edit leads to: a copy without the row before, and the row
\* after.
Edited(t) == (Items(state.active) \ {t.before}) \cup {t.after}

\* Mutant of Unique: the row after may collide with another one.
UniqueOrNot(t) == TRUE

\* No other row of the active snapshot has the identity of the row after.
Unique(t) == \A i \in Items(state.active) \ {t.before} : i.code # t.after.code

\* review signs what it found in the active snapshot.  It takes no lock: the
\* snapshot it reads cannot change, and save looks again.
Review(o, r, before, data) ==
    LET t == Reviewed(o, r, before, data) IN
    /\ Cardinality(tokens) < MaxReviews
    /\ o \in valid
    /\ before \in Items(state.active) \cup {NoItem}
    /\ Unique(t)
    /\ tokens' = tokens \cup {t}
    /\ UNCHANGED <<ledger, jobs, worker, screen, valid, crashes>>

\* Mutant of Fresh: the receipts are not consulted.
FreshOrNot(t) == TRUE

\* There is no receipt for the request.  If there is one, save repeats its
\* answer, or refuses when it is for another review; neither changes anything.
Fresh(t) ==
    \A c \in receipts : ~(c.token.actor = t.actor /\ c.token.request = t.request)

\* The state is the reviewed one, and so is everything plan finds out now.
StillReviewed(t) ==
    /\ t.base = state.revision
    /\ t = Reviewed(t.actor, t.request, t.before, t.after)
    /\ Unique(t)

\* save: a browser delivers a signed review, perhaps not for the first time.
Save(t) ==
    /\ LocksFree
    /\ t.actor \in valid
    /\ Fresh(t)
    /\ StillReviewed(t)
    /\ IF t.before = t.after
       THEN UNCHANGED <<snapshots, state, brand>>
       ELSE Activate([kind |-> "MANUAL", job |-> NoJob, source |-> 0,
                      replaced |-> state.active, items |-> Edited(t)],
                     t.after.brand)
    /\ receipts' = receipts \cup {[token |-> t, result |-> state'.active]}
    /\ UNCHANGED <<jobs, worker, people, crashes>>

------------------------------------------------------------------------------
(* The import jobs: the web application                                    *)

Submit(o, book) ==
    /\ Len(jobs) < MaxJobs
    /\ LocksFree
    /\ o \in valid
    /\ jobs' = Append(jobs, NewRow(o, book))
    /\ UNCHANGED <<ledger, worker, people, crashes>>

\* control locks the row, then the account of whoever pressed the button.
Control(o, row) ==
    /\ screen[o].job # NoJob
    /\ o \in valid
    /\ jobs' = [jobs EXCEPT ![screen[o].job] = row]
    /\ UNCHANGED <<ledger, worker, people, crashes>>

Cancel(o) ==
    LET row == jobs[screen[o].job] IN
    /\ Control(o, [row EXCEPT !.cancel_requested = TRUE,
                      !.status = IF @ = "queued" THEN "cancelled" ELSE @])
    /\ row.status \in Active
    /\ ~row.cancel_requested

Previewed(row) ==
    row.status = "completed" /\ row.phase = "preview" /\ row.preview_ready

\* The fingerprint on the page is the one in the row; it stands for the state
\* the preview was computed on, and for nothing else of the preview.
SameFingerprint(o) ==
    /\ screen[o].preview # NoPlan
    /\ screen[o].preview.base = jobs[screen[o].job].preview.base

\* The number of rows to be replaced, which has to be typed in, is that of the
\* snapshot the fingerprint stands for.
Confirm(o) ==
    LET row == jobs[screen[o].job] IN
    /\ Control(o, [row EXCEPT !.status = "queued", !.phase = "apply",
                              !.preview_ready = FALSE])
    /\ Previewed(row)
    /\ SameFingerprint(o)

\* Always a new preview, never a second application.
Retry(o) ==
    LET row == jobs[screen[o].job] IN
    /\ Control(o, [row EXCEPT !.status = "queued", !.phase = "preview",
                              !.preview_ready = FALSE, !.preview = NoPlan,
                              !.cancel_requested = FALSE])
    /\ row.status \in {"failed", "cancelled"}
    /\ row.attempts < MaxAttempts

------------------------------------------------------------------------------
(* The import jobs: a worker                                               *)

\* pg_try_advisory_lock succeeds: no connection holds the lock of the job.
Unlocked(j) == locks[j] = NoWorker

Goto(w, from, to) ==
    /\ pc[w] = from
    /\ pc' = [pc EXCEPT ![w] = to]

\* _claim visits what it listed in the order of creation and reads each row
\* again under its lock; a row that was settled meanwhile is passed over.
Visits(w, j) ==
    /\ pc[w] = "idle"
    /\ jobs[j].status \in Active
    /\ Unlocked(j)

Visited(w, j, row) ==
    /\ Visits(w, j)
    /\ jobs' = [jobs EXCEPT ![j] = row]
    /\ UNCHANGED <<ledger, worker, people, crashes>>

\* The session lock of a running job is free: the worker that ran it died.
Recover(w, j) ==
    /\ jobs[j].status = "running"
    /\ Visited(w, j, [jobs[j] EXCEPT !.status = "failed",
                                     !.preview_ready = FALSE])

\* Mutant of Hopeless: one attempt too many.
HopelessLate(row) == row.cancel_requested \/ row.attempts > MaxAttempts

Hopeless(row) == row.cancel_requested \/ row.attempts >= MaxAttempts

Discard(w, j) ==
    /\ jobs[j].status = "queued"
    /\ Hopeless(jobs[j])
    /\ Visited(w, j, [jobs[j] EXCEPT !.status = "cancelled"])

Claim(w, j) ==
    /\ Visits(w, j)
    /\ jobs[j].status = "queued"
    /\ ~Hopeless(jobs[j])
    /\ jobs' = [jobs EXCEPT ![j].status = "running", ![j].attempts = @ + 1]
    /\ locks' = [locks EXCEPT ![j] = w]
    /\ task' = [task EXCEPT ![w].job = j]
    /\ Goto(w, "idle", "claimed")
    /\ UNCHANGED <<ledger, writer, people, crashes>>

\* The workbook is parsed; the main transaction begins with both locks.
Lock(w) ==
    /\ Goto(w, "claimed", "locked")
    /\ LocksFree
    /\ writer' = w
    /\ UNCHANGED <<ledger, jobs, task, locks, people, crashes>>

\* Mutant of PlanStands: the plan of the second phase is not compared.
PlanStandsAnyway(row) == TRUE

\* _apply compares the fingerprint and the digest of the rows.
PlanStands(row) ==
    row.phase = "apply" =>
        /\ row.preview.base = state.revision
        /\ row.preview.items = Prepared(row.file)

\* The row is read again under the locks; the account of the uploader is valid,
\* and locked against changes until the transaction ends; the plan is made and,
\* in the second phase, compared and carried out, unseen by others.
MakePlan(w) ==
    LET row == jobs[task[w].job] IN
    /\ Goto(w, "locked", "planned")
    /\ row.status = "running"
    /\ ~row.cancel_requested
    /\ row.actor \in valid
    /\ Distinct(Prepared(row.file))
    /\ PlanStands(row)
    /\ task' = [task EXCEPT ![w].plan = PlanOf(row.file)]
    /\ UNCHANGED <<ledger, jobs, locks, writer, people, crashes>>

\* The last look at the cancel flag, which locks the row.
CommitGate(w) == ~jobs[task[w].job].cancel_requested

Release(w) == writer' = IF writer = w THEN NoWorker ELSE writer

FinishPreview(w) ==
    LET j == task[w].job IN
    /\ Goto(w, "planned", "closing")
    /\ jobs[j].phase = "preview"
    /\ CommitGate(w)
    /\ jobs' = [jobs EXCEPT ![j].status = "completed", ![j].preview_ready = TRUE,
                            ![j].preview = task[w].plan]
    /\ Release(w)
    /\ UNCHANGED <<ledger, task, locks, people, crashes>>

\* The snapshot, the brand and the state of the job commit together.
FinishApply(w) ==
    LET j == task[w].job IN
    /\ Goto(w, "planned", "closing")
    /\ jobs[j].phase = "apply"
    /\ CommitGate(w)
    /\ jobs' = [jobs EXCEPT ![j].status = "completed", ![j].preview_ready = FALSE]
    /\ Activate([kind |-> "IMPORT", job |-> j, source |-> 0,
                 replaced |-> task[w].plan.base, items |-> task[w].plan.items],
                jobs[j].file.brand)
    /\ Release(w)
    /\ UNCHANGED <<receipts, task, locks, people, crashes>>

\* Any exception of the run: a bad workbook, rows with the same identity, a
\* revoked account, a stale plan, a cancel request, the deadline or the watcher
\* that cancels the connection.  The database rolls back.
Fail(w) ==
    /\ \E from \in Working : Goto(w, from, "failing")
    /\ Release(w)
    /\ UNCHANGED <<ledger, jobs, task, locks, people, crashes>>

\* The handler records the failure in a transaction of its own.
Settle(w) ==
    LET row == jobs[task[w].job] IN
    /\ Goto(w, "failing", "closing")
    /\ jobs' = [jobs EXCEPT ![task[w].job] =
                   [row EXCEPT !.preview_ready = FALSE,
                       !.status = IF row.cancel_requested
                                  THEN "cancelled" ELSE "failed"]]
    /\ UNCHANGED <<ledger, task, locks, writer, people, crashes>>

\* The watcher's cancel reaches the handler's own statement.
SettleFails(w) ==
    /\ Goto(w, "failing", "closing")
    /\ UNCHANGED <<ledger, jobs, task, locks, writer, people, crashes>>

\* The session lock is given back, at the latest with the connection.
Close(w) ==
    /\ Goto(w, "closing", "idle")
    /\ locks' = [locks EXCEPT ![task[w].job] = NoWorker]
    /\ task' = [task EXCEPT ![w] = NoTask]
    /\ UNCHANGED <<ledger, jobs, writer, people, crashes>>

------------------------------------------------------------------------------
(* The environment                                                         *)

\* The worker process dies: the database rolls back and drops every lock.
Crash(w) ==
    /\ crashes < MaxCrashes
    /\ \E from \in Holding : Goto(w, from, "idle")
    /\ crashes' = crashes + 1
    /\ locks' = [locks EXCEPT ![task[w].job] = NoWorker]
    /\ task' = [task EXCEPT ![w] = NoTask]
    /\ Release(w)
    /\ UNCHANGED <<ledger, jobs, people>>

\* A product import or edit registers the brand, under the products lock.
RegisterBrand(name) ==
    /\ LocksFree
    /\ brand = NoBrand
    /\ brand' = name
    /\ UNCHANGED <<snapshots, state, receipts, jobs, worker, people, crashes>>

\* The account loses the permission or changes its auth_version, which never
\* returns to an earlier value.  The update waits for the share lock on the
\* account of a transaction that has checked it.
Revoke(o) ==
    /\ o \in valid
    /\ \A w \in Workers : ~(pc[w] = "planned" /\ jobs[task[w].job].actor = o)
    /\ valid' = valid \ {o}
    /\ UNCHANGED <<ledger, jobs, worker, screen, tokens, crashes>>

------------------------------------------------------------------------------

Page(o) ==
    \/ OpenStock(o)
    \/ \E j \in DOMAIN jobs : OpenJob(o, j)

Edit(o) ==
    \E r \in Requests, data \in Edits,
       before \in Items(state.active) \cup {NoItem} : Review(o, r, before, data)

WebStep(o) ==
    \/ Page(o) \/ Edit(o)
    \/ \E i \in DOMAIN snapshots : Restore(o, i)
    \/ \E book \in Workbooks : Submit(o, book)
    \/ Cancel(o) \/ Confirm(o) \/ Retry(o)

WorkerStep(w) ==
    \/ \E j \in DOMAIN jobs : Recover(w, j) \/ Discard(w, j) \/ Claim(w, j)
    \/ Lock(w) \/ MakePlan(w) \/ FinishPreview(w) \/ FinishApply(w)
    \/ Fail(w) \/ Settle(w) \/ SettleFails(w) \/ Close(w)

Next ==
    \/ \E o \in Admins : WebStep(o) \/ Revoke(o)
    \/ \E t \in tokens : Save(t)
    \/ \E w \in Workers : WorkerStep(w) \/ Crash(w)
    \/ \E name \in Spellings : RegisterBrand(name)

Spec == Init /\ [][Next]_vars

------------------------------------------------------------------------------
(* Properties                                                              *)

TypeOK ==
    /\ snapshots \in Seq(Snapshot)
    /\ state \in [active: 0..Len(snapshots), revision: Nat]
    /\ brand \in Spellings \cup {NoBrand}
    /\ tokens \subseteq Token
    /\ receipts \subseteq Receipt
    /\ jobs \in Seq(Row)
    /\ Len(jobs) <= MaxJobs
    /\ locks \in [Jobs -> Workers \cup {NoWorker}]
    /\ writer \in Workers \cup {NoWorker}
    /\ pc \in [Workers -> Holding \cup {"idle"}]
    /\ task \in [Workers -> Task]
    /\ screen \in [Admins -> Screen]
    /\ valid \subseteq Admins
    /\ crashes \in Nat

\* The history is a line: each snapshot replaced the one before it, and the
\* singleton points to the last.  Nobody's import, restoration or edit starts
\* from a snapshot that was no longer the active one when it committed.
LinearHistory ==
    /\ \A i \in DOMAIN snapshots : snapshots[i].replaced = i - 1
    /\ state = [active |-> Len(snapshots), revision |-> Len(snapshots)]

\* An import job adds one snapshot at most, and its row says whether it did; a
\* request to edit a row adds one at most, and its receipt says which, however
\* often the browser sends it.
OneSnapshotEach ==
    /\ \A a, b \in DOMAIN snapshots :
          snapshots[a].job = snapshots[b].job /\ snapshots[a].job # NoJob => a = b
    /\ \A j \in DOMAIN jobs :
          (\E i \in DOMAIN snapshots : snapshots[i].job = j)
             <=> (jobs[j].status = "completed" /\ jobs[j].phase = "apply")
    /\ \A a, b \in receipts :
          a.token.actor = b.token.actor /\ a.token.request = b.token.request
             => a = b
    /\ \A i \in DOMAIN snapshots : snapshots[i].kind = "MANUAL" =>
          \E c \in receipts : c.result = i /\ c.token.base = i - 1

\* No snapshot has two rows with the same identity, or a brand spelled in
\* another way than in the brand master, whoever registered it and when.
RowsAreClean ==
    \A i \in DOMAIN snapshots :
        /\ Distinct(snapshots[i].items)
        /\ \A item \in snapshots[i].items : item.brand = brand

\* A cancel request that was accepted is never answered with a completed job.
CancelWins ==
    \A j \in DOMAIN jobs :
        jobs[j].cancel_requested => jobs[j].status # "completed"

\* Whoever changes the stock list is entitled to and was shown what changes:
\* an import writes the rows of its preview over the snapshot the preview was
\* computed on, an edit replaces the reviewed row and no other, a restoration
\* is of a page that showed the snapshot it replaces.
ShownBefore(snapshot) ==
    \/ /\ snapshot.kind = "IMPORT"
       /\ LET row == jobs[snapshot.job] IN
          /\ row.actor \in valid
          /\ row.preview.base = state.revision
          /\ row.preview.items = snapshot.items
    \/ /\ snapshot.kind = "MANUAL"
       /\ \E t \in tokens :
             /\ t.actor \in valid
             /\ t.base = state.revision
             /\ snapshot.items = Edited(t)
    \/ /\ snapshot.kind = "RESTORE"
       /\ snapshot.items = Items(snapshot.source)
       /\ \E o \in valid : /\ screen[o].job = NoJob
                           /\ screen[o].revision = state.revision

ReplacesWhatWasShown ==
    [][\A i \in DOMAIN snapshots' \ DOMAIN snapshots :
          ShownBefore(snapshots'[i])]_vars

\* The plan a job is allowed to carry out: confirmed, and not yet settled.
Approved(j) ==
    IF j \in DOMAIN jobs /\ jobs[j].phase = "apply" /\ jobs[j].status \in Active
    THEN jobs[j].preview.base ELSE NoPlan

Imported == {i \in DOMAIN snapshots : snapshots[i].kind = "IMPORT"}

Promise == INSTANCE ConfirmedImport
              WITH Imports <- Jobs, catalogue <- state.revision,
                   applied <- {<<snapshots[i].job, snapshots[i].replaced>> :
                                  i \in Imported},
                   approved <- [j \in Jobs |-> Approved(j)]

\* Of imports, the ledger keeps the same promise as the product queue.
KeepsPromise == Promise!Spec

\* What control says when it refuses: a job is confirmed with the preview that
\* is on the page.
ConfirmsWhatIsShown ==
    [][\A j \in DOMAIN jobs :
          jobs'[j].phase = "apply" /\ jobs[j].phase = "preview" =>
              \E o \in Admins : /\ screen[o].job = j
                                /\ screen[o].preview = jobs'[j].preview]_vars

\* What _apply says when it refuses: an import registers the brands that its
\* preview announced, no more and no less.
RegistersWhatWasPreviewed ==
    [][\A i \in DOMAIN snapshots' \ DOMAIN snapshots :
          snapshots'[i].kind = "IMPORT" =>
              jobs[snapshots'[i].job].preview.created =
                  IF brand' = brand THEN {} ELSE {brand'}]_vars

=============================================================================
