-------------------------- MODULE StockLedgerProofs --------------------------
(***************************************************************************)
(* Proofs about StockLedger for any number of jobs, workers, accounts,     *)
(* snapshots and reviews.                                                  *)
(*                                                                         *)
(* The invariant IInv adds to the properties what a worker may rely on     *)
(* while it has a job and while it has the locks, and which rows may be    *)
(* confirmed or applied.  Two lemmas, EditedRow and Activated, say what    *)
(* the two kinds of change do to the two sequences; one lemma per part of  *)
(* IInv shows that every action preserves it.                              *)
(***************************************************************************)
EXTENDS StockLedger, SequenceTheorems, TLAPS

\* A page of a job is of a job that exists.
ScreenInv ==
    \A o \in Admins : screen[o].job # NoJob => screen[o].job \in DOMAIN jobs

\* A worker with a job has the session lock of the job.
LockInv ==
    \A w \in Workers : pc[w] \in Holding =>
        /\ task[w].job \in DOMAIN jobs
        /\ locks[task[w].job] = w

\* A worker in its main transaction has the products and the stock lock.
WriterInv == \A w \in Workers : pc[w] \in {"locked", "planned"} => writer = w

\* Between the claim and the settled row.
Running == Working \cup {"failing"}

\* While a worker is at it a job is running, and what the worker has planned is
\* what it would plan now.
TaskInv ==
    \A w \in Workers :
        LET row == jobs[task[w].job] IN
        /\ pc[w] \in Running => row.status = "running"
        /\ pc[w] = "planned" => /\ task[w].plan = PlanOf(row.file)
                                /\ row.actor \in valid
                                /\ Distinct(Prepared(row.file))
                                /\ PlanStands(row)

\* What may be confirmed, or is about to be applied, has a preview, and no
\* preview is of a snapshot to come.
RowInv ==
    \A j \in DOMAIN jobs :
        LET row == jobs[j] IN
        /\ row.cancel_requested => row.status # "completed"
        /\ row.preview_ready \/ row.phase = "apply" => row.preview # NoPlan
        /\ row.preview # NoPlan => row.preview.base <= state.revision

\* Snapshots of imports are of jobs that exist, the others of none.
SourceInv ==
    \A i \in DOMAIN snapshots :
        IF snapshots[i].kind = "IMPORT" THEN snapshots[i].job \in DOMAIN jobs
                                        ELSE snapshots[i].job = NoJob

IInv ==
    /\ TypeOK
    /\ ScreenInv
    /\ LockInv
    /\ WriterInv
    /\ TaskInv
    /\ RowInv
    /\ SourceInv
    /\ LinearHistory
    /\ OneSnapshotEach
    /\ RowsAreClean

------------------------------------------------------------------------------
(* What the operators return                                               *)

LEMMA NewRowType ==
    ASSUME NEW o \in Admins, NEW book \in Workbooks
    PROVE  NewRow(o, book) \in Row
  BY StockLedgerAssumption DEF NewRow, Row, Status, Phase

LEMMA NoTaskType == NoTask \in Task
  BY DEF NoTask, Task

\* The domains of the two sequences.
LEMMA Domains ==
    ASSUME TypeOK
    PROVE  /\ Len(jobs) \in Nat
           /\ DOMAIN jobs = 1..Len(jobs)
           /\ DOMAIN jobs \subseteq Jobs
           /\ NoJob \notin DOMAIN jobs
           /\ \A j \in DOMAIN jobs : jobs[j] \in Row
           /\ Len(snapshots) \in Nat
           /\ DOMAIN snapshots = 1..Len(snapshots)
           /\ \A i \in DOMAIN snapshots : snapshots[i] \in Snapshot
  <1>1. /\ Len(jobs) \in Nat
        /\ DOMAIN jobs = 1..Len(jobs)
        /\ \A j \in DOMAIN jobs : jobs[j] \in Row
    BY LenProperties, ElementOfSeq DEF TypeOK
  <1>2. /\ Len(snapshots) \in Nat
        /\ DOMAIN snapshots = 1..Len(snapshots)
        /\ \A i \in DOMAIN snapshots : snapshots[i] \in Snapshot
    BY LenProperties, ElementOfSeq DEF TypeOK
  <1>3. Len(jobs) <= MaxJobs /\ MaxJobs \in Nat
    BY StockLedgerAssumption DEF TypeOK
  <1>4. QED
    BY <1>1, <1>2, <1>3 DEF Jobs, NoJob

LEMMA ItemsType ==
    ASSUME TypeOK
    PROVE  /\ \A i \in 0..Len(snapshots) : Items(i) \subseteq Item
           /\ Items(state.active) \subseteq Item
  <1>1. \A i \in 0..Len(snapshots) : Items(i) \subseteq Item
    BY Domains DEF Items, Snapshot
  <1>2. QED
    BY <1>1 DEF TypeOK

LEMMA CanonicalType ==
    ASSUME TypeOK
    PROVE  /\ \A name \in Spellings : Canonical(name) \in Spellings
           /\ \A name \in Spellings : NewBrands(name) \subseteq Spellings
           /\ Canonical(brand) = brand
  BY DEF TypeOK, Canonical, NewBrands

\* The rows of a workbook are prepared as items whose brand is as registered.
LEMMA PreparedType ==
    ASSUME TypeOK, NEW book \in Workbooks
    PROVE  /\ book.brand \in Spellings
           /\ Prepared(book) \subseteq Item
           /\ \A item \in Prepared(book) : item.brand = Canonical(book.brand)
           /\ PlanOf(book) \in Plan
  <1>1. book \in Workbook
    BY StockLedgerAssumption
  <1>2. book.brand \in Spellings /\ book.rows \subseteq [code: Codes, amount: Amounts]
    BY <1>1 DEF Workbook
  <1>3. /\ Prepared(book) \subseteq Item
        /\ \A item \in Prepared(book) : item.brand = Canonical(book.brand)
    BY <1>2, CanonicalType DEF Prepared, Item
  <1>4. state.revision \in Nat
    BY DEF TypeOK
  <1>5. QED
    BY <1>2, <1>3, <1>4, CanonicalType DEF PlanOf, Plan

------------------------------------------------------------------------------
(* What the actions do to the two sequences                                *)

\* An action gives the row of one job a new value.
EditsRow(j, row) ==
    /\ j \in DOMAIN jobs
    /\ jobs[j] \in Row
    /\ row \in Row
    /\ jobs' \in Seq(Row)
    /\ Len(jobs') = Len(jobs)
    /\ DOMAIN jobs' = DOMAIN jobs
    /\ jobs'[j] = row
    /\ \A k \in DOMAIN jobs : k # j => jobs'[k] = jobs[k]

LEMMA EditedRow ==
    ASSUME TypeOK, NEW j \in DOMAIN jobs, NEW row \in Row,
           jobs' = [jobs EXCEPT ![j] = row]
    PROVE  EditsRow(j, row)
  <1>1. jobs \in Seq(Row) /\ j \in 1..Len(jobs)
    BY Domains DEF TypeOK
  <1>2. jobs' \in Seq(Row) /\ Len(jobs') = Len(jobs)
    BY <1>1, ExceptSeq
  <1>3. QED
    BY <1>1, <1>2, Domains DEF EditsRow

LEMMA CancelEdits ==
    ASSUME IInv, NEW o \in Admins, Cancel(o)
    PROVE  EditsRow(screen[o].job,
               [jobs[screen[o].job] EXCEPT !.cancel_requested = TRUE,
                   !.status = IF @ = "queued" THEN "cancelled" ELSE @])
  <1>1. screen[o].job \in DOMAIN jobs /\ jobs[screen[o].job] \in Row
    BY Domains DEF IInv, ScreenInv, Cancel, Control
  <1>2. QED
    BY <1>1, EditedRow DEF IInv, Cancel, Control, Row, Status

LEMMA ConfirmEdits ==
    ASSUME IInv, NEW o \in Admins, Confirm(o)
    PROVE  EditsRow(screen[o].job,
               [jobs[screen[o].job] EXCEPT !.status = "queued",
                   !.phase = "apply", !.preview_ready = FALSE])
  <1>1. screen[o].job \in DOMAIN jobs /\ jobs[screen[o].job] \in Row
    BY Domains DEF IInv, ScreenInv, Confirm, Control
  <1>2. QED
    BY <1>1, EditedRow DEF IInv, Confirm, Control, Row, Status, Phase

LEMMA RetryEdits ==
    ASSUME IInv, NEW o \in Admins, Retry(o)
    PROVE  EditsRow(screen[o].job,
               [jobs[screen[o].job] EXCEPT !.status = "queued",
                   !.phase = "preview", !.preview_ready = FALSE,
                   !.preview = NoPlan, !.cancel_requested = FALSE])
  <1>1. screen[o].job \in DOMAIN jobs /\ jobs[screen[o].job] \in Row
    BY Domains DEF IInv, ScreenInv, Retry, Control
  <1>2. QED
    BY <1>1, EditedRow DEF IInv, Retry, Control, Row, Status, Phase

LEMMA RecoverEdits ==
    ASSUME IInv, NEW w \in Workers, NEW j \in DOMAIN jobs, Recover(w, j)
    PROVE  EditsRow(j, [jobs[j] EXCEPT !.status = "failed", !.preview_ready = FALSE])
  BY Domains, EditedRow DEF IInv, Recover, Visited, Row, Status

LEMMA DiscardEdits ==
    ASSUME IInv, NEW w \in Workers, NEW j \in DOMAIN jobs, Discard(w, j)
    PROVE  EditsRow(j, [jobs[j] EXCEPT !.status = "cancelled"])
  BY Domains, EditedRow DEF IInv, Discard, Visited, Row, Status

LEMMA ClaimEdits ==
    ASSUME IInv, NEW w \in Workers, NEW j \in DOMAIN jobs, Claim(w, j)
    PROVE  EditsRow(j, [jobs[j] EXCEPT !.status = "running", !.attempts = @ + 1])
  <1>1. jobs[j] \in Row /\ ~(jobs[j].attempts >= MaxAttempts)
    BY Domains DEF IInv, Claim, Hopeless
  <1>2. jobs[j].attempts + 1 \in 0..MaxAttempts
    BY <1>1, StockLedgerAssumption DEF Row
  <1>3. \A n \in 0..MaxAttempts :
            [jobs[j] EXCEPT !.status = "running", !.attempts = n] \in Row
    BY <1>1 DEF Row, Status
  <1>4. [jobs[j] EXCEPT !.status = "running", !.attempts = @ + 1] \in Row
    BY <1>2, <1>3
  <1>5. QED
    BY <1>4, EditedRow DEF IInv, Claim

\* What a worker relies on while it is at work.
LEMMA AtWork ==
    ASSUME IInv, NEW w \in Workers, pc[w] \in Holding
    PROVE  /\ task[w].job \in DOMAIN jobs
           /\ task[w].job \in Jobs
           /\ jobs[task[w].job] \in Row
           /\ jobs[task[w].job].file \in Workbooks
           /\ pc[w] = "planned" => task[w].plan \in Plan
  <1>1. /\ task[w].job \in DOMAIN jobs
        /\ task[w].job \in Jobs
        /\ jobs[task[w].job] \in Row
    BY Domains DEF IInv, LockInv
  <1>2. jobs[task[w].job].file \in Workbooks
    BY <1>1 DEF Row
  <1>3. QED
    BY <1>1, <1>2, PreparedType DEF IInv, TaskInv

LEMMA FinishPreviewEdits ==
    ASSUME IInv, NEW w \in Workers, FinishPreview(w)
    PROVE  EditsRow(task[w].job,
               [jobs[task[w].job] EXCEPT !.status = "completed",
                   !.preview_ready = TRUE, !.preview = task[w].plan])
  <1>1. pc[w] = "planned" /\ pc[w] \in Holding
    BY DEF FinishPreview, Goto, Holding, Working
  <1>2. /\ task[w].job \in DOMAIN jobs
        /\ jobs[task[w].job] \in Row
        /\ task[w].plan \in Plan
    BY <1>1, AtWork
  <1>3. [jobs[task[w].job] EXCEPT !.status = "completed",
            !.preview_ready = TRUE, !.preview = task[w].plan] \in Row
    BY <1>2 DEF Row, Status
  <1>4. QED
    BY <1>2, <1>3, EditedRow DEF IInv, FinishPreview

LEMMA FinishApplyEdits ==
    ASSUME IInv, NEW w \in Workers, FinishApply(w)
    PROVE  EditsRow(task[w].job,
               [jobs[task[w].job] EXCEPT !.status = "completed",
                                         !.preview_ready = FALSE])
  <1>1. pc[w] = "planned" /\ pc[w] \in Holding
    BY DEF FinishApply, Goto, Holding, Working
  <1>2. QED
    BY <1>1, AtWork, EditedRow DEF IInv, FinishApply, Row, Status

LEMMA SettleEdits ==
    ASSUME IInv, NEW w \in Workers, Settle(w)
    PROVE  EditsRow(task[w].job,
               [jobs[task[w].job] EXCEPT !.preview_ready = FALSE,
                   !.status = IF jobs[task[w].job].cancel_requested
                              THEN "cancelled" ELSE "failed"])
  <1>1. pc[w] \in Holding
    BY DEF Settle, Goto, Holding, Working
  <1>2. QED
    BY <1>1, AtWork, EditedRow DEF IInv, Settle, Row, Status

\* A new job.
LEMMA SubmitAdds ==
    ASSUME IInv, NEW o \in Admins, NEW book \in Workbooks, Submit(o, book)
    PROVE  /\ jobs' \in Seq(Row)
           /\ Len(jobs') <= MaxJobs
           /\ DOMAIN jobs' = DOMAIN jobs \cup {Len(jobs) + 1}
           /\ Len(jobs) + 1 \notin DOMAIN jobs
           /\ jobs'[Len(jobs) + 1] = NewRow(o, book)
           /\ \A j \in DOMAIN jobs : jobs'[j] = jobs[j]
  <1>1. jobs \in Seq(Row) /\ NewRow(o, book) \in Row
    BY NewRowType DEF IInv, TypeOK
  <1>2. /\ jobs' \in Seq(Row)
        /\ Len(jobs') = Len(jobs) + 1
        /\ jobs'[Len(jobs) + 1] = NewRow(o, book)
        /\ \A j \in 1..Len(jobs) : jobs'[j] = jobs[j]
    BY <1>1, AppendProperties DEF Submit
  <1>3. DOMAIN jobs' = 1..(Len(jobs) + 1)
    BY <1>2, LenProperties
  <1>4. QED
    BY <1>2, <1>3, Domains, StockLedgerAssumption DEF IInv, Submit

\* An action adds a snapshot to the history and moves the state to it.
AddsSnapshot(snapshot, name) ==
    /\ snapshot \in Snapshot
    /\ snapshots' \in Seq(Snapshot)
    /\ Len(snapshots') = Len(snapshots) + 1
    /\ DOMAIN snapshots' = DOMAIN snapshots \cup {Len(snapshots) + 1}
    /\ Len(snapshots) + 1 \notin DOMAIN snapshots
    /\ snapshots'[Len(snapshots) + 1] = snapshot
    /\ \A i \in DOMAIN snapshots : snapshots'[i] = snapshots[i]
    /\ state' = [active |-> Len(snapshots) + 1, revision |-> state.revision + 1]
    /\ state' \in [active: 0..Len(snapshots'), revision: Nat]
    /\ brand' = Canonical(name)
    /\ brand' \in Spellings \cup {NoBrand}

LEMMA Activated ==
    ASSUME TypeOK, NEW snapshot \in Snapshot,
           NEW name \in Spellings \cup {brand}, Activate(snapshot, name)
    PROVE  AddsSnapshot(snapshot, name)
  <1>1. snapshots \in Seq(Snapshot) /\ snapshots' = Append(snapshots, snapshot)
    BY DEF TypeOK, Activate
  <1>2. /\ snapshots' \in Seq(Snapshot)
        /\ Len(snapshots') = Len(snapshots) + 1
        /\ snapshots'[Len(snapshots) + 1] = snapshot
        /\ \A i \in 1..Len(snapshots) : snapshots'[i] = snapshots[i]
    BY <1>1, AppendProperties
  <1>3. DOMAIN snapshots' = 1..(Len(snapshots) + 1)
    BY <1>2, LenProperties
  <1>4. /\ state' = [active |-> Len(snapshots) + 1, revision |-> state.revision + 1]
        /\ state' \in [active: 0..Len(snapshots'), revision: Nat]
    BY <1>2, Domains DEF Activate, TypeOK
  <1>5. brand' = Canonical(name) /\ brand' \in Spellings \cup {NoBrand}
    BY CanonicalType DEF Activate, TypeOK
  <1>6. QED
    BY <1>2, <1>3, <1>4, <1>5, Domains DEF AddsSnapshot

LEMMA RestoreAdds ==
    ASSUME IInv, NEW o \in Admins, NEW i \in DOMAIN snapshots, Restore(o, i)
    PROVE  AddsSnapshot([kind |-> "RESTORE", job |-> NoJob, source |-> i,
                         replaced |-> state.active, items |-> Items(i)], brand)
  <1>1. i \in Nat /\ i \in 0..Len(snapshots) /\ state.active \in Nat
    BY Domains DEF IInv, TypeOK
  <1>2. [kind |-> "RESTORE", job |-> NoJob, source |-> i,
         replaced |-> state.active, items |-> Items(i)] \in Snapshot
    BY <1>1, ItemsType DEF IInv, Snapshot
  <1>3. QED
    BY <1>2, Activated DEF IInv, Restore

LEMMA SaveAdds ==
    ASSUME IInv, NEW t \in tokens, Save(t), t.before # t.after
    PROVE  /\ t \in Token
           /\ AddsSnapshot([kind |-> "MANUAL", job |-> NoJob, source |-> 0,
                            replaced |-> state.active, items |-> Edited(t)],
                           t.after.brand)
  <1>1. t \in Token /\ t.after \in Item /\ t.after.brand \in Spellings
    BY DEF IInv, TypeOK, Token, Item
  <1>2. Edited(t) \subseteq Item /\ state.active \in Nat
    BY <1>1, ItemsType, Domains DEF IInv, TypeOK, Edited
  <1>3. [kind |-> "MANUAL", job |-> NoJob, source |-> 0,
         replaced |-> state.active, items |-> Edited(t)] \in Snapshot
    BY <1>2 DEF Snapshot
  <1>4. QED
    BY <1>1, <1>3, Activated DEF IInv, Save

LEMMA FinishApplyAdds ==
    ASSUME IInv, NEW w \in Workers, FinishApply(w)
    PROVE  AddsSnapshot([kind |-> "IMPORT", job |-> task[w].job, source |-> 0,
                         replaced |-> task[w].plan.base,
                         items |-> task[w].plan.items],
                        jobs[task[w].job].file.brand)
  <1>1. pc[w] = "planned" /\ pc[w] \in Holding
    BY DEF FinishApply, Goto, Holding, Working
  <1>2. /\ task[w].job \in Jobs
        /\ task[w].plan \in Plan
        /\ jobs[task[w].job].file.brand \in Spellings
    BY <1>1, AtWork, PreparedType DEF IInv
  <1>3. [kind |-> "IMPORT", job |-> task[w].job, source |-> 0,
         replaced |-> task[w].plan.base, items |-> task[w].plan.items] \in Snapshot
    BY <1>2 DEF Snapshot, Plan
  <1>4. QED
    BY <1>2, <1>3, Activated DEF IInv, FinishApply

------------------------------------------------------------------------------
(* Which actions change what                                               *)

LEMMA LedgerChanges ==
    ASSUME Next
    PROVE  \/ UNCHANGED ledger
           \/ \E o \in Admins, i \in DOMAIN snapshots : Restore(o, i)
           \/ \E t \in tokens : Save(t)
           \/ \E w \in Workers : FinishApply(w)
           \/ \E name \in Spellings : RegisterBrand(name)
  BY DEF Next, WebStep, WorkerStep, Page, Edit, OpenStock, OpenJob, Review, Submit,
         Cancel, Confirm, Retry, Control, Recover, Discard, Visited, Claim, Lock,
         MakePlan, FinishPreview, Fail, Settle, SettleFails, Close, Crash, Revoke

LEMMA JobsChange ==
    ASSUME Next
    PROVE  \/ UNCHANGED jobs
           \/ \E o \in Admins, book \in Workbooks : Submit(o, book)
           \/ \E o \in Admins : Cancel(o) \/ Confirm(o) \/ Retry(o)
           \/ \E w \in Workers, j \in DOMAIN jobs :
                 Recover(w, j) \/ Discard(w, j) \/ Claim(w, j)
           \/ \E w \in Workers : FinishPreview(w) \/ FinishApply(w) \/ Settle(w)
  BY DEF Next, WebStep, WorkerStep, Page, Edit, OpenStock, OpenJob, Review, Restore,
         Save, Lock, MakePlan, Fail, SettleFails, Close, Crash, RegisterBrand, Revoke

LEMMA WorkersChange ==
    ASSUME Next
    PROVE  \/ UNCHANGED worker
           \/ \E w \in Workers, j \in DOMAIN jobs : Claim(w, j)
           \/ \E w \in Workers : Lock(w) \/ MakePlan(w) \/ FinishPreview(w)
                                 \/ FinishApply(w) \/ Fail(w) \/ Settle(w)
                                 \/ SettleFails(w) \/ Close(w) \/ Crash(w)
  BY DEF Next, WebStep, WorkerStep, Page, Edit, OpenStock, OpenJob, Review, Restore,
         Save, Submit, Cancel, Confirm, Retry, Control, Recover, Discard, Visited,
         RegisterBrand, Revoke, worker

LEMMA PeopleChange ==
    ASSUME Next
    PROVE  \/ UNCHANGED people
           \/ \E o \in Admins : OpenStock(o) \/ Revoke(o)
           \/ \E o \in Admins, j \in DOMAIN jobs : OpenJob(o, j)
           \/ \E o \in Admins, r \in Requests, data \in Edits,
                 before \in Items(state.active) \cup {NoItem} :
                    Review(o, r, before, data)
  BY DEF Next, WebStep, WorkerStep, Page, Edit, Restore, Save, Submit, Cancel, Confirm,
         Retry, Control, Recover, Discard, Visited, Claim, Lock, MakePlan,
         FinishPreview, FinishApply, Fail, Settle, SettleFails, Close, Crash,
         RegisterBrand, people

\* The table of jobs keeps its type and its rows.
LEMMA JobsType ==
    ASSUME IInv, Next
    PROVE  /\ jobs' \in Seq(Row)
           /\ Len(jobs') <= MaxJobs
           /\ DOMAIN jobs \subseteq DOMAIN jobs'
  <1>1. ASSUME NEW o \in Admins, NEW book \in Workbooks, Submit(o, book)
        PROVE  /\ jobs' \in Seq(Row)
               /\ Len(jobs') <= MaxJobs
               /\ DOMAIN jobs \subseteq DOMAIN jobs'
    BY <1>1, SubmitAdds
  <1>2. ASSUME NEW j, NEW row, EditsRow(j, row)
        PROVE  /\ jobs' \in Seq(Row)
               /\ Len(jobs') <= MaxJobs
               /\ DOMAIN jobs \subseteq DOMAIN jobs'
    BY <1>2 DEF EditsRow, IInv, TypeOK
  <1>3. CASE UNCHANGED jobs
    BY <1>3 DEF IInv, TypeOK
  <1>4. ASSUME NEW o \in Admins, Cancel(o) \/ Confirm(o) \/ Retry(o)
        PROVE  \E j, row : EditsRow(j, row)
    BY <1>4, CancelEdits, ConfirmEdits, RetryEdits
  <1>5. ASSUME NEW w \in Workers, NEW j \in DOMAIN jobs,
               Recover(w, j) \/ Discard(w, j) \/ Claim(w, j)
        PROVE  \E k, row : EditsRow(k, row)
    BY <1>5, RecoverEdits, DiscardEdits, ClaimEdits
  <1>6. ASSUME NEW w \in Workers, FinishPreview(w) \/ FinishApply(w) \/ Settle(w)
        PROVE  \E j, row : EditsRow(j, row)
    BY <1>6, FinishPreviewEdits, FinishApplyEdits, SettleEdits
  <1>7. QED
    BY <1>1, <1>2, <1>3, <1>4, <1>5, <1>6, JobsChange

LEMMA LedgerType ==
    ASSUME IInv, Next
    PROVE  /\ snapshots' \in Seq(Snapshot)
           /\ state' \in [active: 0..Len(snapshots'), revision: Nat]
           /\ brand' \in Spellings \cup {NoBrand}
           /\ receipts' \subseteq Receipt
           /\ state.revision <= state'.revision
  <1> DEFINE Goal == /\ snapshots' \in Seq(Snapshot)
                     /\ state' \in [active: 0..Len(snapshots'), revision: Nat]
                     /\ brand' \in Spellings \cup {NoBrand}
                     /\ state.revision <= state'.revision
  <1>1. ASSUME NEW snapshot, NEW name, AddsSnapshot(snapshot, name) PROVE Goal
    BY <1>1 DEF AddsSnapshot, IInv, TypeOK
  <1>2. ASSUME UNCHANGED <<snapshots, state, brand>> PROVE Goal
    BY <1>2 DEF IInv, TypeOK
  <1>3. CASE UNCHANGED ledger
    BY <1>2, <1>3 DEF ledger, IInv, TypeOK
  <1>4. ASSUME NEW o \in Admins, NEW i \in DOMAIN snapshots, Restore(o, i)
        PROVE  Goal /\ UNCHANGED receipts
    BY <1>1, <1>4, RestoreAdds DEF Restore
  <1>5. ASSUME NEW w \in Workers, FinishApply(w)
        PROVE  Goal /\ UNCHANGED receipts
    BY <1>1, <1>5, FinishApplyAdds DEF FinishApply
  <1>6. ASSUME NEW name \in Spellings, RegisterBrand(name)
        PROVE  Goal /\ UNCHANGED receipts
    BY <1>6 DEF RegisterBrand, IInv, TypeOK
  <1>7. ASSUME NEW t \in tokens, Save(t) PROVE Goal /\ receipts' \subseteq Receipt
    <2>1. Goal
      <3>1. CASE t.before = t.after
        BY <1>2, <1>7, <3>1 DEF Save
      <3>2. CASE t.before # t.after
        BY <1>1, <1>7, <3>2, SaveAdds
      <3>3. QED
        BY <3>1, <3>2
    <2>2. Len(snapshots') \in Nat
      BY <2>1, LenProperties
    <2>3. state'.active \in Nat
      BY <2>1, <2>2
    <2>4. [token |-> t, result |-> state'.active] \in Receipt
      BY <2>3 DEF IInv, TypeOK, Receipt
    <2>5. QED
      BY <1>7, <2>1, <2>4 DEF Save, IInv, TypeOK
  <1>8. QED
    BY <1>3, <1>4, <1>5, <1>6, <1>7, LedgerChanges DEF ledger, IInv, TypeOK

------------------------------------------------------------------------------
(* Types, pages and locks                                                  *)

LEMMA WorkersType ==
    ASSUME IInv, Next
    PROVE  /\ locks' \in [Jobs -> Workers \cup {NoWorker}]
           /\ writer' \in Workers \cup {NoWorker}
           /\ pc' \in [Workers -> Holding \cup {"idle"}]
           /\ task' \in [Workers -> Task]
  <1> DEFINE Goal == /\ locks' \in [Jobs -> Workers \cup {NoWorker}]
                     /\ writer' \in Workers \cup {NoWorker}
                     /\ pc' \in [Workers -> Holding \cup {"idle"}]
                     /\ task' \in [Workers -> Task]
  <1> USE DEF IInv, TypeOK, Goto, Holding, Working
  <1>1. CASE UNCHANGED worker
    BY <1>1 DEF worker
  <1>2. ASSUME NEW w \in Workers, NEW j \in DOMAIN jobs, Claim(w, j) PROVE Goal
    <2>1. [task[w] EXCEPT !.job = j] \in Task
      BY Domains DEF Task
    <2>2. task' \in [Workers -> Task]
      BY <1>2, <2>1 DEF Claim
    <2>3. QED
      BY <1>2, <2>2 DEF Claim
  <1>3. ASSUME NEW w \in Workers, Lock(w) PROVE Goal
    BY <1>3 DEF Lock
  <1>4. ASSUME NEW w \in Workers, MakePlan(w) PROVE Goal
    <2>1. PlanOf(jobs[task[w].job].file) \in Plan
      BY <1>4, AtWork, PreparedType DEF MakePlan
    <2>2. [task[w] EXCEPT !.plan = PlanOf(jobs[task[w].job].file)] \in Task
      BY <2>1 DEF Task
    <2>3. task' \in [Workers -> Task]
      BY <1>4, <2>2 DEF MakePlan
    <2>4. QED
      BY <1>4, <2>3 DEF MakePlan
  <1>5. ASSUME NEW w \in Workers, FinishPreview(w) \/ FinishApply(w) PROVE Goal
    BY <1>5 DEF FinishPreview, FinishApply, Release
  <1>6. ASSUME NEW w \in Workers, Fail(w) PROVE Goal
    BY <1>6 DEF Fail, Release
  <1>7. ASSUME NEW w \in Workers, Settle(w) \/ SettleFails(w) PROVE Goal
    BY <1>7 DEF Settle, SettleFails
  <1>8. ASSUME NEW w \in Workers, Close(w) PROVE Goal
    BY <1>8, NoTaskType DEF Close
  <1>9. ASSUME NEW w \in Workers, Crash(w) PROVE Goal
    BY <1>9, NoTaskType DEF Crash, Release
  <1>10. QED
    BY <1>1, <1>2, <1>3, <1>4, <1>5, <1>6, <1>7, <1>8, <1>9, WorkersChange

\* What review signs is a token.
LEMMA ReviewedType ==
    ASSUME TypeOK, NEW o \in Admins, NEW r \in Requests,
           NEW before \in Items(state.active) \cup {NoItem}, NEW data \in Item
    PROVE  Reviewed(o, r, before, data) \in Token
  <1>1. before \in Item \cup {NoItem} /\ state.revision \in Nat
    BY ItemsType DEF TypeOK
  <1>2. data.brand \in Spellings
    BY DEF Item
  <1>3. [data EXCEPT !.brand = Canonical(@)] \in Item
    BY <1>2, CanonicalType DEF Item
  <1>4. QED
    BY <1>1, <1>2, <1>3, CanonicalType DEF Reviewed, Token

LEMMA PeopleType ==
    ASSUME IInv, Next
    PROVE  /\ tokens' \subseteq Token
           /\ screen' \in [Admins -> Screen]
           /\ valid' \subseteq Admins
           /\ ScreenInv'
  <1> DEFINE Goal == /\ tokens' \subseteq Token
                     /\ screen' \in [Admins -> Screen]
                     /\ valid' \subseteq Admins
                     /\ ScreenInv'
  <1>0. /\ tokens \subseteq Token
        /\ screen \in [Admins -> Screen]
        /\ valid \subseteq Admins
        /\ ScreenInv
        /\ state.revision \in Nat
    BY DEF IInv, TypeOK
  <1>1. DOMAIN jobs \subseteq DOMAIN jobs'
    BY JobsType
  <1>2. CASE UNCHANGED people
    BY <1>0, <1>1, <1>2 DEF people, ScreenInv
  <1>3. ASSUME NEW o \in Admins, OpenStock(o) PROVE Goal
    <2>1. [job |-> NoJob, preview |-> NoPlan, revision |-> state.revision] \in Screen
      BY <1>0 DEF Screen
    <2>2. QED
      BY <1>0, <1>1, <1>3, <2>1 DEF OpenStock, ScreenInv
  <1>4. ASSUME NEW o \in Admins, Revoke(o) PROVE Goal
    BY <1>0, <1>1, <1>4 DEF Revoke, ScreenInv
  <1>5. ASSUME NEW o \in Admins, NEW j \in DOMAIN jobs, OpenJob(o, j) PROVE Goal
    <2>1. j \in Jobs /\ jobs[j].preview \in Plan \cup {NoPlan}
      BY Domains DEF IInv, Row
    <2>2. [job |-> j, revision |-> 0, preview |-> jobs[j].preview] \in Screen
      BY <2>1 DEF Screen
    <2>3. QED
      BY <1>0, <1>1, <1>5, <2>2 DEF OpenJob, ScreenInv
  <1>6. ASSUME NEW o \in Admins, NEW r \in Requests, NEW data \in Edits,
               NEW before \in Items(state.active) \cup {NoItem},
               Review(o, r, before, data)
        PROVE  Goal
    <2>1. Reviewed(o, r, before, data) \in Token
      BY ReviewedType, StockLedgerAssumption DEF IInv
    <2>2. QED
      BY <1>0, <1>1, <1>6, <2>1 DEF Review, ScreenInv
  <1>7. QED
    BY <1>2, <1>3, <1>4, <1>5, <1>6, PeopleChange

LEMMA TypeNext == IInv /\ Next => TypeOK'
  <1> SUFFICES ASSUME IInv, Next PROVE TypeOK'
    OBVIOUS
  <1>1. crashes' \in Nat
    <2>1. crashes \in Nat
      BY DEF IInv, TypeOK
    <2>2. ASSUME NEW w \in Workers, Crash(w) PROVE crashes' \in Nat
      BY <2>1, <2>2 DEF Crash
    <2>3. CASE UNCHANGED crashes
      BY <2>1, <2>3
    <2>4. QED
      BY <2>2, <2>3 DEF Next, WebStep, WorkerStep, Page, Edit, OpenStock, OpenJob,
         Review, Restore, Save, Submit, Cancel, Confirm, Retry, Control, Recover,
         Discard, Visited, Claim, Lock, MakePlan, FinishPreview, FinishApply, Fail,
         Settle, SettleFails, Close, RegisterBrand, Revoke
  <1>2. QED
    BY <1>1, JobsType, LedgerType, WorkersType, PeopleType DEF TypeOK

LEMMA LockNext == IInv /\ Next => LockInv'
  <1> SUFFICES ASSUME IInv, Next, NEW v \in Workers, pc'[v] \in Holding
               PROVE  task'[v].job \in DOMAIN jobs' /\ locks'[task'[v].job] = v
    BY DEF LockInv
  <1> DEFINE Goal == task'[v].job \in DOMAIN jobs /\ locks'[task'[v].job] = v
  <1>0. SUFFICES Goal
    BY JobsType
  <1> USE DEF IInv, TypeOK, Goto, LockInv
  <1>1. pc[v] \in Holding =>
            /\ task[v].job \in DOMAIN jobs
            /\ task[v].job \in Jobs
            /\ locks[task[v].job] = v
    BY Domains
  <1>2. CASE UNCHANGED worker
    BY <1>1, <1>2 DEF worker
  <1>3. ASSUME NEW w \in Workers, NEW j \in DOMAIN jobs, Claim(w, j) PROVE Goal
    <2>1. j \in Jobs /\ locks[j] = NoWorker /\ v # NoWorker
      BY <1>3, Domains, StockLedgerAssumption DEF Claim, Visits, Unlocked
    <2>2. CASE v = w
      BY <1>3, <2>1, <2>2 DEF Claim, Task
    <2>3. CASE v # w
      BY <1>1, <1>3, <2>1, <2>3 DEF Claim
    <2>4. QED
      BY <2>2, <2>3
  <1>4. ASSUME NEW w \in Workers,
               \/ Lock(w) \/ FinishPreview(w) \/ FinishApply(w)
               \/ Fail(w) \/ Settle(w) \/ SettleFails(w)
        PROVE  Goal
    <2>1. UNCHANGED <<task, locks>> /\ pc[w] \in Holding
      BY <1>4 DEF Lock, FinishPreview, FinishApply, Fail, Settle, SettleFails,
                  Holding, Working
    <2>2. \A u \in Workers : u # w => pc'[u] = pc[u]
      BY <1>4 DEF Lock, FinishPreview, FinishApply, Fail, Settle, SettleFails
    <2>3. QED
      BY <1>1, <2>1, <2>2
  <1>5. ASSUME NEW w \in Workers, MakePlan(w) PROVE Goal
    <2>1. task'[v].job = task[v].job /\ UNCHANGED locks
      BY <1>5 DEF MakePlan, Task
    <2>2. pc[v] \in Holding
      BY <1>5 DEF MakePlan, Holding, Working
    <2>3. QED
      BY <1>1, <2>1, <2>2
  <1>6. ASSUME NEW w \in Workers, Close(w) \/ Crash(w) PROVE Goal
    <2>1. /\ pc[w] \in Holding
          /\ pc' = [pc EXCEPT ![w] = "idle"]
          /\ locks' = [locks EXCEPT ![task[w].job] = NoWorker]
          /\ task' = [task EXCEPT ![w] = NoTask]
      BY <1>6 DEF Close, Crash, Holding, Working
    <2>2. v # w /\ pc[v] \in Holding
      BY <2>1 DEF Holding, Working
    <2>3. task[v].job # task[w].job
      BY <2>1, <2>2
    <2>4. QED
      BY <1>1, <2>1, <2>2, <2>3
  <1>7. QED
    BY <1>2, <1>3, <1>4, <1>5, <1>6, WorkersChange

LEMMA WriterNext == IInv /\ Next => WriterInv'
  <1> SUFFICES ASSUME IInv, Next, NEW v \in Workers, pc'[v] \in {"locked", "planned"}
               PROVE  writer' = v
    BY DEF WriterInv
  <1> USE DEF IInv, TypeOK, Goto, WriterInv
  <1>0. v # NoWorker
    BY StockLedgerAssumption
  <1>1. CASE UNCHANGED worker
    BY <1>1 DEF worker
  <1>2. ASSUME NEW w \in Workers, NEW j \in DOMAIN jobs, Claim(w, j) PROVE writer' = v
    BY <1>2 DEF Claim
  <1>3. ASSUME NEW w \in Workers, Lock(w) PROVE writer' = v
    BY <1>0, <1>3 DEF Lock, LocksFree
  <1>4. ASSUME NEW w \in Workers,
               MakePlan(w) \/ Settle(w) \/ SettleFails(w) \/ Close(w)
        PROVE  writer' = v
    BY <1>4 DEF MakePlan, Settle, SettleFails, Close
  <1>5. ASSUME NEW w \in Workers,
               FinishPreview(w) \/ FinishApply(w) \/ Fail(w) \/ Crash(w)
        PROVE  writer' = v
    BY <1>5 DEF FinishPreview, FinishApply, Fail, Crash, Release
  <1>6. QED
    BY <1>1, <1>2, <1>3, <1>4, <1>5, WorkersChange

------------------------------------------------------------------------------
(* What a worker relies on                                                 *)

\* Nobody touches a running job but for the request to cancel it.
LEMMA RunningRowStays ==
    ASSUME IInv, Next, NEW v \in Workers, pc[v] \in Running, pc'[v] \in Running
    PROVE  LET j == task[v].job IN
           /\ task'[v].job = j
           /\ jobs'[j].status = "running"
           /\ jobs'[j].file = jobs[j].file
           /\ jobs'[j].phase = jobs[j].phase
           /\ jobs'[j].preview = jobs[j].preview
           /\ jobs'[j].actor = jobs[j].actor
  <1> DEFINE j == task[v].job
             Stays == /\ jobs'[j].status = "running"
                      /\ jobs'[j].file = jobs[j].file
                      /\ jobs'[j].phase = jobs[j].phase
                      /\ jobs'[j].preview = jobs[j].preview
                      /\ jobs'[j].actor = jobs[j].actor
  <1>0. /\ pc[v] \in Holding
        /\ j \in DOMAIN jobs
        /\ j \in Jobs
        /\ jobs[j] \in Row
        /\ jobs[j].status = "running"
        /\ locks[j] = v
        /\ v # NoWorker
    BY AtWork, StockLedgerAssumption DEF Running, Holding, IInv, TaskInv, LockInv
  <1>1. task'[v].job = j
    <2> USE DEF IInv, TypeOK, Goto, Running, Working
    <2>1. CASE UNCHANGED worker
      BY <2>1 DEF worker
    <2>2. ASSUME NEW w \in Workers, NEW k \in DOMAIN jobs, Claim(w, k)
          PROVE  task'[v].job = j
      BY <2>2 DEF Claim
    <2>3. ASSUME NEW w \in Workers, MakePlan(w) PROVE task'[v].job = j
      BY <2>3 DEF MakePlan, Task
    <2>4. ASSUME NEW w \in Workers, Close(w) \/ Crash(w) PROVE task'[v].job = j
      BY <2>4 DEF Close, Crash
    <2>5. ASSUME NEW w \in Workers,
                 \/ Lock(w) \/ FinishPreview(w) \/ FinishApply(w)
                 \/ Fail(w) \/ Settle(w) \/ SettleFails(w)
          PROVE  task'[v].job = j
      BY <2>5 DEF Lock, FinishPreview, FinishApply, Fail, Settle, SettleFails
    <2>6. QED
      BY <2>1, <2>2, <2>3, <2>4, <2>5, WorkersChange
  <1>2. Stays
    <2>1. CASE UNCHANGED jobs
      BY <1>0, <2>1
    <2>2. ASSUME NEW k, NEW row, EditsRow(k, row), k # j PROVE Stays
      BY <1>0, <2>2 DEF EditsRow
    <2>3. ASSUME NEW o \in Admins, NEW book \in Workbooks, Submit(o, book) PROVE Stays
      BY <1>0, <2>3, SubmitAdds
    <2>4. ASSUME NEW o \in Admins, Cancel(o) PROVE Stays
      <3>1. CASE screen[o].job # j
        BY <2>2, <2>4, <3>1, CancelEdits
      <3>2. CASE screen[o].job = j
        <4>1. jobs'[j] = [jobs[j] EXCEPT !.cancel_requested = TRUE,
                             !.status = IF @ = "queued" THEN "cancelled" ELSE @]
          BY <2>4, <3>2, CancelEdits DEF EditsRow
        <4>2. QED
          BY <1>0, <4>1 DEF Row
      <3>3. QED
        BY <3>1, <3>2
    <2>5. ASSUME NEW o \in Admins, Confirm(o) \/ Retry(o) PROVE Stays
      <3>1. screen[o].job # j
        BY <1>0, <2>5 DEF Confirm, Retry, Previewed
      <3>2. QED
        BY <2>2, <2>5, <3>1, ConfirmEdits, RetryEdits
    <2>6. ASSUME NEW w \in Workers, NEW k \in DOMAIN jobs,
                 Recover(w, k) \/ Discard(w, k) \/ Claim(w, k)
          PROVE  Stays
      <3>1. k # j
        BY <1>0, <2>6 DEF Recover, Discard, Claim, Visited, Visits, Unlocked
      <3>2. CASE Recover(w, k)
        BY <2>2, <3>1, <3>2, RecoverEdits
      <3>3. CASE Discard(w, k)
        BY <2>2, <3>1, <3>3, DiscardEdits
      <3>4. CASE Claim(w, k)
        BY <2>2, <3>1, <3>4, ClaimEdits
      <3>5. QED
        BY <2>6, <3>2, <3>3, <3>4
    <2>7. ASSUME NEW w \in Workers, FinishPreview(w) \/ FinishApply(w) \/ Settle(w)
          PROVE  Stays
      <3>1. pc[w] \in Holding /\ pc'[w] = "closing"
        BY <2>7 DEF FinishPreview, FinishApply, Settle, Goto, Holding, Working,
                    IInv, TypeOK
      <3>2. locks[task[w].job] = w /\ w # v
        BY <3>1 DEF IInv, LockInv, Running, Working
      <3>3. task[w].job # j
        BY <1>0, <3>2
      <3>4. QED
        BY <2>2, <2>7, <3>3, FinishPreviewEdits, FinishApplyEdits, SettleEdits
    <2>8. QED
      BY <2>1, <2>3, <2>4, <2>5, <2>6, <2>7, JobsChange
  <1>3. QED
    BY <1>1, <1>2

\* While a worker has the locks, nobody else writes to the ledger.
LEMMA LedgerStays ==
    ASSUME IInv, Next, NEW v \in Workers, pc[v] = "planned", pc'[v] = "planned"
    PROVE  /\ UNCHANGED <<state, brand>>
           /\ task'[v].plan = task[v].plan
           /\ jobs[task[v].job].actor \in valid'
  <1> USE DEF IInv, TypeOK, Goto
  <1>0. writer = v /\ v # NoWorker
    BY StockLedgerAssumption DEF WriterInv
  <1>1. UNCHANGED <<state, brand>>
    <2>1. ASSUME NEW w \in Workers, FinishApply(w) PROVE FALSE
      BY <1>0, <2>1 DEF FinishApply, WriterInv
    <2>2. ASSUME NEW o \in Admins, NEW i \in DOMAIN snapshots, Restore(o, i)
          PROVE  FALSE
      BY <1>0, <2>2 DEF Restore, LocksFree
    <2>3. ASSUME NEW t \in tokens, Save(t) PROVE FALSE
      BY <1>0, <2>3 DEF Save, LocksFree
    <2>4. ASSUME NEW name \in Spellings, RegisterBrand(name) PROVE FALSE
      BY <1>0, <2>4 DEF RegisterBrand, LocksFree
    <2>5. QED
      BY <2>1, <2>2, <2>3, <2>4, LedgerChanges DEF ledger
  <1>2. task'[v].plan = task[v].plan
    <2>1. CASE UNCHANGED worker
      BY <2>1 DEF worker
    <2>2. ASSUME NEW w \in Workers, NEW k \in DOMAIN jobs, Claim(w, k)
          PROVE  task'[v].plan = task[v].plan
      BY <2>2 DEF Claim
    <2>3. ASSUME NEW w \in Workers, MakePlan(w) \/ Close(w) \/ Crash(w)
          PROVE  task'[v].plan = task[v].plan
      BY <2>3 DEF MakePlan, Close, Crash
    <2>4. ASSUME NEW w \in Workers,
                 \/ Lock(w) \/ FinishPreview(w) \/ FinishApply(w)
                 \/ Fail(w) \/ Settle(w) \/ SettleFails(w)
          PROVE  task'[v].plan = task[v].plan
      BY <2>4 DEF Lock, FinishPreview, FinishApply, Fail, Settle, SettleFails
    <2>5. QED
      BY <2>1, <2>2, <2>3, <2>4, WorkersChange
  <1>3. jobs[task[v].job].actor \in valid'
    <2>1. jobs[task[v].job].actor \in valid
      BY DEF TaskInv
    <2>2. ASSUME NEW o \in Admins, Revoke(o)
          PROVE  jobs[task[v].job].actor \in valid'
      BY <2>1, <2>2 DEF Revoke
    <2>3. CASE UNCHANGED valid
      BY <2>1, <2>3
    <2>4. QED
      BY <2>2, <2>3, PeopleChange DEF people, OpenStock, OpenJob, Review
  <1>4. QED
    BY <1>1, <1>2, <1>3

LEMMA TaskNext == IInv /\ Next => TaskInv'
  <1> DEFINE Busy(v) == pc[v] \in Running => jobs[task[v].job].status = "running"
             Planned(v) == pc[v] = "planned" =>
                 LET row == jobs[task[v].job] IN
                 /\ task[v].plan = PlanOf(row.file)
                 /\ row.actor \in valid
                 /\ Distinct(Prepared(row.file))
                 /\ PlanStands(row)
  <1> SUFFICES ASSUME IInv, Next, NEW v \in Workers PROVE Busy(v)' /\ Planned(v)'
    BY DEF TaskInv
  <1>1. CASE pc[v] \in Running /\ pc'[v] \in Running
    <2>1. Busy(v)'
      BY <1>1, RunningRowStays
    <2>2. CASE pc'[v] # "planned"
      BY <2>1, <2>2
    <2>3. CASE pc'[v] = "planned" /\ pc[v] = "planned"
      <3>1. /\ UNCHANGED <<state, brand>>
            /\ task'[v].plan = task[v].plan
            /\ jobs[task[v].job].actor \in valid'
        BY <2>3, LedgerStays
      <3>2. \A file : /\ PlanOf(file)' = PlanOf(file)
                      /\ Prepared(file)' = Prepared(file)
        BY <3>1 DEF PlanOf, Prepared, Canonical, NewBrands
      <3>3. Planned(v)
        BY DEF IInv, TaskInv
      <3>4. Planned(v)'
        BY <1>1, <2>3, <3>1, <3>2, <3>3, RunningRowStays DEF PlanStands
      <3>5. QED
        BY <2>1, <3>4
    <2>4. CASE pc'[v] = "planned" /\ pc[v] # "planned"
      <3>1. MakePlan(v)
        <4> USE DEF Goto, IInv, TypeOK
        <4>1. ASSUME NEW w \in Workers,
                     \/ Lock(w) \/ FinishPreview(w) \/ FinishApply(w) \/ Fail(w)
                     \/ Settle(w) \/ SettleFails(w) \/ Close(w) \/ Crash(w)
              PROVE  FALSE
          BY <2>4, <4>1 DEF Lock, FinishPreview, FinishApply, Fail, Settle,
                            SettleFails, Close, Crash
        <4>2. ASSUME NEW w \in Workers, NEW j \in DOMAIN jobs, Claim(w, j)
              PROVE  FALSE
          BY <2>4, <4>2 DEF Claim
        <4>3. ASSUME NEW w \in Workers, MakePlan(w) PROVE w = v
          BY <2>4, <4>3 DEF MakePlan
        <4>4. CASE UNCHANGED worker
          BY <2>4, <4>4 DEF worker
        <4>5. QED
          BY <4>1, <4>2, <4>3, <4>4, WorkersChange
      <3>2. /\ UNCHANGED <<state, brand, jobs, valid>>
            /\ task'[v] = [task[v] EXCEPT !.plan = PlanOf(jobs[task[v].job].file)]
            /\ task[v] \in Task
        BY <3>1 DEF MakePlan, ledger, people, IInv, TypeOK
      <3>3. \A file : /\ PlanOf(file)' = PlanOf(file)
                      /\ Prepared(file)' = Prepared(file)
        BY <3>2 DEF PlanOf, Prepared, Canonical, NewBrands
      <3>4. /\ task'[v].job = task[v].job
            /\ task'[v].plan = PlanOf(jobs[task[v].job].file)
        BY <3>2 DEF Task
      <3>5. Planned(v)'
        BY <3>1, <3>2, <3>3, <3>4 DEF MakePlan, PlanStands
      <3>6. QED
        BY <2>1, <3>5
    <2>5. QED
      BY <2>2, <2>3, <2>4
  <1>2. CASE pc[v] \notin Running /\ pc'[v] \in Running
    <2>1. \E j \in DOMAIN jobs : Claim(v, j)
      <3> USE DEF Goto, Running, Working, IInv, TypeOK
      <3>1. ASSUME NEW w \in Workers, Lock(w) \/ MakePlan(w) \/ Fail(w) PROVE FALSE
        BY <1>2, <3>1 DEF Lock, MakePlan, Fail
      <3>2. ASSUME NEW w \in Workers,
                   \/ FinishPreview(w) \/ FinishApply(w) \/ Settle(w)
                   \/ SettleFails(w) \/ Close(w) \/ Crash(w)
            PROVE  FALSE
        BY <1>2, <3>2 DEF FinishPreview, FinishApply, Settle, SettleFails, Close, Crash
      <3>3. ASSUME NEW w \in Workers, NEW j \in DOMAIN jobs, Claim(w, j)
            PROVE  w = v
        BY <1>2, <3>3 DEF Claim
      <3>4. CASE UNCHANGED worker
        BY <1>2, <3>4 DEF worker
      <3>5. QED
        BY <3>1, <3>2, <3>3, <3>4, WorkersChange
    <2>2. PICK j \in DOMAIN jobs : Claim(v, j)
      BY <2>1
    <2>3. task'[v].job = j /\ pc'[v] = "claimed"
      BY <2>2 DEF Claim, Goto, IInv, TypeOK, Task
    <2>4. jobs'[j].status = "running"
      BY <2>2, ClaimEdits DEF EditsRow, Row
    <2>5. QED
      BY <2>3, <2>4
  <1>3. CASE pc'[v] \notin Running
    BY <1>3 DEF Running, Working
  <1>4. QED
    BY <1>1, <1>2, <1>3

------------------------------------------------------------------------------
(* The rows of the jobs                                                    *)

LEMMA RowNext == IInv /\ Next => RowInv'
  <1> DEFINE Good(row, n) ==
                /\ row.cancel_requested => row.status # "completed"
                /\ row.preview_ready \/ row.phase = "apply" => row.preview # NoPlan
                /\ row.preview # NoPlan => row.preview.base <= n
             now == state.revision
  <1> SUFFICES ASSUME IInv, Next PROVE RowInv'
    OBVIOUS
  <1>1. now \in Nat /\ state'.revision \in Nat /\ now <= state'.revision
    BY LedgerType DEF IInv, TypeOK
  <1>2. \A row \in Row : Good(row, now) => Good(row, state'.revision)
    <2> SUFFICES ASSUME NEW row \in Row, row.preview # NoPlan, row.preview.base <= now
                 PROVE  row.preview.base <= state'.revision
      OBVIOUS
    <2>1. row.preview.base \in Nat
      BY DEF Row, Plan
    <2>2. QED
      BY <1>1, <2>1
  <1>3. \A j \in DOMAIN jobs : jobs[j] \in Row /\ Good(jobs[j], now)
    BY Domains DEF IInv, RowInv
  <1>4. CASE UNCHANGED jobs
    BY <1>2, <1>3, <1>4 DEF RowInv
  <1>5. ASSUME NEW o \in Admins, NEW book \in Workbooks, Submit(o, book)
        PROVE  RowInv'
    <2>1. Good(NewRow(o, book), state'.revision)
      BY DEF NewRow
    <2>2. QED
      BY <1>2, <1>3, <1>5, <2>1, SubmitAdds DEF RowInv
  <1>6. ASSUME NEW k, NEW row, EditsRow(k, row), Good(row, now) PROVE RowInv'
    <2>1. \A j \in DOMAIN jobs' : jobs'[j] \in Row /\ Good(jobs'[j], now)
      BY <1>3, <1>6 DEF EditsRow
    <2>2. QED
      BY <1>2, <2>1 DEF RowInv
  <1>7. ASSUME NEW o \in Admins, Cancel(o) PROVE RowInv'
    <2> DEFINE row == jobs[screen[o].job]
               new == [row EXCEPT !.cancel_requested = TRUE,
                          !.status = IF @ = "queued" THEN "cancelled" ELSE @]
    <2>1. EditsRow(screen[o].job, new) /\ row.status \in Active
      BY <1>7, CancelEdits DEF Cancel
    <2>2. row \in Row /\ Good(row, now)
      BY <1>3, <2>1 DEF EditsRow
    <2>3. Good(new, now)
      BY <2>1, <2>2 DEF Row, Active
    <2>4. QED
      BY <1>6, <2>1, <2>3
  <1>8. ASSUME NEW o \in Admins, Confirm(o) PROVE RowInv'
    <2> DEFINE row == jobs[screen[o].job]
               new == [row EXCEPT !.status = "queued", !.phase = "apply",
                                  !.preview_ready = FALSE]
    <2>1. EditsRow(screen[o].job, new) /\ Previewed(row)
      BY <1>8, ConfirmEdits DEF Confirm
    <2>2. row \in Row /\ Good(row, now)
      BY <1>3, <2>1 DEF EditsRow
    <2>3. Good(new, now)
      BY <2>1, <2>2 DEF Row, Previewed
    <2>4. QED
      BY <1>6, <2>1, <2>3
  <1>9. ASSUME NEW o \in Admins, Retry(o) PROVE RowInv'
    <2> DEFINE row == jobs[screen[o].job]
               new == [row EXCEPT !.status = "queued", !.phase = "preview",
                           !.preview_ready = FALSE, !.preview = NoPlan,
                           !.cancel_requested = FALSE]
    <2>1. EditsRow(screen[o].job, new)
      BY <1>9, RetryEdits
    <2>2. Good(new, now)
      BY <2>1 DEF EditsRow, Row
    <2>3. QED
      BY <1>6, <2>1, <2>2
  <1>10. ASSUME NEW w \in Workers, NEW j \in DOMAIN jobs, Recover(w, j) PROVE RowInv'
    <2>1. Good([jobs[j] EXCEPT !.status = "failed", !.preview_ready = FALSE], now)
      BY <1>3 DEF Row
    <2>2. QED
      BY <1>6, <1>10, <2>1, RecoverEdits
  <1>11. ASSUME NEW w \in Workers, NEW j \in DOMAIN jobs, Discard(w, j) PROVE RowInv'
    <2>1. Good([jobs[j] EXCEPT !.status = "cancelled"], now)
      BY <1>3 DEF Row
    <2>2. QED
      BY <1>6, <1>11, <2>1, DiscardEdits
  <1>12. ASSUME NEW w \in Workers, NEW j \in DOMAIN jobs, Claim(w, j) PROVE RowInv'
    <2>1. Good([jobs[j] EXCEPT !.status = "running", !.attempts = @ + 1], now)
      BY <1>3 DEF Row
    <2>2. QED
      BY <1>6, <1>12, <2>1, ClaimEdits
  <1>13. ASSUME NEW w \in Workers, FinishPreview(w) PROVE RowInv'
    <2> DEFINE row == jobs[task[w].job]
               new == [row EXCEPT !.status = "completed", !.preview_ready = TRUE,
                                  !.preview = task[w].plan]
    <2>1. EditsRow(task[w].job, new) /\ pc[w] = "planned" /\ ~row.cancel_requested
      BY <1>13, FinishPreviewEdits DEF FinishPreview, Goto, CommitGate
    <2>2. task[w].plan = PlanOf(row.file) /\ task[w].plan \in Plan
      BY <2>1, AtWork DEF IInv, TaskInv, Holding, Working
    <2>3. task[w].plan.base = now /\ task[w].plan # NoPlan
      BY <2>2, StockLedgerAssumption DEF PlanOf, Plan
    <2>4. Good(new, now)
      BY <1>1, <2>1, <2>3 DEF EditsRow, Row
    <2>5. QED
      BY <1>6, <2>1, <2>4
  <1>14. ASSUME NEW w \in Workers, FinishApply(w) PROVE RowInv'
    <2> DEFINE row == jobs[task[w].job]
               new == [row EXCEPT !.status = "completed", !.preview_ready = FALSE]
    <2>1. EditsRow(task[w].job, new) /\ ~row.cancel_requested
      BY <1>14, FinishApplyEdits DEF FinishApply, CommitGate
    <2>2. row \in Row /\ Good(row, now)
      BY <1>3, <2>1 DEF EditsRow
    <2>3. Good(new, now)
      BY <2>1, <2>2 DEF Row
    <2>4. QED
      BY <1>6, <2>1, <2>3
  <1>15. ASSUME NEW w \in Workers, Settle(w) PROVE RowInv'
    <2> DEFINE row == jobs[task[w].job]
               new == [row EXCEPT !.preview_ready = FALSE,
                          !.status = IF row.cancel_requested
                                     THEN "cancelled" ELSE "failed"]
    <2>1. EditsRow(task[w].job, new)
      BY <1>15, SettleEdits
    <2>2. row \in Row /\ Good(row, now)
      BY <1>3, <2>1 DEF EditsRow
    <2>3. Good(new, now)
      BY <2>2 DEF Row
    <2>4. QED
      BY <1>6, <2>1, <2>3
  <1>16. QED
    BY <1>4, <1>5, <1>7, <1>8, <1>9, <1>10, <1>11, <1>12, <1>13, <1>14, <1>15,
       JobsChange

------------------------------------------------------------------------------
(* The history of the snapshots                                            *)

LEMMA LinearNext == IInv /\ Next => LinearHistory'
  <1> SUFFICES ASSUME IInv, Next PROVE LinearHistory'
    OBVIOUS
  <1>1. /\ Len(snapshots) \in Nat
        /\ DOMAIN snapshots = 1..Len(snapshots)
        /\ \A i \in DOMAIN snapshots : snapshots[i].replaced = i - 1
        /\ state = [active |-> Len(snapshots), revision |-> Len(snapshots)]
    BY Domains DEF IInv, LinearHistory
  <1>2. ASSUME NEW snapshot, NEW name, AddsSnapshot(snapshot, name),
               snapshot.replaced = Len(snapshots)
        PROVE  LinearHistory'
    BY <1>1, <1>2 DEF AddsSnapshot, LinearHistory
  <1>3. ASSUME UNCHANGED <<snapshots, state>> PROVE LinearHistory'
    BY <1>1, <1>3 DEF LinearHistory
  <1>4. ASSUME NEW o \in Admins, NEW i \in DOMAIN snapshots, Restore(o, i)
        PROVE  LinearHistory'
    BY <1>1, <1>2, <1>4, RestoreAdds
  <1>5. ASSUME NEW t \in tokens, Save(t) PROVE LinearHistory'
    <2>1. CASE t.before = t.after
      BY <1>3, <1>5, <2>1 DEF Save
    <2>2. CASE t.before # t.after
      <3> DEFINE snapshot == [kind |-> "MANUAL", job |-> NoJob, source |-> 0,
                              replaced |-> state.active, items |-> Edited(t)]
      <3>1. AddsSnapshot(snapshot, t.after.brand)
        BY <1>5, <2>2, SaveAdds
      <3>2. snapshot.replaced = Len(snapshots)
        BY <1>1
      <3> HIDE DEF snapshot
      <3>3. QED
        BY <1>2, <3>1, <3>2
    <2>3. QED
      BY <2>1, <2>2
  <1>6. ASSUME NEW w \in Workers, FinishApply(w) PROVE LinearHistory'
    <2>1. task[w].plan = PlanOf(jobs[task[w].job].file)
      BY <1>6 DEF FinishApply, Goto, IInv, TaskInv
    <2>2. task[w].plan.base = Len(snapshots)
      BY <1>1, <2>1 DEF PlanOf
    <2> DEFINE snapshot == [kind |-> "IMPORT", job |-> task[w].job, source |-> 0,
                            replaced |-> task[w].plan.base,
                            items |-> task[w].plan.items]
    <2>3. AddsSnapshot(snapshot, jobs[task[w].job].file.brand)
      BY <1>6, FinishApplyAdds
    <2>4. snapshot.replaced = Len(snapshots)
      BY <2>2
    <2> HIDE DEF snapshot
    <2>5. QED
      BY <1>2, <2>3, <2>4
  <1>7. ASSUME NEW name \in Spellings, RegisterBrand(name) PROVE LinearHistory'
    BY <1>3, <1>7 DEF RegisterBrand
  <1>8. QED
    BY <1>3, <1>4, <1>5, <1>6, <1>7, LedgerChanges DEF ledger

LEMMA SourceNext == IInv /\ Next => SourceInv'
  <1> SUFFICES ASSUME IInv, Next PROVE SourceInv'
    OBVIOUS
  <1>1. SourceInv /\ DOMAIN jobs \subseteq DOMAIN jobs'
    BY JobsType DEF IInv
  <1>2. ASSUME NEW snapshot, NEW name, AddsSnapshot(snapshot, name),
               IF snapshot.kind = "IMPORT" THEN snapshot.job \in DOMAIN jobs
                                           ELSE snapshot.job = NoJob
        PROVE  SourceInv'
    BY <1>1, <1>2 DEF AddsSnapshot, SourceInv
  <1>3. ASSUME UNCHANGED snapshots PROVE SourceInv'
    BY <1>1, <1>3 DEF SourceInv
  <1>4. ASSUME NEW o \in Admins, NEW i \in DOMAIN snapshots, Restore(o, i)
        PROVE  SourceInv'
    BY <1>2, <1>4, RestoreAdds
  <1>5. ASSUME NEW t \in tokens, Save(t) PROVE SourceInv'
    <2>1. CASE t.before = t.after
      BY <1>3, <1>5, <2>1 DEF Save
    <2>2. CASE t.before # t.after
      BY <1>2, <1>5, <2>2, SaveAdds
    <2>3. QED
      BY <2>1, <2>2
  <1>6. ASSUME NEW w \in Workers, FinishApply(w) PROVE SourceInv'
    BY <1>2, <1>6, FinishApplyAdds, FinishApplyEdits DEF EditsRow
  <1>7. ASSUME NEW name \in Spellings, RegisterBrand(name) PROVE SourceInv'
    BY <1>3, <1>7 DEF RegisterBrand
  <1>8. QED
    BY <1>3, <1>4, <1>5, <1>6, <1>7, LedgerChanges DEF ledger

\* The parts of OneSnapshotEach.
IsApplied(row) == row.status = "completed" /\ row.phase = "apply"

OncePerJob ==
    \A a, b \in DOMAIN snapshots :
        snapshots[a].job = snapshots[b].job /\ snapshots[a].job # NoJob => a = b

RowsTell ==
    \A j \in DOMAIN jobs :
        (\E i \in DOMAIN snapshots : snapshots[i].job = j) <=> IsApplied(jobs[j])

OncePerRequest ==
    \A a, b \in receipts :
        a.token.actor = b.token.actor /\ a.token.request = b.token.request => a = b

ReceiptsTell ==
    \A i \in DOMAIN snapshots : snapshots[i].kind = "MANUAL" =>
        \E c \in receipts : c.result = i /\ c.token.base = i - 1

LEMMA OnceParts ==
    OneSnapshotEach <=> OncePerJob /\ RowsTell /\ OncePerRequest /\ ReceiptsTell
  BY DEF OneSnapshotEach, OncePerJob, RowsTell, IsApplied, OncePerRequest,
         ReceiptsTell

LEMMA OnceJobNext == IInv /\ Next => OncePerJob' /\ RowsTell'
  <1> SUFFICES ASSUME IInv, Next PROVE OncePerJob' /\ RowsTell'
    OBVIOUS
  <1> DEFINE Goal == OncePerJob' /\ RowsTell'
  <1>0. OncePerJob /\ RowsTell /\ SourceInv /\ NoJob \notin DOMAIN jobs
    BY OnceParts, Domains DEF IInv
  <1>1. ASSUME UNCHANGED <<jobs, snapshots>> PROVE Goal
    BY <1>0, <1>1 DEF OncePerJob, RowsTell
  <1>2. ASSUME NEW k, NEW row, EditsRow(k, row), UNCHANGED snapshots,
               IsApplied(row) <=> IsApplied(jobs[k])
        PROVE  Goal
    BY <1>0, <1>2 DEF EditsRow, OncePerJob, RowsTell
  <1>3. ASSUME NEW snapshot, NEW name, AddsSnapshot(snapshot, name),
               snapshot.job = NoJob, UNCHANGED jobs
        PROVE  Goal
    BY <1>0, <1>3 DEF AddsSnapshot, OncePerJob, RowsTell
  <1>4. ASSUME NEW o \in Admins, NEW book \in Workbooks, Submit(o, book) PROVE Goal
    <2>1. ~IsApplied(NewRow(o, book)) /\ UNCHANGED snapshots
      BY <1>4 DEF NewRow, IsApplied, Submit, ledger
    <2>2. \A i \in DOMAIN snapshots : snapshots[i].job # Len(jobs) + 1
      BY <1>0, <1>4, SubmitAdds, Domains DEF SourceInv, IInv, NoJob
    <2>3. QED
      BY <1>0, <1>4, <2>1, <2>2, SubmitAdds DEF OncePerJob, RowsTell
  <1>5. ASSUME NEW o \in Admins, Cancel(o) PROVE Goal
    <2> DEFINE row == jobs[screen[o].job]
               new == [row EXCEPT !.cancel_requested = TRUE,
                          !.status = IF @ = "queued" THEN "cancelled" ELSE @]
    <2>1. EditsRow(screen[o].job, new) /\ row.status \in Active /\ UNCHANGED snapshots
      BY <1>5, CancelEdits DEF Cancel, Control, ledger
    <2>2. ~IsApplied(row) /\ ~IsApplied(new)
      BY <2>1 DEF EditsRow, Row, IsApplied, Active
    <2>3. QED
      BY <1>2, <2>1, <2>2
  <1>6. ASSUME NEW o \in Admins, Confirm(o) PROVE Goal
    <2> DEFINE row == jobs[screen[o].job]
               new == [row EXCEPT !.status = "queued", !.phase = "apply",
                                  !.preview_ready = FALSE]
    <2>1. EditsRow(screen[o].job, new) /\ Previewed(row) /\ UNCHANGED snapshots
      BY <1>6, ConfirmEdits DEF Confirm, Control, ledger
    <2>2. ~IsApplied(row) /\ ~IsApplied(new)
      BY <2>1 DEF EditsRow, Row, IsApplied, Previewed
    <2>3. QED
      BY <1>2, <2>1, <2>2
  <1>7. ASSUME NEW o \in Admins, Retry(o) PROVE Goal
    <2> DEFINE row == jobs[screen[o].job]
               new == [row EXCEPT !.status = "queued", !.phase = "preview",
                           !.preview_ready = FALSE, !.preview = NoPlan,
                           !.cancel_requested = FALSE]
    <2>1. EditsRow(screen[o].job, new) /\ UNCHANGED snapshots
      BY <1>7, RetryEdits DEF Retry, Control, ledger
    <2>2. ~IsApplied(row) /\ ~IsApplied(new)
      BY <1>7, <2>1 DEF EditsRow, Row, IsApplied, Retry
    <2>3. QED
      BY <1>2, <2>1, <2>2
  <1>8. ASSUME NEW w \in Workers, NEW j \in DOMAIN jobs, Recover(w, j) PROVE Goal
    <2> DEFINE new == [jobs[j] EXCEPT !.status = "failed", !.preview_ready = FALSE]
    <2>1. EditsRow(j, new) /\ jobs[j].status = "running" /\ UNCHANGED snapshots
      BY <1>8, RecoverEdits DEF Recover, Visited, ledger
    <2>2. ~IsApplied(jobs[j]) /\ ~IsApplied(new)
      BY <2>1 DEF EditsRow, Row, IsApplied
    <2>3. QED
      BY <1>2, <2>1, <2>2
  <1>9. ASSUME NEW w \in Workers, NEW j \in DOMAIN jobs, Discard(w, j) PROVE Goal
    <2> DEFINE new == [jobs[j] EXCEPT !.status = "cancelled"]
    <2>1. EditsRow(j, new) /\ jobs[j].status = "queued" /\ UNCHANGED snapshots
      BY <1>9, DiscardEdits DEF Discard, Visited, ledger
    <2>2. ~IsApplied(jobs[j]) /\ ~IsApplied(new)
      BY <2>1 DEF EditsRow, Row, IsApplied
    <2>3. QED
      BY <1>2, <2>1, <2>2
  <1>10. ASSUME NEW w \in Workers, NEW j \in DOMAIN jobs, Claim(w, j) PROVE Goal
    <2> DEFINE new == [jobs[j] EXCEPT !.status = "running", !.attempts = @ + 1]
    <2>1. EditsRow(j, new) /\ jobs[j].status = "queued" /\ UNCHANGED snapshots
      BY <1>10, ClaimEdits DEF Claim, ledger
    <2>2. ~IsApplied(jobs[j]) /\ ~IsApplied(new)
      BY <2>1 DEF EditsRow, Row, IsApplied
    <2>3. QED
      BY <1>2, <2>1, <2>2
  <1>11. ASSUME NEW w \in Workers, FinishPreview(w) PROVE Goal
    <2> DEFINE row == jobs[task[w].job]
               new == [row EXCEPT !.status = "completed", !.preview_ready = TRUE,
                                  !.preview = task[w].plan]
    <2>1. EditsRow(task[w].job, new) /\ row.phase = "preview" /\ UNCHANGED snapshots
      BY <1>11, FinishPreviewEdits DEF FinishPreview, ledger
    <2>2. ~IsApplied(row) /\ ~IsApplied(new)
      BY <2>1 DEF EditsRow, Row, IsApplied
    <2>3. QED
      BY <1>2, <2>1, <2>2
  <1>12. ASSUME NEW w \in Workers, FinishApply(w) PROVE Goal
    <2> DEFINE j == task[w].job
               new == [jobs[j] EXCEPT !.status = "completed", !.preview_ready = FALSE]
               snapshot == [kind |-> "IMPORT", job |-> j, source |-> 0,
                            replaced |-> task[w].plan.base,
                            items |-> task[w].plan.items]
    <2>1. EditsRow(j, new) /\ AddsSnapshot(snapshot, jobs[j].file.brand)
      BY <1>12, FinishApplyEdits, FinishApplyAdds
    <2>2. jobs[j].status = "running" /\ jobs[j].phase = "apply"
      BY <1>12 DEF FinishApply, Goto, IInv, TaskInv, Running, Working
    <2>3. snapshot.job = j /\ ~IsApplied(jobs[j]) /\ IsApplied(new)
      BY <2>1, <2>2 DEF EditsRow, Row, IsApplied
    <2> HIDE DEF snapshot, new, j
    <2>4. \A i \in DOMAIN snapshots : snapshots[i].job # j
      BY <1>0, <2>1, <2>3 DEF RowsTell, EditsRow
    <2>5. OncePerJob'
      BY <1>0, <2>1, <2>3, <2>4 DEF OncePerJob, AddsSnapshot
    <2>6. RowsTell'
      BY <1>0, <2>1, <2>3, <2>4 DEF RowsTell, AddsSnapshot, EditsRow
    <2>7. QED
      BY <2>5, <2>6
  <1>13. ASSUME NEW w \in Workers, Settle(w) PROVE Goal
    <2> DEFINE row == jobs[task[w].job]
               new == [row EXCEPT !.preview_ready = FALSE,
                          !.status = IF row.cancel_requested
                                     THEN "cancelled" ELSE "failed"]
    <2>1. EditsRow(task[w].job, new) /\ UNCHANGED snapshots
      BY <1>13, SettleEdits DEF Settle, ledger
    <2>2. row.status = "running"
      BY <1>13 DEF Settle, Goto, IInv, TaskInv, Running
    <2>3. ~IsApplied(row) /\ ~IsApplied(new)
      BY <2>1, <2>2 DEF EditsRow, Row, IsApplied
    <2>4. QED
      BY <1>2, <2>1, <2>3
  <1>14. ASSUME NEW o \in Admins, NEW i \in DOMAIN snapshots, Restore(o, i) PROVE Goal
    BY <1>3, <1>14, RestoreAdds DEF Restore
  <1>15. ASSUME NEW t \in tokens, Save(t) PROVE Goal
    <2>1. CASE t.before = t.after
      BY <1>1, <1>15, <2>1 DEF Save
    <2>2. CASE t.before # t.after
      BY <1>3, <1>15, <2>2, SaveAdds DEF Save
    <2>3. QED
      BY <2>1, <2>2
  <1>16. ASSUME NEW name \in Spellings, RegisterBrand(name) PROVE Goal
    BY <1>1, <1>16 DEF RegisterBrand
  <1>17. QED
    BY <1>1, <1>4, <1>5, <1>6, <1>7, <1>8, <1>9, <1>10, <1>11, <1>12, <1>13, <1>14,
       <1>15, <1>16, JobsChange, LedgerChanges DEF ledger

LEMMA OnceRequestNext == IInv /\ Next => OncePerRequest' /\ ReceiptsTell'
  <1> SUFFICES ASSUME IInv, Next PROVE OncePerRequest' /\ ReceiptsTell'
    OBVIOUS
  <1> DEFINE Goal == OncePerRequest' /\ ReceiptsTell'
  <1>0. OncePerRequest /\ ReceiptsTell
    BY OnceParts DEF IInv
  <1>1. ASSUME UNCHANGED <<receipts, snapshots>> PROVE Goal
    BY <1>0, <1>1 DEF OncePerRequest, ReceiptsTell
  <1>2. ASSUME NEW snapshot, NEW name, AddsSnapshot(snapshot, name),
               snapshot.kind # "MANUAL", UNCHANGED receipts
        PROVE  Goal
    BY <1>0, <1>2 DEF AddsSnapshot, OncePerRequest, ReceiptsTell
  <1>3. ASSUME NEW o \in Admins, NEW i \in DOMAIN snapshots, Restore(o, i) PROVE Goal
    BY <1>2, <1>3, RestoreAdds DEF Restore
  <1>4. ASSUME NEW w \in Workers, FinishApply(w) PROVE Goal
    <2> DEFINE snapshot == [kind |-> "IMPORT", job |-> task[w].job, source |-> 0,
                            replaced |-> task[w].plan.base,
                            items |-> task[w].plan.items]
    <2>1. AddsSnapshot(snapshot, jobs[task[w].job].file.brand) /\ UNCHANGED receipts
      BY <1>4, FinishApplyAdds DEF FinishApply
    <2>2. snapshot.kind # "MANUAL"
      OBVIOUS
    <2> HIDE DEF snapshot
    <2>3. QED
      BY <1>2, <2>1, <2>2
  <1>5. ASSUME NEW name \in Spellings, RegisterBrand(name) PROVE Goal
    BY <1>1, <1>5 DEF RegisterBrand
  <1>6. ASSUME NEW t \in tokens, Save(t) PROVE Goal
    <2> DEFINE c == [token |-> t, result |-> state'.active]
    <2>1. c.token = t /\ receipts' = receipts \cup {c} /\ Fresh(t)
      BY <1>6 DEF Save
    <2>2. OncePerRequest'
      BY <1>0, <2>1 DEF OncePerRequest, Fresh
    <2>3. ReceiptsTell'
      <3>1. CASE t.before = t.after
        BY <1>0, <1>6, <2>1, <3>1 DEF Save, ReceiptsTell
      <3>2. CASE t.before # t.after
        <4>1. t.base = Len(snapshots) /\ Len(snapshots) \in Nat
          BY <1>6, Domains DEF Save, StillReviewed, IInv, LinearHistory
        <4> DEFINE snapshot == [kind |-> "MANUAL", job |-> NoJob, source |-> 0,
                                replaced |-> state.active, items |-> Edited(t)]
        <4>2. AddsSnapshot(snapshot, t.after.brand)
          BY <1>6, <3>2, SaveAdds
        <4> HIDE DEF snapshot
        <4>3. /\ DOMAIN snapshots' = DOMAIN snapshots \cup {Len(snapshots) + 1}
              /\ \A i \in DOMAIN snapshots : snapshots'[i] = snapshots[i]
              /\ state'.active = Len(snapshots) + 1
          BY <4>2 DEF AddsSnapshot
        <4>4. c.result = Len(snapshots) + 1 /\ c.token.base = (Len(snapshots) + 1) - 1
          BY <2>1, <4>1, <4>3
        <4> HIDE DEF c
        <4>5. QED
          BY <1>0, <2>1, <4>3, <4>4 DEF ReceiptsTell
      <3>3. QED
        BY <3>1, <3>2
    <2>4. QED
      BY <2>2, <2>3
  <1>7. QED
    BY <1>1, <1>3, <1>4, <1>5, <1>6, LedgerChanges DEF ledger

\* The active snapshot is clean, and no item is of an unregistered brand.
LEMMA ActiveIsClean ==
    ASSUME IInv
    PROVE  /\ Distinct(Items(state.active))
           /\ \A item \in Items(state.active) : item.brand = brand
           /\ \A i \in DOMAIN snapshots : \A item \in snapshots[i].items :
                 item.brand # NoBrand
  <1>1. state.active = 0 \/ state.active \in DOMAIN snapshots
    BY Domains DEF IInv, LinearHistory
  <1>2. \A i \in DOMAIN snapshots : snapshots[i].items \subseteq Item
    BY Domains DEF IInv, Snapshot
  <1>3. \A item \in Item : item.brand # NoBrand
    BY StockLedgerAssumption DEF Item
  <1>4. QED
    BY <1>1, <1>2, <1>3 DEF IInv, RowsAreClean, Items, Distinct

LEMMA CleanNext == IInv /\ Next => RowsAreClean'
  <1> SUFFICES ASSUME IInv, Next PROVE RowsAreClean'
    OBVIOUS
  <1>0. \A i \in DOMAIN snapshots :
            /\ Distinct(snapshots[i].items)
            /\ \A item \in snapshots[i].items : item.brand = brand /\ brand # NoBrand
    BY ActiveIsClean DEF IInv, RowsAreClean
  <1>1. ASSUME NEW snapshot, NEW name, AddsSnapshot(snapshot, name),
               Distinct(snapshot.items),
               \A item \in snapshot.items : item.brand = Canonical(name)
        PROVE  RowsAreClean'
    <2>1. \A i \in DOMAIN snapshots :
              /\ Distinct(snapshots'[i].items)
              /\ \A item \in snapshots'[i].items : item.brand = brand'
      BY <1>0, <1>1 DEF AddsSnapshot, Canonical
    <2>2. /\ Distinct(snapshots'[Len(snapshots) + 1].items)
          /\ \A item \in snapshots'[Len(snapshots) + 1].items : item.brand = brand'
      BY <1>1 DEF AddsSnapshot
    <2>3. DOMAIN snapshots' = DOMAIN snapshots \cup {Len(snapshots) + 1}
      BY <1>1 DEF AddsSnapshot
    <2>4. QED
      BY <2>1, <2>2, <2>3 DEF RowsAreClean, Distinct
  <1>2. ASSUME UNCHANGED <<snapshots, brand>> PROVE RowsAreClean'
    BY <1>2 DEF IInv, RowsAreClean, Distinct
  <1>3. ASSUME NEW o \in Admins, NEW i \in DOMAIN snapshots, Restore(o, i)
        PROVE  RowsAreClean'
    <2> DEFINE snapshot == [kind |-> "RESTORE", job |-> NoJob, source |-> i,
                            replaced |-> state.active, items |-> Items(i)]
    <2>1. AddsSnapshot(snapshot, brand)
      BY <1>3, RestoreAdds
    <2>2. snapshot.items = snapshots[i].items
      BY Domains DEF Items, IInv
    <2>3. Canonical(brand) = brand
      BY CanonicalType DEF IInv
    <2> HIDE DEF snapshot
    <2>4. QED
      BY <1>0, <1>1, <2>1, <2>2, <2>3
  <1>4. ASSUME NEW t \in tokens, Save(t) PROVE RowsAreClean'
    <2>1. CASE t.before = t.after
      BY <1>2, <1>4, <2>1 DEF Save
    <2>2. CASE t.before # t.after
      <3> DEFINE snapshot == [kind |-> "MANUAL", job |-> NoJob, source |-> 0,
                              replaced |-> state.active, items |-> Edited(t)]
      <3>1. AddsSnapshot(snapshot, t.after.brand) /\ t \in Token
        BY <1>4, <2>2, SaveAdds
      <3>2. snapshot.items = (Items(state.active) \ {t.before}) \cup {t.after}
        BY DEF Edited
      <3>3. Unique(t) /\ t = Reviewed(t.actor, t.request, t.before, t.after)
        BY <1>4 DEF Save, StillReviewed
      <3>4. t.after.brand = Canonical(t.after.brand)
        <4>1. t.after \in Item
          BY <3>1 DEF Token
        <4>2. t.after = [t.after EXCEPT !.brand = Canonical(@)]
          BY <3>3 DEF Reviewed
        <4>3. QED
          BY <4>1, <4>2 DEF Item
      <3>5. Distinct(snapshot.items)
        BY <3>2, <3>3, ActiveIsClean DEF Distinct, Unique
      <3>6. \A item \in Items(state.active) : item.brand = Canonical(t.after.brand)
        <4> SUFFICES ASSUME NEW item \in Items(state.active)
                     PROVE  item.brand = Canonical(t.after.brand)
          OBVIOUS
        <4>1. item.brand = brand /\ state.active # 0
          BY ActiveIsClean DEF Items
        <4>2. brand # NoBrand
          BY <1>0, <4>1, Domains DEF Items, IInv, LinearHistory
        <4>3. QED
          BY <4>1, <4>2 DEF Canonical
      <3>7. \A item \in snapshot.items : item.brand = Canonical(t.after.brand)
        BY <3>2, <3>4, <3>6
      <3> HIDE DEF snapshot
      <3>8. QED
        BY <1>1, <3>1, <3>5, <3>7
    <2>3. QED
      BY <2>1, <2>2
  <1>5. ASSUME NEW w \in Workers, FinishApply(w) PROVE RowsAreClean'
    <2> DEFINE file == jobs[task[w].job].file
               snapshot == [kind |-> "IMPORT", job |-> task[w].job, source |-> 0,
                            replaced |-> task[w].plan.base,
                            items |-> task[w].plan.items]
    <2>1. AddsSnapshot(snapshot, file.brand)
      BY <1>5, FinishApplyAdds
    <2>2. pc[w] = "planned" /\ pc[w] \in Holding
      BY <1>5 DEF FinishApply, Goto, Holding, Working
    <2>3. file \in Workbooks
      BY <2>2, AtWork
    <2>4. task[w].plan = PlanOf(file) /\ Distinct(Prepared(file))
      BY <2>2 DEF IInv, TaskInv
    <2>5. snapshot.items = Prepared(file)
      BY <2>4 DEF PlanOf
    <2> HIDE DEF snapshot, file
    <2>6. \A item \in snapshot.items : item.brand = Canonical(file.brand)
      BY <2>3, <2>5, PreparedType DEF IInv
    <2>7. QED
      BY <1>1, <2>1, <2>4, <2>5, <2>6
  <1>6. ASSUME NEW name \in Spellings, RegisterBrand(name) PROVE RowsAreClean'
    BY <1>0, <1>6 DEF RegisterBrand, RowsAreClean, Distinct
  <1>7. QED
    BY <1>2, <1>3, <1>4, <1>5, <1>6, LedgerChanges DEF ledger

------------------------------------------------------------------------------
(* The invariant and what follows from it                                  *)

LEMMA InitInv == Init => IInv
  <1> SUFFICES ASSUME Init PROVE IInv
    OBVIOUS
  <1>0. /\ snapshots \in Seq(Snapshot) /\ Len(snapshots) = 0
        /\ jobs \in Seq(Row) /\ Len(jobs) = 0
        /\ DOMAIN snapshots = {} /\ DOMAIN jobs = {}
    BY EmptySeq, LenProperties DEF Init
  <1> USE DEF Init
  <1>1. TypeOK
    <2>1. screen \in [Admins -> Screen]
      BY DEF Screen
    <2>2. task \in [Workers -> Task]
      BY NoTaskType
    <2>3. QED
      BY <1>0, <2>1, <2>2, StockLedgerAssumption DEF TypeOK
  <1>2. ScreenInv /\ LockInv /\ WriterInv
    BY DEF ScreenInv, LockInv, WriterInv, Holding, Working
  <1>3. TaskInv
    BY DEF TaskInv, Running, Working
  <1>4. RowInv /\ SourceInv /\ LinearHistory /\ RowsAreClean
    BY <1>0 DEF RowInv, SourceInv, LinearHistory, RowsAreClean
  <1>5. OneSnapshotEach
    BY <1>0 DEF OneSnapshotEach
  <1>6. QED
    BY <1>1, <1>2, <1>3, <1>4, <1>5 DEF IInv

\* No state variable but those of IInv: a step that changes none preserves it.
LEMMA Stutter == IInv /\ UNCHANGED vars => IInv'
  <1> SUFFICES ASSUME IInv, UNCHANGED vars PROVE IInv'
    OBVIOUS
  <1> USE DEF IInv, vars, ledger, worker, people
  <1>1. TypeOK'
    BY DEF TypeOK
  <1>2. ScreenInv' /\ LockInv' /\ WriterInv'
    BY DEF ScreenInv, LockInv, WriterInv
  <1>3. TaskInv'
    <2>1. \A file : /\ PlanOf(file)' = PlanOf(file)
                    /\ Prepared(file)' = Prepared(file)
      BY DEF PlanOf, Prepared, Canonical, NewBrands
    <2>2. QED
      BY <2>1 DEF TaskInv, PlanStands
  <1>4. RowInv' /\ SourceInv' /\ LinearHistory'
    BY DEF RowInv, SourceInv, LinearHistory
  <1>5. OneSnapshotEach'
    BY DEF OneSnapshotEach
  <1>6. RowsAreClean'
    BY DEF RowsAreClean, Distinct
  <1>7. QED
    BY <1>1, <1>2, <1>3, <1>4, <1>5, <1>6

\* The invariant holds in every reachable state, however many jobs, workers and
\* accounts there are.
THEOREM Invariant == Spec => []IInv
  <1>1. IInv /\ Next => IInv'
    BY TypeNext, PeopleType, LockNext, WriterNext, TaskNext, RowNext, SourceNext,
       LinearNext, OnceJobNext, OnceRequestNext, CleanNext, OnceParts
       DEF IInv, OneSnapshotEach, OncePerJob, RowsTell, IsApplied, OncePerRequest,
           ReceiptsTell
  <1>2. IInv /\ [Next]_vars => IInv'
    BY <1>1, Stutter
  <1>3. QED
    BY <1>2, InitInv, PTL DEF Spec

\* Every variable has its type in every reachable state.
THEOREM TypeCorrect == Spec => []TypeOK
  <1>1. IInv => TypeOK
    BY DEF IInv
  <1>2. QED
    BY <1>1, Invariant, PTL

\* No update is lost: imports, restorations and edits form one line of
\* snapshots, each made from its predecessor.
THEOREM NoLostUpdate == Spec => []LinearHistory
  <1>1. IInv => LinearHistory
    BY DEF IInv
  <1>2. QED
    BY <1>1, Invariant, PTL

\* A job, or a request to edit a row, makes one snapshot at most, and leaves a
\* row or a receipt that says so.
THEOREM OnceEach == Spec => []OneSnapshotEach
  <1>1. IInv => OneSnapshotEach
    BY DEF IInv
  <1>2. QED
    BY <1>1, Invariant, PTL

\* Identities are unique in every snapshot and brands spelled as registered.
THEOREM CleanRows == Spec => []RowsAreClean
  <1>1. IInv => RowsAreClean
    BY DEF IInv
  <1>2. QED
    BY <1>1, Invariant, PTL

\* An accepted cancel request is never answered with a completed job.
THEOREM CancelIsHonoured == Spec => []CancelWins
  <1>1. IInv => CancelWins
    BY DEF IInv, RowInv, CancelWins
  <1>2. QED
    BY <1>1, Invariant, PTL

------------------------------------------------------------------------------
(* What was shown                                                          *)

\* Each new snapshot is of a valid account and was shown to a person against
\* the snapshot it replaces.
THEOREM ReplacesOnlyWhatWasShown == Spec => ReplacesWhatWasShown
  <1> DEFINE Shown == \A i \in DOMAIN snapshots' \ DOMAIN snapshots :
                          ShownBefore(snapshots'[i])
  <1>1. IInv /\ [Next]_vars => [Shown]_vars
    <2> SUFFICES ASSUME IInv, Next PROVE Shown
      OBVIOUS
    <2>1. ASSUME NEW snapshot, NEW name, AddsSnapshot(snapshot, name),
                 ShownBefore(snapshot)
          PROVE  Shown
      BY <2>1 DEF AddsSnapshot
    <2>2. CASE UNCHANGED snapshots
      BY <2>2
    <2>3. ASSUME NEW o \in Admins, NEW i \in DOMAIN snapshots, Restore(o, i)
          PROVE  Shown
      <3> DEFINE snapshot == [kind |-> "RESTORE", job |-> NoJob, source |-> i,
                              replaced |-> state.active, items |-> Items(i)]
      <3>1. ShownBefore(snapshot)
        BY <2>3 DEF ShownBefore, Restore, Expected
      <3>2. AddsSnapshot(snapshot, brand)
        BY <2>3, RestoreAdds
      <3> HIDE DEF snapshot
      <3>3. QED
        BY <2>1, <3>1, <3>2
    <2>4. ASSUME NEW t \in tokens, Save(t) PROVE Shown
      <3> DEFINE snapshot == [kind |-> "MANUAL", job |-> NoJob, source |-> 0,
                              replaced |-> state.active, items |-> Edited(t)]
      <3>1. CASE t.before = t.after
        BY <2>2, <2>4, <3>1 DEF Save
      <3>2. CASE t.before # t.after
        <4>1. ShownBefore(snapshot)
          BY <2>4 DEF ShownBefore, Save, StillReviewed
        <4>2. AddsSnapshot(snapshot, t.after.brand)
          BY <2>4, <3>2, SaveAdds
        <4> HIDE DEF snapshot
        <4>3. QED
          BY <2>1, <4>1, <4>2
      <3>3. QED
        BY <3>1, <3>2
    <2>5. ASSUME NEW w \in Workers, FinishApply(w) PROVE Shown
      <3> DEFINE row == jobs[task[w].job]
                 snapshot == [kind |-> "IMPORT", job |-> task[w].job, source |-> 0,
                              replaced |-> task[w].plan.base,
                              items |-> task[w].plan.items]
      <3>1. /\ task[w].plan = PlanOf(row.file)
            /\ row.actor \in valid
            /\ PlanStands(row)
            /\ row.phase = "apply"
        BY <2>5 DEF FinishApply, Goto, IInv, TaskInv
      <3>2. ShownBefore(snapshot)
        BY <3>1 DEF ShownBefore, PlanStands, PlanOf
      <3>3. AddsSnapshot(snapshot, row.file.brand)
        BY <2>5, FinishApplyAdds
      <3> HIDE DEF snapshot, row
      <3>4. QED
        BY <2>1, <3>2, <3>3
    <2>6. ASSUME NEW name \in Spellings, RegisterBrand(name) PROVE Shown
      BY <2>2, <2>6 DEF RegisterBrand
    <2>7. QED
      BY <2>2, <2>3, <2>4, <2>5, <2>6, LedgerChanges DEF ledger
  <1>2. QED
    BY <1>1, Invariant, PTL DEF Spec, ReplacesWhatWasShown

------------------------------------------------------------------------------
(* The ledger implements ConfirmedImport                                   *)

AbstractStep == [Promise!Next]_(Promise!vars)

\* What the row of a job approves.
RowApproves(row) ==
    IF row.phase = "apply" /\ row.status \in Active THEN row.preview.base ELSE NoPlan

\* The abstract ledger: the imports among the snapshots.
Carried == {<<snapshots[i].job, snapshots[i].replaced>> : i \in Imported}

\* A step that leaves the history alone, and the approvals too or takes one back.
LEMMA MayWithdraw ==
    ASSUME IInv, NEW k, NEW row, EditsRow(k, row), UNCHANGED <<snapshots, state>>,
           RowApproves(row) \in {NoPlan, RowApproves(jobs[k])}
    PROVE  AbstractStep
  <1> DEFINE before == [j \in Jobs |-> Approved(j)]
             after == [j \in Jobs |-> Approved(j)']
  <1>0. k \in DOMAIN jobs /\ k \in Jobs
    BY Domains DEF EditsRow, IInv
  <1>1. /\ Approved(k) = RowApproves(jobs[k])
        /\ Approved(k)' = RowApproves(row)
        /\ \A j \in Jobs : j # k => Approved(j)' = Approved(j)
    BY <1>0 DEF EditsRow, Approved, RowApproves
  <1>2. UNCHANGED <<state.revision, Carried>>
    BY DEF Carried, Imported
  <1>3. CASE Approved(k)' = Approved(k)
    <2>1. after = before
      BY <1>1, <1>3
    <2>2. UNCHANGED Promise!vars
      BY <1>2, <2>1 DEF Promise!vars, Carried
    <2>3. QED
      BY <2>2 DEF AbstractStep
  <1>4. CASE Approved(k)' # Approved(k)
    <2>1. Approved(k)' = NoPlan /\ Approved(k) # NoPlan
      BY <1>1, <1>4
    <2>2. after = [before EXCEPT ![k] = NoPlan]
      BY <1>0, <1>1, <2>1
    <2>3. Promise!Withdraw(k)
      BY <1>0, <1>2, <2>1, <2>2 DEF Promise!Withdraw, Carried
    <2>4. QED
      BY <1>0, <2>3 DEF AbstractStep, Promise!Next
  <1>5. QED
    BY <1>3, <1>4

\* A confirmation approves the plan of the preview.
LEMMA ConfirmApproves ==
    ASSUME IInv, NEW o \in Admins, Confirm(o), NEW k, k = screen[o].job
    PROVE  AbstractStep
  <1> DEFINE row == jobs[k]
             new == [row EXCEPT !.status = "queued", !.phase = "apply",
                                !.preview_ready = FALSE]
             before == [j \in Jobs |-> Approved(j)]
             after == [j \in Jobs |-> Approved(j)']
  <1>0. EditsRow(k, new) /\ Previewed(row) /\ UNCHANGED <<snapshots, state>>
    BY ConfirmEdits DEF Confirm, Control, ledger
  <1>1. k \in DOMAIN jobs /\ k \in Jobs /\ row \in Row
    BY <1>0, Domains DEF EditsRow, IInv
  <1>2. row.preview # NoPlan
    BY <1>0, <1>1 DEF IInv, RowInv, Previewed
  <1>3. row.preview.base \in 0..state.revision
    <2>1. row.preview.base \in Nat /\ state.revision \in Nat
      BY <1>1, <1>2 DEF Row, Plan, IInv, TypeOK
    <2>2. row.preview.base <= state.revision
      BY <1>1, <1>2 DEF IInv, RowInv
    <2>3. QED
      BY <2>1, <2>2
  <1>4. Approved(k) = NoPlan
    BY <1>0 DEF Approved, Previewed
  <1>5. Approved(k)' = row.preview.base
    <2>1. /\ new.status = "queued"
          /\ new.phase = "apply"
          /\ new.preview = row.preview
      BY <1>1 DEF Row
    <2>2. k \in DOMAIN jobs' /\ jobs'[k] = new
      BY <1>0 DEF EditsRow
    <2> HIDE DEF new
    <2>3. QED
      BY <2>1, <2>2 DEF Approved, Active
  <1>6. \A j \in Jobs : j # k => Approved(j)' = Approved(j)
    BY <1>0 DEF EditsRow, Approved
  <1>7. \A a \in Carried : a[1] # k
    BY <1>0, <1>1, OnceParts DEF IInv, RowsTell, IsApplied, Previewed, Carried, Imported
  <1>8. UNCHANGED <<state.revision, Carried>>
    BY <1>0 DEF Carried, Imported
  <1>9. after = [before EXCEPT ![k] = row.preview.base]
    BY <1>1, <1>5, <1>6
  <1>10. Promise!Approve(k)
    BY <1>1, <1>3, <1>4, <1>7, <1>8, <1>9
       DEF Promise!Approve, Promise!IsApplied, Carried
  <1>11. QED
    BY <1>1, <1>10 DEF AbstractStep, Promise!Next

\* An application carries out the approved plan.
LEMMA FinishCarriesOut ==
    ASSUME IInv, NEW w \in Workers, FinishApply(w), NEW k, k = task[w].job
    PROVE  AbstractStep
  <1> DEFINE row == jobs[k]
             new == [row EXCEPT !.status = "completed", !.preview_ready = FALSE]
             snapshot == [kind |-> "IMPORT", job |-> k, source |-> 0,
                          replaced |-> task[w].plan.base,
                          items |-> task[w].plan.items]
             before == [j \in Jobs |-> Approved(j)]
             after == [j \in Jobs |-> Approved(j)']
  <1>0. EditsRow(k, new) /\ AddsSnapshot(snapshot, row.file.brand)
    BY FinishApplyEdits, FinishApplyAdds
  <1>1. k \in DOMAIN jobs /\ k \in Jobs /\ row \in Row
    BY <1>0, Domains DEF EditsRow, IInv
  <1>2. /\ task[w].plan = PlanOf(row.file)
        /\ PlanStands(row)
        /\ row.phase = "apply"
        /\ row.status = "running"
    BY DEF FinishApply, Goto, IInv, TaskInv, Running, Working
  <1>3. Approved(k) = state.revision
    BY <1>1, <1>2 DEF Approved, PlanStands, Active
  <1>4. new.status = "completed"
    BY <1>1 DEF Row
  <1>5. snapshot.kind = "IMPORT" /\ snapshot.job = k /\ snapshot.replaced = state.revision
    BY <1>2 DEF PlanOf
  <1>6. \A a \in Carried : a[1] # k
    BY <1>1, <1>2, OnceParts DEF IInv, RowsTell, IsApplied, Carried, Imported
  <1>7. state'.revision = state.revision + 1
    BY <1>0 DEF AddsSnapshot
  <1> HIDE DEF snapshot, new
  <1>8. Approved(k)' = NoPlan /\ \A j \in Jobs : j # k => Approved(j)' = Approved(j)
    <2>1. jobs'[k] = new
      BY <1>0 DEF EditsRow
    <2>2. Approved(k)' = NoPlan
      BY <1>4, <2>1 DEF Approved, Active
    <2>3. \A j \in Jobs : j # k => Approved(j)' = Approved(j)
      BY <1>0 DEF EditsRow, Approved
    <2>4. QED
      BY <2>2, <2>3
  <1>9. Carried' = Carried \cup {<<k, state.revision>>}
    <2>1. Imported' = Imported \cup {Len(snapshots) + 1}
      BY <1>0, <1>5 DEF AddsSnapshot, Imported
    <2>2. \A i \in Imported : snapshots'[i] = snapshots[i]
      BY <1>0 DEF AddsSnapshot, Imported
    <2>3. /\ snapshots'[Len(snapshots) + 1].job = k
          /\ snapshots'[Len(snapshots) + 1].replaced = state.revision
      BY <1>0, <1>5 DEF AddsSnapshot
    <2>4. QED
      BY <2>1, <2>2, <2>3 DEF Carried
  <1>10. after = [before EXCEPT ![k] = NoPlan]
    BY <1>1, <1>8
  <1>11. Promise!CarryOut(k)
    BY <1>1, <1>3, <1>6, <1>7, <1>9, <1>10
       DEF Promise!CarryOut, Promise!IsApplied, Carried
  <1>12. QED
    BY <1>1, <1>11 DEF AbstractStep, Promise!Next

\* A restoration or an edit is a write that is no import.
LEMMA OthersWrite ==
    ASSUME IInv, NEW snapshot, NEW name, AddsSnapshot(snapshot, name),
           snapshot.kind # "IMPORT", UNCHANGED jobs
    PROVE  AbstractStep
  <1>1. UNCHANGED [j \in Jobs |-> Approved(j)]
    BY DEF Approved
  <1>2. Imported' = Imported /\ \A i \in Imported : snapshots'[i] = snapshots[i]
    BY DEF AddsSnapshot, Imported
  <1>3. Carried' = Carried
    BY <1>2 DEF Carried
  <1>4. state'.revision = state.revision + 1
    BY DEF AddsSnapshot
  <1>5. Promise!Write
    BY <1>1, <1>3, <1>4 DEF Promise!Write, Carried
  <1>6. QED
    BY <1>5 DEF AbstractStep, Promise!Next

\* Whatever happens to the row of a job besides, an approval lapses or stays.
LEMMA RowsImplement ==
    ASSUME IInv,
           \/ \E o \in Admins : Cancel(o) \/ Retry(o)
           \/ \E w \in Workers, j \in DOMAIN jobs :
                 Recover(w, j) \/ Discard(w, j) \/ Claim(w, j)
           \/ \E w \in Workers : FinishPreview(w) \/ Settle(w)
    PROVE  AbstractStep
  <1>1. ASSUME NEW o \in Admins, Cancel(o) PROVE AbstractStep
    <2> DEFINE row == jobs[screen[o].job]
               new == [row EXCEPT !.cancel_requested = TRUE,
                          !.status = IF @ = "queued" THEN "cancelled" ELSE @]
    <2>1. EditsRow(screen[o].job, new) /\ UNCHANGED <<snapshots, state>>
      BY <1>1, CancelEdits DEF Cancel, Control, ledger
    <2>2. RowApproves(new) \in {NoPlan, RowApproves(row)}
      <3>1. row \in Row
        BY <2>1 DEF EditsRow
      <3>2. CASE row.status = "queued"
        BY <3>1, <3>2 DEF Row, RowApproves, Active
      <3>3. CASE row.status # "queued"
        BY <3>1, <3>3 DEF Row, RowApproves, Active
      <3>4. QED
        BY <3>2, <3>3
    <2>3. QED
      BY <2>1, <2>2, MayWithdraw
  <1>2. ASSUME NEW o \in Admins, Retry(o) PROVE AbstractStep
    <2> DEFINE row == jobs[screen[o].job]
               new == [row EXCEPT !.status = "queued", !.phase = "preview",
                           !.preview_ready = FALSE, !.preview = NoPlan,
                           !.cancel_requested = FALSE]
    <2>1. EditsRow(screen[o].job, new) /\ UNCHANGED <<snapshots, state>>
      BY <1>2, RetryEdits DEF Retry, Control, ledger
    <2>2. RowApproves(new) = NoPlan
      BY <2>1 DEF EditsRow, Row, RowApproves
    <2>3. QED
      BY <2>1, <2>2, MayWithdraw
  <1>3. ASSUME NEW w \in Workers, NEW j \in DOMAIN jobs, Recover(w, j)
        PROVE  AbstractStep
    <2> DEFINE new == [jobs[j] EXCEPT !.status = "failed", !.preview_ready = FALSE]
    <2>1. EditsRow(j, new) /\ UNCHANGED <<snapshots, state>>
      BY <1>3, RecoverEdits DEF Recover, Visited, ledger
    <2>2. RowApproves(new) = NoPlan
      BY <2>1 DEF EditsRow, Row, RowApproves, Active
    <2>3. QED
      BY <2>1, <2>2, MayWithdraw
  <1>4. ASSUME NEW w \in Workers, NEW j \in DOMAIN jobs, Discard(w, j)
        PROVE  AbstractStep
    <2> DEFINE new == [jobs[j] EXCEPT !.status = "cancelled"]
    <2>1. EditsRow(j, new) /\ UNCHANGED <<snapshots, state>>
      BY <1>4, DiscardEdits DEF Discard, Visited, ledger
    <2>2. RowApproves(new) = NoPlan
      BY <2>1 DEF EditsRow, Row, RowApproves, Active
    <2>3. QED
      BY <2>1, <2>2, MayWithdraw
  <1>5. ASSUME NEW w \in Workers, NEW j \in DOMAIN jobs, Claim(w, j)
        PROVE  AbstractStep
    <2> DEFINE new == [jobs[j] EXCEPT !.status = "running", !.attempts = @ + 1]
    <2>1. EditsRow(j, new) /\ UNCHANGED <<snapshots, state>>
      BY <1>5, ClaimEdits DEF Claim, ledger
    <2>2. RowApproves(new) = RowApproves(jobs[j])
      BY <1>5, <2>1 DEF EditsRow, Row, RowApproves, Active, Claim
    <2>3. QED
      BY <2>1, <2>2, MayWithdraw
  <1>6. ASSUME NEW w \in Workers, FinishPreview(w) PROVE AbstractStep
    <2> DEFINE new == [jobs[task[w].job] EXCEPT !.status = "completed",
                          !.preview_ready = TRUE, !.preview = task[w].plan]
    <2>1. EditsRow(task[w].job, new) /\ UNCHANGED <<snapshots, state>>
      BY <1>6, FinishPreviewEdits DEF FinishPreview, ledger
    <2>2. RowApproves(new) = NoPlan
      BY <2>1 DEF EditsRow, Row, RowApproves, Active
    <2>3. QED
      BY <2>1, <2>2, MayWithdraw
  <1>7. ASSUME NEW w \in Workers, Settle(w) PROVE AbstractStep
    <2> DEFINE row == jobs[task[w].job]
               new == [row EXCEPT !.preview_ready = FALSE,
                          !.status = IF row.cancel_requested
                                     THEN "cancelled" ELSE "failed"]
    <2>1. EditsRow(task[w].job, new) /\ UNCHANGED <<snapshots, state>>
      BY <1>7, SettleEdits DEF Settle, ledger
    <2>2. RowApproves(new) = NoPlan
      BY <2>1 DEF EditsRow, Row, RowApproves, Active
    <2>3. QED
      BY <2>1, <2>2, MayWithdraw
  <1>8. QED
    BY <1>1, <1>2, <1>3, <1>4, <1>5, <1>6, <1>7

\* Of imports, the ledger implements the promise of the product queue: a plan
\* is carried out once, approved, and on the snapshot it was computed on.
THEOREM KeepsThePromise == Spec => KeepsPromise
  <1>1. Init => Promise!Init
    <2> SUFFICES ASSUME Init PROVE Promise!Init
      OBVIOUS
    <2>1. DOMAIN jobs = {} /\ DOMAIN snapshots = {} /\ state.revision = 0
      BY EmptySeq, LenProperties DEF Init
    <2>2. QED
      BY <2>1 DEF Promise!Init, Approved, Imported
  <1>2. IInv /\ [Next]_vars => AbstractStep
    <2> SUFFICES ASSUME IInv, [Next]_vars PROVE AbstractStep
      OBVIOUS
    <2>1. ASSUME UNCHANGED <<jobs, snapshots, state>> PROVE AbstractStep
      BY <2>1 DEF AbstractStep, Promise!vars, Approved, Imported
    <2>2. CASE UNCHANGED vars
      BY <2>1, <2>2 DEF vars, ledger
    <2>3. ASSUME NEW o \in Admins, NEW book \in Workbooks, Submit(o, book)
          PROVE  AbstractStep
      <3>1. UNCHANGED <<snapshots, state>>
        BY <2>3 DEF Submit, ledger
      <3>2. \A j \in Jobs : Approved(j)' = Approved(j)
        <4> SUFFICES ASSUME NEW j \in Jobs PROVE Approved(j)' = Approved(j)
          OBVIOUS
        <4>1. CASE j \in DOMAIN jobs
          BY <2>3, <4>1, SubmitAdds DEF Approved
        <4>2. CASE j \notin DOMAIN jobs
          <5>1. j \in DOMAIN jobs' => jobs'[j].phase = "preview"
            <6>1. NewRow(o, book).phase = "preview"
              BY DEF NewRow
            <6>2. QED
              BY <2>3, <4>2, <6>1, SubmitAdds
          <5>2. QED
            BY <4>2, <5>1 DEF Approved
        <4>3. QED
          BY <4>1, <4>2
      <3>3. QED
        BY <3>1, <3>2 DEF AbstractStep, Promise!vars, Imported
    <2>4. ASSUME NEW o \in Admins, NEW i \in DOMAIN snapshots, Restore(o, i)
          PROVE  AbstractStep
      BY <2>4, RestoreAdds, OthersWrite DEF Restore
    <2>5. ASSUME NEW t \in tokens, Save(t) PROVE AbstractStep
      <3>1. CASE t.before = t.after
        BY <2>1, <2>5, <3>1 DEF Save
      <3>2. CASE t.before # t.after
        BY <2>5, <3>2, SaveAdds, OthersWrite DEF Save
      <3>3. QED
        BY <3>1, <3>2
    <2>6. ASSUME NEW name \in Spellings, RegisterBrand(name) PROVE AbstractStep
      BY <2>1, <2>6 DEF RegisterBrand
    <2>7. QED
      BY <2>1, <2>2, <2>3, <2>4, <2>5, <2>6, RowsImplement, ConfirmApproves,
         FinishCarriesOut, JobsChange, LedgerChanges DEF ledger
  <1>3. QED
    BY <1>1, <1>2, Invariant, PTL
       DEF Spec, KeepsPromise, Promise!Spec, AbstractStep

------------------------------------------------------------------------------
(* Why brands registered elsewhere are the only gap                        *)
(*                                                                         *)
(* Two runs show that a job may be confirmed with a preview that is not on *)
(* the page, and that an import may register other brands than its preview *)
(* announced.  Both fail for one reason: the fingerprint stands for the    *)
(* snapshot, and the brand master can change without a new snapshot.       *)

\* A preview of the stock list as it is now.
Current(plan) == plan # NoPlan /\ plan.base = state.revision

\* No product import or edit registers the brand while a preview of the current
\* stock list waits in a row or is looked at.
BrandsInPeace ==
    [][\A name \in Spellings : RegisterBrand(name) =>
           /\ \A j \in DOMAIN jobs : ~Current(jobs[j].preview)
           /\ \A o \in Admins : ~Current(screen[o].preview)]_vars

\* A current preview, stored or looked at, is what would be planned now.
RowsTold ==
    \A j \in DOMAIN jobs :
        Current(jobs[j].preview) => jobs[j].preview = PlanOf(jobs[j].file)

\* A page may be old, but not from the future; and it shows what the row has if
\* it shows the same fingerprint.
PagesTold ==
    \A o \in Admins :
        LET j == screen[o].job  seen == screen[o].preview IN
        j # NoJob /\ seen # NoPlan =>
            /\ seen.base <= state.revision
            /\ Current(seen) => seen = PlanOf(jobs[j].file)
            /\ jobs[j].preview # NoPlan /\ jobs[j].preview.base = seen.base
                  => jobs[j].preview = seen

Told == RowsTold /\ PagesTold

\* A step leaves the stock list and the brand alone, or makes every preview an
\* old one, or registers a brand and does nothing else.
LEMMA ListMoves ==
    ASSUME IInv, Next
    PROVE  \/ UNCHANGED <<state, brand>>
           \/ /\ state'.revision = state.revision + 1
              /\ UNCHANGED screen
           \/ \E name \in Spellings : /\ RegisterBrand(name)
                                      /\ UNCHANGED <<state, jobs, screen>>
  <1>1. CASE UNCHANGED ledger
    BY <1>1 DEF ledger
  <1>2. ASSUME NEW o \in Admins, NEW i \in DOMAIN snapshots, Restore(o, i)
        PROVE  state'.revision = state.revision + 1 /\ UNCHANGED screen
    BY <1>2 DEF Restore, Activate, people
  <1>3. ASSUME NEW t \in tokens, Save(t)
        PROVE  \/ UNCHANGED <<state, brand>>
               \/ state'.revision = state.revision + 1 /\ UNCHANGED screen
    BY <1>3 DEF Save, Activate, people
  <1>4. ASSUME NEW w \in Workers, FinishApply(w)
        PROVE  state'.revision = state.revision + 1 /\ UNCHANGED screen
    BY <1>4 DEF FinishApply, Activate, people
  <1>5. ASSUME NEW name \in Spellings, RegisterBrand(name)
        PROVE  UNCHANGED <<state, jobs, screen>>
    BY <1>5 DEF RegisterBrand, people
  <1>6. QED
    BY <1>1, <1>2, <1>3, <1>4, <1>5, LedgerChanges

\* The row of a job keeps its workbook, and keeps its preview, loses it, or gets
\* the one a worker has just made of the stock list as it is.
PreviewMoves(j) ==
    /\ j \in DOMAIN jobs'
    /\ jobs'[j].file = jobs[j].file
    /\ \/ jobs'[j].preview = jobs[j].preview
       \/ jobs'[j].preview = NoPlan
       \/ /\ jobs'[j].preview = PlanOf(jobs[j].file)
          /\ UNCHANGED <<state, brand, screen>>

LEMMA EditKeepsPreview ==
    ASSUME NEW k, NEW row, EditsRow(k, row), row.file = jobs[k].file,
           row.preview \in {jobs[k].preview, NoPlan}
    PROVE  \A j \in DOMAIN jobs : PreviewMoves(j)
  BY DEF EditsRow, PreviewMoves

LEMMA PreviewsMove ==
    ASSUME IInv, Next
    PROVE  /\ \A j \in DOMAIN jobs : PreviewMoves(j)
           /\ \A j \in DOMAIN jobs' \ DOMAIN jobs : jobs'[j].preview = NoPlan
  <1> DEFINE Moves == /\ \A j \in DOMAIN jobs : PreviewMoves(j)
                      /\ \A j \in DOMAIN jobs' \ DOMAIN jobs :
                             jobs'[j].preview = NoPlan
  <1>0. ASSUME NEW k, NEW row, EditsRow(k, row), row.file = jobs[k].file,
               row.preview \in {jobs[k].preview, NoPlan}
        PROVE  Moves
    BY <1>0, EditKeepsPreview DEF EditsRow
  <1>1. CASE UNCHANGED jobs
    BY <1>1 DEF PreviewMoves
  <1>2. ASSUME NEW o \in Admins, NEW book \in Workbooks, Submit(o, book) PROVE Moves
    <2>1. /\ DOMAIN jobs' = DOMAIN jobs \cup {Len(jobs) + 1}
          /\ jobs'[Len(jobs) + 1] = NewRow(o, book)
          /\ \A j \in DOMAIN jobs : jobs'[j] = jobs[j]
      BY <1>2, SubmitAdds
    <2>2. NewRow(o, book).preview = NoPlan
      BY DEF NewRow
    <2>3. \A j \in DOMAIN jobs' \ DOMAIN jobs : jobs'[j].preview = NoPlan
      BY <2>1, <2>2
    <2>4. QED
      BY <2>1, <2>3 DEF PreviewMoves
  <1>3. ASSUME NEW o \in Admins, Cancel(o) \/ Confirm(o) \/ Retry(o) PROVE Moves
    <2> DEFINE row == jobs[screen[o].job]
    <2>0. screen[o].job \in DOMAIN jobs /\ row \in Row
      BY <1>3, Domains DEF IInv, ScreenInv, Cancel, Confirm, Retry, Control
    <2>1. CASE Cancel(o)
      BY <1>0, <2>0, <2>1, CancelEdits DEF Row
    <2>2. CASE Confirm(o)
      BY <1>0, <2>0, <2>2, ConfirmEdits DEF Row
    <2>3. CASE Retry(o)
      BY <1>0, <2>0, <2>3, RetryEdits DEF Row
    <2>4. QED
      BY <1>3, <2>1, <2>2, <2>3
  <1>4. ASSUME NEW w \in Workers, NEW j \in DOMAIN jobs,
               Recover(w, j) \/ Discard(w, j) \/ Claim(w, j)
        PROVE  Moves
    <2>0. jobs[j] \in Row
      BY Domains DEF IInv
    <2>1. CASE Recover(w, j)
      BY <1>0, <2>0, <2>1, RecoverEdits DEF Row
    <2>2. CASE Discard(w, j)
      BY <1>0, <2>0, <2>2, DiscardEdits DEF Row
    <2>3. CASE Claim(w, j)
      <3> DEFINE row == [jobs[j] EXCEPT !.status = "running", !.attempts = @ + 1]
      <3>1. row.file = jobs[j].file /\ row.preview = jobs[j].preview
        BY <2>0 DEF Row
      <3>2. EditsRow(j, row)
        BY <2>3, ClaimEdits
      <3> HIDE DEF row
      <3>3. QED
        BY <1>0, <3>1, <3>2
    <2>4. QED
      BY <1>4, <2>1, <2>2, <2>3
  <1>5. ASSUME NEW w \in Workers, FinishPreview(w) PROVE Moves
    <2> DEFINE k == task[w].job
               row == [jobs[k] EXCEPT !.status = "completed",
                          !.preview_ready = TRUE, !.preview = task[w].plan]
    <2>1. /\ EditsRow(k, row)
          /\ jobs[k] \in Row
          /\ UNCHANGED <<state, brand, screen>>
      BY <1>5, FinishPreviewEdits DEF FinishPreview, EditsRow, ledger, people
    <2>2. row.file = jobs[k].file /\ row.preview = PlanOf(jobs[k].file)
      BY <1>5, <2>1 DEF FinishPreview, Goto, IInv, TaskInv, Row
    <2> HIDE DEF row
    <2>3. QED
      BY <2>1, <2>2 DEF EditsRow, PreviewMoves
  <1>6. ASSUME NEW w \in Workers, FinishApply(w) \/ Settle(w) PROVE Moves
    <2>0. jobs[task[w].job] \in Row
      BY <1>6, FinishApplyEdits, SettleEdits DEF EditsRow
    <2>1. CASE FinishApply(w)
      BY <1>0, <2>0, <2>1, FinishApplyEdits DEF Row
    <2>2. CASE Settle(w)
      BY <1>0, <2>0, <2>2, SettleEdits DEF Row
    <2>3. QED
      BY <1>6, <2>1, <2>2
  <1>7. QED
    BY <1>1, <1>2, <1>3, <1>4, <1>5, <1>6, JobsChange

\* A page stays as it is, or shows the stock list or a row as they are.
LEMMA PagesMove ==
    ASSUME IInv, Next, NEW o \in Admins
    PROVE  \/ screen'[o] = screen[o]
           \/ screen'[o].job = NoJob
           \/ /\ UNCHANGED <<state, brand, jobs>>
              /\ screen'[o].job \in DOMAIN jobs
              /\ screen'[o].preview = jobs[screen'[o].job].preview
  <1> USE DEF IInv, TypeOK
  <1>1. CASE UNCHANGED people
    BY <1>1 DEF people
  <1>2. ASSUME NEW p \in Admins, OpenStock(p)
        PROVE  screen'[o] = screen[o] \/ screen'[o].job = NoJob
    BY <1>2 DEF OpenStock
  <1>3. ASSUME NEW p \in Admins, NEW j \in DOMAIN jobs, OpenJob(p, j)
        PROVE  \/ screen'[o] = screen[o]
               \/ /\ UNCHANGED <<state, brand, jobs>>
                  /\ screen'[o].job \in DOMAIN jobs
                  /\ screen'[o].preview = jobs[screen'[o].job].preview
    BY <1>3 DEF OpenJob, ledger
  <1>4. CASE UNCHANGED screen
    BY <1>4
  <1>5. QED
    BY <1>1, <1>2, <1>3, <1>4, PeopleChange DEF Revoke, Review

\* While the list and the brand stay, so does what would be planned.
LEMMA PlanStays ==
    ASSUME UNCHANGED <<state, brand>>
    PROVE  \A file : PlanOf(file)' = PlanOf(file)
  BY DEF PlanOf, Prepared, Canonical, NewBrands

\* Every step in peace keeps the previews told.
LEMMA ToldNext ==
    ASSUME IInv, Next, Told,
           \A name \in Spellings : RegisterBrand(name) =>
               /\ \A j \in DOMAIN jobs : ~Current(jobs[j].preview)
               /\ \A o \in Admins : ~Current(screen[o].preview)
    PROVE  Told'
  <1>0. /\ state.revision \in Nat
        /\ \A j \in DOMAIN jobs : jobs[j].preview # NoPlan =>
               jobs[j].preview.base \in Nat /\ jobs[j].preview.base <= state.revision
        /\ \A o \in Admins : screen[o].preview # NoPlan =>
               screen[o].preview.base \in Nat
    BY Domains DEF IInv, TypeOK, RowInv, Row, Screen, Plan
  <1>1. CASE UNCHANGED <<state, brand>>
    <2>1. \A file : PlanOf(file)' = PlanOf(file) /\ PlanOf(file).base = state.revision
      BY <1>1, PlanStays DEF PlanOf
    <2>2. RowsTold'
      BY <1>1, <2>1, PreviewsMove DEF Told, RowsTold, Current, PreviewMoves
    <2>3. ASSUME NEW o \in Admins, screen'[o].job # NoJob,
                 screen'[o].preview # NoPlan
          PROVE  LET j == screen'[o].job  seen == screen'[o].preview IN
                 /\ seen.base <= state.revision
                 /\ seen # NoPlan /\ seen.base = state.revision
                       => seen = PlanOf(jobs'[j].file)
                 /\ jobs'[j].preview # NoPlan /\ jobs'[j].preview.base = seen.base
                       => jobs'[j].preview = seen
      <3> DEFINE j == screen'[o].job
                 seen == screen'[o].preview
      <3>1. CASE screen'[o] = screen[o]
        <4>1. /\ j \in DOMAIN jobs
              /\ seen.base <= state.revision
              /\ seen.base = state.revision => seen = PlanOf(jobs[j].file)
              /\ jobs[j].preview # NoPlan /\ jobs[j].preview.base = seen.base
                    => jobs[j].preview = seen
          BY <2>3, <3>1 DEF IInv, ScreenInv, Told, PagesTold, Current
        <4>2. PreviewMoves(j)
          BY <4>1, PreviewsMove
        <4>3. QED
          BY <2>1, <4>1, <4>2 DEF PreviewMoves
      <3>2. CASE /\ UNCHANGED jobs
                 /\ j \in DOMAIN jobs
                 /\ seen = jobs[j].preview
        BY <1>0, <2>3, <3>2 DEF Told, RowsTold, Current
      <3>3. QED
        BY <2>3, <3>1, <3>2, PagesMove
    <2>4. PagesTold'
      BY <1>1, <2>1, <2>3 DEF PagesTold, Current
    <2>5. QED
      BY <2>2, <2>4 DEF Told
  <1>2. CASE state'.revision = state.revision + 1 /\ UNCHANGED screen
    <2>1. \A j \in DOMAIN jobs' : jobs'[j].preview # NoPlan =>
              /\ j \in DOMAIN jobs
              /\ jobs'[j].preview = jobs[j].preview \/ UNCHANGED state
      BY PreviewsMove DEF PreviewMoves
    <2>2. \A j \in DOMAIN jobs' : jobs'[j].preview # NoPlan =>
              /\ jobs'[j].preview.base <= state.revision
              /\ j \in DOMAIN jobs
              /\ jobs'[j].preview = jobs[j].preview
      BY <1>0, <1>2, <2>1
    <2>3. RowsTold'
      BY <1>0, <1>2, <2>2 DEF RowsTold, Current
    <2>4. ASSUME NEW o \in Admins, screen[o].job # NoJob, screen[o].preview # NoPlan
          PROVE  LET j == screen[o].job  seen == screen[o].preview IN
                 /\ seen.base <= state'.revision
                 /\ seen.base # state'.revision
                 /\ jobs'[j].preview # NoPlan /\ jobs'[j].preview.base = seen.base
                       => jobs'[j].preview = seen
      <3>1. /\ screen[o].job \in DOMAIN jobs
            /\ screen[o].preview.base <= state.revision
            /\ screen[o].preview.base \in Nat
        BY <1>0, <2>4 DEF IInv, ScreenInv, Told, PagesTold
      <3>2. screen[o].job \in DOMAIN jobs'
        BY <3>1, PreviewsMove DEF PreviewMoves
      <3>3. QED
        BY <1>0, <1>2, <2>2, <2>4, <3>1, <3>2 DEF Told, PagesTold
    <2>5. PagesTold'
      BY <1>2, <2>4 DEF PagesTold, Current
    <2>6. QED
      BY <2>3, <2>5 DEF Told
  <1>3. ASSUME NEW name \in Spellings, RegisterBrand(name),
               UNCHANGED <<state, jobs, screen>>
        PROVE  Told'
    BY <1>3 DEF Told, RowsTold, PagesTold, Current
  <1>4. QED
    BY <1>1, <1>2, <1>3, ListMoves

\* With previews told an import registers what its preview announced.
LEMMA ToldRegisters ==
    ASSUME IInv, RowsTold, NEW w \in Workers, FinishApply(w),
           NEW i \in DOMAIN snapshots' \ DOMAIN snapshots
    PROVE  jobs[snapshots'[i].job].preview.created =
               IF brand' = brand THEN {} ELSE {brand'}
  <1> DEFINE j == task[w].job
  <1>1. pc[w] = "planned" /\ pc[w] \in Holding /\ jobs[j].phase = "apply"
    BY DEF FinishApply, Goto, Holding, Working
  <1>2. j \in DOMAIN jobs /\ jobs[j].file.brand \in Spellings
    BY <1>1, AtWork, PreparedType DEF IInv
  <1>3. jobs[j].preview # NoPlan /\ jobs[j].preview.base = state.revision
    BY <1>1, <1>2 DEF IInv, RowInv, TaskInv, PlanStands
  <1>4. jobs[j].preview = PlanOf(jobs[j].file)
    BY <1>2, <1>3 DEF RowsTold, Current
  <1>5. jobs[j].preview.created = NewBrands(jobs[j].file.brand)
    BY <1>4 DEF PlanOf
  <1>6. /\ i = Len(snapshots) + 1
        /\ snapshots'[Len(snapshots) + 1].job = j
        /\ brand' = Canonical(jobs[j].file.brand)
    <2> DEFINE new == [kind |-> "IMPORT", job |-> j, source |-> 0,
                       replaced |-> task[w].plan.base, items |-> task[w].plan.items]
    <2>1. AddsSnapshot(new, jobs[j].file.brand)
      BY FinishApplyAdds
    <2>2. new.job = j
      OBVIOUS
    <2> HIDE DEF new
    <2>3. QED
      BY <2>1, <2>2 DEF AddsSnapshot
  <1>7. QED
    BY <1>2, <1>5, <1>6, StockLedgerAssumption DEF NewBrands, Canonical

LEMMA ToldThroughout == Spec /\ BrandsInPeace => []Told
  <1> DEFINE Peace == \A name \in Spellings : RegisterBrand(name) =>
                          /\ \A j \in DOMAIN jobs : ~Current(jobs[j].preview)
                          /\ \A o \in Admins : ~Current(screen[o].preview)
  <1>1. Init => Told
    BY DEF Init, Told, RowsTold, PagesTold
  <1>2. IInv /\ Told /\ [Next]_vars /\ [Peace]_vars => Told'
    <2>1. CASE UNCHANGED vars
      BY <2>1 DEF vars, ledger, people, Told, RowsTold, PagesTold, Current, PlanOf,
                  Prepared, Canonical, NewBrands
    <2>2. CASE Next /\ Peace
      BY <2>2, ToldNext
    <2>3. QED
      BY <2>1, <2>2
  <1> HIDE DEF Peace
  <1>3. [][Peace]_vars <=> BrandsInPeace
    BY DEF Peace, BrandsInPeace
  <1>4. QED
    BY <1>1, <1>2, <1>3, Invariant, PTL DEF Spec

\* What _apply says when it refuses is true if no brand is registered elsewhere
\* while a preview waits: then an import registers the brands that its preview
\* announced, no more and no less.
THEOREM BrandsAsPreviewed == Spec /\ BrandsInPeace => RegistersWhatWasPreviewed
  <1> DEFINE Step == \A i \in DOMAIN snapshots' \ DOMAIN snapshots :
                         snapshots'[i].kind = "IMPORT" =>
                             jobs[snapshots'[i].job].preview.created =
                                 IF brand' = brand THEN {} ELSE {brand'}
  <1>1. IInv /\ Told /\ [Next]_vars => [Step]_vars
    <2> SUFFICES ASSUME IInv, Told, Next PROVE Step
      OBVIOUS
    <2>1. CASE UNCHANGED snapshots
      BY <2>1
    <2>2. ASSUME NEW o \in Admins, NEW i \in DOMAIN snapshots, Restore(o, i)
          PROVE  Step
      <3> DEFINE new == [kind |-> "RESTORE", job |-> NoJob, source |-> i,
                         replaced |-> state.active, items |-> Items(i)]
      <3>1. AddsSnapshot(new, brand) /\ new.kind # "IMPORT"
        BY <2>2, RestoreAdds
      <3> HIDE DEF new
      <3>2. QED
        BY <3>1 DEF AddsSnapshot
    <2>3. ASSUME NEW t \in tokens, Save(t) PROVE Step
      <3>1. CASE t.before = t.after
        BY <2>1, <2>3, <3>1 DEF Save
      <3>2. CASE t.before # t.after
        <4> DEFINE new == [kind |-> "MANUAL", job |-> NoJob, source |-> 0,
                           replaced |-> state.active, items |-> Edited(t)]
        <4>1. AddsSnapshot(new, t.after.brand) /\ new.kind # "IMPORT"
          BY <2>3, <3>2, SaveAdds
        <4> HIDE DEF new
        <4>2. QED
          BY <4>1 DEF AddsSnapshot
      <3>3. QED
        BY <3>1, <3>2
    <2>4. ASSUME NEW w \in Workers, FinishApply(w) PROVE Step
      BY <2>4, ToldRegisters DEF Told
    <2>5. ASSUME NEW name \in Spellings, RegisterBrand(name) PROVE Step
      BY <2>1, <2>5 DEF RegisterBrand
    <2>6. QED
      BY <2>1, <2>2, <2>3, <2>4, <2>5, LedgerChanges DEF ledger
  <1> HIDE DEF Step
  <1>2. [][Step]_vars <=> RegistersWhatWasPreviewed
    BY DEF Step, RegistersWhatWasPreviewed
  <1>3. QED
    BY <1>1, <1>2, Invariant, ToldThroughout, PTL DEF Spec

\* What control says when it refuses is true under the same condition: a job is
\* confirmed with the preview that is on the page, however old the page is.
THEOREM ConfirmedAsShown == Spec /\ BrandsInPeace => ConfirmsWhatIsShown
  <1> DEFINE Step == \A j \in DOMAIN jobs :
                         jobs'[j].phase = "apply" /\ jobs[j].phase = "preview" =>
                             \E o \in Admins : /\ screen[o].job = j
                                               /\ screen[o].preview = jobs'[j].preview
  <1>1. IInv /\ Told /\ [Next]_vars => [Step]_vars
    <2> SUFFICES ASSUME IInv, Told, Next PROVE Step
      OBVIOUS
    <2>0. ASSUME NEW k, NEW row, EditsRow(k, row),
                 row.phase \in {jobs[k].phase, "preview"}
          PROVE  Step
      BY <2>0 DEF EditsRow
    <2>1. CASE UNCHANGED jobs
      BY <2>1
    <2>2. ASSUME NEW o \in Admins, NEW book \in Workbooks, Submit(o, book)
          PROVE  Step
      BY <2>2, SubmitAdds
    <2>3. ASSUME NEW o \in Admins, Cancel(o) \/ Retry(o) PROVE Step
      <3>1. screen[o].job \in DOMAIN jobs /\ jobs[screen[o].job] \in Row
        BY <2>3, Domains DEF IInv, ScreenInv, Cancel, Retry, Control
      <3>2. QED
        BY <2>0, <2>3, <3>1, CancelEdits, RetryEdits DEF Row
    <2>4. ASSUME NEW o \in Admins, Confirm(o) PROVE Step
      <3> DEFINE k == screen[o].job
      <3>1. k \in DOMAIN jobs /\ jobs[k] \in Row /\ k # NoJob
        BY <2>4, Domains DEF IInv, ScreenInv, Confirm, Control
      <3>2. /\ jobs[k].preview # NoPlan
            /\ screen[o].preview # NoPlan
            /\ screen[o].preview.base = jobs[k].preview.base
        BY <2>4, <3>1 DEF IInv, RowInv, Confirm, Previewed, SameFingerprint
      <3>3. screen[o].preview = jobs[k].preview
        BY <3>1, <3>2 DEF Told, PagesTold
      <3>4. jobs'[k].preview = jobs[k].preview /\ \A j \in DOMAIN jobs : j # k =>
                jobs'[j] = jobs[j]
        BY <2>4, <3>1, ConfirmEdits DEF EditsRow, Row
      <3>5. QED
        BY <3>3, <3>4
    <2>5. ASSUME NEW w \in Workers, NEW j \in DOMAIN jobs,
                 Recover(w, j) \/ Discard(w, j)
          PROVE  Step
      <3>1. jobs[j] \in Row
        BY Domains DEF IInv
      <3>2. QED
        BY <2>0, <2>5, <3>1, RecoverEdits, DiscardEdits DEF Row
    <2>6. ASSUME NEW w \in Workers, NEW j \in DOMAIN jobs, Claim(w, j) PROVE Step
      <3> DEFINE row == [jobs[j] EXCEPT !.status = "running", !.attempts = @ + 1]
      <3>1. row.phase = jobs[j].phase
        BY Domains DEF IInv, Row
      <3>2. EditsRow(j, row)
        BY <2>6, ClaimEdits
      <3> HIDE DEF row
      <3>3. QED
        BY <2>0, <3>1, <3>2
    <2>7. ASSUME NEW w \in Workers, FinishPreview(w) \/ FinishApply(w) \/ Settle(w)
          PROVE  Step
      <3>1. jobs[task[w].job] \in Row
        BY <2>7, FinishPreviewEdits, FinishApplyEdits, SettleEdits DEF EditsRow
      <3>2. QED
        BY <2>0, <2>7, <3>1, FinishPreviewEdits, FinishApplyEdits, SettleEdits DEF Row
    <2>8. QED
      BY <2>1, <2>2, <2>3, <2>4, <2>5, <2>6, <2>7, JobsChange
  <1> HIDE DEF Step
  <1>2. [][Step]_vars <=> ConfirmsWhatIsShown
    BY DEF Step, ConfirmsWhatIsShown
  <1>3. QED
    BY <1>1, <1>2, Invariant, ToldThroughout, PTL DEF Spec

=============================================================================
