----------------------------- MODULE ImportQueue -----------------------------
(***************************************************************************)
(* The durable product import queue: import_jobs.py and the loop of        *)
(* scripts/import_worker.py over the tables of sql/migration_024.          *)
(*                                                                         *)
(* A workbook is submitted, staged and previewed by a worker, confirmed by *)
(* an operator who looks at the preview, and applied by a worker in one    *)
(* database transaction.  Several workers poll the same table.  A worker   *)
(* owns a job through a session advisory lock, which the database drops    *)
(* when the worker's connection goes away; all writers of the product      *)
(* catalogue share one transaction-level advisory lock.                    *)
(*                                                                         *)
(* The catalogue is reduced to a version number: what catalog_fingerprint  *)
(* hashes (the rows of the affected brands with their xmin, the brand map  *)
(* and the status catalogue) is equal at two moments exactly when no       *)
(* writer committed in between.  A plan is the version it was built on.    *)
(***************************************************************************)
EXTENDS Integers, FiniteSets

CONSTANTS
    MaxJobs,        \* jobs are numbered in the order of created_at
    Workers,        \* import worker processes
    Operators,      \* browser sessions of import administrators
    MaxAttempts,    \* limit('MAX_ATTEMPTS', 6)
    MaxRetained,    \* limit('MAX_RETAINED_JOBS', 100)
    MaxCatalogue,   \* bound on the writes of other product writers
    MaxCrashes,     \* bound on worker crashes
    NoWorker,       \* nobody holds the lock
    NoPlan          \* SQL NULL in the column "preview"

ASSUME ImportQueueAssumption ==
    /\ MaxJobs \in Nat
    /\ MaxAttempts \in Nat
    /\ MaxRetained \in Nat
    /\ MaxCatalogue \in Nat
    /\ MaxCrashes \in Nat
    /\ NoWorker \notin Workers
    /\ NoPlan \notin Nat

VARIABLES
    jobs,           \* table product_import_jobs
    files,          \* jobs whose uploaded workbook is on disk
    rows,           \* table product_import_rows, per job
    locks,          \* session advisory lock of each job
    products,       \* holder of the product writers' transaction lock
    catalogue,      \* version of the committed product catalogue
    pc,             \* what each worker is doing
    todo,           \* ids a worker has listed and not visited yet
    task,           \* the job a worker runs, as it read it after the claim
    screen,         \* the job page of each operator and the request in flight
    authorised,     \* jobs whose submitting account is still valid
    applied,        \* history: <<job, version>> of every committed application
    crashes         \* how many worker crashes there were

\* What a step leaves alone, by the group of variables it belongs to.
store == <<jobs, files, rows>>
ledger == <<catalogue, applied>>
outside == <<screen, authorised, crashes>>
worker == <<pc, todo, task, locks, products>>
vars == <<store, ledger, outside, worker>>

------------------------------------------------------------------------------
(* Types                                                                   *)

Jobs == 1..MaxJobs
NoJob == 0
Plans == Nat \cup {NoPlan}

Status == {"absent", "queued", "running", "completed", "failed", "cancelled",
           "deleted"}
Active == {"queued", "running"}
Phase == {"preview", "apply"}

Row == [status: Status, phase: Phase, preview_ready: BOOLEAN, preview: Plans,
        cancel_requested: BOOLEAN, attempts: 0..MaxAttempts, expired: BOOLEAN,
        purged: BOOLEAN]

\* The defaults of the columns when submit inserts the row.
NewRow == [status |-> "queued", phase |-> "preview", preview_ready |-> FALSE,
           preview |-> NoPlan, cancel_requested |-> FALSE, attempts |-> 0,
           expired |-> FALSE, purged |-> FALSE]

Task == [job: Jobs \cup {NoJob}, phase: Phase, preview: Plans, plan: Plans]

NoTask == [job |-> NoJob, phase |-> "preview", preview |-> NoPlan,
           plan |-> NoPlan]

Screen == [job: Jobs \cup {NoJob}, fingerprint: Plans,
           stage: {"closed", "page", "sent"}, live: BOOLEAN]

\* Inside run_once between the claim and the end of the main transaction.
Working == {"claimed", "staging", "staged", "locked", "planned"}
\* The worker holds the session lock of task[w].job.
Holding == Working \cup {"failing", "closing", "purging"}
WorkerState == Holding \cup {"idle", "cleaning", "cleaned", "scanning"}

Exists(j) == jobs[j].status \notin {"absent", "deleted"}

Init ==
    /\ jobs = [j \in Jobs |-> [NewRow EXCEPT !.status = "absent"]]
    /\ files = {}
    /\ rows = [j \in Jobs |-> "none"]
    /\ locks = [j \in Jobs |-> NoWorker]
    /\ products = NoWorker
    /\ catalogue = 0
    /\ pc = [w \in Workers |-> "idle"]
    /\ todo = [w \in Workers |-> {}]
    /\ task = [w \in Workers |-> NoTask]
    /\ screen = [o \in Operators |-> [job |-> NoJob, fingerprint |-> NoPlan,
                                      stage |-> "closed", live |-> FALSE]]
    /\ authorised = {}
    /\ applied = {}
    /\ crashes = 0

------------------------------------------------------------------------------
(* The web application                                                     *)

Retained == {j \in Jobs : Exists(j) /\ ~jobs[j].purged}

\* submit: the account is checked, the capacity counted under the admission
\* lock, the file stored, the row inserted, in one transaction.
Submit(j) ==
    /\ jobs[j].status = "absent"
    /\ \A i \in Jobs : i < j => jobs[i].status # "absent"
    /\ Cardinality(Retained) < MaxRetained
    /\ jobs' = [jobs EXCEPT ![j] = NewRow]
    /\ files' = files \cup {j}
    /\ authorised' = authorised \cup {j}
    /\ UNCHANGED <<rows, ledger, screen, crashes, worker>>

\* An operator's browser shows the job page with the preview of that moment.
Open(o, j) ==
    /\ screen[o].stage # "sent"
    /\ Exists(j)
    /\ screen' = [screen EXCEPT ![o] = [job |-> j, live |-> FALSE,
                     fingerprint |-> jobs[j].preview, stage |-> "page"]]
    /\ UNCHANGED <<store, ledger, worker, authorised, crashes>>

\* A button is pressed: the transaction of control begins, which fixes the
\* now() that expires_at is compared with.  It may then wait for the row.
Send(o) ==
    /\ screen[o].stage = "page"
    /\ screen' = [screen EXCEPT ![o].stage = "sent",
                     ![o].live = ~jobs[screen[o].job].expired]
    /\ UNCHANGED <<store, ledger, worker, authorised, crashes>>

\* control commits its update of the row, if any, and the page stays open: the
\* button can be pressed again.
Answer(o, row) ==
    /\ screen[o].stage = "sent"
    /\ screen' = [screen EXCEPT ![o].stage = "page", ![o].live = FALSE]
    /\ jobs' = [jobs EXCEPT ![screen[o].job] = row]
    /\ UNCHANGED <<files, rows, ledger, worker, authorised, crashes>>

\* The early returns and the rejections of control.
Refuse(o) == Answer(o, jobs[screen[o].job])

Cancel(o) ==
    LET row == jobs[screen[o].job] IN
    /\ Answer(o, [row EXCEPT !.cancel_requested = TRUE,
                     !.status = IF @ = "queued" THEN "cancelled" ELSE @])
    /\ row.status \in Active
    /\ ~row.cancel_requested

\* Mutant of Usable: only the time of expiry is looked at.
UsableUnlessExpired(o) == screen[o].live

\* The file must not have expired when the transaction began, nor have been
\* purged while it waited for the row.
Usable(o) == screen[o].live /\ ~jobs[screen[o].job].purged

\* Mutant of Shown: the fingerprint on the page is not compared.
ShownOrNot(o) == TRUE

\* The fingerprint on the page is the one in the row.  The number of rows to
\* delete, which a brand replacement has to repeat, is part of that preview.
Shown(o) == screen[o].fingerprint = jobs[screen[o].job].preview

Previewed(row) ==
    row.status = "completed" /\ row.phase = "preview" /\ row.preview_ready

Confirm(o) ==
    LET row == jobs[screen[o].job] IN
    /\ Answer(o, [row EXCEPT !.status = "queued", !.phase = "apply",
                             !.preview_ready = FALSE])
    /\ Usable(o)
    /\ Previewed(row)
    /\ Shown(o)

Retryable(row) ==
    /\ row.status \in {"failed", "cancelled", "completed"}
    /\ ~(row.status = "completed" /\ row.phase = "apply")
    /\ row.attempts < MaxAttempts

\* Mutant of Restarted: the flag of the old preview survives.
RestartedStillReady(row) ==
    [row EXCEPT !.status = "queued", !.phase = "preview", !.preview = NoPlan,
                !.cancel_requested = FALSE]

\* Always a new preview, never a second application.
Restarted(row) ==
    [row EXCEPT !.status = "queued", !.phase = "preview", !.preview = NoPlan,
                !.preview_ready = FALSE, !.cancel_requested = FALSE]

Retry(o) ==
    LET row == jobs[screen[o].job] IN
    /\ Answer(o, Restarted(row))
    /\ Usable(o)
    /\ Retryable(row)

Request(o) ==
    \/ \E j \in Jobs : Open(o, j)
    \/ Send(o)
    \/ Refuse(o)
    \/ Cancel(o)
    \/ Confirm(o)
    \/ Retry(o)

------------------------------------------------------------------------------
(* A worker: locks                                                         *)

\* pg_try_advisory_lock succeeds: no connection holds the lock of the job.
Unlocked(j) == locks[j] = NoWorker

\* Mutant of Unlock: the connection is kept, with the session lock on it.
UnlockNever(j) == locks

Unlock(j) == [locks EXCEPT ![j] = NoWorker]

\* Mutant of ProductsFree: a writer that does not wait for the others.
ProductsFreeOrNot == TRUE

\* acquire_products_import_lock does not have to wait.
ProductsFree == products = NoWorker

ReleaseProducts(w) ==
    products' = IF products = w THEN NoWorker ELSE products

Goto(w, from, to) ==
    /\ pc[w] = from
    /\ pc' = [pc EXCEPT ![w] = to]

------------------------------------------------------------------------------
(* A worker: cleanup                                                       *)

\* Each turn of the loop begins with cleanup, which lists the expired jobs that
\* are still to be purged.
StartCleanup(w) ==
    /\ Goto(w, "idle", "cleaning")
    /\ todo' = [todo EXCEPT ![w] = {j \in Retained : jobs[j].expired}]
    /\ UNCHANGED <<store, ledger, outside, task, locks, products>>

\* Somebody works on the job; cleanup and claim leave it alone.
SkipLocked(w, j) ==
    /\ pc[w] \in {"cleaning", "scanning"}
    /\ ~Unlocked(j)
    /\ todo' = [todo EXCEPT ![w] = @ \ {j}]
    /\ UNCHANGED <<store, ledger, outside, pc, task, locks, products>>

\* The workbook is removed before the transaction that records it commits.
Unlink(w, j) ==
    /\ Goto(w, "cleaning", "purging")
    /\ Unlocked(j)
    /\ locks' = [locks EXCEPT ![j] = w]
    /\ files' = files \ {j}
    /\ task' = [task EXCEPT ![w].job = j]
    /\ todo' = [todo EXCEPT ![w] = @ \ {j}]
    /\ UNCHANGED <<jobs, rows, ledger, outside, products>>

\* The row as the UPDATE of cleanup leaves it; it may be gone by now.
PurgedRow(row) ==
    IF row.status = "deleted" THEN row
    ELSE [row EXCEPT !.purged = TRUE, !.preview = NoPlan,
             !.preview_ready = FALSE,
             !.status = IF @ \in Active THEN "cancelled" ELSE @]

Purge(w) ==
    LET j == task[w].job IN
    /\ Goto(w, "purging", "cleaning")
    /\ rows' = [rows EXCEPT ![j] = "none"]
    /\ jobs' = [jobs EXCEPT ![j] = PurgedRow(@)]
    /\ locks' = Unlock(j)
    /\ task' = [task EXCEPT ![w] = NoTask]
    /\ UNCHANGED <<files, ledger, outside, todo, products>>

\* Purged rows are deleted once they are older than AUDIT_DAYS.
DropAudit(w) ==
    /\ Goto(w, "cleaning", "cleaned")
    /\ todo[w] = {}
    /\ \E old \in SUBSET {j \in Jobs : Exists(j) /\ jobs[j].purged} :
          jobs' = [j \in Jobs |-> IF j \in old
                                  THEN [jobs[j] EXCEPT !.status = "deleted"]
                                  ELSE jobs[j]]
    /\ UNCHANGED <<files, rows, ledger, outside, todo, task, locks, products>>

------------------------------------------------------------------------------
(* A worker: claim                                                         *)

\* Mutant of Unsettled: running jobs are not looked at again.
UnsettledQueued == {j \in Jobs : jobs[j].status = "queued"}

Unsettled == {j \in Jobs : jobs[j].status \in Active}

List(w) ==
    /\ Goto(w, "cleaned", "scanning")
    /\ todo' = [todo EXCEPT ![w] = Unsettled]
    /\ UNCHANGED <<store, ledger, outside, task, locks, products>>

\* The listed jobs are visited in the order of created_at, each under its
\* session lock.
Visits(w, j) ==
    /\ pc[w] = "scanning"
    /\ j \in todo[w]
    /\ \A i \in todo[w] : j <= i
    /\ Unlocked(j)

\* The row is settled in one transaction, the lock is given back, the loop goes
\* on with the next job.
Visited(w, j, row) ==
    /\ Visits(w, j)
    /\ jobs' = [jobs EXCEPT ![j] = row]
    /\ todo' = [todo EXCEPT ![w] = @ \ {j}]
    /\ UNCHANGED <<files, rows, ledger, outside, pc, task, locks, products>>

\* The job was settled since it was listed.
SkipSettled(w, j) ==
    /\ Exists(j)
    /\ jobs[j].status \notin Active
    /\ Visited(w, j, jobs[j])

\* The session lock of a running job is free: the worker that ran it died.
Recover(w, j) ==
    /\ jobs[j].status = "running"
    /\ Visited(w, j, [jobs[j] EXCEPT !.status = "failed",
                                     !.preview_ready = FALSE])

\* Mutant of Hopeless: one attempt too many.
HopelessLate(row) ==
    \/ row.cancel_requested
    \/ row.expired
    \/ row.attempts > MaxAttempts

Hopeless(row) ==
    \/ row.cancel_requested
    \/ row.expired
    \/ row.attempts >= MaxAttempts

Discard(w, j) ==
    /\ jobs[j].status = "queued"
    /\ Hopeless(jobs[j])
    /\ Visited(w, j, [jobs[j] EXCEPT !.status = "cancelled"])

\* Unpacking the missing row raises; the loop of import_worker catches it.
RowVanished(w, j) ==
    /\ Visits(w, j)
    /\ jobs[j].status = "deleted"
    /\ Goto(w, "scanning", "idle")
    /\ todo' = [todo EXCEPT ![w] = {}]
    /\ UNCHANGED <<store, ledger, outside, task, locks, products>>

\* claim commits and keeps the lock; run_once reads the job again right after.
\* Only the cancel flag, which is not read there, can change in between.
Claim(w, j) ==
    /\ Visits(w, j)
    /\ jobs[j].status = "queued"
    /\ ~Hopeless(jobs[j])
    /\ jobs' = [jobs EXCEPT ![j].status = "running", ![j].attempts = @ + 1]
    /\ locks' = [locks EXCEPT ![j] = w]
    /\ task' = [task EXCEPT ![w] = [job |-> j, phase |-> jobs[j].phase,
                       preview |-> jobs[j].preview, plan |-> NoPlan]]
    /\ Goto(w, "scanning", "claimed")
    /\ todo' = [todo EXCEPT ![w] = {}]
    /\ UNCHANGED <<files, rows, ledger, outside, products>>

\* Nothing to do: the worker sleeps and starts over.
Drain(w) ==
    /\ Goto(w, "scanning", "idle")
    /\ todo[w] = {}
    /\ UNCHANGED <<store, ledger, outside, todo, task, locks, products>>

------------------------------------------------------------------------------
(* A worker: run_once                                                      *)

\* The stored workbook still has its digest; the rows staged by an earlier
\* preview are deleted in a transaction of their own.
Stage(w) ==
    /\ Goto(w, "claimed", "staging")
    /\ task[w].phase = "preview"
    /\ task[w].job \in files
    /\ rows' = [rows EXCEPT ![task[w].job] = "partial"]
    /\ UNCHANGED <<jobs, files, ledger, outside, todo, task, locks, products>>

\* The chunks of rows are committed one by one; this is the last one.
Load(w) ==
    /\ Goto(w, "staging", "staged")
    /\ rows' = [rows EXCEPT ![task[w].job] = "full"]
    /\ UNCHANGED <<jobs, files, ledger, outside, todo, task, locks, products>>

\* The main transaction begins with the lock all product writers take.
LockProducts(w) ==
    /\ \/ Goto(w, "staged", "locked")
       \/ Goto(w, "claimed", "locked") /\ task[w].phase = "apply"
    /\ ProductsFree
    /\ products' = w
    /\ UNCHANGED <<store, ledger, outside, todo, task, locks>>

\* Mutant of PlanStands: the plan of the second phase is not compared.
PlanStandsAnyway(w) == TRUE

\* In the second phase the plan must be the previewed one.
PlanStands(w) == task[w].phase = "apply" => task[w].preview = catalogue

\* The submitting account is valid, and its row locked against changes until
\* the transaction ends; the plan is built, and in the second phase compared
\* with the preview and carried out, unseen by others.
MakePlan(w) ==
    /\ Goto(w, "locked", "planned")
    /\ task[w].job \in authorised
    /\ PlanStands(w)
    /\ task' = [task EXCEPT ![w].plan = catalogue]
    /\ UNCHANGED <<store, ledger, outside, todo, locks, products>>

\* Mutant of CommitGate: the cancel flag is not read again.
CommitGateOpen(w) == TRUE

\* The last look at the cancel flag, which locks the row.
CommitGate(w) == ~jobs[task[w].job].cancel_requested

\* The completed state commits together with the writes to the catalogue.
Finish(w) ==
    /\ Goto(w, "planned", "closing")
    /\ CommitGate(w)
    /\ jobs' = [jobs EXCEPT ![task[w].job].status = "completed",
                   ![task[w].job].preview_ready = (task[w].phase = "preview"),
                   ![task[w].job].preview = task[w].plan]
    /\ ReleaseProducts(w)
    /\ UNCHANGED <<files, rows, outside, todo, task, locks>>

FinishPreview(w) ==
    /\ task[w].phase = "preview"
    /\ Finish(w)
    /\ UNCHANGED ledger

FinishApply(w) ==
    /\ task[w].phase = "apply"
    /\ Finish(w)
    /\ catalogue' = catalogue + 1
    /\ applied' = applied \cup {<<task[w].job, task[w].plan>>}

\* Any exception of the run: a bad workbook, a missing file, a revoked account,
\* a stale plan, a timeout, the watcher that cancels the connection because of
\* the cancel flag, the deadline or its own failure.  The database rolls back.
Fail(w) ==
    /\ \E from \in Working : Goto(w, from, "failing")
    /\ ReleaseProducts(w)
    /\ UNCHANGED <<store, ledger, outside, todo, task, locks>>

\* The handler records the failure in a transaction of its own.
Settle(w) ==
    LET row == jobs[task[w].job] IN
    /\ Goto(w, "failing", "closing")
    /\ jobs' = [jobs EXCEPT ![task[w].job] =
                   [row EXCEPT !.preview_ready = FALSE,
                       !.status = IF row.cancel_requested
                                  THEN "cancelled" ELSE "failed"]]
    /\ UNCHANGED <<files, rows, ledger, outside, todo, task, locks, products>>

\* The watcher's cancel reaches the handler's own statement.
SettleFails(w) ==
    /\ Goto(w, "failing", "closing")
    /\ UNCHANGED <<store, ledger, outside, todo, task, locks, products>>

\* The session lock is given back, at the latest with the connection.
Close(w) ==
    /\ Goto(w, "closing", "idle")
    /\ locks' = Unlock(task[w].job)
    /\ task' = [task EXCEPT ![w] = NoTask]
    /\ UNCHANGED <<store, ledger, outside, todo, products>>

Visit(w, j) ==
    \/ SkipLocked(w, j) \/ Unlink(w, j)
    \/ SkipSettled(w, j) \/ RowVanished(w, j)
    \/ Recover(w, j) \/ Discard(w, j) \/ Claim(w, j)

WorkerStep(w) ==
    \/ StartCleanup(w) \/ Purge(w) \/ DropAudit(w) \/ List(w) \/ Drain(w)
    \/ \E j \in todo[w] : Visit(w, j)
    \/ Stage(w) \/ Load(w) \/ LockProducts(w) \/ MakePlan(w)
    \/ FinishPreview(w) \/ FinishApply(w)
    \/ Fail(w) \/ Settle(w) \/ SettleFails(w) \/ Close(w)

------------------------------------------------------------------------------
(* The environment                                                         *)

\* The worker process dies, or an exception leaves the body of its loop: the
\* database rolls back and drops every lock of the connection.
Crash(w) ==
    /\ crashes < MaxCrashes
    /\ \E from \in WorkerState \ {"idle"} : Goto(w, from, "idle")
    /\ crashes' = crashes + 1
    /\ locks' = [j \in Jobs |-> IF locks[j] = w THEN NoWorker ELSE locks[j]]
    /\ ReleaseProducts(w)
    /\ todo' = [todo EXCEPT ![w] = {}]
    /\ task' = [task EXCEPT ![w] = NoTask]
    /\ UNCHANGED <<store, ledger, screen, authorised>>

\* Another product writer commits: it takes the products lock first.
WriteCatalogue ==
    /\ ProductsFree
    /\ catalogue < MaxCatalogue
    /\ catalogue' = catalogue + 1
    /\ UNCHANGED <<store, applied, outside, worker>>

Expire(j) ==
    /\ Exists(j)
    /\ ~jobs[j].expired
    /\ jobs' = [jobs EXCEPT ![j].expired = TRUE]
    /\ UNCHANGED <<files, rows, ledger, outside, worker>>

\* The submitting account loses the permission or changes its auth_version,
\* which never returns to an earlier value.  The update waits for the share
\* lock that require_actor holds on the account.
Revoke(j) ==
    /\ j \in authorised
    /\ \A w \in Workers : ~(pc[w] = "planned" /\ task[w].job = j)
    /\ authorised' = authorised \ {j}
    /\ UNCHANGED <<store, ledger, screen, crashes, worker>>

Next ==
    \/ \E j \in Jobs : Submit(j) \/ Expire(j) \/ Revoke(j)
    \/ \E o \in Operators : Request(o)
    \/ \E w \in Workers : WorkerStep(w) \/ Crash(w)
    \/ WriteCatalogue

Spec == Init /\ [][Next]_vars

\* Each worker's loop keeps running: systemd restarts it, statements have a
\* timeout, a run has a deadline.  Nobody is obliged to press a button.
Fairness == \A w \in Workers : WF_vars(WorkerStep(w))

FairSpec == Spec /\ Fairness

------------------------------------------------------------------------------
(* Properties                                                              *)

TypeOK ==
    /\ jobs \in [Jobs -> Row]
    /\ files \in SUBSET Jobs
    /\ rows \in [Jobs -> {"none", "partial", "full"}]
    /\ locks \in [Jobs -> Workers \cup {NoWorker}]
    /\ products \in Workers \cup {NoWorker}
    /\ catalogue \in Nat
    /\ pc \in [Workers -> WorkerState]
    /\ todo \in [Workers -> SUBSET Jobs]
    /\ task \in [Workers -> Task]
    /\ screen \in [Operators -> Screen]
    /\ authorised \in SUBSET Jobs
    /\ applied \in SUBSET (Jobs \X Nat)
    /\ crashes \in Nat

\* While a worker is inside run_once, also while it handles a failure, its job
\* is running in the phase and with the preview the worker read: no operator,
\* no cleanup and no other worker takes a job from under a live worker, although
\* none of them looks at the worker and run_once never reads the status again.
NoStolenJob ==
    \A w \in Workers : pc[w] \in Working \cup {"failing"} =>
        LET row == jobs[task[w].job] IN
        /\ row.status = "running"
        /\ ~row.purged
        /\ row.phase = task[w].phase
        /\ row.preview = task[w].preview

\* A job is worked on by at most one worker at a time.
OneWorkerPerJob ==
    \A v, w \in Workers : 
        v # w /\ pc[v] \in Holding /\ pc[w] \in Holding =>
            task[v].job # task[w].job

\* A cancel request that was accepted is never answered with a completed job,
\* however late it comes: the race with the final commit.
CancelWins ==
    \A j \in Jobs : jobs[j].cancel_requested => jobs[j].status # "completed"

\* What an operator can confirm, and what a worker is about to apply, is
\* backed by all the rows of the workbook the preview was built from and by
\* the stored preview itself.
PreviewIsBacked ==
    \A j \in Jobs :
        \/ jobs[j].preview_ready
        \/ jobs[j].status \in Active /\ jobs[j].phase = "apply"
        => /\ jobs[j].preview # NoPlan
           /\ rows[j] = "full"
           /\ jobs[j].preview_ready => Previewed(jobs[j])

\* A purged job is over: its payload is gone, it cannot be confirmed, it is not
\* in the queue and nobody works on it.  A request that was waiting for the row
\* does not revive it.
PurgedIsOver ==
    \A j \in Jobs : jobs[j].purged =>
        /\ j \notin files
        /\ rows[j] = "none"
        /\ jobs[j].preview = NoPlan
        /\ ~jobs[j].preview_ready
        /\ jobs[j].status \notin Active
        /\ \A w \in Workers : 
              pc[w] \in Working \cup {"failing"} => task[w].job # j

\* A job changes the catalogue at most once, and the row says "applied" exactly
\* when the catalogue has the writes: after crashes, retries and double clicks.
AppliedOnce ==
    \A j \in Jobs :
        /\ \A a, b \in applied : a[1] = j /\ b[1] = j => a = b
        /\ Exists(j) =>
              ((\E a \in applied : a[1] = j)
                 <=> (jobs[j].status = "completed" /\ jobs[j].phase = "apply"))

\* An import is applied to the very catalogue its preview was computed on, by
\* the worker that owns the job, for an account that is valid at the moment of
\* the commit.
AppliesPreviewedPlan ==
    \A a \in applied' \ applied :
        /\ a[2] = catalogue
        /\ jobs[a[1]].preview = a[2]
        /\ a[1] \in authorised

AppliesOnlyPreviewedPlans == [][AppliesPreviewedPlan]_vars

\* A retry discards the confirmation: a job enters the queue for application
\* only with the preview that an operator had on the screen.
ConfirmsShownPlan ==
    \A j \in Jobs :
        jobs'[j].phase = "apply" /\ jobs[j].phase = "preview" =>
            \E o \in Operators : /\ screen[o].job = j
                                 /\ screen[o].stage = "sent"
                                 /\ screen[o].fingerprint = jobs'[j].preview

ConfirmsWhatIsShown == [][ConfirmsShownPlan]_vars

\* The plan a job is allowed to carry out: confirmed, and not yet settled.
Approved(j) ==
    IF jobs[j].phase = "apply" /\ jobs[j].status \in Active
    THEN jobs[j].preview ELSE NoPlan

Promise == INSTANCE ConfirmedImport
              WITH Imports <- Jobs, approved <- [j \in Jobs |-> Approved(j)]

\* The queue keeps the promise of ConfirmedImport: with workers that crash at
\* any step, operators who click twice and cleanup in between, the catalogue
\* only ever sees a confirmed plan carried out whole, on the catalogue it was
\* computed on, and once.
KeepsPromise == Promise!Spec

\* Every job that is queued or running comes to rest, whatever the operators
\* do and whichever worker crashes: the queue starves nobody.
JobsComeToRest ==
    \A j \in Jobs : jobs[j].status \in Active ~> jobs[j].status \notin Active

\* The payload of an expired job is eventually purged.
ExpiredIsPurged ==
    \A j \in Jobs : Exists(j) /\ jobs[j].expired ~> jobs[j].purged

=============================================================================
