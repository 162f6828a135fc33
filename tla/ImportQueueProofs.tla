-------------------------- MODULE ImportQueueProofs --------------------------
(***************************************************************************)
(* Proofs about ImportQueue for any number of jobs, workers and operators. *)
(*                                                                         *)
(* None of the properties is inductive by itself.  The invariant IInv says *)
(* who holds which lock in which state, what a worker may rely on while it *)
(* holds them, what a row may look like, and how rows and ledger agree.    *)
(* One lemma per part of IInv shows that every action preserves it.        *)
(***************************************************************************)
EXTENDS ImportQueue, TLAPS

\* Between the claim and the settled row.
Running == Working \cup {"failing"}

\* A listed job has a row, or had one; a worker that is past the try-lock
\* holds the session lock of its job.
LockInv ==
    \A w \in Workers :
        /\ \A j \in todo[w] : jobs[j].status # "absent"
        /\ pc[w] \in Holding => /\ task[w].job \in Jobs
                                /\ locks[task[w].job] = w
        /\ pc[w] = "purging" => /\ task[w].job \notin files
                                /\ jobs[task[w].job].status # "absent"

\* The products lock is held exactly during the main transaction.
ProductsInv ==
    \A w \in Workers : products = w <=> pc[w] \in {"locked", "planned"}

\* What the worker read is still so, and what it staged is still there.
TaskInv ==
    \A w \in Workers :
        /\ pc[w] \in Running => LET row == jobs[task[w].job] IN
              /\ row.status = "running"
              /\ ~row.purged
              /\ row.phase = task[w].phase
              /\ row.preview = task[w].preview
        /\ pc[w] \in {"staged", "locked", "planned"} =>
              rows[task[w].job] = "full"
        /\ pc[w] \in {"staging", "staged"} => task[w].phase = "preview"
        /\ pc[w] = "planned" => /\ task[w].plan = catalogue
                                /\ task[w].job \in authorised
                                /\ task[w].phase = "apply" =>
                                      task[w].preview = catalogue

\* Rows that may be confirmed or applied need their backing.
NeedsBacking(row) ==
    \/ row.preview_ready
    \/ row.status \in Active /\ row.phase = "apply"

RowInv ==
    \A j \in Jobs :
        /\ jobs[j].cancel_requested => jobs[j].status # "completed"
        /\ jobs[j].preview_ready => Previewed(jobs[j])
        /\ NeedsBacking(jobs[j]) =>
              jobs[j].preview # NoPlan /\ rows[j] = "full"
        /\ jobs[j].preview # NoPlan => jobs[j].preview <= catalogue
        /\ jobs[j].status = "deleted" => jobs[j].purged
        /\ jobs[j].purged => /\ j \notin files
                             /\ rows[j] = "none"
                             /\ jobs[j].preview = NoPlan
                             /\ jobs[j].status \notin Active

IsApplied(j) == \E a \in applied : a[1] = j

LedgerInv ==
    /\ \A a, b \in applied : a[1] = b[1] => a = b
    /\ \A j \in Jobs :
        /\ IsApplied(j) => \/ jobs[j].status = "deleted"
                           \/ jobs[j].status = "completed" /\ jobs[j].phase = "apply"
        /\ jobs[j].status = "completed" /\ jobs[j].phase = "apply" => IsApplied(j)

\* A page is open before a button is pressed on it.
ScreenInv ==
    \A o \in Operators : screen[o].stage # "closed" => screen[o].job \in Jobs

IInv ==
    /\ TypeOK
    /\ ScreenInv
    /\ LockInv
    /\ ProductsInv
    /\ TaskInv
    /\ RowInv
    /\ LedgerInv

------------------------------------------------------------------------------
(* The initial states                                                      *)

LEMMA NewRowType == NewRow \in Row
  BY ImportQueueAssumption DEF NewRow, Row, Status, Phase, Plans

LEMMA NoTaskType == NoTask \in Task
  BY DEF NoTask, Task, NoJob, Phase, Plans

LEMMA InitInv == Init => IInv
  <1> SUFFICES ASSUME Init PROVE IInv
    OBVIOUS
  <1> USE DEF Init
  <1>1. TypeOK
    <2>1. [NewRow EXCEPT !.status = "absent"] \in Row
      BY NewRowType DEF Row, Status
    <2>2. screen \in [Operators -> Screen]
      BY DEF Screen, NoJob, Plans
    <2>3. QED
      BY <2>1, <2>2, NoTaskType DEF TypeOK, WorkerState
  <1>0. ScreenInv
    BY DEF ScreenInv
  <1>2. LockInv
    BY DEF Holding, Working, LockInv
  <1>3. ProductsInv
    BY ImportQueueAssumption DEF ProductsInv
  <1>4. TaskInv
    BY DEF TaskInv, Running, Working
  <1>5. RowInv
    BY DEF RowInv, NeedsBacking, Previewed, NewRow, Active
  <1>6. LedgerInv
    <2>1. \A j \in Jobs : jobs[j].status = "absent"
      BY ImportQueueAssumption DEF NewRow, Row, Status, Phase, Plans
    <2>2. QED
      BY <2>1 DEF LedgerInv, IsApplied
  <1>7. QED
    BY <1>1, <1>0, <1>2, <1>3, <1>4, <1>5, <1>6 DEF IInv

------------------------------------------------------------------------------
(* Types                                                                   *)

\* The edits of a row that the actions make.
LEMMA RowEdits ==
    ASSUME NEW row \in Row
    PROVE  /\ \A s \in Status : [row EXCEPT !.status = s] \in Row
           /\ [row EXCEPT !.expired = TRUE] \in Row
           /\ [row EXCEPT !.status = "failed", !.preview_ready = FALSE] \in Row
           /\ Restarted(row) \in Row
           /\ PurgedRow(row) \in Row
  BY DEF Row, Status, Phase, Plans, Active, Restarted, PurgedRow

\* A transaction of control ends with a row of the right type.
LEMMA AnswerType ==
    ASSUME TypeOK, NEW o \in Operators, NEW row \in Row, Answer(o, row)
    PROVE  TypeOK'
  <1>0. [screen[o] EXCEPT !.stage = "page", !.live = FALSE] \in Screen
    BY DEF TypeOK, Screen
  <1>1. screen' \in [Operators -> Screen]
    BY <1>0 DEF Answer, TypeOK
  <1>2. jobs' \in [Jobs -> Row]
    BY DEF Answer, TypeOK
  <1>3. QED
    BY <1>1, <1>2 DEF Answer, TypeOK, ledger, worker

LEMMA FinishType ==
    ASSUME IInv, NEW w \in Workers, Finish(w)
    PROVE  /\ jobs' \in [Jobs -> Row]
           /\ pc' \in [Workers -> WorkerState]
           /\ products' \in Workers \cup {NoWorker}
           /\ UNCHANGED <<files, rows, outside, todo, task, locks>>
  <1> DEFINE row == jobs[task[w].job]
  <1>1. row \in Row /\ task[w] \in Task
    BY DEF IInv, TypeOK, LockInv, Finish, Goto, Holding, Working
  <1>2. [row EXCEPT !.status = "completed",
            !.preview_ready = (task[w].phase = "preview"),
            !.preview = task[w].plan] \in Row
    BY <1>1 DEF Row, Status, Task
  <1>3. jobs' \in [Jobs -> Row]
    BY <1>2 DEF Finish, IInv, TypeOK
  <1>4. QED
    BY <1>3 DEF Finish, Goto, ReleaseProducts, WorkerState, Holding, IInv, TypeOK

LEMMA TypeNext == IInv /\ Next => TypeOK'
  <1> SUFFICES ASSUME IInv, Next PROVE TypeOK'
    OBVIOUS
  <1> USE ImportQueueAssumption DEF IInv, TypeOK, store, ledger, outside, worker, Goto, Active, Working, Holding
  <1>1. ASSUME NEW j \in Jobs, Submit(j) PROVE TypeOK'
    BY <1>1, NewRowType DEF Submit
  <1>2. ASSUME NEW j \in Jobs, Expire(j) PROVE TypeOK'
    BY <1>2, RowEdits DEF Expire
  <1>3. ASSUME NEW j \in Jobs, Revoke(j) PROVE TypeOK'
    BY <1>3 DEF Revoke
  <1>4. ASSUME NEW o \in Operators, NEW j \in Jobs, Open(o, j) PROVE TypeOK'
    <2>1. screen' \in [Operators -> Screen]
      BY <1>4 DEF Open, Screen, Row
    <2>2. QED
      BY <1>4, <2>1 DEF Open
  <1>5. ASSUME NEW o \in Operators, Send(o) PROVE TypeOK'
    <2>1. \A b \in BOOLEAN :
              [screen[o] EXCEPT !.stage = "sent", !.live = b] \in Screen
      BY DEF Screen
    <2>2. (~jobs[screen[o].job].expired) \in BOOLEAN
      BY <1>5 DEF Send, ScreenInv, Row
    <2>3. screen' \in [Operators -> Screen]
      BY <1>5, <2>1, <2>2 DEF Send
    <2>4. QED
      BY <1>5, <2>3 DEF Send
  <1>6. ASSUME NEW o \in Operators, Refuse(o) PROVE TypeOK'
    <2>1. jobs[screen[o].job] \in Row
      BY <1>6 DEF Refuse, Answer, ScreenInv
    <2>2. QED
      BY <1>6, <2>1, AnswerType DEF Refuse
  <1>7. ASSUME NEW o \in Operators, Cancel(o) PROVE TypeOK'
    <2> DEFINE row == jobs[screen[o].job]
    <2>1. row \in Row
      BY <1>7 DEF Cancel, Answer, ScreenInv
    <2>2. [row EXCEPT !.cancel_requested = TRUE,
              !.status = IF @ = "queued" THEN "cancelled" ELSE @] \in Row
      BY <2>1 DEF Row, Status
    <2>3. QED
      BY <1>7, <2>2, AnswerType DEF Cancel
  <1>8. ASSUME NEW o \in Operators, Confirm(o) PROVE TypeOK'
    <2> DEFINE row == jobs[screen[o].job]
    <2>1. row \in Row
      BY <1>8 DEF Confirm, Answer, ScreenInv
    <2>2. [row EXCEPT !.status = "queued", !.phase = "apply",
              !.preview_ready = FALSE] \in Row
      BY <2>1 DEF Row, Status, Phase
    <2>3. QED
      BY <1>8, <2>2, AnswerType DEF Confirm
  <1>9. ASSUME NEW o \in Operators, Retry(o) PROVE TypeOK'
    <2>1. Restarted(jobs[screen[o].job]) \in Row
      BY <1>9, RowEdits DEF Retry, Answer, ScreenInv
    <2>2. QED
      BY <1>9, <2>1, AnswerType DEF Retry
  <1>10. ASSUME NEW w \in Workers, StartCleanup(w) PROVE TypeOK'
    BY <1>10 DEF StartCleanup, Retained, Exists, WorkerState
  <1>11. ASSUME NEW w \in Workers, NEW j \in todo[w], SkipLocked(w, j) PROVE TypeOK'
    BY <1>11 DEF SkipLocked, Unlocked
  <1>12. ASSUME NEW w \in Workers, NEW j \in todo[w], Unlink(w, j) PROVE TypeOK'
    <2>1. task' \in [Workers -> Task]
      BY <1>12 DEF Unlink, Task
    <2>2. QED
      BY <1>12, <2>1 DEF Unlink, WorkerState
  <1>13. ASSUME NEW w \in Workers, Purge(w) PROVE TypeOK'
    BY <1>13, RowEdits, NoTaskType DEF Purge, Unlock, WorkerState
  <1>14. ASSUME NEW w \in Workers, DropAudit(w) PROVE TypeOK'
    <2>1. \A j \in Jobs : [jobs[j] EXCEPT !.status = "deleted"] \in Row
      BY RowEdits DEF Status
    <2>2. QED
      BY <1>14, <2>1 DEF DropAudit, WorkerState
  <1>15. ASSUME NEW w \in Workers, List(w) PROVE TypeOK'
    BY <1>15 DEF List, Unsettled, WorkerState
  <1>16. ASSUME NEW w \in Workers, NEW j \in todo[w], SkipSettled(w, j) PROVE TypeOK'
    BY <1>16 DEF SkipSettled, Visited
  <1>17. ASSUME NEW w \in Workers, NEW j \in todo[w], Recover(w, j) PROVE TypeOK'
    BY <1>17, RowEdits DEF Recover, Visited
  <1>18. ASSUME NEW w \in Workers, NEW j \in todo[w], Discard(w, j) PROVE TypeOK'
    BY <1>18, RowEdits DEF Discard, Visited, Status
  <1>19. ASSUME NEW w \in Workers, NEW j \in todo[w], RowVanished(w, j) PROVE TypeOK'
    BY <1>19 DEF RowVanished, Visits, Unlocked, WorkerState
  <1>20. ASSUME NEW w \in Workers, NEW j \in todo[w], Claim(w, j) PROVE TypeOK'
    <2>1. [jobs[j] EXCEPT !.status = "running", !.attempts = @ + 1] \in Row
      BY <1>20 DEF Claim, Hopeless, Row, Status
    <2>2. [job |-> j, phase |-> jobs[j].phase, preview |-> jobs[j].preview,
           plan |-> NoPlan] \in Task
      BY DEF Row, Task, Plans
    <2>3. jobs' \in [Jobs -> Row]
      BY <1>20, <2>1 DEF Claim
    <2>4. task' \in [Workers -> Task]
      BY <1>20, <2>2 DEF Claim
    <2>5. QED
      BY <1>20, <2>3, <2>4 DEF Claim, WorkerState
  <1>21. ASSUME NEW w \in Workers, Drain(w) PROVE TypeOK'
    BY <1>21 DEF Drain, WorkerState
  <1>22. ASSUME NEW w \in Workers, Stage(w) PROVE TypeOK'
    BY <1>22 DEF Stage, WorkerState
  <1>23. ASSUME NEW w \in Workers, Load(w) PROVE TypeOK'
    BY <1>23 DEF Load, WorkerState
  <1>24. ASSUME NEW w \in Workers, LockProducts(w) PROVE TypeOK'
    BY <1>24 DEF LockProducts, ProductsFree, WorkerState
  <1>25. ASSUME NEW w \in Workers, MakePlan(w) PROVE TypeOK'
    <2>1. task' \in [Workers -> Task]
      BY <1>25 DEF MakePlan, Task, Plans
    <2>2. QED
      BY <1>25, <2>1 DEF MakePlan, WorkerState
  <1>26. ASSUME NEW w \in Workers, FinishPreview(w) PROVE TypeOK'
    BY <1>26, FinishType DEF FinishPreview
  <1>27. ASSUME NEW w \in Workers, FinishApply(w) PROVE TypeOK'
    <2>1. task[w].job \in Jobs /\ task[w].plan \in Nat
      BY <1>27 DEF FinishApply, Finish, LockInv, TaskInv
    <2>2. QED
      BY <1>27, <2>1, FinishType DEF FinishApply
  <1>28. ASSUME NEW w \in Workers, Fail(w) PROVE TypeOK'
    BY <1>28 DEF Fail, ReleaseProducts, WorkerState
  <1>29. ASSUME NEW w \in Workers, Settle(w) PROVE TypeOK'
    <2> DEFINE row == jobs[task[w].job]
    <2>1. row \in Row
      BY <1>29 DEF Settle, LockInv
    <2>2. [row EXCEPT !.preview_ready = FALSE,
              !.status = IF row.cancel_requested
                         THEN "cancelled" ELSE "failed"] \in Row
      BY <2>1 DEF Row, Status
    <2>3. QED
      BY <1>29, <2>2 DEF Settle, WorkerState
  <1>30. ASSUME NEW w \in Workers, SettleFails(w) PROVE TypeOK'
    BY <1>30 DEF SettleFails, WorkerState
  <1>31. ASSUME NEW w \in Workers, Close(w) PROVE TypeOK'
    BY <1>31, NoTaskType DEF Close, Unlock, WorkerState
  <1>32. ASSUME NEW w \in Workers, Crash(w) PROVE TypeOK'
    BY <1>32, NoTaskType DEF Crash, ReleaseProducts, WorkerState
  <1>33. ASSUME WriteCatalogue PROVE TypeOK'
    BY <1>33 DEF WriteCatalogue, ProductsFree
  <1> QED
    BY <1>1, <1>2, <1>3, <1>4, <1>5, <1>6, <1>7, <1>8, <1>9, <1>10, <1>11, <1>12, <1>13, <1>14, <1>15, <1>16, <1>17, <1>18, <1>19, <1>20, <1>21, <1>22, <1>23, <1>24, <1>25, <1>26, <1>27, <1>28, <1>29, <1>30, <1>31, <1>32, <1>33 DEF Next, Request, WorkerStep, Visit, TypeOK

------------------------------------------------------------------------------
(* Locks                                                                   *)

LEMMA ScreenNext == IInv /\ Next => ScreenInv'
  <1> SUFFICES ASSUME IInv, Next PROVE ScreenInv'
    OBVIOUS
  <1> USE ImportQueueAssumption DEF IInv, TypeOK, ScreenInv, store, ledger, outside, worker, Goto, Active, Working, Holding
  <1>1. ASSUME NEW j \in Jobs, Submit(j) PROVE ScreenInv'
    BY <1>1 DEF Submit, Retained, Exists, NewRow
  <1>2. ASSUME NEW j \in Jobs, Expire(j) PROVE ScreenInv'
    BY <1>2 DEF Expire, Exists
  <1>3. ASSUME NEW j \in Jobs, Revoke(j) PROVE ScreenInv'
    BY <1>3 DEF Revoke
  <1>4. ASSUME NEW o \in Operators, NEW j \in Jobs, Open(o, j) PROVE ScreenInv'
    BY <1>4 DEF Open, Exists
  <1>5. ASSUME NEW o \in Operators, Send(o) PROVE ScreenInv'
    BY <1>5 DEF Send
  <1>6. ASSUME NEW o \in Operators, Refuse(o) PROVE ScreenInv'
    BY <1>6 DEF Refuse, Answer
  <1>7. ASSUME NEW o \in Operators, Cancel(o) PROVE ScreenInv'
    BY <1>7 DEF Cancel, Answer
  <1>8. ASSUME NEW o \in Operators, Confirm(o) PROVE ScreenInv'
    BY <1>8 DEF Confirm, Answer, Usable, Previewed, Shown
  <1>9. ASSUME NEW o \in Operators, Retry(o) PROVE ScreenInv'
    BY <1>9 DEF Retry, Answer, Restarted, Usable, Retryable
  <1>10. ASSUME NEW w \in Workers, StartCleanup(w) PROVE ScreenInv'
    BY <1>10 DEF StartCleanup, Retained, Exists
  <1>11. ASSUME NEW w \in Workers, NEW j \in todo[w], SkipLocked(w, j) PROVE ScreenInv'
    BY <1>11 DEF SkipLocked, Unlocked
  <1>12. ASSUME NEW w \in Workers, NEW j \in todo[w], Unlink(w, j) PROVE ScreenInv'
    BY <1>12 DEF Unlink, Unlocked
  <1>13. ASSUME NEW w \in Workers, Purge(w) PROVE ScreenInv'
    BY <1>13 DEF Purge, PurgedRow, Unlock, NoTask
  <1>14. ASSUME NEW w \in Workers, DropAudit(w) PROVE ScreenInv'
    BY <1>14 DEF DropAudit, Exists
  <1>15. ASSUME NEW w \in Workers, List(w) PROVE ScreenInv'
    BY <1>15 DEF List, Unsettled
  <1>16. ASSUME NEW w \in Workers, NEW j \in todo[w], SkipSettled(w, j) PROVE ScreenInv'
    BY <1>16 DEF SkipSettled, Exists, Visited, Visits, Unlocked
  <1>17. ASSUME NEW w \in Workers, NEW j \in todo[w], Recover(w, j) PROVE ScreenInv'
    BY <1>17 DEF Recover, Visited, Visits, Unlocked
  <1>18. ASSUME NEW w \in Workers, NEW j \in todo[w], Discard(w, j) PROVE ScreenInv'
    BY <1>18 DEF Discard, Hopeless, Visited, Visits, Unlocked
  <1>19. ASSUME NEW w \in Workers, NEW j \in todo[w], RowVanished(w, j) PROVE ScreenInv'
    BY <1>19 DEF RowVanished, Visits, Unlocked
  <1>20. ASSUME NEW w \in Workers, NEW j \in todo[w], Claim(w, j) PROVE ScreenInv'
    BY <1>20 DEF Claim, Visits, Unlocked, Hopeless
  <1>21. ASSUME NEW w \in Workers, Drain(w) PROVE ScreenInv'
    BY <1>21 DEF Drain
  <1>22. ASSUME NEW w \in Workers, Stage(w) PROVE ScreenInv'
    BY <1>22 DEF Stage
  <1>23. ASSUME NEW w \in Workers, Load(w) PROVE ScreenInv'
    BY <1>23 DEF Load
  <1>24. ASSUME NEW w \in Workers, LockProducts(w) PROVE ScreenInv'
    BY <1>24 DEF LockProducts, ProductsFree
  <1>25. ASSUME NEW w \in Workers, MakePlan(w) PROVE ScreenInv'
    BY <1>25 DEF MakePlan, PlanStands
  <1>26. ASSUME NEW w \in Workers, FinishPreview(w) PROVE ScreenInv'
    BY <1>26 DEF FinishPreview, Finish, CommitGate, ReleaseProducts
  <1>27. ASSUME NEW w \in Workers, FinishApply(w) PROVE ScreenInv'
    BY <1>27 DEF FinishApply, Finish, CommitGate, ReleaseProducts
  <1>28. ASSUME NEW w \in Workers, Fail(w) PROVE ScreenInv'
    BY <1>28 DEF Fail, ReleaseProducts
  <1>29. ASSUME NEW w \in Workers, Settle(w) PROVE ScreenInv'
    BY <1>29 DEF Settle
  <1>30. ASSUME NEW w \in Workers, SettleFails(w) PROVE ScreenInv'
    BY <1>30 DEF SettleFails
  <1>31. ASSUME NEW w \in Workers, Close(w) PROVE ScreenInv'
    BY <1>31 DEF Close, Unlock, NoTask
  <1>32. ASSUME NEW w \in Workers, Crash(w) PROVE ScreenInv'
    BY <1>32 DEF Crash, ReleaseProducts, NoTask
  <1>33. ASSUME WriteCatalogue PROVE ScreenInv'
    BY <1>33 DEF WriteCatalogue, ProductsFree
  <1> QED
    BY <1>1, <1>2, <1>3, <1>4, <1>5, <1>6, <1>7, <1>8, <1>9, <1>10, <1>11, <1>12, <1>13, <1>14, <1>15, <1>16, <1>17, <1>18, <1>19, <1>20, <1>21, <1>22, <1>23, <1>24, <1>25, <1>26, <1>27, <1>28, <1>29, <1>30, <1>31, <1>32, <1>33 DEF Next, Request, WorkerStep, Visit, TypeOK

LEMMA LockNext == IInv /\ Next => LockInv'
  <1> SUFFICES ASSUME IInv, Next PROVE LockInv'
    OBVIOUS
  <1> USE ImportQueueAssumption DEF IInv, TypeOK, LockInv, store, ledger, outside, worker, Goto, Active, Working, Holding
  <1>1. ASSUME NEW j \in Jobs, Submit(j) PROVE LockInv'
    BY <1>1 DEF Submit, Retained, Exists, NewRow
  <1>2. ASSUME NEW j \in Jobs, Expire(j) PROVE LockInv'
    BY <1>2 DEF Expire, Exists
  <1>3. ASSUME NEW j \in Jobs, Revoke(j) PROVE LockInv'
    BY <1>3 DEF Revoke
  <1>4. ASSUME NEW o \in Operators, NEW j \in Jobs, Open(o, j) PROVE LockInv'
    BY <1>4 DEF Open, Exists
  <1>5. ASSUME NEW o \in Operators, Send(o) PROVE LockInv'
    BY <1>5 DEF Send
  <1>6. ASSUME NEW o \in Operators, Refuse(o) PROVE LockInv'
    BY <1>6 DEF Refuse, Answer
  <1>7. ASSUME NEW o \in Operators, Cancel(o) PROVE LockInv'
    BY <1>7 DEF Cancel, Answer
  <1>8. ASSUME NEW o \in Operators, Confirm(o) PROVE LockInv'
    BY <1>8 DEF Confirm, Answer, Usable, Previewed, Shown
  <1>9. ASSUME NEW o \in Operators, Retry(o) PROVE LockInv'
    BY <1>9 DEF Retry, Answer, Restarted, Usable, Retryable
  <1>10. ASSUME NEW w \in Workers, StartCleanup(w) PROVE LockInv'
    BY <1>10 DEF StartCleanup, Retained, Exists
  <1>11. ASSUME NEW w \in Workers, NEW j \in todo[w], SkipLocked(w, j) PROVE LockInv'
    BY <1>11 DEF SkipLocked, Unlocked
  <1>12. ASSUME NEW w \in Workers, NEW j \in todo[w], Unlink(w, j) PROVE LockInv'
    <2>1. task'[w].job = j
      BY <1>12 DEF Unlink, Task
    <2>2. \A v \in Workers \ {w} : task'[v] = task[v] /\ pc'[v] = pc[v]
      BY <1>12 DEF Unlink
    <2>3. \A v \in Workers \ {w} : pc[v] \in Holding => task[v].job # j
      BY <1>12 DEF Unlink, Unlocked
    <2>4. locks' = [locks EXCEPT ![j] = w] /\ files' = files \ {j}
      BY <1>12 DEF Unlink
    <2>5. pc'[w] = "purging" /\ j \in Jobs /\ j \in todo[w] /\ jobs' = jobs
      BY <1>12 DEF Unlink
    <2>6. \A v \in Workers : todo'[v] \subseteq todo[v]
      BY <1>12 DEF Unlink
    <2>7. QED
      BY <2>1, <2>2, <2>3, <2>4, <2>5, <2>6
  <1>13. ASSUME NEW w \in Workers, Purge(w) PROVE LockInv'
    BY <1>13 DEF Purge, PurgedRow, Unlock, NoTask
  <1>14. ASSUME NEW w \in Workers, DropAudit(w) PROVE LockInv'
    BY <1>14 DEF DropAudit, Exists
  <1>15. ASSUME NEW w \in Workers, List(w) PROVE LockInv'
    BY <1>15 DEF List, Unsettled
  <1>16. ASSUME NEW w \in Workers, NEW j \in todo[w], SkipSettled(w, j) PROVE LockInv'
    BY <1>16 DEF SkipSettled, Exists, Visited, Visits, Unlocked
  <1>17. ASSUME NEW w \in Workers, NEW j \in todo[w], Recover(w, j) PROVE LockInv'
    BY <1>17 DEF Recover, Visited, Visits, Unlocked
  <1>18. ASSUME NEW w \in Workers, NEW j \in todo[w], Discard(w, j) PROVE LockInv'
    BY <1>18 DEF Discard, Hopeless, Visited, Visits, Unlocked
  <1>19. ASSUME NEW w \in Workers, NEW j \in todo[w], RowVanished(w, j) PROVE LockInv'
    BY <1>19 DEF RowVanished, Visits, Unlocked
  <1>20. ASSUME NEW w \in Workers, NEW j \in todo[w], Claim(w, j) PROVE LockInv'
    BY <1>20 DEF Claim, Visits, Unlocked, Hopeless
  <1>21. ASSUME NEW w \in Workers, Drain(w) PROVE LockInv'
    BY <1>21 DEF Drain
  <1>22. ASSUME NEW w \in Workers, Stage(w) PROVE LockInv'
    BY <1>22 DEF Stage
  <1>23. ASSUME NEW w \in Workers, Load(w) PROVE LockInv'
    BY <1>23 DEF Load
  <1>24. ASSUME NEW w \in Workers, LockProducts(w) PROVE LockInv'
    BY <1>24 DEF LockProducts, ProductsFree
  <1>25. ASSUME NEW w \in Workers, MakePlan(w) PROVE LockInv'
    BY <1>25 DEF MakePlan, PlanStands
  <1>26. ASSUME NEW w \in Workers, FinishPreview(w) PROVE LockInv'
    BY <1>26 DEF FinishPreview, Finish, CommitGate, ReleaseProducts
  <1>27. ASSUME NEW w \in Workers, FinishApply(w) PROVE LockInv'
    BY <1>27 DEF FinishApply, Finish, CommitGate, ReleaseProducts
  <1>28. ASSUME NEW w \in Workers, Fail(w) PROVE LockInv'
    BY <1>28 DEF Fail, ReleaseProducts
  <1>29. ASSUME NEW w \in Workers, Settle(w) PROVE LockInv'
    BY <1>29 DEF Settle
  <1>30. ASSUME NEW w \in Workers, SettleFails(w) PROVE LockInv'
    BY <1>30 DEF SettleFails
  <1>31. ASSUME NEW w \in Workers, Close(w) PROVE LockInv'
    BY <1>31 DEF Close, Unlock, NoTask
  <1>32. ASSUME NEW w \in Workers, Crash(w) PROVE LockInv'
    BY <1>32 DEF Crash, ReleaseProducts, NoTask
  <1>33. ASSUME WriteCatalogue PROVE LockInv'
    BY <1>33 DEF WriteCatalogue, ProductsFree
  <1> QED
    BY <1>1, <1>2, <1>3, <1>4, <1>5, <1>6, <1>7, <1>8, <1>9, <1>10, <1>11, <1>12, <1>13, <1>14, <1>15, <1>16, <1>17, <1>18, <1>19, <1>20, <1>21, <1>22, <1>23, <1>24, <1>25, <1>26, <1>27, <1>28, <1>29, <1>30, <1>31, <1>32, <1>33 DEF Next, Request, WorkerStep, Visit, TypeOK

LEMMA ProductsNext == IInv /\ Next => ProductsInv'
  <1> SUFFICES ASSUME IInv, Next PROVE ProductsInv'
    OBVIOUS
  <1> USE ImportQueueAssumption DEF IInv, TypeOK, ProductsInv, store, ledger, outside, worker, Goto, Active, Working, Holding
  <1>1. ASSUME NEW j \in Jobs, Submit(j) PROVE ProductsInv'
    BY <1>1 DEF Submit, Retained, Exists, NewRow
  <1>2. ASSUME NEW j \in Jobs, Expire(j) PROVE ProductsInv'
    BY <1>2 DEF Expire, Exists
  <1>3. ASSUME NEW j \in Jobs, Revoke(j) PROVE ProductsInv'
    BY <1>3 DEF Revoke
  <1>4. ASSUME NEW o \in Operators, NEW j \in Jobs, Open(o, j) PROVE ProductsInv'
    BY <1>4 DEF Open, Exists
  <1>5. ASSUME NEW o \in Operators, Send(o) PROVE ProductsInv'
    BY <1>5 DEF Send
  <1>6. ASSUME NEW o \in Operators, Refuse(o) PROVE ProductsInv'
    BY <1>6 DEF Refuse, Answer
  <1>7. ASSUME NEW o \in Operators, Cancel(o) PROVE ProductsInv'
    BY <1>7 DEF Cancel, Answer
  <1>8. ASSUME NEW o \in Operators, Confirm(o) PROVE ProductsInv'
    BY <1>8 DEF Confirm, Answer, Usable, Previewed, Shown
  <1>9. ASSUME NEW o \in Operators, Retry(o) PROVE ProductsInv'
    BY <1>9 DEF Retry, Answer, Restarted, Usable, Retryable
  <1>10. ASSUME NEW w \in Workers, StartCleanup(w) PROVE ProductsInv'
    BY <1>10 DEF StartCleanup, Retained, Exists
  <1>11. ASSUME NEW w \in Workers, NEW j \in todo[w], SkipLocked(w, j) PROVE ProductsInv'
    BY <1>11 DEF SkipLocked, Unlocked
  <1>12. ASSUME NEW w \in Workers, NEW j \in todo[w], Unlink(w, j) PROVE ProductsInv'
    BY <1>12 DEF Unlink, Unlocked
  <1>13. ASSUME NEW w \in Workers, Purge(w) PROVE ProductsInv'
    BY <1>13 DEF Purge, PurgedRow, Unlock, NoTask
  <1>14. ASSUME NEW w \in Workers, DropAudit(w) PROVE ProductsInv'
    BY <1>14 DEF DropAudit, Exists
  <1>15. ASSUME NEW w \in Workers, List(w) PROVE ProductsInv'
    BY <1>15 DEF List, Unsettled
  <1>16. ASSUME NEW w \in Workers, NEW j \in todo[w], SkipSettled(w, j) PROVE ProductsInv'
    BY <1>16 DEF SkipSettled, Exists, Visited, Visits, Unlocked
  <1>17. ASSUME NEW w \in Workers, NEW j \in todo[w], Recover(w, j) PROVE ProductsInv'
    BY <1>17 DEF Recover, Visited, Visits, Unlocked
  <1>18. ASSUME NEW w \in Workers, NEW j \in todo[w], Discard(w, j) PROVE ProductsInv'
    BY <1>18 DEF Discard, Hopeless, Visited, Visits, Unlocked
  <1>19. ASSUME NEW w \in Workers, NEW j \in todo[w], RowVanished(w, j) PROVE ProductsInv'
    BY <1>19 DEF RowVanished, Visits, Unlocked
  <1>20. ASSUME NEW w \in Workers, NEW j \in todo[w], Claim(w, j) PROVE ProductsInv'
    BY <1>20 DEF Claim, Visits, Unlocked, Hopeless
  <1>21. ASSUME NEW w \in Workers, Drain(w) PROVE ProductsInv'
    BY <1>21 DEF Drain
  <1>22. ASSUME NEW w \in Workers, Stage(w) PROVE ProductsInv'
    BY <1>22 DEF Stage
  <1>23. ASSUME NEW w \in Workers, Load(w) PROVE ProductsInv'
    BY <1>23 DEF Load
  <1>24. ASSUME NEW w \in Workers, LockProducts(w) PROVE ProductsInv'
    BY <1>24 DEF LockProducts, ProductsFree
  <1>25. ASSUME NEW w \in Workers, MakePlan(w) PROVE ProductsInv'
    BY <1>25 DEF MakePlan, PlanStands
  <1>26. ASSUME NEW w \in Workers, FinishPreview(w) PROVE ProductsInv'
    BY <1>26 DEF FinishPreview, Finish, CommitGate, ReleaseProducts
  <1>27. ASSUME NEW w \in Workers, FinishApply(w) PROVE ProductsInv'
    BY <1>27 DEF FinishApply, Finish, CommitGate, ReleaseProducts
  <1>28. ASSUME NEW w \in Workers, Fail(w) PROVE ProductsInv'
    BY <1>28 DEF Fail, ReleaseProducts
  <1>29. ASSUME NEW w \in Workers, Settle(w) PROVE ProductsInv'
    BY <1>29 DEF Settle
  <1>30. ASSUME NEW w \in Workers, SettleFails(w) PROVE ProductsInv'
    BY <1>30 DEF SettleFails
  <1>31. ASSUME NEW w \in Workers, Close(w) PROVE ProductsInv'
    BY <1>31 DEF Close, Unlock, NoTask
  <1>32. ASSUME NEW w \in Workers, Crash(w) PROVE ProductsInv'
    BY <1>32 DEF Crash, ReleaseProducts, NoTask
  <1>33. ASSUME WriteCatalogue PROVE ProductsInv'
    BY <1>33 DEF WriteCatalogue, ProductsFree
  <1> QED
    BY <1>1, <1>2, <1>3, <1>4, <1>5, <1>6, <1>7, <1>8, <1>9, <1>10, <1>11, <1>12, <1>13, <1>14, <1>15, <1>16, <1>17, <1>18, <1>19, <1>20, <1>21, <1>22, <1>23, <1>24, <1>25, <1>26, <1>27, <1>28, <1>29, <1>30, <1>31, <1>32, <1>33 DEF Next, Request, WorkerStep, Visit, TypeOK

------------------------------------------------------------------------------
(* The worker and its job                                                  *)

LEMMA TaskNext == IInv /\ Next => TaskInv'
  <1> SUFFICES ASSUME IInv, Next PROVE TaskInv'
    OBVIOUS
  <1> USE ImportQueueAssumption DEF IInv, TypeOK, ScreenInv, ProductsInv, LockInv, RowInv, TaskInv, Running, store, ledger, outside, worker, Goto, Active, Working, Holding
  <1>1. ASSUME NEW j \in Jobs, Submit(j) PROVE TaskInv'
    BY <1>1 DEF Submit, Retained, Exists, NewRow
  <1>2. ASSUME NEW j \in Jobs, Expire(j) PROVE TaskInv'
    BY <1>2 DEF Expire, Exists
  <1>3. ASSUME NEW j \in Jobs, Revoke(j) PROVE TaskInv'
    BY <1>3 DEF Revoke
  <1>4. ASSUME NEW o \in Operators, NEW j \in Jobs, Open(o, j) PROVE TaskInv'
    BY <1>4 DEF Open, Exists
  <1>5. ASSUME NEW o \in Operators, Send(o) PROVE TaskInv'
    BY <1>5 DEF Send
  <1>6. ASSUME NEW o \in Operators, Refuse(o) PROVE TaskInv'
    BY <1>6 DEF Refuse, Answer
  <1>7. ASSUME NEW o \in Operators, Cancel(o) PROVE TaskInv'
    BY <1>7 DEF Cancel, Answer
  <1>8. ASSUME NEW o \in Operators, Confirm(o) PROVE TaskInv'
    BY <1>8 DEF Confirm, Answer, Usable, Previewed, Shown
  <1>9. ASSUME NEW o \in Operators, Retry(o) PROVE TaskInv'
    BY <1>9 DEF Retry, Answer, Restarted, Usable, Retryable
  <1>10. ASSUME NEW w \in Workers, StartCleanup(w) PROVE TaskInv'
    BY <1>10 DEF StartCleanup, Retained, Exists
  <1>11. ASSUME NEW w \in Workers, NEW j \in todo[w], SkipLocked(w, j) PROVE TaskInv'
    BY <1>11 DEF SkipLocked, Unlocked
  <1>12. ASSUME NEW w \in Workers, NEW j \in todo[w], Unlink(w, j) PROVE TaskInv'
    BY <1>12 DEF Unlink, Unlocked
  <1>13. ASSUME NEW w \in Workers, Purge(w) PROVE TaskInv'
    BY <1>13 DEF Purge, PurgedRow, Unlock, NoTask
  <1>14. ASSUME NEW w \in Workers, DropAudit(w) PROVE TaskInv'
    BY <1>14 DEF DropAudit, Exists
  <1>15. ASSUME NEW w \in Workers, List(w) PROVE TaskInv'
    BY <1>15 DEF List, Unsettled
  <1>16. ASSUME NEW w \in Workers, NEW j \in todo[w], SkipSettled(w, j) PROVE TaskInv'
    BY <1>16 DEF SkipSettled, Exists, Visited, Visits, Unlocked
  <1>17. ASSUME NEW w \in Workers, NEW j \in todo[w], Recover(w, j) PROVE TaskInv'
    BY <1>17 DEF Recover, Visited, Visits, Unlocked
  <1>18. ASSUME NEW w \in Workers, NEW j \in todo[w], Discard(w, j) PROVE TaskInv'
    BY <1>18 DEF Discard, Hopeless, Visited, Visits, Unlocked
  <1>19. ASSUME NEW w \in Workers, NEW j \in todo[w], RowVanished(w, j) PROVE TaskInv'
    BY <1>19 DEF RowVanished, Visits, Unlocked
  <1>20. ASSUME NEW w \in Workers, NEW j \in todo[w], Claim(w, j) PROVE TaskInv'
    BY <1>20 DEF Claim, Visits, Unlocked, Hopeless
  <1>21. ASSUME NEW w \in Workers, Drain(w) PROVE TaskInv'
    BY <1>21 DEF Drain
  <1>22. ASSUME NEW w \in Workers, Stage(w) PROVE TaskInv'
    BY <1>22 DEF Stage
  <1>23. ASSUME NEW w \in Workers, Load(w) PROVE TaskInv'
    BY <1>23 DEF Load
  <1>24. ASSUME NEW w \in Workers, LockProducts(w) PROVE TaskInv'
    BY <1>24 DEF LockProducts, ProductsFree, NeedsBacking
  <1>25. ASSUME NEW w \in Workers, MakePlan(w) PROVE TaskInv'
    BY <1>25 DEF MakePlan, PlanStands
  <1>26. ASSUME NEW w \in Workers, FinishPreview(w) PROVE TaskInv'
    BY <1>26 DEF FinishPreview, Finish, CommitGate, ReleaseProducts
  <1>27. ASSUME NEW w \in Workers, FinishApply(w) PROVE TaskInv'
    BY <1>27 DEF FinishApply, Finish, CommitGate, ReleaseProducts
  <1>28. ASSUME NEW w \in Workers, Fail(w) PROVE TaskInv'
    BY <1>28 DEF Fail, ReleaseProducts
  <1>29. ASSUME NEW w \in Workers, Settle(w) PROVE TaskInv'
    BY <1>29 DEF Settle
  <1>30. ASSUME NEW w \in Workers, SettleFails(w) PROVE TaskInv'
    BY <1>30 DEF SettleFails
  <1>31. ASSUME NEW w \in Workers, Close(w) PROVE TaskInv'
    BY <1>31 DEF Close, Unlock, NoTask
  <1>32. ASSUME NEW w \in Workers, Crash(w) PROVE TaskInv'
    BY <1>32 DEF Crash, ReleaseProducts, NoTask
  <1>33. ASSUME WriteCatalogue PROVE TaskInv'
    BY <1>33 DEF WriteCatalogue, ProductsFree
  <1> QED
    BY <1>1, <1>2, <1>3, <1>4, <1>5, <1>6, <1>7, <1>8, <1>9, <1>10, <1>11, <1>12, <1>13, <1>14, <1>15, <1>16, <1>17, <1>18, <1>19, <1>20, <1>21, <1>22, <1>23, <1>24, <1>25, <1>26, <1>27, <1>28, <1>29, <1>30, <1>31, <1>32, <1>33 DEF Next, Request, WorkerStep, Visit, TypeOK

------------------------------------------------------------------------------
(* The rows                                                                *)

LEMMA RowNext == IInv /\ Next => RowInv'
  <1> SUFFICES ASSUME IInv, Next PROVE RowInv'
    OBVIOUS
  <1> USE ImportQueueAssumption DEF IInv, TypeOK, ScreenInv, LockInv, TaskInv, RowInv, NeedsBacking, Previewed, Running, store, ledger, outside, worker, Goto, Active, Working, Holding
  <1>1. ASSUME NEW j \in Jobs, Submit(j) PROVE RowInv'
    BY <1>1 DEF Submit, Retained, Exists, NewRow
  <1>2. ASSUME NEW j \in Jobs, Expire(j) PROVE RowInv'
    BY <1>2 DEF Expire, Exists
  <1>3. ASSUME NEW j \in Jobs, Revoke(j) PROVE RowInv'
    BY <1>3 DEF Revoke
  <1>4. ASSUME NEW o \in Operators, NEW j \in Jobs, Open(o, j) PROVE RowInv'
    BY <1>4 DEF Open, Exists
  <1>5. ASSUME NEW o \in Operators, Send(o) PROVE RowInv'
    BY <1>5 DEF Send
  <1>6. ASSUME NEW o \in Operators, Refuse(o) PROVE RowInv'
    BY <1>6 DEF Refuse, Answer
  <1>7. ASSUME NEW o \in Operators, Cancel(o) PROVE RowInv'
    BY <1>7 DEF Cancel, Answer
  <1>8. ASSUME NEW o \in Operators, Confirm(o) PROVE RowInv'
    BY <1>8 DEF Confirm, Answer, Usable, Shown
  <1>9. ASSUME NEW o \in Operators, Retry(o) PROVE RowInv'
    BY <1>9 DEF Retry, Answer, Restarted, Usable, Retryable
  <1>10. ASSUME NEW w \in Workers, StartCleanup(w) PROVE RowInv'
    BY <1>10 DEF StartCleanup, Retained, Exists
  <1>11. ASSUME NEW w \in Workers, NEW j \in todo[w], SkipLocked(w, j) PROVE RowInv'
    BY <1>11 DEF SkipLocked, Unlocked
  <1>12. ASSUME NEW w \in Workers, NEW j \in todo[w], Unlink(w, j) PROVE RowInv'
    BY <1>12 DEF Unlink, Unlocked
  <1>13. ASSUME NEW w \in Workers, Purge(w) PROVE RowInv'
    BY <1>13 DEF Purge, PurgedRow, Unlock, NoTask
  <1>14. ASSUME NEW w \in Workers, DropAudit(w) PROVE RowInv'
    BY <1>14 DEF DropAudit, Exists
  <1>15. ASSUME NEW w \in Workers, List(w) PROVE RowInv'
    BY <1>15 DEF List, Unsettled
  <1>16. ASSUME NEW w \in Workers, NEW j \in todo[w], SkipSettled(w, j) PROVE RowInv'
    BY <1>16 DEF SkipSettled, Exists, Visited, Visits, Unlocked
  <1>17. ASSUME NEW w \in Workers, NEW j \in todo[w], Recover(w, j) PROVE RowInv'
    BY <1>17 DEF Recover, Visited, Visits, Unlocked
  <1>18. ASSUME NEW w \in Workers, NEW j \in todo[w], Discard(w, j) PROVE RowInv'
    BY <1>18 DEF Discard, Hopeless, Visited, Visits, Unlocked
  <1>19. ASSUME NEW w \in Workers, NEW j \in todo[w], RowVanished(w, j) PROVE RowInv'
    BY <1>19 DEF RowVanished, Visits, Unlocked
  <1>20. ASSUME NEW w \in Workers, NEW j \in todo[w], Claim(w, j) PROVE RowInv'
    BY <1>20 DEF Claim, Visits, Unlocked, Hopeless
  <1>21. ASSUME NEW w \in Workers, Drain(w) PROVE RowInv'
    BY <1>21 DEF Drain
  <1>22. ASSUME NEW w \in Workers, Stage(w) PROVE RowInv'
    BY <1>22 DEF Stage
  <1>23. ASSUME NEW w \in Workers, Load(w) PROVE RowInv'
    BY <1>23 DEF Load
  <1>24. ASSUME NEW w \in Workers, LockProducts(w) PROVE RowInv'
    BY <1>24 DEF LockProducts, ProductsFree
  <1>25. ASSUME NEW w \in Workers, MakePlan(w) PROVE RowInv'
    BY <1>25 DEF MakePlan, PlanStands
  <1>26. ASSUME NEW w \in Workers, FinishPreview(w) PROVE RowInv'
    BY <1>26 DEF FinishPreview, Finish, CommitGate, ReleaseProducts
  <1>27. ASSUME NEW w \in Workers, FinishApply(w) PROVE RowInv'
    <2>1. \A j \in Jobs : jobs[j].preview \in Nat \cup {NoPlan}
      BY DEF Row, Plans
    <2>2. task[w].job \in Jobs /\ task[w].plan = catalogue
      BY <1>27 DEF FinishApply, Finish
    <2>3. \A j \in Jobs \ {task[w].job} : jobs'[j] = jobs[j]
      BY <1>27, <2>2 DEF FinishApply, Finish
    <2>4. /\ jobs'[task[w].job].preview = catalogue
          /\ jobs'[task[w].job].status = "completed"
          /\ ~jobs'[task[w].job].preview_ready
          /\ jobs'[task[w].job].cancel_requested = jobs[task[w].job].cancel_requested
          /\ jobs'[task[w].job].purged = jobs[task[w].job].purged
      BY <1>27, <2>2 DEF FinishApply, Finish, Row
    <2>5. catalogue' = catalogue + 1 /\ UNCHANGED <<files, rows>>
      BY <1>27 DEF FinishApply, Finish
    <2>6. ~jobs[task[w].job].purged /\ ~jobs[task[w].job].cancel_requested
      BY <1>27 DEF FinishApply, Finish, CommitGate
    <2>7. QED
      BY <2>1, <2>2, <2>3, <2>4, <2>5, <2>6
  <1>28. ASSUME NEW w \in Workers, Fail(w) PROVE RowInv'
    BY <1>28 DEF Fail, ReleaseProducts
  <1>29. ASSUME NEW w \in Workers, Settle(w) PROVE RowInv'
    BY <1>29 DEF Settle
  <1>30. ASSUME NEW w \in Workers, SettleFails(w) PROVE RowInv'
    BY <1>30 DEF SettleFails
  <1>31. ASSUME NEW w \in Workers, Close(w) PROVE RowInv'
    BY <1>31 DEF Close, Unlock, NoTask
  <1>32. ASSUME NEW w \in Workers, Crash(w) PROVE RowInv'
    BY <1>32 DEF Crash, ReleaseProducts, NoTask
  <1>33. ASSUME WriteCatalogue PROVE RowInv'
    <2>1. \A j \in Jobs : jobs[j].preview \in Nat \cup {NoPlan}
      BY DEF Row, Plans
    <2>2. QED
      BY <1>33, <2>1 DEF WriteCatalogue
  <1> QED
    BY <1>1, <1>2, <1>3, <1>4, <1>5, <1>6, <1>7, <1>8, <1>9, <1>10, <1>11, <1>12, <1>13, <1>14, <1>15, <1>16, <1>17, <1>18, <1>19, <1>20, <1>21, <1>22, <1>23, <1>24, <1>25, <1>26, <1>27, <1>28, <1>29, <1>30, <1>31, <1>32, <1>33 DEF Next, Request, WorkerStep, Visit, TypeOK

------------------------------------------------------------------------------
(* The ledger                                                              *)

LEMMA LedgerNext == IInv /\ Next => LedgerInv'
  <1> SUFFICES ASSUME IInv, Next PROVE LedgerInv'
    OBVIOUS
  <1> USE ImportQueueAssumption DEF IInv, TypeOK, ScreenInv, LockInv, TaskInv, RowInv, LedgerInv, IsApplied, Running, store, ledger, outside, worker, Goto, Active, Working, Holding
  <1>1. ASSUME NEW j \in Jobs, Submit(j) PROVE LedgerInv'
    BY <1>1 DEF Submit, Retained, Exists, NewRow
  <1>2. ASSUME NEW j \in Jobs, Expire(j) PROVE LedgerInv'
    BY <1>2 DEF Expire, Exists
  <1>3. ASSUME NEW j \in Jobs, Revoke(j) PROVE LedgerInv'
    BY <1>3 DEF Revoke
  <1>4. ASSUME NEW o \in Operators, NEW j \in Jobs, Open(o, j) PROVE LedgerInv'
    BY <1>4 DEF Open, Exists
  <1>5. ASSUME NEW o \in Operators, Send(o) PROVE LedgerInv'
    BY <1>5 DEF Send
  <1>6. ASSUME NEW o \in Operators, Refuse(o) PROVE LedgerInv'
    BY <1>6 DEF Refuse, Answer
  <1>7. ASSUME NEW o \in Operators, Cancel(o) PROVE LedgerInv'
    BY <1>7 DEF Cancel, Answer
  <1>8. ASSUME NEW o \in Operators, Confirm(o) PROVE LedgerInv'
    BY <1>8 DEF Confirm, Answer, Usable, Previewed, Shown
  <1>9. ASSUME NEW o \in Operators, Retry(o) PROVE LedgerInv'
    BY <1>9 DEF Retry, Answer, Restarted, Usable, Retryable
  <1>10. ASSUME NEW w \in Workers, StartCleanup(w) PROVE LedgerInv'
    BY <1>10 DEF StartCleanup, Retained, Exists
  <1>11. ASSUME NEW w \in Workers, NEW j \in todo[w], SkipLocked(w, j) PROVE LedgerInv'
    BY <1>11 DEF SkipLocked, Unlocked
  <1>12. ASSUME NEW w \in Workers, NEW j \in todo[w], Unlink(w, j) PROVE LedgerInv'
    BY <1>12 DEF Unlink, Unlocked
  <1>13. ASSUME NEW w \in Workers, Purge(w) PROVE LedgerInv'
    BY <1>13 DEF Purge, PurgedRow, Unlock, NoTask
  <1>14. ASSUME NEW w \in Workers, DropAudit(w) PROVE LedgerInv'
    BY <1>14 DEF DropAudit, Exists
  <1>15. ASSUME NEW w \in Workers, List(w) PROVE LedgerInv'
    BY <1>15 DEF List, Unsettled
  <1>16. ASSUME NEW w \in Workers, NEW j \in todo[w], SkipSettled(w, j) PROVE LedgerInv'
    BY <1>16 DEF SkipSettled, Exists, Visited, Visits, Unlocked
  <1>17. ASSUME NEW w \in Workers, NEW j \in todo[w], Recover(w, j) PROVE LedgerInv'
    BY <1>17 DEF Recover, Visited, Visits, Unlocked
  <1>18. ASSUME NEW w \in Workers, NEW j \in todo[w], Discard(w, j) PROVE LedgerInv'
    BY <1>18 DEF Discard, Hopeless, Visited, Visits, Unlocked
  <1>19. ASSUME NEW w \in Workers, NEW j \in todo[w], RowVanished(w, j) PROVE LedgerInv'
    BY <1>19 DEF RowVanished, Visits, Unlocked
  <1>20. ASSUME NEW w \in Workers, NEW j \in todo[w], Claim(w, j) PROVE LedgerInv'
    BY <1>20 DEF Claim, Visits, Unlocked, Hopeless
  <1>21. ASSUME NEW w \in Workers, Drain(w) PROVE LedgerInv'
    BY <1>21 DEF Drain
  <1>22. ASSUME NEW w \in Workers, Stage(w) PROVE LedgerInv'
    BY <1>22 DEF Stage
  <1>23. ASSUME NEW w \in Workers, Load(w) PROVE LedgerInv'
    BY <1>23 DEF Load
  <1>24. ASSUME NEW w \in Workers, LockProducts(w) PROVE LedgerInv'
    BY <1>24 DEF LockProducts, ProductsFree
  <1>25. ASSUME NEW w \in Workers, MakePlan(w) PROVE LedgerInv'
    BY <1>25 DEF MakePlan, PlanStands
  <1>26. ASSUME NEW w \in Workers, FinishPreview(w) PROVE LedgerInv'
    BY <1>26 DEF FinishPreview, Finish, CommitGate, ReleaseProducts
  <1>27. ASSUME NEW w \in Workers, FinishApply(w) PROVE LedgerInv'
    <2> DEFINE k == task[w].job
    <2>1. k \in Jobs /\ jobs[k].status = "running" /\ jobs[k].phase = "apply"
      BY <1>27 DEF FinishApply, Finish
    <2>2. ~IsApplied(k)
      BY <2>1
    <2>3. applied' = applied \cup {<<k, task[w].plan>>}
      BY <1>27 DEF FinishApply
    <2>4. \A a, b \in applied' : a[1] = b[1] => a = b
      BY <2>2, <2>3
    <2>5. jobs'[k].status = "completed" /\ jobs'[k].phase = "apply"
      BY <1>27, <2>1 DEF FinishApply, Finish, Row
    <2>6. \A j \in Jobs \ {k} : jobs'[j] = jobs[j]
      BY <1>27, <2>1 DEF FinishApply, Finish
    <2>7. \A j \in Jobs \ {k} : IsApplied(j)' <=> IsApplied(j)
      BY <2>3
    <2>8. \E a \in applied' : a[1] = k
      <3>1. <<k, task[w].plan>> \in applied'
        BY <2>3
      <3>2. QED
        BY <3>1
    <2>9. QED
      BY <2>1, <2>4, <2>5, <2>6, <2>7, <2>8
  <1>28. ASSUME NEW w \in Workers, Fail(w) PROVE LedgerInv'
    BY <1>28 DEF Fail, ReleaseProducts
  <1>29. ASSUME NEW w \in Workers, Settle(w) PROVE LedgerInv'
    BY <1>29 DEF Settle
  <1>30. ASSUME NEW w \in Workers, SettleFails(w) PROVE LedgerInv'
    BY <1>30 DEF SettleFails
  <1>31. ASSUME NEW w \in Workers, Close(w) PROVE LedgerInv'
    BY <1>31 DEF Close, Unlock, NoTask
  <1>32. ASSUME NEW w \in Workers, Crash(w) PROVE LedgerInv'
    BY <1>32 DEF Crash, ReleaseProducts, NoTask
  <1>33. ASSUME WriteCatalogue PROVE LedgerInv'
    BY <1>33 DEF WriteCatalogue, ProductsFree
  <1> QED
    BY <1>1, <1>2, <1>3, <1>4, <1>5, <1>6, <1>7, <1>8, <1>9, <1>10, <1>11, <1>12, <1>13, <1>14, <1>15, <1>16, <1>17, <1>18, <1>19, <1>20, <1>21, <1>22, <1>23, <1>24, <1>25, <1>26, <1>27, <1>28, <1>29, <1>30, <1>31, <1>32, <1>33 DEF Next, Request, WorkerStep, Visit, TypeOK

------------------------------------------------------------------------------
(* The inductive invariant and the properties                              *)

LEMMA Stutter == IInv /\ UNCHANGED vars => IInv'
  BY DEF vars, store, ledger, worker, outside, IInv, TypeOK, ScreenInv, LockInv,
         ProductsInv, TaskInv, RowInv, LedgerInv, IsApplied, NeedsBacking,
         Previewed

THEOREM Invariant == Spec => []IInv
  <1>1. IInv /\ Next => IInv'
    BY TypeNext, ScreenNext, LockNext, ProductsNext, TaskNext, RowNext,
       LedgerNext DEF IInv
  <1>2. IInv /\ [Next]_vars => IInv'
    BY <1>1, Stutter
  <1>3. QED
    BY InitInv, <1>2, PTL DEF Spec

\* The variables keep their types; in particular no job is ever claimed more
\* often than MAX_ATTEMPTS allows.
THEOREM TypeCorrect == Spec => []TypeOK
  <1>1. IInv => TypeOK
    BY DEF IInv
  <1>2. QED
    BY <1>1, Invariant, PTL

\* While a worker runs a job, or handles its failure, the row stays as the
\* worker read it, although run_once never reads the status again.
THEOREM JobNeverStolen == Spec => []NoStolenJob
  <1>1. IInv => NoStolenJob
    BY DEF IInv, TaskInv, NoStolenJob, Running
  <1>2. QED
    BY <1>1, Invariant, PTL

\* The session advisory lock of claim keeps two workers off one job, through
\* crashes and cleanup.
THEOREM ExclusiveWork == Spec => []OneWorkerPerJob
  <1>1. IInv => OneWorkerPerJob
    BY DEF IInv, LockInv, OneWorkerPerJob
  <1>2. QED
    BY <1>1, Invariant, PTL

\* An accepted cancel request is never answered with a completed job.
THEOREM CancelIsHonoured == Spec => []CancelWins
  <1>1. IInv => CancelWins
    BY DEF IInv, RowInv, CancelWins
  <1>2. QED
    BY <1>1, Invariant, PTL

\* What can be confirmed or is about to be applied has its rows and its plan.
THEOREM BackedPreviews == Spec => []PreviewIsBacked
  <1>1. IInv => PreviewIsBacked
    BY DEF IInv, RowInv, NeedsBacking, PreviewIsBacked
  <1>2. QED
    BY <1>1, Invariant, PTL

\* Cleanup ends a job: no request that waited for the row revives it.
THEOREM PurgeIsFinal == Spec => []PurgedIsOver
  <1>1. IInv => PurgedIsOver
    BY DEF IInv, TypeOK, TaskInv, LockInv, RowInv, NeedsBacking, PurgedIsOver,
           Running, Active, Holding, Working
  <1>2. QED
    BY <1>1, Invariant, PTL

\* A job changes the catalogue at most once, and its row tells whether it did.
THEOREM AppliedAtMostOnce == Spec => []AppliedOnce
  <1>1. IInv => AppliedOnce
    BY DEF IInv, LedgerInv, IsApplied, AppliedOnce, Exists
  <1>2. QED
    BY <1>1, Invariant, PTL

LEMMA OnlyFinishApplies ==
    ASSUME [Next]_vars, applied' # applied
    PROVE  \E w \in Workers : FinishApply(w)
  <1> USE DEF store, ledger, outside, worker, Goto
  <1>1. ASSUME NEW j \in Jobs, Submit(j) \/ Expire(j) \/ Revoke(j) PROVE FALSE
    BY <1>1 DEF Submit, Expire, Revoke
  <1>2. ASSUME NEW o \in Operators, Request(o) PROVE FALSE
    BY <1>2 DEF Request, Open, Send, Refuse, Cancel, Confirm, Retry, Answer
  <1>3. ASSUME NEW w \in Workers, WorkerStep(w), ~FinishApply(w) PROVE FALSE
    BY <1>3 DEF WorkerStep, Visit, StartCleanup, Purge, DropAudit, List, Drain,
       SkipLocked, Unlink, SkipSettled, RowVanished, Recover, Discard, Claim,
       Visited, Stage, Load, LockProducts, MakePlan, FinishPreview, Fail,
       Settle, SettleFails, Close
  <1>4. ASSUME NEW w \in Workers, Crash(w) PROVE FALSE
    BY <1>4 DEF Crash
  <1>5. QED
    BY <1>1, <1>2, <1>3, <1>4 DEF Next, WriteCatalogue, vars

\* Only a completing apply run writes to the ledger, and what it writes is the
\* plan the job was previewed and confirmed with.
THEOREM AppliesWhatWasPreviewed == Spec => AppliesOnlyPreviewedPlans
  <1>1. IInv /\ [Next]_vars => AppliesPreviewedPlan
    <2> SUFFICES ASSUME IInv, [Next]_vars, applied' # applied
                 PROVE  AppliesPreviewedPlan
      BY DEF AppliesPreviewedPlan
    <2>1. PICK w \in Workers : FinishApply(w)
      BY OnlyFinishApplies
    <2>2. /\ pc[w] = "planned" /\ task[w].phase = "apply"
          /\ applied' = applied \cup {<<task[w].job, task[w].plan>>}
      BY <2>1 DEF FinishApply, Finish, Goto
    <2>3. /\ task[w].plan = catalogue
          /\ task[w].preview = catalogue
          /\ task[w].job \in authorised
          /\ jobs[task[w].job].preview = task[w].preview
      BY <2>2 DEF IInv, TaskInv, Running, Working
    <2>4. QED
      BY <2>2, <2>3 DEF AppliesPreviewedPlan
  <1>2. QED
    BY <1>1, Invariant, PTL DEF Spec, AppliesOnlyPreviewedPlans

LEMMA RefuseChangesNothing ==
    ASSUME TypeOK, ScreenInv, NEW o \in Operators, Refuse(o)
    PROVE  UNCHANGED <<jobs, catalogue, applied>>
  <1>1. screen[o].job \in Jobs
    BY DEF Refuse, Answer, ScreenInv
  <1>2. QED
    BY <1>1 DEF Refuse, Answer, TypeOK, ledger

LEMMA ConfirmShows ==
    ASSUME IInv, [Next]_vars PROVE ConfirmsShownPlan
  <1> USE ImportQueueAssumption DEF IInv, TypeOK, ConfirmsShownPlan, store,
        ledger, outside, worker
  <1>1. ASSUME NEW j \in Jobs, Submit(j) \/ Expire(j) \/ Revoke(j)
        PROVE  ConfirmsShownPlan
    BY <1>1 DEF Submit, Expire, Revoke, NewRow, Row
  <1>2. ASSUME NEW o \in Operators, Request(o) PROVE ConfirmsShownPlan
    <2>1. CASE \E j \in Jobs : Open(o, j)
      BY <2>1 DEF Open
    <2>2. CASE Send(o)
      BY <2>2 DEF Send
    <2>3. CASE Refuse(o)
      BY <2>3, RefuseChangesNothing
    <2>4. CASE Cancel(o)
      BY <2>4 DEF Cancel, Answer, ScreenInv
    <2>5. CASE Confirm(o)
      BY <2>5 DEF Confirm, Answer, Shown, ScreenInv, Row
    <2>6. CASE Retry(o)
      BY <2>6 DEF Retry, Answer, Restarted, ScreenInv, Row
    <2>7. QED
      BY <1>2, <2>1, <2>2, <2>3, <2>4, <2>5, <2>6 DEF Request
  <1>3. ASSUME NEW w \in Workers, WorkerStep(w) PROVE ConfirmsShownPlan
    <2>1. ASSUME NEW j \in todo[w], Visit(w, j) PROVE ConfirmsShownPlan
      <3>1. CASE UNCHANGED jobs
        BY <3>1
      <3>2. CASE SkipSettled(w, j)
        BY <3>2 DEF SkipSettled, Visited
      <3>3. CASE Recover(w, j) \/ Discard(w, j)
        <4>1. j \in Jobs /\ \A i \in Jobs \ {j} : jobs'[i] = jobs[i]
          BY <3>3 DEF Recover, Discard, Visited
        <4>2. jobs'[j].phase = jobs[j].phase
          <5>1. CASE Recover(w, j)
            BY <4>1, <5>1 DEF Recover, Visited, Row
          <5>2. CASE Discard(w, j)
            BY <4>1, <5>2 DEF Discard, Visited, Row
          <5>3. QED
            BY <3>3, <5>1, <5>2
        <4>3. QED
          BY <4>1, <4>2
      <3>4. CASE Claim(w, j)
        BY <3>4 DEF Claim, Row
      <3>5. QED
        BY <2>1, <3>1, <3>2, <3>3, <3>4
           DEF Visit, SkipLocked, Unlink, RowVanished
    <2>2. CASE Finish(w)
      BY <2>2 DEF Finish, LockInv, Goto, Holding, Working
    <2>3. CASE Settle(w)
      BY <2>3 DEF Settle, LockInv, Goto, Holding
    <2>4. CASE Purge(w)
      BY <2>4 DEF Purge, PurgedRow, LockInv, Goto, Holding
    <2>5. CASE DropAudit(w)
      BY <2>5 DEF DropAudit
    <2>6. QED
      BY <1>3, <2>1, <2>2, <2>3, <2>4, <2>5 DEF WorkerStep, StartCleanup,
         List, Drain, Stage, Load, LockProducts, MakePlan, FinishPreview,
         FinishApply, Fail, SettleFails, Close
  <1>4. ASSUME NEW w \in Workers, Crash(w) PROVE ConfirmsShownPlan
    BY <1>4 DEF Crash
  <1>5. QED
    BY <1>1, <1>2, <1>3, <1>4 DEF Next, WriteCatalogue, vars

\* A job enters the queue for application only with the preview an operator
\* had on the page when pressing the button.
THEOREM ConfirmationIsInformed == Spec => ConfirmsWhatIsShown
  BY ConfirmShows, Invariant, PTL DEF Spec, ConfirmsWhatIsShown

------------------------------------------------------------------------------
(* The queue implements ConfirmedImport                                    *)

AbstractStep == [Promise!Next]_(Promise!vars)

\* Nothing happens to the approvals.
LEMMA KeepsApprovals ==
    ASSUME UNCHANGED <<catalogue, applied>>,
           \A i \in Jobs : Approved(i)' = Approved(i)
    PROVE  AbstractStep
  BY DEF AbstractStep, Promise!vars

\* One approval lapses, or nothing happens at all.
LEMMA MayWithdraw ==
    ASSUME UNCHANGED <<catalogue, applied>>,
           NEW j \in Jobs, \A i \in Jobs \ {j} : jobs'[i] = jobs[i],
           Approved(j)' \in {Approved(j), NoPlan}
    PROVE  AbstractStep
  <1>1. \A i \in Jobs \ {j} : Approved(i)' = Approved(i)
    BY DEF Approved
  <1>2. CASE Approved(j)' = Approved(j)
    BY <1>1, <1>2, KeepsApprovals
  <1>3. CASE Approved(j)' = NoPlan /\ Approved(j) # NoPlan
    <2>1. [i \in Jobs |-> Approved(i)]'
             = [[i \in Jobs |-> Approved(i)] EXCEPT ![j] = NoPlan]
      BY <1>1, <1>3 DEF Approved
    <2>2. Promise!Withdraw(j)
      BY <1>3, <2>1 DEF Promise!Withdraw
    <2>3. QED
      BY <2>2 DEF AbstractStep, Promise!Next
  <1>4. QED
    BY <1>2, <1>3

LEMMA ConfirmApproves ==
    ASSUME IInv, NEW o \in Operators, Confirm(o)
    PROVE  AbstractStep
  <1> DEFINE j == screen[o].job
  <1>1. j \in Jobs /\ Previewed(jobs[j])
    BY DEF Confirm, Answer, IInv, ScreenInv
  <1>2. /\ ~Promise!IsApplied(j)
        /\ jobs[j].preview \in 0..catalogue
    BY <1>1 DEF IInv, TypeOK, Row, Plans, RowInv, NeedsBacking, LedgerInv,
       IsApplied, Previewed, Promise!IsApplied
  <1>3. Approved(j) = NoPlan
    BY <1>1 DEF Approved, Previewed, Active
  <1>4. /\ jobs'[j].status = "queued" /\ jobs'[j].phase = "apply"
        /\ jobs'[j].preview = jobs[j].preview
        /\ \A i \in Jobs \ {j} : jobs'[i] = jobs[i]
        /\ UNCHANGED <<catalogue, applied>>
    BY <1>1 DEF Confirm, Answer, IInv, TypeOK, Row, ledger
  <1>5. [i \in Jobs |-> Approved(i)]'
           = [[i \in Jobs |-> Approved(i)] EXCEPT ![j] = jobs[j].preview]
    BY <1>1, <1>4 DEF Approved, Active
  <1>6. Promise!Approve(j)
    BY <1>1, <1>2, <1>3, <1>4, <1>5 DEF Promise!Approve
  <1>7. QED
    BY <1>1, <1>6 DEF AbstractStep, Promise!Next

LEMMA FinishCarriesOut ==
    ASSUME IInv, NEW w \in Workers, FinishApply(w)
    PROVE  AbstractStep
  <1> DEFINE j == task[w].job
  <1>1. /\ pc[w] = "planned" /\ task[w].phase = "apply"
        /\ applied' = applied \cup {<<j, task[w].plan>>}
        /\ catalogue' = catalogue + 1
    BY DEF FinishApply, Finish, Goto
  <1>2. /\ j \in Jobs /\ task[w].plan = catalogue
        /\ jobs[j].status = "running" /\ jobs[j].phase = "apply"
        /\ jobs[j].preview = catalogue
    BY <1>1 DEF IInv, LockInv, TaskInv, Running, Holding, Working
  <1>3. ~Promise!IsApplied(j)
    BY <1>2 DEF IInv, LedgerInv, IsApplied, Promise!IsApplied
  <1>4. /\ jobs'[j].status = "completed"
        /\ \A i \in Jobs \ {j} : jobs'[i] = jobs[i]
    BY <1>2 DEF FinishApply, Finish, IInv, TypeOK, Row
  <1>5. Approved(j) = catalogue
    BY <1>2 DEF Approved, Active
  <1>6. [i \in Jobs |-> Approved(i)]'
           = [[i \in Jobs |-> Approved(i)] EXCEPT ![j] = NoPlan]
    BY <1>2, <1>4 DEF Approved, Active
  <1>7. Promise!CarryOut(j)
    BY <1>1, <1>2, <1>3, <1>5, <1>6 DEF Promise!CarryOut
  <1>8. QED
    BY <1>2, <1>7 DEF AbstractStep, Promise!Next

LEMMA WorkerImplements ==
    ASSUME IInv, NEW w \in Workers, WorkerStep(w)
    PROVE  AbstractStep
  <1> USE DEF Approved, Active, Goto, ledger, store
  <1>1. CASE UNCHANGED <<jobs, catalogue, applied>>
    BY <1>1, KeepsApprovals
  <1>2. ASSUME NEW j \in todo[w], Recover(w, j) \/ Discard(w, j) \/ Claim(w, j)
        PROVE  AbstractStep
    <2>1. j \in Jobs
      BY DEF IInv, TypeOK
    <2>2. \A i \in Jobs \ {j} : jobs'[i] = jobs[i]
      BY <1>2, <2>1 DEF Recover, Discard, Claim, Visited, IInv, TypeOK
    <2>3. Approved(j)' \in {Approved(j), NoPlan}
      <3>1. CASE Recover(w, j)
        BY <2>1, <3>1 DEF Recover, Visited, IInv, TypeOK, Row
      <3>2. CASE Discard(w, j)
        BY <2>1, <3>2 DEF Discard, Visited, IInv, TypeOK, Row
      <3>3. CASE Claim(w, j)
        BY <2>1, <3>3 DEF Claim, IInv, TypeOK, Row
      <3>4. QED
        BY <1>2, <3>1, <3>2, <3>3
    <2>4. UNCHANGED <<catalogue, applied>>
      BY <1>2 DEF Recover, Discard, Claim, Visited
    <2> HIDE DEF Approved
    <2>5. QED
      BY <2>1, <2>2, <2>3, <2>4, MayWithdraw
  <1>3. CASE Purge(w)
    BY <1>3, MayWithdraw DEF Purge, PurgedRow, IInv, TypeOK, LockInv, Holding, Row
  <1>4. CASE DropAudit(w)
    <2>1. \A i \in Jobs : Approved(i)' = Approved(i)
      BY <1>4 DEF DropAudit, IInv, TypeOK, RowInv, Row
    <2>2. UNCHANGED <<catalogue, applied>>
      BY <1>4 DEF DropAudit
    <2> HIDE DEF Approved
    <2>3. QED
      BY <2>1, <2>2, KeepsApprovals
  <1>5. CASE FinishPreview(w)
    BY <1>5, MayWithdraw DEF FinishPreview, Finish, IInv, TypeOK, LockInv,
       TaskInv, Running, Working, Holding, Row
  <1>6. CASE Settle(w)
    BY <1>6, MayWithdraw DEF Settle, IInv, TypeOK, LockInv, Holding, Row
  <1>7. ASSUME NEW j \in todo[w], SkipSettled(w, j) PROVE AbstractStep
    BY <1>7, KeepsApprovals DEF SkipSettled, Visited, IInv, TypeOK
  <1>8. QED
    BY <1>1, <1>2, <1>3, <1>4, <1>5, <1>6, <1>7, FinishCarriesOut
       DEF WorkerStep, Visit, StartCleanup, List, Drain, SkipLocked, Unlink,
           RowVanished, Stage, Load, LockProducts, MakePlan, Fail, SettleFails,
           Close

LEMMA RequestImplements ==
    ASSUME IInv, NEW o \in Operators, Request(o)
    PROVE  AbstractStep
  <1> USE DEF IInv, TypeOK, ScreenInv, Approved, Active, Answer, ledger, store
  <1>1. CASE (\E j \in Jobs : Open(o, j)) \/ Send(o)
    BY <1>1, KeepsApprovals DEF Open, Send
  <1>2. CASE Refuse(o)
    BY <1>2, RefuseChangesNothing, KeepsApprovals
  <1>3. CASE Cancel(o)
    BY <1>3, MayWithdraw DEF Cancel, Row
  <1>4. CASE Retry(o)
    BY <1>4, MayWithdraw DEF Retry, Restarted, Row
  <1>5. QED
    BY <1>1, <1>2, <1>3, <1>4, ConfirmApproves, <1>1 DEF Request

\* Every behaviour of the queue is one of ConfirmedImport: whatever crashes and
\* races happen, the catalogue only sees approved plans, whole, on the version
\* they were computed on, once per import.
THEOREM KeepsThePromise == Spec => KeepsPromise
  <1>1. Init => Promise!Init
    BY DEF Init, Promise!Init, Approved, NewRow, Active
  <1>2. IInv /\ [Next]_vars => AbstractStep
    <2> SUFFICES ASSUME IInv, [Next]_vars PROVE AbstractStep
      OBVIOUS
    <2>1. ASSUME NEW j \in Jobs, Submit(j) PROVE AbstractStep
      BY <2>1, MayWithdraw DEF Submit, NewRow, Approved, IInv, TypeOK, ledger
    <2>2. ASSUME NEW j \in Jobs, Expire(j) PROVE AbstractStep
      BY <2>2, MayWithdraw DEF Expire, Approved, IInv, TypeOK, Row, ledger
    <2>3. CASE UNCHANGED <<jobs, catalogue, applied>>
      BY <2>3, KeepsApprovals DEF Approved
    <2>4. CASE WriteCatalogue
      <3>1. UNCHANGED [i \in Jobs |-> Approved(i)]
        BY <2>4 DEF WriteCatalogue, Approved, store
      <3>2. Promise!Write
        BY <2>4, <3>1 DEF WriteCatalogue, Promise!Write
      <3>3. QED
        BY <3>2 DEF AbstractStep, Promise!Next
    <2>5. QED
      BY <2>1, <2>2, <2>3, <2>4, WorkerImplements, RequestImplements
         DEF Next, Revoke, Crash, store, ledger, vars
  <1>3. QED
    BY <1>1, <1>2, Invariant, PTL DEF Spec, KeepsPromise, Promise!Spec, AbstractStep

=============================================================================
