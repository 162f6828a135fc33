---------------------------- MODULE RegulatoryRules ----------------------------
(***************************************************************************)
(* The regulatory catalogue (statuses, rules that give a status to a CAS   *)
(* number, keys of rules that were edited by hand) and all that change it: *)
(* the import queue of regulatory_import_jobs.py, the manual editing of    *)
(* regulatory_manual.py, the actions on statuses of admin_regulatory.py    *)
(* and the clean-up of regulatory_status_cleanup.py.                       *)
(*                                                                         *)
(* An import replaces rules in bulk but must leave alone what an operator  *)
(* has edited, and an operator edits the rule that the page showed.  All   *)
(* of them take the regulatory lock.  A request whose actor is no longer   *)
(* authorised changes nothing, or makes the run fail; see Accounts.        *)
(***************************************************************************)
EXTENDS Naturals

CONSTANTS
    Statuses,       \* ids of statuses
    Labels,         \* their labels, after upper(btrim(label))
    Ids,            \* ids of rules
    OldStatuses,    \* the statuses and the rules that migration 033 found
    OldIds,
    Values,         \* CAS numbers
    Notes,
    Contents,       \* what rules have at first, or are given by hand
    Files,          \* workbooks that may be uploaded, each with its mode
    Jobs,
    Requests,       \* request_id of the pages for editing
    MaxPriority,    \* bound on the priority of a status
    MaxRevision,    \* bound on the edits of a rule
    MaxChanges,     \* bound on the changes of statuses by hand
    MaxAttempts,    \* MAX_ATTEMPTS
    Unused,         \* an id that was not given yet
    Gone,           \* an id whose row was deleted
    NoCatalog,      \* SQL NULL in the column preview
    NoId,           \* a form that creates a rule
    NoForm          \* a page that was not filled in yet

Content == [status: Statuses, value: Values, note: Notes]
Row == [value: Values, label: Labels, note: Notes]

ASSUME RegulatoryAssumption ==
    /\ MaxPriority \in Nat
    /\ MaxRevision \in Nat
    /\ MaxAttempts \in Nat
    /\ MaxChanges \in Nat
    /\ OldStatuses \subseteq Statuses
    /\ OldIds \subseteq Ids
    /\ NoId \notin Ids
    /\ Contents \subseteq Content
    /\ Files \subseteq [mode: {"upsert", "replace_scoped"}, rows: SUBSET Row]

VARIABLES
    catalog,        \* the tables of statuses, rules and manual keys
    job,            \* table regulatory_import_jobs
    run,            \* where the worker that holds the lock of each job is
    base,           \* the catalogue that the transaction of this worker read
    page,           \* the preview page of each job in someone's browser
    form,           \* the page for editing, filled in
    receipts,       \* the request_ids that have left an event
    changes,        \* number of changes of statuses by hand, for the bound
    agreed          \* history: the catalogue on the page that was confirmed

vars ==
    <<catalog, job, run, base, page, form, receipts, changes, agreed>>

------------------------------------------------------------------------------
(* Types                                                                   *)

Status == [label: Labels, priority: 1..MaxPriority]
Rule == [status: Statuses, value: Values, note: Notes, is_active: BOOLEAN,
         manual_protected: BOOLEAN, revision: Nat]
Key == [rule: Ids, status: Statuses, value: Values]
Catalog == [status: [Statuses -> Status \cup {Unused, Gone}],
            rules: [Ids -> Rule \cup {Unused, Gone}],
            keys: SUBSET Key]

Job == [status: {"none", "queued", "running", "completed", "failed",
                 "cancelled"},
        phase: {"preview", "apply"}, cancel_requested: BOOLEAN,
        expired: BOOLEAN, purged: BOOLEAN, preview_ready: BOOLEAN,
        attempts: 0..MaxAttempts, preview: Catalog \cup {NoCatalog},
        file: Files]

\* shown is the rule on the page; its revision is sent as expected_revision.
\* The content of the rule is sent with create and edit.
Form == [action: {"create", "edit", "switch"}, rule: Ids \cup {NoId},
         shown: Rule \cup {Unused}, to: Content]

ASSUME NullAssumption ==
    /\ Unused # Gone
    /\ {Unused, Gone} \cap (Status \cup Rule) = {}
    /\ NoCatalog \notin Catalog
    /\ NoForm \notin Form

TypeOK ==
    /\ catalog \in Catalog
    /\ job \in [Jobs -> Job]
    /\ run \in [Jobs -> {"none", "claimed", "begun"}]
    /\ base \in [Jobs -> Catalog \cup {NoCatalog}]
    /\ page \in [Jobs -> Catalog \cup {NoCatalog}]
    /\ form \in [Requests -> Form \cup {NoForm}]
    /\ receipts \in SUBSET {r \in Requests : form[r] # NoForm}
    /\ changes \in 0..MaxChanges
    /\ agreed \in [Jobs -> Catalog \cup {NoCatalog}]

------------------------------------------------------------------------------
(* Reading the catalogue                                                   *)

InUse(c) == {s \in Statuses : c.status[s] \notin {Unused, Gone}}
Live(c) == {i \in Ids : c.rules[i] \notin {Unused, Gone}}
Labelled(c, l) == {s \in InUse(c) : c.status[s].label = l}

\* Rules and owners of keys for a value in a status.
At(c, s, v) ==
    {i \in Live(c) : c.rules[i].status = s /\ c.rules[i].value = v}
Holders(c, s, v) ==
    {i \in Ids : [rule |-> i, status |-> s, value |-> v] \in c.keys}

ContentOf(rule) ==
    [status |-> rule.status, value |-> rule.value, note |-> rule.note]

KeyOf(c, i) ==
    [rule |-> i, status |-> c.rules[i].status, value |-> c.rules[i].value]

\* No other rule has this key, or had it once and was edited by hand.
Collides(c, s, v, owner) == (At(c, s, v) \cup Holders(c, s, v)) \ {owner} # {}

\* INSERT ... ON CONFLICT DO NOTHING.
Preserve(c, k) ==
    IF Holders(c, k.status, k.value) = {}
    THEN [c EXCEPT !.keys = @ \cup {k}]
    ELSE c

------------------------------------------------------------------------------
(* The plan of an import                                                   *)

\* Mutant of Protectors: the keys from before an edit are forgotten.
ProtectorsInPlace(c, row) ==
    UNION {{i \in At(c, s, row.value) : c.rules[i].manual_protected} :
               s \in Labelled(c, row.label)}

\* Rules that may not be written for this row: held through a key, or
\* protected and in its place.
Protectors(c, row) ==
    UNION {Holders(c, s, row.value) \cup
           {i \in At(c, s, row.value) : c.rules[i].manual_protected} :
               s \in Labelled(c, row.label)}

Present(c, row) == UNION {At(c, s, row.value) : s \in Labelled(c, row.label)}

Inserted(c, f) ==
    {row \in f.rows : Protectors(c, row) = {} /\ Present(c, row) = {}}

\* Mutant of Updated: a protected rule that is in its place is rewritten.
UpdatedAnyway(c, f) ==
    {row \in f.rows :
        \E i \in Present(c, row) :
            c.rules[i].note # row.note \/ ~c.rules[i].is_active}

Updated(c, f) ==
    {row \in f.rows :
        /\ Protectors(c, row) = {}
        /\ \E i \in Present(c, row) :
               c.rules[i].note # row.note \/ ~c.rules[i].is_active}

\* Mutant of Deleted: the rules that own a key are not spared.
DeletedUnlessProtected(c, f) ==
    {i \in Live(c) :
        /\ f.mode = "replace_scoped"
        /\ \E row \in f.rows : c.rules[i].status \in Labelled(c, row.label)
        /\ \A row \in f.rows : i \notin Present(c, row)
        /\ c.rules[i].is_active}

\* A replacement deletes what the file does not have in the statuses it names,
\* except what is protected, owns a key, or is inactive.
Deleted(c, f) ==
    {i \in Live(c) :
        /\ f.mode = "replace_scoped"
        /\ \E row \in f.rows : c.rules[i].status \in Labelled(c, row.label)
        /\ \A row \in f.rows : i \notin Present(c, row)
        /\ ~c.rules[i].manual_protected
        /\ \A k \in c.keys : k.rule # i
        /\ c.rules[i].is_active}

NewLabels(c, f) ==
    {row.label : row \in f.rows} \ {c.status[s].label : s \in InUse(c)}

\* New statuses, one for each of these labels, with the next priorities.
Additions(c, labels) ==
    LET free == {s \in Statuses : c.status[s] = Unused}
        Taken(p) == \E s \in InUse(c) : c.status[s].priority >= p
    IN  UNION {{new \in [S -> [label: labels, priority: 1..MaxPriority]] :
                    /\ labels = {new[s].label : s \in S}
                    /\ \A s, t \in S : new[s].label = new[t].label => s = t
                    /\ \A s, t \in S : new[s].priority = new[t].priority => s = t
                    /\ \A s \in S : ~Taken(new[s].priority)
                    /\ \A s \in S : \A p \in 1..(new[s].priority - 1) :
                           Taken(p) \/ \E t \in S : new[t].priority = p} :
               S \in SUBSET free}

\* Ids for these new rows.
Numberings(c, rows) ==
    UNION {{num \in [I -> rows] :
                /\ rows = {num[i] : i \in I}
                /\ \A i, j \in I : num[i] = num[j] => i = j} :
           I \in SUBSET {i \in Ids : c.rules[i] = Unused}}

WithStatuses(c, new) ==
    [c EXCEPT !.status = [s \in Statuses |->
        IF s \in DOMAIN new THEN new[s] ELSE c.status[s]]]

\* The trigger zz_regulatory_rule_revision; a bump stands for a change of the
\* copies of label and priority in the rule.
Bumped(rule) == [rule EXCEPT !.revision = @ + 1]

\* What apply_plan makes of catalogue c.  It finds the status of a row by its
\* label, after the new statuses are there.
Imported(c, f, new, num) ==
    LET d == WithStatuses(c, new)
        NewRule(row) ==
            [status |-> CHOOSE s \in Labelled(d, row.label) : TRUE,
             value |-> row.value, note |-> row.note, is_active |-> TRUE,
             manual_protected |-> FALSE, revision |-> 1]
        Rewritten(i) == {row \in Updated(c, f) : i \in Present(c, row)}
    IN  [d EXCEPT !.rules = [i \in Ids |->
            IF i \in DOMAIN num THEN NewRule(num[i])
            ELSE IF i \in Deleted(c, f) THEN Gone
            ELSE IF i \in Live(c) /\ Rewritten(i) # {}
                 THEN Bumped([c.rules[i] EXCEPT
                        !.note = (CHOOSE row \in Rewritten(i) : TRUE).note,
                        !.is_active = TRUE])
            ELSE c.rules[i]]]

\* All that an import may make of c: only the ids are open.
Outcomes(c, f) ==
    {Imported(c, f, new, num) : new \in Additions(c, NewLabels(c, f)),
                                num \in Numberings(c, Inserted(c, f))}

------------------------------------------------------------------------------
(* Initial states                                                          *)

\* What migration 033 leaves: an inactive rule is protected and keeps its key.
Migrated(status, old) ==
    [status |-> [s \in Statuses |->
         IF s \in OldStatuses THEN status[s] ELSE Unused],
     rules |-> [i \in Ids |-> IF i \in OldIds THEN old[i] ELSE Unused],
     keys |-> {[rule |-> i, status |-> old[i].status, value |-> old[i].value] :
                   i \in {k \in OldIds : old[k].manual_protected}}]

OldRules ==
    {[status |-> to.status, value |-> to.value, note |-> to.note,
      is_active |-> active, manual_protected |-> ~active, revision |-> 1] :
         to \in Contents, active \in BOOLEAN}

\* By unique indexes a label, a priority, and a value in a status occur once.
\* Only the order of priorities counts.
Init ==
    /\ \E status \in [OldStatuses -> Status], old \in [OldIds -> OldRules] :
           /\ catalog = Migrated(status, old)
           /\ \A s, t \in OldStatuses :
                  \/ s = t
                  \/ /\ status[s].label # status[t].label
                     /\ status[s].priority # status[t].priority
           /\ \A s \in OldStatuses : \A p \in 1..(status[s].priority - 1) :
                  \E t \in OldStatuses : status[t].priority = p
           /\ \A i \in OldIds :
                  /\ old[i].status \in OldStatuses
                  /\ At(catalog, old[i].status, old[i].value) = {i}
    /\ job \in [Jobs -> [status: {"none"}, phase: {"preview"},
                         cancel_requested: {FALSE}, expired: {FALSE},
                         purged: {FALSE}, preview_ready: {FALSE},
                         attempts: {0}, preview: {NoCatalog}, file: Files]]
    /\ run = [j \in Jobs |-> "none"]
    /\ base = [j \in Jobs |-> NoCatalog]
    /\ page = [j \in Jobs |-> NoCatalog]
    /\ form = [r \in Requests |-> NoForm]
    /\ receipts = {}
    /\ changes = 0
    /\ agreed = [j \in Jobs |-> NoCatalog]

------------------------------------------------------------------------------
(* The regulatory lock                                                     *)

\* Only the transaction of a run holds it for more than one step.
LockFree == \A j \in Jobs : run[j] # "begun"

\* A bound: no revision grows beyond MaxRevision.
Fits(c) == \A i \in Live(c) : c.rules[i].revision <= MaxRevision

Writes(c) ==
    /\ Fits(c)
    /\ catalog' = c

------------------------------------------------------------------------------
(* Editing by hand                                                         *)

Take(r, f) ==
    /\ r \notin receipts
    /\ form' = [form EXCEPT ![r] = f]
    /\ UNCHANGED <<catalog, job, run, base, page, receipts, changes, agreed>>

\* Someone fills in a page, an empty one or that of a rule, or is about to
\* deactivate or restore the rule.  The page may be filled in again until it was
\* accepted.
FillNew(r, to) ==
    /\ to.status \in InUse(catalog)
    /\ Take(r, [action |-> "create", rule |-> NoId, shown |-> Unused, to |-> to])

FillEdit(r, i, to) ==
    /\ to.status \in InUse(catalog)
    /\ Take(r, [action |-> "edit", rule |-> i, shown |-> catalog.rules[i],
                to |-> to])

FillSwitch(r, i) ==
    Take(r, [action |-> "switch", rule |-> i, shown |-> catalog.rules[i],
             to |-> ContentOf(catalog.rules[i])])

\* Mutant of AsShown: the revision is not compared.
StillThere(f) == f.rule \in Live(catalog)

\* The rule of the form as it is now, if the page still shows it.
AsShown(f) ==
    /\ f.rule \in Live(catalog)
    /\ catalog.rules[f.rule].revision = f.shown.revision

\* The checks that create and edit have in common.
Claims(f) ==
    /\ f.to.status \in InUse(catalog)
    /\ ~Collides(catalog, f.to.status, f.to.value, f.rule)

\* Keys are kept for the rule before and after the edit.
Kept(c, i) == Preserve(c, KeyOf(c, i))

Put(c, i, rule) == Kept([c EXCEPT !.rules[i] = rule], i)

Create(f, i) ==
    /\ f.action = "create"
    /\ Claims(f)
    /\ catalog.rules[i] = Unused
    /\ Writes(Put(catalog, i, [status |-> f.to.status, value |-> f.to.value,
                  note |-> f.to.note, is_active |-> TRUE,
                  manual_protected |-> TRUE, revision |-> 1]))

\* Mutant of Edited: the key the rule had is not kept.
EditedOnly(f, rule) ==
    Writes(Put(catalog, f.rule, Bumped([rule EXCEPT !.manual_protected = TRUE])))

Edited(f, rule) ==
    Writes(Put(Kept(catalog, f.rule), f.rule,
               Bumped([rule EXCEPT !.manual_protected = TRUE])))

Edit(f) ==
    /\ f.action = "edit"
    /\ AsShown(f)
    /\ Claims(f)
    /\ f.to # ContentOf(catalog.rules[f.rule])
    /\ Edited(f, [catalog.rules[f.rule] EXCEPT !.status = f.to.status,
                                               !.value = f.to.value,
                                               !.note = f.to.note])

\* deactivate and restore: the one that applies to the rule on the page.  There
\* is no look at other rules: an inactive one has kept its place.
Switch(f) ==
    /\ f.action = "switch"
    /\ AsShown(f)
    /\ Edited(f, [catalog.rules[f.rule] EXCEPT !.is_active = ~@])

\* A request_id that has an event is replayed or refused, whatever it carries.
New(r) == r \notin receipts

\* mutate: the page is sent, once or again.
Mutate(r) ==
    /\ LockFree
    /\ form[r] # NoForm
    /\ New(r)
    /\ \/ \E i \in Ids : Create(form[r], i)
       \/ Edit(form[r])
       \/ Switch(form[r])
    /\ receipts' = receipts \cup {r}
    /\ UNCHANGED <<job, run, base, page, form, changes, agreed>>

\* Sent once more, the page gets the answer of the first time or a refusal.
Resend(r) ==
    /\ r \in receipts
    /\ UNCHANGED vars

------------------------------------------------------------------------------
(* Statuses                                                                *)

\* The rules of these statuses get new copies of label and priority.
Relabelled(c, changed) ==
    [i \in Ids |-> IF i \in Live(c) /\ c.rules[i].status \in changed
                   THEN Bumped(c.rules[i]) ELSE c.rules[i]]

WithChanged(c, status, changed) ==
    [status |-> status, rules |-> Relabelled(c, changed), keys |-> c.keys]

Administered ==
    /\ LockFree
    /\ UNCHANGED <<job, run, base, page, form, receipts, agreed>>

Counted ==
    /\ changes < MaxChanges
    /\ changes' = changes + 1

AddStatus(l) ==
    /\ Labelled(catalog, l) = {}
    /\ \E new \in Additions(catalog, {l}) : Writes(WithStatuses(catalog, new))
    /\ Administered /\ Counted

\* The status is still the one on the page of the administrator.
RenameStatus(s, l) ==
    /\ s \in InUse(catalog)
    /\ Labelled(catalog, l) = {}
    /\ Writes(WithChanged(catalog, [catalog.status EXCEPT ![s].label = l], {s}))
    /\ Administered /\ Counted

\* Up or down: a status changes places with its neighbour.
SwapPriorities(s, t) ==
    /\ s \in InUse(catalog) /\ t \in InUse(catalog)
    /\ catalog.status[s].priority < catalog.status[t].priority
    /\ \A u \in InUse(catalog) :
           \/ catalog.status[u].priority <= catalog.status[s].priority
           \/ catalog.status[u].priority >= catalog.status[t].priority
    /\ Writes(WithChanged(catalog,
           [catalog.status EXCEPT ![s].priority = catalog.status[t].priority,
                                  ![t].priority = catalog.status[s].priority],
           {s, t}))
    /\ Administered /\ Counted

\* cleanup_statuses, for a status that nothing refers to.
RemoveStatus(s) ==
    /\ s \in InUse(catalog)
    /\ \A i \in Live(catalog) : catalog.rules[i].status # s
    /\ \A k \in catalog.keys : k.status # s
    /\ Writes([catalog EXCEPT !.status[s] = Gone])
    /\ Administered
    /\ UNCHANGED changes

------------------------------------------------------------------------------
(* The queue, seen by those who upload and decide                          *)

NotYet(j) == job[j].status = "none"
Idle(j) == run[j] = "none"

Submit(j) ==
    /\ LockFree
    /\ NotYet(j)
    /\ job' = [job EXCEPT ![j].status = "queued"]
    /\ UNCHANGED <<catalog, run, base, page, form, receipts, changes, agreed>>

\* The job page, with what the run has found and a button to confirm it.
OpenPage(j) ==
    /\ job[j].preview_ready
    /\ page' = [page EXCEPT ![j] = job[j].preview]
    /\ UNCHANGED <<catalog, job, run, base, form, receipts, changes, agreed>>

Cancel(j) ==
    /\ job[j].status \in {"queued", "running"}
    /\ ~job[j].cancel_requested
    /\ job' = [job EXCEPT ![j].cancel_requested = TRUE,
                          ![j].status = IF @ = "queued" THEN "cancelled" ELSE @]
    /\ agreed' = [agreed EXCEPT ![j] = NoCatalog]
    /\ UNCHANGED <<catalog, run, base, page, form, receipts, changes>>

\* Mutant of Confirmable: the fingerprint of the form is not compared.
ConfirmableBlindly(j) ==
    /\ job[j].status = "completed" /\ job[j].phase = "preview"
    /\ job[j].preview_ready
    /\ ~job[j].expired /\ ~job[j].purged

\* control apply: the page has the fingerprint of the preview.  The number of
\* rules to delete is asked for too; it follows from the preview.
Confirmable(j) ==
    /\ job[j].status = "completed" /\ job[j].phase = "preview"
    /\ job[j].preview_ready
    /\ ~job[j].expired /\ ~job[j].purged
    /\ page[j] = job[j].preview

Confirm(j) ==
    /\ page[j] # NoCatalog
    /\ Confirmable(j)
    /\ job' = [job EXCEPT ![j].status = "queued", ![j].phase = "apply",
                          ![j].preview_ready = FALSE]
    /\ agreed' = [agreed EXCEPT ![j] = page[j]]
    /\ UNCHANGED <<catalog, run, base, page, form, receipts, changes>>

\* Neither the time nor the purge is looked at: such a job is cancelled again
\* when it is claimed.
Retry(j) ==
    /\ \/ job[j].status \in {"failed", "cancelled"}
       \/ job[j].status = "completed" /\ job[j].phase = "preview"
    /\ job[j].attempts < MaxAttempts
    /\ job' = [job EXCEPT ![j].status = "queued", ![j].phase = "preview",
                          ![j].preview_ready = FALSE, ![j].preview = NoCatalog,
                          ![j].cancel_requested = FALSE]
    /\ agreed' = [agreed EXCEPT ![j] = NoCatalog]
    /\ UNCHANGED <<catalog, run, base, page, form, receipts, changes>>

------------------------------------------------------------------------------
(* The workers.  The job lock of a session keeps other workers off.        *)

\* Mutant of ClaimQueued: the number of attempts is not looked at.
ClaimAgain(j) ==
    /\ Idle(j)
    /\ job[j].status = "queued"
    /\ IF job[j].cancel_requested \/ job[j].expired
       THEN /\ job' = [job EXCEPT ![j].status = "cancelled"]
            /\ UNCHANGED run
       ELSE /\ job' = [job EXCEPT ![j].status = "running",
                                  ![j].attempts = @ + 1]
            /\ run' = [run EXCEPT ![j] = "claimed"]
    /\ UNCHANGED <<catalog, base, page, form, receipts, changes, agreed>>

ClaimQueued(j) ==
    /\ Idle(j)
    /\ job[j].status = "queued"
    /\ IF \/ job[j].cancel_requested \/ job[j].expired
          \/ job[j].attempts >= MaxAttempts
       THEN /\ job' = [job EXCEPT ![j].status = "cancelled"]
            /\ UNCHANGED run
       ELSE /\ job' = [job EXCEPT ![j].status = "running",
                                  ![j].attempts = @ + 1]
            /\ run' = [run EXCEPT ![j] = "claimed"]
    /\ UNCHANGED <<catalog, base, page, form, receipts, changes, agreed>>

\* The worker of a job that runs has died: it must be previewed again.
ClaimInterrupted(j) ==
    /\ Idle(j)
    /\ job[j].status = "running"
    /\ job' = [job EXCEPT ![j].status = "failed", ![j].preview_ready = FALSE]
    /\ UNCHANGED <<catalog, run, base, page, form, receipts, changes, agreed>>

\* No rule is twice in the file.
Distinct(f) ==
    \A row, other \in f.rows :
        row.value = other.value /\ row.label = other.label => row = other

\* The transaction of the run: the lock, then the plan.  One that begins when
\* the job has expired, or has a file with errors, fails in any case.
Begin(j) ==
    /\ LockFree
    /\ run[j] = "claimed"
    /\ ~job[j].expired
    /\ Distinct(job[j].file)
    /\ run' = [run EXCEPT ![j] = "begun"]
    /\ base' = [base EXCEPT ![j] = catalog]
    /\ UNCHANGED <<catalog, job, page, form, receipts, changes, agreed>>

\* Mutant of MayFinish: the row is not read again.
MayFinishAnyway(j) == run[j] = "begun"

\* The last look at the row.  That the job expires during the transaction goes
\* unnoticed: now() is when it began.
MayFinish(j) ==
    /\ run[j] = "begun"
    /\ ~job[j].cancel_requested
    /\ ~job[j].purged

Completed(j, ready) ==
    /\ job' = [job EXCEPT ![j].status = "completed",
                          ![j].preview_ready = ready, ![j].preview = base[j]]
    /\ run' = [run EXCEPT ![j] = "none"]
    /\ base' = [base EXCEPT ![j] = NoCatalog]

FinishPreview(j) ==
    /\ MayFinish(j)
    /\ job[j].phase = "preview"
    /\ Completed(j, TRUE)
    /\ UNCHANGED <<catalog, page, form, receipts, changes, agreed>>

\* Mutant of SamePlan: the fingerprint is not compared.
AnyPlan(j) == job[j].preview # NoCatalog

\* apply_plan: the fingerprint of the catalogue is that of the preview.  The
\* digest of the plan then is the same too.
SamePlan(j) == base[j] = job[j].preview

FinishApply(j) ==
    /\ MayFinish(j)
    /\ job[j].phase = "apply"
    /\ SamePlan(j)
    /\ \E c \in Outcomes(base[j], job[j].file) : Writes(c)
    /\ Completed(j, FALSE)
    /\ agreed' = [agreed EXCEPT ![j] = NoCatalog]
    /\ UNCHANGED <<page, form, receipts, changes>>

\* An error, a refusal, or the watcher ends the run: it is rolled back.
Fail(j) ==
    /\ ~Idle(j)
    /\ job' = [job EXCEPT ![j].status = IF job[j].cancel_requested
                                        THEN "cancelled" ELSE "failed",
                          ![j].preview_ready = FALSE]
    /\ run' = [run EXCEPT ![j] = "none"]
    /\ base' = [base EXCEPT ![j] = NoCatalog]
    /\ UNCHANGED <<catalog, page, form, receipts, changes, agreed>>

\* The process ends, and its session with all locks.
Crash(j) ==
    /\ ~Idle(j)
    /\ run' = [run EXCEPT ![j] = "none"]
    /\ base' = [base EXCEPT ![j] = NoCatalog]
    /\ UNCHANGED <<catalog, job, page, form, receipts, changes, agreed>>

------------------------------------------------------------------------------
(* Expiry and cleanup                                                      *)

Expire(j) ==
    /\ ~NotYet(j)
    /\ ~job[j].expired
    /\ job' = [job EXCEPT ![j].expired = TRUE]
    /\ UNCHANGED <<catalog, run, base, page, form, receipts, changes, agreed>>

Due(j) == job[j].expired /\ ~job[j].purged

\* A request to cancel, in a transaction of its own.
RequestEnd(j) ==
    /\ Due(j)
    /\ job[j].status = "running"
    /\ ~job[j].cancel_requested
    /\ job' = [job EXCEPT ![j].cancel_requested = TRUE]
    /\ agreed' = [agreed EXCEPT ![j] = NoCatalog]
    /\ UNCHANGED <<catalog, run, base, page, form, receipts, changes>>

Purge(j) ==
    /\ Due(j)
    /\ Idle(j)
    /\ job' = [job EXCEPT
            ![j].purged = TRUE, ![j].preview = NoCatalog,
            ![j].preview_ready = FALSE,
            ![j].cancel_requested =
                @ \/ job[j].status \in {"queued", "running"},
            ![j].status = IF @ \in {"queued", "running"} THEN "cancelled" ELSE @]
    /\ agreed' = [agreed EXCEPT ![j] = NoCatalog]
    /\ UNCHANGED <<catalog, run, base, page, form, receipts, changes>>

------------------------------------------------------------------------------

Editing ==
    \E r \in Requests :
        \/ Mutate(r) \/ Resend(r)
        \/ \E to \in Contents : FillNew(r, to)
        \/ \E i \in Live(catalog) :
               FillSwitch(r, i) \/ \E to \in Contents : FillEdit(r, i, to)

Managing ==
    \/ \E l \in Labels : AddStatus(l) \/ \E s \in Statuses : RenameStatus(s, l)
    \/ \E s, t \in Statuses : SwapPriorities(s, t)
    \/ \E s \in Statuses : RemoveStatus(s)

Deciding(j) == Submit(j) \/ OpenPage(j) \/ Cancel(j) \/ Confirm(j) \/ Retry(j)

Working(j) ==
    \/ ClaimQueued(j) \/ ClaimInterrupted(j) \/ Begin(j)
    \/ FinishPreview(j) \/ FinishApply(j) \/ Fail(j) \/ Crash(j)

Cleaning(j) == Expire(j) \/ RequestEnd(j) \/ Purge(j)

Next ==
    \/ Editing
    \/ Managing
    \/ \E j \in Jobs : Deciding(j) \/ Working(j) \/ Cleaning(j)

Spec == Init /\ [][Next]_vars

------------------------------------------------------------------------------
(* Properties                                                              *)

\* A value has one rule in a status.  An edited rule owns every key it has had
\* since its first edit, and no import and no other edit gives that key to
\* another rule; without that, a correction by hand would be undone by the next
\* file (regulatory_manual.collision, build_plan).
KeysStayWithOwner ==
    /\ \A i, j \in Live(catalog) :
           KeyOf(catalog, i) = [KeyOf(catalog, j) EXCEPT !.rule = i] => i = j
    /\ \A i \in Live(catalog) :
           catalog.rules[i].manual_protected => KeyOf(catalog, i) \in catalog.keys
    /\ \A k \in catalog.keys :
           /\ k.rule \in Live(catalog)
           /\ catalog.rules[k.rule].manual_protected
           /\ At(catalog, k.status, k.value) \subseteq {k.rule}
           /\ Holders(catalog, k.status, k.value) = {k.rule}

\* A job that is applied was confirmed on a page whose preview is the change
\* that is now made; after that nobody cancelled it, retried it or saw it purged,
\* and it was not applied before (control, apply_plan, run_once).
Applying(j) ==
    /\ job[j].phase = "apply"
    /\ job[j].status = "running"
    /\ job'[j].status = "completed"

WritesWhatWasConfirmed ==
    [][\A j \in Jobs : Applying(j) =>
           /\ agreed[j] # NoCatalog
           /\ catalog = agreed[j]
           /\ catalog' \in Outcomes(agreed[j], job[j].file)]_vars

\* An import neither changes nor removes what was edited by hand, nor a key
\* (apply_plan: AND NOT manual_protected).
ImportsSpareEdits ==
    [][(\E j \in Jobs : Applying(j)) =>
           /\ catalog'.keys = catalog.keys
           /\ \A i \in Live(catalog) : catalog.rules[i].manual_protected =>
                  catalog'.rules[i] = catalog.rules[i]]_vars

\* A page changes a rule only once, and only if all that it shows of the rule
\* still is what the rule has; the key it had is kept (expected_revision,
\* request_id, preserve_key).
EditsWhatIsShown ==
    [][\A i \in Live(catalog) :
           (catalog'.rules[i] # catalog.rules[i] /\ job' = job
              /\ catalog'.status = catalog.status) =>
               \E r \in Requests :
                   /\ r \in receipts' \ receipts
                   /\ form[r].rule = i /\ form[r].shown = catalog.rules[i]
                   /\ KeyOf(catalog, i) \in catalog'.keys]_vars

=============================================================================
