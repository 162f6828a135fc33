# A formal model of Search-tools

Search-tools is an internal web application (Flask and PostgreSQL) with which a
trading company looks up chemical products, prices and regulatory restrictions
and writes quotes. Administrators keep the catalogue, the stock list and the
regulatory rules, mostly by importing Excel workbooks through durable queues
served by a separate worker process. This directory holds TLA+ models of the
parts of that program whose correctness depends on the order in which things
happen, the TLC runs that check them and the TLAPS proofs about them.

## 1. Inventory of the system

| Component | State it keeps | Operations | Interacts through |
|---|---|---|---|
| Product import queue (`import_jobs.py`, `scripts/import_worker.py`, `admin_import_center.py`) | `product_import_jobs`, `product_import_rows`, workbooks on disk, session advisory locks | submit, cancel, confirm, retry; claim, stage, preview, apply, settle; cleanup | the products lock with every catalogue writer, `require_actor` with the accounts |
| Import engine (`import_engine.py`) | temporary tables of one transaction | inspect, stage, resolve brands, fingerprint, plan, apply | called by the queue and the command line |
| Stock (`stock.py`, `stock_import_jobs.py`, `stock_manual.py`) | immutable snapshots, the singleton `stock_state`, jobs, receipts of manual requests | import, restore, manual review and save | products lock, then stock lock, then the account |
| Regulatory import (`regulatory_import_jobs.py`) | jobs, `regulatory_rules` | as the product queue, with expiry in the watcher and protected rules | regulatory lock |
| Manual regulatory rules (`regulatory_manual.py`) | rules with revisions, request receipts, historical keys | add, edit, delete | regulatory lock, idempotent requests |
| Regulatory resolution (`regulatory.py`, `compliance_resolver.py`) | none | which status a product shows | read only |
| Product administration (`admin_products.py`) | products, delete previews, backups | create, update, delete preview and apply, restore | products lock |
| Brand gateway and currency (`brand_gateway.py`, `currency_rates.py`) | brand master, aliases, rates with history | resolve, register, update a rate | products lock |
| Accounts, roles, sessions (`admin_permissions.py`, `admin_google_users.py`, `admin_lifecycle.py`, `session_security.py`) | `app_users`, grants, `auth_version` | approve, suspend, change role, archive, restore, revoke sessions | the account lock; a share lock on the account fences running jobs |
| Teams (`admin_teams.py`, `team_permissions.py`) | teams, members, capabilities, preview tokens | change permissions, archive, restore | preview and confirm in separate transactions |
| Network access (`middleware_access.py`) | access mode, allow list | admit or refuse a request | every request |
| Quotes (`search.py`, `static/quick_quote.js`, `quote_workbook_export.py`) | none in the database; results, picks and marks on the page | match, preflight, export a workbook | read products, rules and rates in several statements |
| Quote templates (`search.py`) | `quote_templates`, `team_quote_templates` | upload, activate, assign, archive; resolve for an export | an advisory lock for the active template, row locks |
| Search and suggestions (`search.py`) | a query log | search, suggest | read only; share visibility and rights with quotes |
| Login (`auth_google.py`, `search.py`) | the session cookie | enter, apply, bind an invitation | accounts, `auth_version` |
| Scripts and migrations (`scripts/`, `sql/`) | | seed, bootstrap, migrate, rehearse | mostly while the program is stopped |

Where it is hard:

* **Concurrency.** Gunicorn workers, import workers, watch threads with their
  own connections and the cleanup all write the same rows. Mutual exclusion is
  spread over session advisory locks, transaction advisory locks, row locks and
  re-reads of rows.
* **Failure.** A worker may be killed at any point; database locks vanish with
  its connection, files on disk do not. The queue cannot tell a commit that
  happened from one that did not except by the row.
* **Staleness.** Every destructive operation is previewed in one transaction and
  confirmed in another, minutes later, perhaps by someone else. Fingerprints,
  revisions, request ids and `auth_version` are what makes that safe.
* **Time.** Jobs expire, runs have deadlines, and `now()` is fixed when a
  transaction begins, not when it gets its lock.

What makes each component correct is listed with its module below; the plan
says the same of the components that have no module yet. PROJECT.json lists every hazard
with the line where it bites and the properties that would notice.

## 2. Plan

Modules in the order in which they are written. A module is one component, and
parameterised by CONSTANTS; the ones marked (P) are to be proved about.

1. `ImportQueue` (P), `ConfirmedImport`: done, see section 3.
2. `StockLedger` (P): done, see section 4.
3. `RegulatoryRules` (P): done, see section 7. It has the second queue and the
   manual rules in one module, because their interaction is what can go wrong.
4. `Accounts` (P): done, see section 5. `TeamPreviews` (P): done, see section 6.
5. `ProductDesk` (P): done, see section 8.
6. `QuoteMatching` (P), `QuoteDesk` (P): done, see section 9.
7. Open: `LockOrder`, every transaction as the sequence of locks it takes, to show that
   there is no deadlock for any number of transactions; `ImportPlan`, the plan of a
   product import against a reference definition; brands with aliases and their
   registration; the admission of uploads by count and bytes.

Modules meet where components do: `ImportQueue` and `StockLedger` both implement
`ConfirmedImport`; `QuoteDesk` extends `QuoteMatching`; `RegulatoryRules` and
`ProductDesk` have the imports as actions beside the manual ones. What they share
beyond that is abstracted where it is used, to what the other module guarantees: an account
that is checked under its lock is one Boolean or nothing outside `Accounts`, an import is
one step outside its queue.

A property that some run no longer checks is marked "proved" below: its run has
been freed for another question, since its theorem says more than the run did.

## 3. The product import queue

`ImportQueue` models `import_jobs.py` and the loop of `scripts/import_worker.py`.

### State

| Variable | In the program |
|---|---|
| `jobs` | table `product_import_jobs`; statuses "absent" and "deleted" mean there is no row yet, or no more |
| `files` | the uploaded workbooks on disk |
| `rows` | table `product_import_rows` of each job: none, a part, all rows |
| `locks` | the session advisory lock of each job, by the worker whose connection holds it |
| `products` | the transaction advisory lock all writers of the catalogue take |
| `catalogue` | the version of the catalogue; `catalog_fingerprint` is equal exactly when the version is |
| `pc`, `todo`, `task` | where a worker is in its loop, the ids it listed, the job it runs as it read it |
| `screen` | the job page in each operator's browser and the request that is under way from it |
| `authorised` | jobs whose submitting account would still pass `require_actor` |
| `applied`, `crashes` | history: committed applications, and a counter that bounds crashes |

### Actions

* The web application: `Submit`, `Open`, `Send`, and one of `Refuse`, `Cancel`,
  `Confirm`, `Retry`. A request is two steps, because `control` fixes `now()`
  when its transaction begins and may then wait for the row.
* Cleanup: `StartCleanup`, `SkipLocked`, `Unlink`, `Purge`, `DropAudit`. The file
  is removed in one step and the row purged in a later one, as in the code.
* Claim: `List`, `SkipLocked`, `SkipSettled`, `Recover`, `Discard`, `Claim`,
  `RowVanished`, `Drain`. Each listed job is visited under its lock in the order
  of creation; the row is read again, not taken from the list.
* The run: `Stage`, `Load`, `LockProducts`, `MakePlan`, `FinishPreview`,
  `FinishApply`, and on any exception `Fail` with `Settle` or `SettleFails`, then
  `Close`. Everything between `LockProducts` and `Finish` is one database
  transaction: a failure or a crash before `Finish` leaves the catalogue and the
  row as they were.
* The environment: `Crash` (the process dies or an exception leaves the body of
  the loop), `WriteCatalogue` (another writer, under the products lock),
  `Expire`, `Revoke`.

Abstracted: the content of workbooks and plans (a plan is the version of the
catalogue it was built on), counters shown to users, the event log, and
`processed_count`. The watcher thread is part of `Fail`: whatever it notices,
its effect is to make the run raise. The regulatory lock that `run_once` takes
after the products lock is left out: it only makes the worker wait longer.
`Submit` is one step, which is what its admission lock makes of it; a second
submission with the same key returns the existing job and changes nothing.

### What is checked

Run `import_queue` (`MCImportQueue`, about 650,000 states): one job, two
workers, two operators, two attempts, one crash, one foreign write. One job is
enough for everything that concerns a job and its lock, because jobs share only
the products lock; two workers and a foreign writer contend for that one. Two
attempts allow a preview, then an apply or a retried preview, and reaching the
limit; two operators allow every stale page and double click.

* `CancelWins`: an accepted cancel is never answered with "completed".
* `PreviewIsBacked`: what can be confirmed has all its rows and its preview.
* `PurgedIsOver`: a request that waited for the row does not revive a purged job.
* `AppliesOnlyPreviewedPlans`, `ConfirmsWhatIsShown`: action properties; a commit is
  of the previewed plan on an unchanged catalogue for an account valid at that
  moment, and only what was on the operator's page is queued for application.
* `KeepsPromise`: the queue implements `ConfirmedImport`, a specification of a
  dozen lines without queue, workers or crashes, under the mapping `Approved`.

Run `import_queue_live` (`MCImportQueueLive`, about 230,000 states): two jobs in
one queue, one worker, one crash. `JobsComeToRest` and `ExpiredIsPurged` under weak
fairness of each worker's steps: systemd restarts the worker, statements have a
timeout and a run has a deadline, so the loop never stays put. Nothing is assumed of operators:
one of them may retry and confirm the first job for ever. The run restricts the
environment (no foreign writes, no revocation, nobody touches the second job) to keep the graph
small; it is the job behind a busy one that could starve.

Deadlock is checked in both runs: the worker's loop never stops.

### What is proved

`ImportQueueProofs` proves every safety property above, and the refinement, for
any number of jobs, workers, operators, attempts and crashes. Three more are
proved and not part of the run: `NoStolenJob` (no operator, cleanup or second worker
takes a job from under a live worker, although `run_once` never reads the status
again), `OneWorkerPerJob` (the session lock does what it is for) and `AppliedOnce` (at
most one application, and the row tells whether it happened). None of them is
inductive. The invariant `IInv` adds

* `LockInv`: a worker past the try-lock holds the lock of its job;
* `ProductsInv`: the products lock is held exactly inside the main transaction;
* `TaskInv`: while it is at work, the row is running and is what the worker read;
  from staging on its rows are complete; between plan and commit the catalogue
  is the planned one, because nobody else can have the products lock, and the
  account is valid, because its row is locked;
* `RowInv`: what a row may look like (a purged row has nothing left, a row ready
  to confirm has its backing, no preview is of a future catalogue);
* `LedgerInv`: a job is in the ledger if and only if its row says it was applied.

Each part has a lemma with one step per action. The step that carries the
weight is `FinishApply`: by `TaskInv` its job is running, by `LedgerInv` it has not
been applied, and by `ProductsInv` the catalogue is still the one of the plan.
Assumed of the constants: the limits are natural numbers, `NoWorker` is not a
worker and `NoPlan` is not a number.

Only model-checked: the two liveness properties, which are beyond the prover.

## 4. The stock ledger

`StockLedger` models `stock_import_jobs.py`, `stock_manual.py` and the state that
`stock.py` keeps: a chain of immutable snapshots and the singleton `stock_state` that
points to the active one. Three kinds of writer extend the chain, and each of
them works from something a person saw earlier: an import job from its preview, a
restoration from the stock page, the edit of one row from a signed review.

### State

| Variable | In the program |
|---|---|
| `snapshots` | tables `stock_snapshots` and `stock_items`; a snapshot is a record with its set of items, numbered in the order of the commits |
| `state` | the row of `stock_state`: the active snapshot and the revision |
| `brand` | how `brand_master` spells the one brand of all rows, or that it is not registered |
| `tokens` | the signed reviews of `stock_manual.review`; a browser has them, so they can be sent late, twice or never |
| `receipts` | table `stock_manual_requests` |
| `jobs`, `locks` | table `stock_import_jobs` and the session advisory lock of each job |
| `writer` | the worker whose main transaction has the products lock and the stock lock |
| `pc`, `task` | where each worker is, its job and the plan it made |
| `screen` | the page of each administrator: the stock list with its revision, or a job with its preview |
| `valid` | accounts that would pass `require_actor` |
| `crashes` | a counter that bounds crashes |

### Actions

* Pages and reviews, which change nothing in the database: `OpenStock`, `OpenJob`,
  `Review`.
* Transactions of the web application, one step each, because they hold the
  locks throughout: `Restore`, `Save`, `Submit`, `Cancel`, `Confirm`, `Retry`. A refused
  request changes nothing and is no step.
* A worker: `Recover`, `Discard`, `Claim`; then `Lock`, `MakePlan`, `FinishPreview`
  or `FinishApply`; on any exception `Fail` with `Settle` or `SettleFails`; `Close`.
  These are separate steps, since a cancel request takes only the row of the job
  and may come between any two.
* The environment: `Crash`, `RegisterBrand` (another import registers the brand,
  under the products lock), `Revoke` (which waits for the share lock on the account).

Abstracted: all rows are of one brand, which can be written in several ways,
because brands interact only through their own spelling; the fields that
identify a row are one `code`, the others one `amount`. Both domain locks are one
variable, as the actions that need one of them only (`Restore`, `Submit` and
`RegisterBrand`) would merely wait less. `_claim` may take any job, not the oldest. The
repeated delivery of a saved review, or of another one with its request id,
changes nothing, so `Save` is disabled by the receipt. Reviews do not expire and
the submission key is left out.

### What is checked

Run `stock_ledger` (`MCStockLedger`, about 490,000 states): one job, two workers,
one administrator, two request ids, two reviews, two attempts, one crash, up to four
snapshots by restoration. That is enough for every pair of
writers to meet (import and edit, import and restoration, edit and edit, edit
and restoration), for an edit to be sent twice, and for a job to be previewed,
applied, or cancelled and previewed again. Two spellings make a registration
by somebody else visible. One administrator suffices, because what is shown to
one and done by another is no more than a stale page, and pages grow stale here.

* `LinearHistory`: no lost update. Each snapshot replaced its predecessor.
* `OneSnapshotEach`: a job or an edit request adds one snapshot at most, and the
  row or the receipt tells whether it did, also after crashes and retries.
* `RowsAreClean`: identities are unique and brands are spelled as registered in
  every snapshot, whoever registers brands in between.
* `ReplacesWhatWasShown`: an action property; each new snapshot is of an entitled
  account and was shown to a person against the snapshot it replaces.
* `KeepsPromise`: of its imports, the ledger implements `ConfirmedImport`, the same
  abstract specification as the product queue.

The program does less than its messages say in two places.

* The run `stock_confirm` (`ConfirmsWhatIsShown`): the fingerprint that `control` compares
  stands for the active snapshot, not for the preview. A page with the first
  preview of a job confirms the second one, if a brand was registered in
  another spelling in between. The product queue does not have this: its fingerprint
  covers the brands. `ReplacesWhatWasShown` holds nonetheless, because it asks for the
  preview in the row and not for the one on the page.
* `RegistersWhatWasPreviewed`, which has no run of its own: `_apply` (`stock_import_jobs.py:423`)
  compares the new brands with those of a plan made a moment before in the same transaction, where
  they cannot differ. A brand announced as new may have been registered since; the import
  goes through and registers nothing. The rows are as previewed all the same. The cause is that of
  `stock_confirm`, as the theorem `BrandsAsPreviewed` shows.

Deadlock is checked in the first run. Liveness is not: the worker's loop is the
one of section 3.

### What is proved

`StockLedgerProofs` proves the properties of `stock_ledger`, the refinement included,
for any number of jobs, workers, accounts, workbooks, reviews, snapshots and
crashes, and besides them `CancelWins`: an accepted cancel is never answered with
"completed". The invariant `IInv` consists of the state properties and of

* `LockInv`, `WriterInv`: who has a job has its session lock, and who is in its main
  transaction has both domain locks;
* `TaskInv`: between claim and settling the row is running; between plan and
  commit the plan is what the worker would plan now, the account is valid and the plan
  agrees with the preview, if this is the second phase;
* `RowInv`: what may be confirmed or applied has a preview, never of a
  snapshot to come;
* `SourceInv`: a snapshot names the job it came from, and only imports do.

They are needed because the action that matters, `FinishApply`, compares nothing:
it relies on what `MakePlan` found several steps earlier. `RunningRowStays` and
`LedgerStays` are the heart of the argument. Between the two steps others may
touch the row of the job only to ask for its cancellation, and nobody can
write to the ledger, register the brand or invalidate the account. The lemmas
`EditedRow` and `Activated` say once what a change of a row and a new snapshot do to
the two sequences; the lemmas named after an action apply them.

Two more theorems say why these two properties fail, and
that there is no other reason. `ConfirmedAsShown` and `BrandsAsPreviewed` prove
`ConfirmsWhatIsShown` and `RegistersWhatWasPreviewed` from `Spec` and `BrandsInPeace`: no
product import or edit registers the brand while a preview of the current stock list is
stored in a row or looked at. The invariant is `Told`: a preview, stored or on a page, that is of the
current revision is what would be planned now (so two of them are equal), and a page shows what the row
has if their fingerprints agree, even when both are old. A new snapshot makes every preview an old one and
needs no assumption; a registration leaves the revision alone, and that is all that is assumed away.
Comparing the brands too, as the product queue does, would close the gap.

Assumed of the constants: the limits are natural numbers, workbooks and edits
have the shape of their types, and the markers for "none" are not values.

## 5. Accounts, roles and sessions

`Accounts` models who may do what, and for how long: the handlers of
`admin_google_users.py` and `admin_lifecycle.py`, the user form of `search.py`,
`admin_permissions.py`, the triggers of migrations 020 and 030, logins, and
`session_security.py`. A session is a signed cookie that cannot be taken back; it
repeats the role and the team that the account had at the login, and dies because
each request compares its `auth_version` with the account's.

### State and actions

| Variable | In the program |
|---|---|
| `account` | a row of `app_users` with its `admin_menu_grants`; status "NONE" means that there is no row |
| `openTeams` | the teams whose `lifecycle_status` is ACTIVE |
| `session` | the cookie in each browser; `super` and `grants` are not part of the real cookie and are recorded for the properties only |

* `Invite`, `Approve`, `Suspend`, `Reactivate`, `UpdateGoogle`, `RevokeSessions` for GOOGLE
  accounts; `CreateUser`, `UpdateUser`, `ArchiveUser`, `RestoreUser` for LOCAL ones; `SetAccess`
  for grants; `ArchiveTeam`, `RestoreTeam`. Each is one transaction under the account
  lock and therefore one step. It starts with `Authorised`, which is `require_actor`, and, if it
  concerns a user, with `MayTouch`, which is `guard_user_mutation`. The guard and the handler each
  read the role of the form: `AsksForAdmin` as it was sent, in lower case, `MakesAdmin` without the
  blanks around it. So a form has one of three roles, and "padded" is "admin" with blanks.
* `AddUser`: the script `add_user.py`, without lock and without actor.
* `LoginLocal`, `LoginGoogle`, `BindInvite`, `Apply`, `Leave`.
* Every write of a row goes through `Write`, which has the triggers in it: `SuperStays`
  (the last super administrator), `Stored` (a demotion clears what only an
  administrator has), `TeamAdmits` (nobody enters an archived team).

Abstracted: the checks made before the lock, because each is made again
under it and they can be arbitrarily old by then; the several increments of
`auth_version` that the triggers may make of one change, because it is compared for
equality only; the check of a session at the beginning of an administrator's
request, for the same reason as the first. A login is one step: the row that
`_establish_session` copies was read a moment before, and if it has changed since,
the cookie has an old `auth_version` and is refused. Whose Google identity an
account is bound to is one Boolean. The preview of a team archive is in `TeamPreviews`, so here
`ArchiveTeam` may happen more often than in the program. `Reactivate` can give
INVITED in the code, but only an ACTIVE account can be suspended and a GOOGLE account
becomes ACTIVE by an identity, or by `Approve`, which needs one; so this never happens.
The initial state is what migration 030, or `bootstrap_admin.py` with one founder, leaves.

### What is checked

Run `accounts` (`MCAccounts`, about 306,000 states up to symmetry): three people, two
of them super administrators, two browsers, two teams, two permission keys, and
`auth_version` up to 3, so two changes of each account. Two super administrators
can attack each other; the third person can become anything, promoted,
demoted and promoted again included; two teams let a member be moved. Two browsers allow two
sessions of one account as well as two administrators at once.

* `SuperRemains`: an active super administrator always remains. The handlers count
  administrators of any kind; it is the trigger that makes this true.
* `SessionsAreCurrent`: whatever role and team an accepted cookie has are those of
  the account; no path that changes them forgets `auth_version`.
* `ActsWithPowersAtLogin`: no change is made with an authority that was taken
  away, or given, after the login. This is what re-reading the actor under the lock is for.
* `AdminsAnswerToSupers`: without a super administrator, no session changes an account that is an
  administrator's, and none leaves an account super or with grants, whatever the form says. This is what
  the guard achieves although it misreads a role with blanks.
* `RejectedForGood`: a cookie that the program has stopped accepting is never accepted again,
  whoever is reactivated, restored or moved back, and whichever team is opened again. Status and team
  do return to earlier values; that the cookie does not come back with them is due to `auth_version`.

Run `account_roles` shows what it does not achieve. The report of phase 6D4
(`docs/phase6d4/VALIDATION.md:10`) says that a lesser administrator does not promote anybody
(`PromotedBySupers`). `admin_permissions.py:123` compares the role without stripping it, while the handlers
(`search.py:4367`, `search.py:4456`, `admin_google_users.py:287`, `admin_google_users.py:528`) strip it first; so a role
with blanks passes the guard and makes an administrator. The new one has no grants.
One `strip()` in the guard would close the gap.

Deadlock is checked in the first run. There is nothing that must eventually happen, so there is no
liveness property.

### What is proved

`AccountsProofs` proves all properties of the run `accounts` for any number of people, teams, keys and
browsers, and two invariants that no run of this module checks: `MembersHaveOpenTeam`: nobody, not even a
suspended or archived account, belongs to an archived team, although the script adds members without
the lock (the run of section 6 checks that with an archive in several steps); and `GrantsNeedAdmin`: an
administrator who is demoted loses the grants for good (`PowersNeedAdmin`). The invariant `IInv` adds that administrators have no team
(`AdminsHaveNoTeam`) and `CookiesMatch`: a cookie whose version is that of the account
has the powers of the account, and no cookie has a version that is still to
come. From it `ActsWithPowersAtLogin` follows without looking at more than the guards.
`AdminsAnswerToSupers` rests on `OneRowOfStaff`: whatever a lesser session writes, it writes one row, and that row
has neither powers before nor after. `TrimmedRolesSuffice` proves `PromotedBySupers` from `Spec` and
`RolesAreTrimmed`, which says that nobody but a super administrator sends a role with blanks around it. So that is the only way
in which the report is wrong: no other form, grant, reactivation or move makes an administrator.

`VersionAlwaysDecides` says more than `CookiesMatch`: a cookie with the version of its account passes
the checks of the status and of the team too, so these never decide alone, and a session ends only by
a new version. `AllMoveOn` shows that every step raises the version of an active account or leaves
both the account and its team as they are, and that no version ever falls; so a rejected cookie, whose
version is behind, stays behind (`RejectedStaysRejected`). `WriteKeeps`, `RevokeKeeps` and `InsertKeeps` say under which condition a write of one
row preserves the invariant; there is one more lemma for each group of handlers.
Assumed: there is a founder, the bound of `auth_version` is positive, and the
marker for "no team" is not a team.

## 6. Teams, previews and members

`TeamPreviews` models `admin_teams.py` and the team half of `admin_lifecycle.py`. A
team is archived, or gets other brands, permissions or another network policy, in
three transactions: the preview, which stores a token; the confirmation, which
uses the token up and commits; then the change, if the team still has the
`updated_at` that the preview captured. That stamp is to stand for everything
the administrator saw. All take the account lock, except the operator's
scripts.

### State and actions

| Variable | In the program |
|---|---|
| `team` | a row of `teams` with its `team_brands`: lifecycle, policy, stamp; status "NONE" means that there is no row |
| `member` | `team_id` of `app_users` |
| `preview` | what was previewed under each token; `members` and `policy` are more than the tables keep and are recorded for the properties (the archive compares only the number of members) |
| `live` | the tokens in `team_permission_previews` and `team_lifecycle_previews` |
| `hand`, `step`, `roster` | a request that confirms: its token, how far it is, the members it has read |
| `clock` | the last stamp |
| `done` | history: the tokens whose change was made |

* `PreviewArchive`, `PreviewPolicy`, `Expire`; `Pop` is the first transaction of a
  confirmation and `ApplyPolicy` the second one of a policy. The second transaction
  of an archive is three steps, `LockTeams`, `ReadMembers`, `Archive`, because the
  script that adds members does not take the account lock and may run between
  them; `Abandon` is any refusal, and the death of the process.
* `Assign` is every handler that changes who belongs to a team (the approval and the update of a
  GOOGLE account, the two forms for LOCAL ones), with `touch_team_updated_at` for both teams.
* `CreateTeam`, `RestoreTeam`; the scripts `AddUser` and `SeedBrands`.

The trigger of migration 020 reads the team FOR SHARE, so `AddUser` waits for
`LockedTeams`. `NOW()` is when a transaction began, so real stamps need not grow; but
two transactions do not share one, and the program only asks whether two stamps are equal, so
counting up loses nothing. Abstracted: brands, `ip_policy` and permissions are one
value, since one stamp guards them all; any administrator may use any token, which is more than the
program allows; an assignment of nobody to no team touches nothing and is left out.
`SeedBrands` may have to wait for a locked team because of the foreign key, and
`add_team.py` creates teams without the lock; neither concerns a transaction under way.

### What is checked

Run `team_previews` (`MCTeamPreviews`, about a million states up to symmetry): two
teams, people, policies, tokens and requests, and two stamps. Two tokens are two
rival previews; two requests use one token twice or two tokens at once. Two stamps
are two changes, so a team can be changed between its preview and the confirmation, or archived
and restored, or two changes of it can be confirmed. Two people are needed for one to leave while the other joins.

* `MembersHaveOpenTeam`: nobody belongs to an archived team, although the script
  adds members while one is being archived.
* `MovesWhoWasShown`: those who are moved when a team is archived are those who
  were previewed, and they go where the preview said. Neither the stamp, which the
  script does not touch, nor the number of members would do alone.
* `OnceOnly`: a token serves one request, whoever clicks twice.
* `OneChangePerState`: of the changes previewed in one state of a team at most one
  is made, so no administrator overwrites the change of another unseen.

Run `team_seeding` shows a disagreement: `scripts/seed_team_brands.py` changes the
brands of a team and leaves the stamp alone, so `confirm_permissions` applies an
older preview over them. Its comment, and that of migration 015, say that
such a change is refused (`KeepsNewerPolicy`).

Deadlock is checked. Nothing has to happen eventually.

### What is proved

`TeamPreviewsProofs` proves the five properties for any number of teams, people, policies,
tokens and requests. The invariant `IInv` adds: one request at a time archives
(`OneLock`); no stamp is still to come (`StampsPast`); a team with the stamp of a preview is open
and has lost none of the members previewed (`Fresh`); what an archiving
transaction found stays true until it commits (`Locked`); a team has left the state in which a
change was previewed that was made (`Done`); members have somewhere to go (`Destination`).
`Fresh` is the point: with the number of members equal, and none lost, the sets are
equal (`SameMembers`, from the library's `FS_Subset`). `RestampKeeps` and
`ChangeKeeps` say what a new stamp preserves, for every action that gives one.

`NewerPolicyIsKept` proves the property that `team_seeding` violates from `Spec` and `SeedsInPeace`: the
script does not change the brands of a team for which an unused preview is pending. So the script is the only
cause. The invariant is `StampsTell`: a team with the stamp of a pending preview has the policy
that was previewed; everything but the script gives a new stamp with a new policy.
Assumed: people are finitely many, and the three markers for "nothing" are none of
the values they stand beside.

## 7. Regulatory rules

`RegulatoryRules` models the regulatory catalogue and all that change it: the queue of
`regulatory_import_jobs.py`, the editing by hand of `regulatory_manual.py`, the statuses of
`admin_regulatory.py` and `regulatory_status_cleanup.py`. An import replaces rules in
bulk, but must leave alone what a person has edited; a person edits the rule that
a page showed a while ago.

### State and actions

| Variable | In the program |
|---|---|
| `catalog` | statuses with label and priority, rules with revision and protection, and the keys of rules edited by hand |
| `job`, `run` | table `regulatory_import_jobs`; where the worker with the lock of a job is |
| `base` | the catalogue that the transaction of that worker has read |
| `page` | the preview that a browser shows of a job |
| `form` | a page for editing a rule, filled in; it may be sent at any time later |
| `receipts` | the `request_id`s that have left an event |
| `changes`, `agreed` | a counter for the bound; history: the catalogue on the page that was confirmed |

* `FillNew`, `FillEdit`, `FillSwitch` open and fill a page; `Mutate` is `mutate` with its four
  actions, `Resend` its answer to a repeated request.
* `AddStatus`, `RenameStatus`, `SwapPriorities`, `RemoveStatus` (`cleanup_statuses`).
* `Submit`, `OpenPage`, `Cancel`, `Confirm`, `Retry`; `ClaimQueued`, `ClaimInterrupted`, `Begin`,
  `FinishPreview`, `FinishApply`, `Fail`, `Crash`; `Expire`, `RequestEnd`, `Purge`.

Only the transaction of a run holds the regulatory lock for more than one step;
every other action is one transaction. The plan of an import is translated in full
(`Protectors`, `Inserted`, `Updated`, `Deleted`, `Additions`): what it makes of a catalogue is the
set `Outcomes`, in which only the ids are open. Revisions are bumped by the trigger whenever a rule
changes, also when the copies of label and priority in it do; these copies
stand as the bump only. Left out: colours of statuses, the references from other tables that
also keep a status, whose `request_id` it is, and legacy rules by code and name.

### What is checked

Run `regulatory_rules` (`MCRegulatoryRules`, about 636,000 states up to symmetry): three
statuses of which one is new, two labels, two rules of which one is old and may be
inactive, two CAS numbers, one job with a file that replaces a scope, one page,
three attempts, revisions up to 3 and one change of statuses. A replacement does all that the
other mode does and deletes besides. One rule in the catalogue and one more to come are
enough for an import and an edit to want the same key, in both orders. The page can be
filled in before, during and after an import, and sent at any time. Three
attempts let a job be previewed, previewed again and applied. Two pages at once are beyond this instance,
not beyond the proof.

* `KeysStayWithOwner`: a value has one rule in a status; an edited rule owns every key
  it has had since its first edit, and nobody else gets it.
* `WritesWhatWasConfirmed`: an import makes of the catalogue what was confirmed on a page that
  showed it, not cancelled, retried or purged since.
* `ImportsSpareEdits`: an import touches neither rules edited by hand nor keys.
* `EditsWhatIsShown`: a page changes a rule once, and only if everything it shows of
  the rule is still true, although it compares only a number.

Deadlock is checked. Liveness is not: the loop is the one of section 3.

### What is proved

`RegulatoryRulesProofs` proves all five properties, for any number of statuses, rules, files, jobs and
pages. The invariant `IInv` is the type, `Sound(catalog)` (unique rules, unique keys, owners that
live and are protected, protected rules that own their key), `PagesInv` (a form shows no more than the revision says:
equal revisions, equal rules), `RunsInv` (one transaction has the lock and its base is the
catalogue) and `AgreedInv` (a job that may be applied has the preview that was agreed
on). The long part is that `Imported` and `Mutate` keep the catalogue sound; the lemmas on
`Preserve`, `Put` and `Imported` say so without reference to the queue.

## 8. The product desk

`ProductDesk` models the pages on which administrators change single products: create, edit,
delete with a preview, restore from the trash (`admin_products.py`), the quick forms
(`search.py`, `import_quick_delete.py`), beside imports and the renaming of statuses.

### State and actions

| Variable | In the program |
|---|---|
| `products` | table `products`, of one code; identities meet within a code only |
| `stamp` | `xmin`, the version of a row |
| `labels` | the label of each regulatory status |
| `auth` | `auth_version` of each administrator |
| `page` | the form for editing that each of them has open |
| `previews` | `product_delete_previews` and the signed tokens of the quick form |
| `trash` | `product_delete_batches` with `product_deleted_rows` |
| `desk` | a create, or an edit with its form, that is not committed yet |
| `others` | a counter for the bound |

* `OpenPage`; `StartCreate`, `StartEdit`, then `FireTrigger`, then `Commit`: saving is three steps,
  because a renaming of statuses takes another lock and may come between the statement that reads the
  label of the chosen status, the trigger of migration 026 that looks the label up
  again, and the commit. `QuickUpsert` is one step, as its form has no status.
* `MakePreview`, `Expire`, `Delete`, `QuickDelete`, `Restore`.
* `Import` (a row of a file, alone or replacing its brand), `Rename`, `EndSessions`.

`Resolve` is `resolve_product_candidates`: brand, then source, then size, each passed over if
nothing fits it. Left out: collisions of fingerprints, aliases of brands, and fields no rule looks
at.

### What is checked

Run `product_desk` (`MCProductDesk`, about 798,000 states up to symmetry): two
products, one brand, two sources, two sizes, one status with two labels, two
tokens, three versions of all rows together and one import, renaming or end of a
session. Every write counts against the three versions, so a product can be created, edited or
imported over, deleted, and restored while a second one takes its identity. Two tokens are two
rival previews, or a preview and a batch in the trash. The bounds and the ids, each of which is given
once, run out; therefore the run does not check deadlock.

* `DeletionsAsShown`: a deletion removes these rows, all of them, in these versions, that the
  preview showed in the same session.
* `OnePlace`: a product is in the table or in one batch of the trash. No restoration
  brings back an older version of a product.
* `EditsWhatIsShown`: an edit replaces what its form showed, though it is written two statements
  after it was compared.
* `FormsKeepApart`: no form makes two products of one identity, which no later import could
  tell apart.

Run `product_status` shows a disagreement. The form chooses a status by its id, but only the label read
for it is stored, and the trigger looks that label up again. Two renamings in between give the
product another status than was chosen (`StatusAsChosen`). A comment in `import_engine.py` says why imports
avoid this.

### What is proved

`ProductDeskProofs` proves the five properties of the first run for any number of products, brands, administrators,
tokens and writes. The invariant adds: an id still to be given is nowhere (`FreshInv`); a row that is
being saved is still what it was compared with, and alone with its identity (`DeskInv`); a batch has
what its scope says (`BatchInv`); a form with the stamp of a row shows the row (`PageInv`).

`WaitingWouldDo` is about the disagreement: from `Spec` and `RenamesWait`, which says that statuses are
renamed only while the lock on products is free, it proves `StatusAsChosen` and also `LabelsAreCurrent`, that every
product carries the present label of its status. Renaming, which takes the lock on statuses only, is therefore the
only cause, and making it wait would be enough. Without the assumption `LabelsAreCurrent` fails too: a renaming
updates the copies of the label that it sees, and a product that another transaction has inserted and not yet
committed is not among them. It is stated for this theorem only and no run checks it. The invariant, `LabelInv`, has the
labels of all statuses distinct, and the copies in the products and in the row on the desk right.

## 9. Quotes

`QuoteMatching` is a function: `Answer(q, row, db)` is what `_quote_match_rows` makes of one request row
with what was read from the database: hits by code, by CAS number or both, the codes that stand for several substances,
blocked products and exceptions of brands, prices in the currency of the brand and rounded,
filters by brand, size and preparation, twins, the limit on candidates, strategies and the
three kinds of brand policy. `FollowsPolicy` is the reference: a definition by
quantifiers of what may be chosen and when nothing may be. It has no loop over tiers, no sort
and no early return.

`QuoteDesk` puts a browser page, the server and the administrators around it.

### State and actions

| Variable | In the program |
|---|---|
| `db`, `team`, `user` | products, rules, currencies and rates; the team's brands and rights; who sits at the page |
| `page` | `quick_quote.js`: request, results, picks, rows marked as exported |
| `match`, `export` | the requests under way, with what each of their statements has read |
| `templates`, `active`, `assigned` | `quote_templates` with `is_active`, `team_quote_templates` |
| `work` | the transaction on templates of each keeper |
| `changes`, `events` | counters for the bounds |

* Page: `EditQuery`, `SendMatch`, `Tick`, `SendExport`, `SendPosted` (bare ids from a page of search
  results), `ReceiveMatch`, `ReceiveExport`.
* Server: `AdmitMatch`, `MatchCurrencies`, `MatchRates`, `AnswerMatch`; `AdmitExport`, `ResolveTemplate`,
  `ExportCurrencies`, `ExportRates`, `BuildWorkbook`. Each step is one statement with its own snapshot, as
  under READ COMMITTED: the currencies of the brands are read before the rates (two statements of
  `currency_rates.py`, at 191 and 195), both before the products, and rights before all of them. A change may come between any two.
  `Width` is `QUOTE_MAX_ROWS`, which limits the rows of a request (`search.py:1069`), and so the items of an
  export (5882), as well as its lines over all items (`TooLong`, 5937).
* Data: `ChangeProduct`, `ChangeRule`, `SetPriority`, `SetRate`, `CreateCurrency`, `SetBrandCurrency`,
  `ChangeTeam`.
* Templates: `Upload`; activation, assignment and archiving each in the statements around their
  locks. The locks are not variables: who holds which follows from how far a transaction is
  (`ActiveLockTaken`, `RowHeld`, `TeamHeld`).

What the page does is translated as it is, where its comments say otherwise too. The comment at
`quick_quote.js:1231` says that any change of the inputs invalidates the results and requires a new
match; but `qqInvalidateResults` returns at once if there are no results yet, so the answer of a match under
way is displayed although the request was edited meanwhile. The comment at `quick_quote.js:1036` says that requests
without a selection are kept, so that the export has all of them; but a row that is marked as exported and
whose boxes were cleared sends (UNRESOLVED, EXPORTED_SUCCESSFULLY), and the server (`search.py:5979`) refuses the whole
export; `KnownRefusal` names it as one of the exceptions of `ShownCanBeExported`. And picks made on
old results while a match is under way stay for the new ones. The first and the last violate none of the
properties below, because the export reads everything again; the model keeps them so that
the properties mean something.

Abstracted or left out: what an answer leaves out for those who may not see prices, the states of the schema of
rates before migration 018, `is_active` of brands, audit rows, the wording and order of refusals, the texts that
break ties after price, amount and brand, what the browser knows of templates, the contents of workbooks, and who a keeper
is (see `Accounts`). The order among several rules of one CAS number is given by its outcome, the set
of banned CAS numbers.

### What is checked

Run `quote_desk` (`MCQuoteDesk`, about 801,000 states): four products, two brands, two codes, two CAS numbers and
a placeholder, two currencies; two templates and two keepers; one change of the data and three events, where an event is a
request, a change or a transaction on templates. So a match, a change and an export, or two
transactions of keepers and an export, meet in every order. Fifteen initial states are chosen to reach
what the function distinguishes: each strategy and policy, tiers that overlap, a first tier without
price, twins, exceptions that allow, block or refer to a lost status, a code with
two substances, sizes that cannot be compared, more hits than the limit, a team that sees one brand
or lacks a right. The granularity of prices is 2, so that rounding matters.
The same model with four events (8.6 million states) also holds; it takes longer than the suite should.

* `AnswersFollowPolicy`: every answer obeys the reference, with what its statements saw.
* `ShownCanBeExported`: if nothing has changed since the answers on the page, the page is exported as
  it stands: from the admission of the export to its workbook, no step refuses it, and each line has the
  price that was shown. Match, page and export each decide on their own what may be quoted, what it
  costs and why a row has no lines; this relates the three, over picks, late answers and further
  matches. The exceptions are listed in `KnownRefusal`, and each of them is reached by the run: the person may not
  export or not quote, there are more lines than `QUOTE_MAX_ROWS`, no template is open, or a row marked as exported has
  had its boxes cleared. No other reason that a page gives is disbelieved, and no line is refused. The property
  is about exports of the person's own team; for another team an admin gets what that team may see.
* `TemplatesStayOpen`: a template that is active or assigned is not archived, and one is active at
  most, however the transactions overlap. Assignment and archiving take different locks first.

Deadlock is checked: a page can always be edited.

### What is proved

`QuoteMatchingProofs` and `QuoteDeskProofs` prove the four properties for any catalogue, team, request, template and number of
changes. The argument: page, match and export carry the number of changes at the time they
were read. What was read after the last change is true of the data; after another change nothing is claimed of
it any more (`PageInv`, `MatchInv`, `ExportInv`). Two parts hold whatever changes, and the admission of an export rests on them: an
answer is `Coherent`, that is, its lifecycle is the one of its reason, and one that shows nothing does not claim a
selection; so what the page sends of a row without lines is `Believed` unless the row is marked as exported (`RowsBelieved`). `ShelfInv` says what each
stage of a transaction on templates has established and who keeps it so. `AnswersFollow` is the pure part: the choice
by least key obeys the reference, by the well-foundedness of the order on natural numbers for prices
and tiers, and by bounds on finite sets where the limit cuts candidates off. `AnswersAreFair` says of every answer that
it chooses among what it shows, that what it shows says what the database says, and that what it chooses is visible,
not blocked, no twin and has the price of the database, which is not 0.

Three more theorems are about the function alone, which no run can show for all inputs. `AnswersIgnoreHidden`: two
databases that show the team the same (`LookAlike`: the visible products, and the rates, exceptions and bans that
concern those) give the same answer and the same preflight to every request. So what a team may not see cannot be
inferred from counts, twins, ambiguous codes, reasons or the limit; each helper between the products and the answer
has a lemma that says so (`SameHits`, `SameFiltered`, `SameMarked`). `HiddenEditsChangeNothing` is what
follows for administrators at work: a product that is added, edited or trashed under hidden brands changes
no answer. `PolicyFixesPrices`: two answers to a request that both follow the policy and choose something choose at the
same prices, brand by brand where the strategy compares within brands. So the reference is complete: it
leaves open which of several equals is taken, and nothing else.

Assumed: ids and brands are natural numbers, ids are finitely many, tables have their
types, and the markers for "none" are not values.

## 10. What is only model-checked, and what is not modelled

Only model-checked: the two liveness properties of section 3, as liveness is out of the
prover's reach. Everything else the passing runs check is proved, for every value of the constants. The four runs that expect a
violation are counterexamples and need no proof; four theorems (`ConfirmedAsShown`, `NewerPolicyIsKept`,
`WaitingWouldDo`, `TrimmedRolesSuffice`) show instead under which condition their properties hold, and so what
causes each violation, and `BrandsAsPreviewed` does so for a property without a run. The conditions concern a script, a renaming or a registration beside
a pending preview or form, or blanks in a form, and leave everything else free; nothing in the program enforces them.

Not modelled:

* Search and suggestions: read-only SQL over texts (accents, prefixes, ranking). What they share with
  quotes, visibility and rights, is in section 9.
* `quote_request_file.py`, `quote_workbook_export.py`, `quote_to_order.py`: readers and writers of workbooks,
  each a sequential function of a file. Their difficulty is in cell formats, not in states.
* `middleware_access.py`: a decision on one address and fixed settings; its tests go through its table.
* The exchange with the identity provider; only what a login leads to is in section 5.
* `import_engine.py` beyond its fingerprint and what it does to a row; aliases and registration of
  brands; the sweep of orphaned files. They are in the plan where they can be modelled.
* The old endpoints for single regulatory rules, which answer 410.
* Migrations and maintenance scripts, run by hand while the program is stopped. Triggers that migrations
  install are modelled where they act (sections 5 to 8), and so are the scripts that run beside the program.
