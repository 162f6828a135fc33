------------------------------- MODULE Accounts -------------------------------
(***************************************************************************)
(* Accounts, roles and sessions: admin_permissions.py,                     *)
(* admin_google_users.py, admin_lifecycle.py, the user form of search.py   *)
(* and session_security.py, over migrations 014, 020 and 030.              *)
(*                                                                         *)
(* A session is a signed cookie.  It repeats what the account was at the   *)
(* login, and nobody can take it back: it dies because every request       *)
(* compares its auth_version with the account's.  A transaction that       *)
(* changes accounts holds ACCOUNT_LOCK and reads its actor under it, so it *)
(* is one step here.  The checks made before the lock are left out: they   *)
(* may have been passed long ago, and all of them are made again under it. *)
(*                                                                         *)
(* auth_version is compared for equality only, so the one increment of a   *)
(* transaction stands for the several that the triggers may make of it.    *)
(***************************************************************************)
EXTENDS Naturals, FiniteSets

CONSTANTS
    Users,          \* people: the username or e-mail address of an account
    Founders,       \* the administrators that migration 030 made super
    Teams,          \* ids of the teams
    Keys,           \* the permission keys an administrator may be granted
    Sessions,       \* browsers
    MaxVersion,     \* bound on auth_version
    NoTeam,         \* SQL NULL in the column team_id
    NoSession       \* a browser that is not logged in

ASSUME AccountsAssumption ==
    /\ Founders \subseteq Users
    /\ Founders # {}
    /\ MaxVersion \in Nat \ {0}
    /\ NoTeam \notin Teams
    /\ {"users", "teams"} \subseteq Keys

VARIABLES
    account,        \* tables app_users and admin_menu_grants
    openTeams,      \* the teams with lifecycle_status ACTIVE
    session         \* the cookie each browser holds

vars == <<account, openTeams, session>>

------------------------------------------------------------------------------
(* Types                                                                   *)

Status == {"NONE", "INVITED", "PENDING", "ACTIVE", "SUSPENDED"}
Membership == Teams \cup {NoTeam}

\* A row of app_users with its grants.  "NONE" is a row that does not exist.
Account == [status: Status, google: BOOLEAN, bound: BOOLEAN, admin: BOOLEAN,
            super: BOOLEAN, grants: SUBSET Keys, team: Membership,
            archived: BOOLEAN, version: 1..MaxVersion]

Blank == [status |-> "NONE", google |-> FALSE, bound |-> FALSE,
          admin |-> FALSE, super |-> FALSE, grants |-> {}, team |-> NoTeam,
          archived |-> FALSE, version |-> 1]

\* The role that a form asks for.  "padded" is "admin" with blanks around it.
Roles == {"staff", "admin", "padded"}

Powers == [admin: BOOLEAN, super: BOOLEAN, grants: SUBSET Keys,
           team: Membership]

\* The cookie caches admin and team.  super and grants are not in it: they are
\* recorded here for the properties, and no action looks at them.
Session == [user: Users, version: 1..MaxVersion, powers: Powers]

PowersOf(u) == [admin |-> account[u].admin, super |-> account[u].super,
                grants |-> account[u].grants, team |-> account[u].team]

\* The columns and their CHECK constraints: only a LOCAL account is archived,
\* and it is suspended as long as it is (migration 020).
TypeOK ==
    /\ account \in [Users -> Account]
    /\ openTeams \subseteq Teams
    /\ session \in [Sessions -> Session \cup {NoSession}]
    /\ \A u \in Users : account[u].archived =>
           ~account[u].google /\ account[u].status = "SUSPENDED"

Init ==
    /\ account = [u \in Users |->
           IF u \in Founders
           THEN [Blank EXCEPT !.status = "ACTIVE", !.admin = TRUE,
                              !.super = TRUE]
           ELSE Blank]
    /\ openTeams = Teams
    /\ session = [s \in Sessions |-> NoSession]

------------------------------------------------------------------------------
(* Sessions and authority                                                  *)

\* The account has to be active, and a member of staff needs an open team.
MayEnter(u) ==
    /\ account[u].status = "ACTIVE"
    /\ account[u].admin \/ account[u].team \in openTeams

\* enforce_session_validity lets the session pass.
Accepted(s) ==
    /\ session[s] # NoSession
    /\ account[session[s].user].status = "ACTIVE"
    /\ account[session[s].user].version = session[s].version
    /\ session[s].powers.admin \/ session[s].powers.team \in openTeams

\* Mutant of Authorised: the session may be an old one.
AuthorisedForEver(s, key) ==
    /\ session[s] # NoSession
    /\ account[session[s].user].status = "ACTIVE"
    /\ account[session[s].user].admin
    /\ account[session[s].user].super \/ key \in account[session[s].user].grants

\* require_actor, under ACCOUNT_LOCK and with the row of the actor locked.
Authorised(s, key) ==
    /\ session[s] # NoSession
    /\ account[session[s].user].status = "ACTIVE"
    /\ account[session[s].user].admin
    /\ account[session[s].user].version = session[s].version
    /\ account[session[s].user].super \/ key \in account[session[s].user].grants

\* The guard compares the role as it was sent, in lower case; the handlers
\* strip it first.  ("super_admin" asks for an administrator in the guard and is
\* none to the handlers: who passes makes staff, which "staff" covers.)
AsksForAdmin(role) == role = "admin"
MakesAdmin(role) == role \in {"admin", "padded"}

\* Mutant of MayTouch: the role that the account has is not looked at.
MayTouchAnyone(s, u, role) ==
    account[session[s].user].super \/ ~AsksForAdmin(role)

\* guard_user_mutation: only a super administrator asks for an administrator,
\* or touches one.
MayTouch(s, u, role) ==
    account[session[s].user].super \/ ~(AsksForAdmin(role) \/ account[u].admin)

Administers(s, u, role) ==
    Authorised(s, "users") /\ MayTouch(s, u, role)

ActiveSuper(row) ==
    row.super /\ row.admin /\ row.status = "ACTIVE" /\ ~row.archived

\* Mutant of SuperStays: an administrator of any kind will do.
AdminStays(u, row) ==
    ActiveSuper(account[u]) /\ ~ActiveSuper(row) =>
        \E other \in Users \ {u} :
            account[other].admin /\ account[other].status = "ACTIVE"

\* The trigger of migration 030: another active super administrator stays.
SuperStays(u, row) ==
    ActiveSuper(account[u]) /\ ~ActiveSuper(row) =>
        \E other \in Users \ {u} : ActiveSuper(account[other])

\* The triggers of migration 030 on a demotion: who is no administrator is no
\* super administrator and loses all grants.
Stored(row) ==
    IF row.admin THEN row ELSE [row EXCEPT !.super = FALSE, !.grants = {}]

\* The trigger of migration 020: nobody enters a team that is not active.
TeamAdmits(u, row) ==
    row.team \in openTeams \cup {NoTeam, account[u].team}

\* UPDATE or INSERT of one row, with its triggers.
Write(u, row) ==
    /\ SuperStays(u, Stored(row))
    /\ TeamAdmits(u, row)
    /\ account' = [account EXCEPT ![u] = Stored(row)]
    /\ UNCHANGED <<openTeams, session>>

\* The same with auth_version = auth_version + 1.
WriteAndRevoke(u, row) ==
    /\ account[u].version < MaxVersion
    /\ Write(u, [row EXCEPT !.version = @ + 1])

\* Another administrator is active.  (Only one of the three places that count
\* them excludes archived ones, but those are suspended.)
OtherAdmin(u) ==
    \E other \in Users \ {u} :
        account[other].admin /\ account[other].status = "ACTIVE"

\* A form with a role.  Staff needs a team that is active, an administrator
\* has none whatever the form says.
Role(row, admin, team) == [row EXCEPT !.admin = admin, !.team = team]
RoleIsValid(admin, team) ==
    IF admin THEN team = NoTeam ELSE team \in openTeams

------------------------------------------------------------------------------
(* Logging in and out                                                      *)

Enter(s, u) ==
    session' = [session EXCEPT ![s] =
        [user |-> u, version |-> account[u].version, powers |-> PowersOf(u)]]

LoginLocal(s, u) ==
    /\ ~account[u].google
    /\ ~account[u].archived
    /\ MayEnter(u)
    /\ Enter(s, u)
    /\ UNCHANGED <<account, openTeams>>

LoginGoogle(s, u) ==
    /\ account[u].google
    /\ account[u].bound
    /\ MayEnter(u)
    /\ Enter(s, u)
    /\ UNCHANGED <<account, openTeams>>

\* An identity that is not known yet comes with an address that was invited:
\* auth_version stays as it is.  The account has no team, so there is no
\* session yet.
BindInvite(u) ==
    /\ account[u].google
    /\ account[u].status = "INVITED"
    /\ ~account[u].bound
    /\ Write(u, [account[u] EXCEPT !.status = "ACTIVE", !.bound = TRUE])

\* It comes with an address that nobody has.
Apply(u) ==
    /\ account[u].status = "NONE"
    /\ Write(u, [Blank EXCEPT !.status = "PENDING", !.google = TRUE,
                              !.bound = TRUE])

\* The cookie is dropped: logout, or a request with a session that is not
\* accepted.
Leave(s) ==
    /\ session[s] # NoSession
    /\ session' = [session EXCEPT ![s] = NoSession]
    /\ UNCHANGED <<account, openTeams>>

------------------------------------------------------------------------------
(* GOOGLE accounts: admin_google_users.py                                  *)

Invite(s, u) ==
    /\ Administers(s, u, "staff")
    /\ account[u].status = "NONE"
    /\ Write(u, [Blank EXCEPT !.status = "INVITED", !.google = TRUE])

Approve(s, u, role, team) ==
    /\ Administers(s, u, role)
    /\ account[u].google
    /\ account[u].status = "PENDING"
    /\ RoleIsValid(MakesAdmin(role), team)
    /\ WriteAndRevoke(u, [Role(account[u], MakesAdmin(role), team) EXCEPT
                              !.status = "ACTIVE"])

Suspend(s, u) ==
    /\ Administers(s, u, "staff")
    /\ u # session[s].user
    /\ account[u].google
    /\ account[u].status = "ACTIVE"
    /\ account[u].admin => OtherAdmin(u)
    /\ WriteAndRevoke(u, [account[u] EXCEPT !.status = "SUSPENDED"])

Reactivate(s, u) ==
    /\ Administers(s, u, "staff")
    /\ account[u].google
    /\ account[u].status = "SUSPENDED"
    /\ WriteAndRevoke(u, [account[u] EXCEPT
           !.status = IF account[u].bound THEN "ACTIVE" ELSE "INVITED"])

\* The checks that the two forms for roles share.
MayDemote(s, u, admin) ==
    account[u].admin /\ ~admin => u # session[s].user /\ OtherAdmin(u)

UpdateGoogle(s, u, role, team) ==
    /\ Administers(s, u, role)
    /\ account[u].google
    /\ account[u].status = "ACTIVE"
    /\ MayDemote(s, u, MakesAdmin(role))
    /\ RoleIsValid(MakesAdmin(role), team)
    /\ WriteAndRevoke(u, Role(account[u], MakesAdmin(role), team))

RevokeSessions(s, u) ==
    /\ Administers(s, u, "staff")
    /\ account[u].google
    /\ account[u].status # "NONE"
    /\ WriteAndRevoke(u, account[u])

------------------------------------------------------------------------------
(* LOCAL accounts: the form of search.py, admin_lifecycle.py, add_user.py  *)

NewLocal(admin, team) ==
    Role([Blank EXCEPT !.status = "ACTIVE"], admin, team)

CreateUser(s, u, role, team) ==
    /\ Administers(s, u, role)
    /\ account[u].status = "NONE"
    /\ RoleIsValid(MakesAdmin(role), team)
    /\ Write(u, NewLocal(MakesAdmin(role), team))

UpdateUser(s, u, role, team) ==
    /\ Administers(s, u, role)
    /\ ~account[u].google
    /\ account[u].status = "ACTIVE"
    /\ MayDemote(s, u, MakesAdmin(role))
    /\ RoleIsValid(MakesAdmin(role), team)
    /\ WriteAndRevoke(u, Role(account[u], MakesAdmin(role), team))

ArchiveUser(s, u) ==
    /\ Administers(s, u, "staff")
    /\ u # session[s].user
    /\ ~account[u].google
    /\ account[u].status = "ACTIVE"
    /\ account[u].admin => OtherAdmin(u)
    /\ WriteAndRevoke(u, [account[u] EXCEPT !.status = "SUSPENDED",
                                            !.archived = TRUE])

\* Mutant of RestoreUser: archived_at is not cleared.
RestoreMarked(s, u) ==
    /\ Administers(s, u, "staff")
    /\ ~account[u].google
    /\ account[u].archived
    /\ account[u].admin \/ account[u].team \in openTeams
    /\ WriteAndRevoke(u, [account[u] EXCEPT !.status = "ACTIVE"])

\* An administrator comes back with the powers the account had.
RestoreUser(s, u) ==
    /\ Administers(s, u, "staff")
    /\ ~account[u].google
    /\ account[u].archived
    /\ account[u].admin \/ account[u].team \in openTeams
    /\ WriteAndRevoke(u, [account[u] EXCEPT !.status = "ACTIVE",
                                            !.archived = FALSE])

\* The script takes no lock and asks for no actor; the trigger of migration
\* 020 is all that checks the team.
AddUser(u, team) ==
    /\ account[u].status = "NONE"
    /\ Write(u, NewLocal(FALSE, team))

------------------------------------------------------------------------------
(* Menu grants: update_admin_access                                        *)

SetAccess(s, u, super, grants) ==
    LET row == [account[u] EXCEPT !.super = super,
                                  !.grants = IF super THEN {} ELSE grants]
    IN  /\ Authorised(s, "users")
        /\ account[session[s].user].super
        /\ account[u].admin
        /\ account[u].status = "ACTIVE"
        /\ row # account[u]
        /\ WriteAndRevoke(u, row)

------------------------------------------------------------------------------
(* Teams: admin_lifecycle.py.  The previews are left out.                  *)

Members(team) == {u \in Users : account[u].team = team}

\* Mutant of Moved: the sessions of the members go on.
MovedQuietly(members, to) ==
    [u \in Users |->
        IF u \in members THEN [account[u] EXCEPT !.team = to]
        ELSE account[u]]

\* All members move to another team, whatever their status.
Moved(members, to) ==
    [u \in Users |->
        IF u \in members
        THEN [account[u] EXCEPT !.team = to, !.version = @ + 1]
        ELSE account[u]]

ArchiveTeam(s, team, to) ==
    /\ Authorised(s, "teams")
    /\ team \in openTeams
    /\ Members(team) # {} => to \in openTeams \ {team}
    /\ \A u \in Members(team) : account[u].version < MaxVersion
    /\ account' = Moved(Members(team), to)
    /\ openTeams' = openTeams \ {team}
    /\ UNCHANGED session

RestoreTeam(s, team) ==
    /\ Authorised(s, "teams")
    /\ team \notin openTeams
    /\ openTeams' = openTeams \cup {team}
    /\ UNCHANGED <<account, session>>

------------------------------------------------------------------------------
(* The specification                                                       *)

GoogleStep(s, u) ==
    \/ Invite(s, u)
    \/ Suspend(s, u)
    \/ Reactivate(s, u)
    \/ RevokeSessions(s, u)
    \/ \E role \in Roles, team \in Membership :
           Approve(s, u, role, team) \/ UpdateGoogle(s, u, role, team)

LocalStep(s, u) ==
    \/ ArchiveUser(s, u)
    \/ RestoreUser(s, u)
    \/ \E role \in Roles, team \in Membership :
           CreateUser(s, u, role, team) \/ UpdateUser(s, u, role, team)

AccessStep(s, u) ==
    \E super \in BOOLEAN, grants \in SUBSET Keys :
        SetAccess(s, u, super, grants)

TeamStep(s) ==
    \E team \in Teams :
        RestoreTeam(s, team) \/ \E to \in Teams : ArchiveTeam(s, team, to)

\* What the session s does with the authority of its account.  (All steps ask
\* for one of the keys; to ask first spares the model checker the others.)
Administer(s) ==
    /\ \E key \in Keys : Authorised(s, key)
    /\ \/ \E u \in Users :
              GoogleStep(s, u) \/ LocalStep(s, u) \/ AccessStep(s, u)
       \/ TeamStep(s)

Visit(s) ==
    \/ Leave(s)
    \/ \E u \in Users : LoginLocal(s, u) \/ LoginGoogle(s, u)

Outside ==
    \E u \in Users :
        \/ BindInvite(u)
        \/ Apply(u)
        \/ \E team \in Teams : AddUser(u, team)

Next == Outside \/ \E s \in Sessions : Visit(s) \/ Administer(s)

Spec == Init /\ [][Next]_vars

------------------------------------------------------------------------------
(* Properties                                                              *)

\* Whatever the administrators do to each other, one of them can undo it:
\* there is an active super administrator.  The handlers only count
\* administrators of any kind; the trigger of migration 030 does the rest.
SuperRemains == \E u \in Users : ActiveSuper(account[u])

\* Nobody belongs to an archived team, not even a suspended or an archived
\* account, which would come back into it.
MembersHaveOpenTeam ==
    \A u \in Users : account[u].team \in openTeams \cup {NoTeam}

\* Only an administrator is super or has grants, and none is and has both.  So
\* a demoted administrator who is promoted again starts with nothing.
GrantsNeedAdmin ==
    \A u \in Users :
        /\ account[u].super => account[u].admin
        /\ account[u].grants # {} => account[u].admin /\ ~account[u].super

\* A session that requests are accepted from is still right about its account:
\* every change of role, team or grants since the login has ended it.
SessionsAreCurrent ==
    \A s \in Sessions :
        Accepted(s) => session[s].powers = PowersOf(session[s].user)

\* Nothing is done with an authority that was taken away, nor with one that
\* was given after the login.
ActsWithPowersAtLogin ==
    [][\A s \in Sessions :
           /\ session[s] # NoSession
           /\ session[s].powers # PowersOf(session[s].user)
           => ~Administer(s)]_vars

\* On every path, no step of a session without a super administrator changes an
\* account that is an administrator's, or leaves one that is super or has
\* grants: whoever it changes is no administrator before, and has no powers over
\* anything after.
AdminsAnswerToSupers ==
    [][\A s \in Sessions, u \in Users :
           /\ session[s] # NoSession
           /\ ~account[session[s].user].super
           /\ account'[u] # account[u]
           /\ \/ account[u].admin
              \/ account'[u].super
              \/ account'[u].grants # {}
           => ~Administer(s)]_vars

\* An administrator is only ever made by a super administrator, as the report
\* of phase 6D4 says.  The code does not keep it.
PromotedBySupers ==
    [][\A s \in Sessions, u \in Users :
           /\ session[s] # NoSession
           /\ ~account[session[s].user].super
           /\ ~account[u].admin
           /\ account'[u].admin
           => ~Administer(s)]_vars

\* A session that was once rejected stays rejected, until somebody logs in
\* anew: no reactivation, return from the archive or reopening of a team brings
\* the old cookie back to life, in whatever order they come.
RejectedForGood ==
    [][\A s \in Sessions :
           /\ session[s] # NoSession
           /\ ~Accepted(s)
           /\ session'[s] = session[s]
           => ~Accepted(s)']_vars

=============================================================================
