---------------------------- MODULE AccountsProofs ----------------------------
(***************************************************************************)
(* Proofs about Accounts, for any number of people, teams and sessions.    *)
(*                                                                         *)
(* All handlers but the archival of a team change one row by Write.  So    *)
(* the lemma WriteKeeps says what a row has to be like for Write to keep   *)
(* the invariant, and the lemma of each handler that its row is like that. *)
(***************************************************************************)
EXTENDS Accounts, TLAPS

\* An administrator belongs to no team.  So the archival of a team, which the
\* key "teams" is enough for, moves no administrator.
AdminsHaveNoTeam ==
    \A u \in Users : account[u].admin => account[u].team = NoTeam

\* A cookie is of an account that exists.  It is not newer than the account,
\* and if it is as new it knows the powers of the account.
CookiesMatch ==
    \A s \in Sessions : session[s] # NoSession =>
        LET u == session[s].user
        IN  /\ account[u].status # "NONE"
            /\ session[s].version <= account[u].version
            /\ session[s].version = account[u].version =>
                   session[s].powers = PowersOf(u)

IInv ==
    /\ TypeOK
    /\ SuperRemains
    /\ MembersHaveOpenTeam
    /\ GrantsNeedAdmin
    /\ AdminsHaveNoTeam
    /\ CookiesMatch

\* What a handler has to know of the row it writes.
GoodRow(u, row) ==
    /\ row \in Account
    /\ row.archived => ~row.google /\ row.status = "SUSPENDED"
    /\ row.admin => row.team = NoTeam
    /\ row.super => row.admin
    /\ row.grants # {} => row.admin /\ ~row.super
    /\ row.status # "NONE"

\* The sessions of the account learn of the change: there are none, or they
\* end, or there is nothing to learn.
Announced(u, row) ==
    \/ account[u].status = "NONE"
    \/ row.version > account[u].version
    \/ /\ row.version = account[u].version
       /\ row.admin = account[u].admin
       /\ row.super = account[u].super
       /\ row.grants = account[u].grants
       /\ row.team = account[u].team

------------------------------------------------------------------------------
(* One row is written                                                      *)

\* Whoever is demoted is stored as a sane row, and nothing else is changed.
LEMMA StoredIsGood ==
    ASSUME NEW u \in Users, NEW row \in Account,
           row.archived => ~row.google /\ row.status = "SUSPENDED",
           row.admin => row.team = NoTeam,
           row.admin /\ row.grants # {} => ~row.super,
           row.status # "NONE"
    PROVE  /\ GoodRow(u, Stored(row))
           /\ Stored(row).version = row.version
           /\ Stored(row).status = row.status
           /\ Stored(row).team = row.team
           /\ Stored(row).admin = row.admin
<1>1. CASE row.admin
  BY <1>1 DEF Stored, GoodRow
<1>2. CASE ~row.admin
  <2>. DEFINE r == [row EXCEPT !.super = FALSE, !.grants = {}]
  <2>1. Stored(row) = r
    BY <1>2 DEF Stored
  <2>2. /\ r \in Account
        /\ r.archived = row.archived /\ r.google = row.google
        /\ r.status = row.status /\ r.team = row.team
        /\ r.admin = row.admin /\ r.grants = {} /\ ~r.super
        /\ r.version = row.version
    BY DEF Account
  <2>. HIDE DEF r
  <2>. QED BY <1>2, <2>1, <2>2 DEF GoodRow
<1>. QED BY <1>1, <1>2

\* Write of a good row whose change is announced keeps the invariant.
LEMMA WriteKeeps ==
    ASSUME IInv, NEW u \in Users, NEW row,
           GoodRow(u, Stored(row)), Announced(u, Stored(row)),
           Stored(row).team = row.team,
           Write(u, row)
    PROVE  IInv'
<1>. DEFINE r == Stored(row)
<1>1. /\ account' = [account EXCEPT ![u] = r]
      /\ openTeams' = openTeams /\ session' = session
      /\ SuperStays(u, r) /\ TeamAdmits(u, row)
      /\ GoodRow(u, r) /\ Announced(u, r) /\ r.team = row.team
  BY DEF Write
<1>. HIDE DEF r
<1>2. /\ account \in [Users -> Account]
      /\ account' \in [Users -> Account]
      /\ account'[u] = r
      /\ \A v \in Users \ {u} : account'[v] = account[v]
  BY <1>1 DEF IInv, TypeOK, GoodRow
<1>3. TypeOK'
  <2>1. \A v \in Users : account'[v].archived =>
            ~account'[v].google /\ account'[v].status = "SUSPENDED"
    BY <1>1, <1>2 DEF IInv, TypeOK, GoodRow
  <2>. QED BY <1>1, <1>2, <2>1 DEF IInv, TypeOK
<1>4. SuperRemains'
  <2>1. CASE ActiveSuper(account[u]) /\ ~ActiveSuper(r)
    <3>1. PICK v \in Users \ {u} : ActiveSuper(account[v])
      BY <1>1, <2>1 DEF SuperStays
    <3>. QED BY <1>2, <3>1 DEF SuperRemains, ActiveSuper
  <2>2. CASE ActiveSuper(r)
    BY <1>2, <2>2 DEF SuperRemains, ActiveSuper
  <2>3. CASE ~ActiveSuper(account[u])
    <3>1. PICK v \in Users : ActiveSuper(account[v])
      BY DEF IInv, SuperRemains
    <3>. QED BY <1>2, <2>3, <3>1 DEF SuperRemains, ActiveSuper
  <2>. QED BY <2>1, <2>2, <2>3
<1>5. MembersHaveOpenTeam'
  <2>1. r.team \in openTeams \cup {NoTeam}
    BY <1>1 DEF TeamAdmits, IInv, MembersHaveOpenTeam
  <2>. QED BY <1>1, <1>2, <2>1 DEF IInv, MembersHaveOpenTeam
<1>6. GrantsNeedAdmin'
  BY <1>1, <1>2 DEF IInv, GrantsNeedAdmin, GoodRow
<1>7. AdminsHaveNoTeam'
  BY <1>1, <1>2 DEF IInv, AdminsHaveNoTeam, GoodRow
<1>8. CookiesMatch'
  <2>. SUFFICES ASSUME NEW s \in Sessions, session[s] # NoSession,
                       NEW v \in Users, v = session[s].user
                PROVE  /\ account'[v].status # "NONE"
                       /\ session[s].version <= account'[v].version
                       /\ session[s].version = account'[v].version =>
                              session[s].powers = PowersOf(v)'
    BY <1>1 DEF IInv, TypeOK, Session, CookiesMatch, PowersOf
  <2>1. /\ session[s].version \in Nat /\ account[v].version \in Nat
        /\ account'[v].version \in Nat
    BY <1>2 DEF IInv, TypeOK, Session, Account
  <2>2. /\ account[v].status # "NONE"
        /\ session[s].version <= account[v].version
        /\ session[s].version = account[v].version =>
               session[s].powers = PowersOf(v)
    BY DEF IInv, CookiesMatch
  <2>3. CASE v # u
    BY <1>2, <2>1, <2>2, <2>3 DEF PowersOf
  <2>4. CASE v = u
    <3>1. r.status # "NONE" /\ account'[v] = r
      BY <1>1, <1>2, <2>4 DEF GoodRow
    <3>2. CASE r.version > account[u].version
      BY <2>1, <2>2, <2>4, <3>1, <3>2
    <3>3. CASE /\ r.version = account[u].version
               /\ r.admin = account[u].admin
               /\ r.super = account[u].super
               /\ r.grants = account[u].grants
               /\ r.team = account[u].team
      <4>1. PowersOf(v)' = PowersOf(v)
        BY <2>4, <3>1, <3>3 DEF PowersOf
      <4>. QED BY <2>1, <2>2, <2>4, <3>1, <3>3, <4>1
    <3>. QED BY <1>1, <2>2, <2>4, <3>2, <3>3 DEF Announced
  <2>. QED BY <2>3, <2>4
<1>. QED BY <1>3, <1>4, <1>5, <1>6, <1>7, <1>8 DEF IInv

\* A row that exists is written with a new auth_version.
LEMMA RevokeKeeps ==
    ASSUME IInv, NEW u \in Users, NEW row \in Account,
           row.version = account[u].version,
           row.archived => ~row.google /\ row.status = "SUSPENDED",
           row.admin => row.team = NoTeam,
           row.grants # {} => ~row.super,
           row.status # "NONE",
           WriteAndRevoke(u, row)
    PROVE  IInv'
<1>. DEFINE new == [row EXCEPT !.version = @ + 1]
<1>1. account[u].version \in Nat /\ account[u].version < MaxVersion
  BY DEF IInv, TypeOK, Account, WriteAndRevoke
<1>2. /\ new \in Account
      /\ new.version = account[u].version + 1
      /\ new.archived = row.archived /\ new.google = row.google
      /\ new.status = row.status /\ new.team = row.team
      /\ new.admin = row.admin /\ new.grants = row.grants
      /\ new.super = row.super
  BY <1>1, AccountsAssumption DEF Account
<1>3. Write(u, new)
  BY DEF WriteAndRevoke
<1>. HIDE DEF new
<1>4. /\ GoodRow(u, Stored(new))
      /\ Stored(new).version = new.version
      /\ Stored(new).team = new.team
  BY <1>2, StoredIsGood
<1>5. Announced(u, Stored(new))
  BY <1>1, <1>2, <1>4 DEF Announced
<1>. QED BY <1>3, <1>4, <1>5, WriteKeeps

\* A row is inserted.
LEMMA InsertKeeps ==
    ASSUME IInv, NEW u \in Users, NEW row \in Account,
           account[u].status = "NONE",
           ~row.archived, row.grants = {}, row.status # "NONE",
           row.admin => row.team = NoTeam,
           Write(u, row)
    PROVE  IInv'
<1>1. /\ GoodRow(u, Stored(row))
      /\ Stored(row).team = row.team
  BY StoredIsGood
<1>2. Announced(u, Stored(row))
  BY DEF Announced
<1>. QED BY <1>1, <1>2, WriteKeeps

\* What IInv says of one row.
LEMMA RowFacts ==
    ASSUME IInv, NEW u \in Users
    PROVE  /\ account[u] \in Account
           /\ account[u].archived =>
                  ~account[u].google /\ account[u].status = "SUSPENDED"
           /\ account[u].admin => account[u].team = NoTeam
           /\ account[u].super => account[u].admin
           /\ account[u].grants # {} => account[u].admin /\ ~account[u].super
  BY DEF IInv, TypeOK, AdminsHaveNoTeam, GrantsNeedAdmin

LEMMA BlankIsAccount == Blank \in Account
  BY AccountsAssumption DEF Blank, Account, Status, Membership

------------------------------------------------------------------------------
(* The handlers                                                            *)

LEMMA RoleDecides == ASSUME NEW role PROVE MakesAdmin(role) \in BOOLEAN
  BY DEF MakesAdmin

LEMMA GoogleKeeps ==
    ASSUME IInv, NEW s \in Sessions, NEW u \in Users, GoogleStep(s, u)
    PROVE  IInv'
<1>. DEFINE old == account[u]
<1>1. /\ old \in Account
      /\ old.archived => ~old.google /\ old.status = "SUSPENDED"
      /\ old.admin => old.team = NoTeam
      /\ old.grants # {} => old.admin /\ ~old.super
  BY RowFacts
<1>2. ASSUME Invite(s, u) PROVE IInv'
  <2>. DEFINE row == [Blank EXCEPT !.status = "INVITED", !.google = TRUE]
  <2>1. /\ row \in Account /\ ~row.archived /\ row.grants = {}
        /\ row.status # "NONE" /\ ~row.admin
    BY BlankIsAccount DEF Blank, Account, Status
  <2>2. account[u].status = "NONE" /\ Write(u, row)
    BY <1>2 DEF Invite
  <2>. HIDE DEF row
  <2>. QED BY <2>1, <2>2, InsertKeeps
<1>3. ASSUME Suspend(s, u) PROVE IInv'
  <2>. DEFINE row == [old EXCEPT !.status = "SUSPENDED"]
  <2>1. old.google /\ WriteAndRevoke(u, row)
    BY <1>3 DEF Suspend
  <2>2. /\ row \in Account /\ row.version = old.version /\ ~row.archived
        /\ row.admin = old.admin /\ row.team = old.team
        /\ row.grants = old.grants /\ row.super = old.super
        /\ row.status # "NONE"
    BY <1>1, <2>1 DEF Account, Status
  <2>. HIDE DEF row
  <2>. QED BY <1>1, <2>1, <2>2, RevokeKeeps
<1>4. ASSUME Reactivate(s, u) PROVE IInv'
  <2>. DEFINE row == [old EXCEPT
                  !.status = IF old.bound THEN "ACTIVE" ELSE "INVITED"]
  <2>1. old.google /\ WriteAndRevoke(u, row)
    BY <1>4 DEF Reactivate
  <2>2. /\ row \in Account /\ row.version = old.version /\ ~row.archived
        /\ row.admin = old.admin /\ row.team = old.team
        /\ row.grants = old.grants /\ row.super = old.super
        /\ row.status # "NONE"
    BY <1>1, <2>1 DEF Account, Status
  <2>. HIDE DEF row
  <2>. QED BY <1>1, <2>1, <2>2, RevokeKeeps
<1>5. ASSUME RevokeSessions(s, u) PROVE IInv'
  BY <1>1, <1>5, RevokeKeeps DEF RevokeSessions
<1>6. ASSUME NEW role \in Roles, NEW team \in Membership,
             Approve(s, u, role, team)
      PROVE  IInv'
  <2>. DEFINE admin == MakesAdmin(role)
              row == [Role(old, admin, team) EXCEPT !.status = "ACTIVE"]
  <2>0. admin \in BOOLEAN
    BY RoleDecides
  <2>1. old.google /\ WriteAndRevoke(u, row) /\ (admin => team = NoTeam)
    BY <1>6 DEF Approve, RoleIsValid
  <2>2. /\ row \in Account /\ row.version = old.version /\ ~row.archived
        /\ row.admin = admin /\ row.team = team
        /\ row.grants = old.grants /\ row.super = old.super
        /\ row.status # "NONE"
    BY <2>0, <1>1, <2>1 DEF Account, Status, Role
  <2>. HIDE DEF row
  <2>. QED BY <1>1, <2>1, <2>2, RevokeKeeps
<1>7. ASSUME NEW role \in Roles, NEW team \in Membership,
             UpdateGoogle(s, u, role, team)
      PROVE  IInv'
  <2>. DEFINE admin == MakesAdmin(role)
              row == Role(old, admin, team)
  <2>0. admin \in BOOLEAN
    BY RoleDecides
  <2>1. /\ old.google /\ old.status = "ACTIVE" /\ WriteAndRevoke(u, row)
        /\ admin => team = NoTeam
    BY <1>7 DEF UpdateGoogle, RoleIsValid
  <2>2. /\ row \in Account /\ row.version = old.version /\ ~row.archived
        /\ row.admin = admin /\ row.team = team
        /\ row.grants = old.grants /\ row.super = old.super
        /\ row.status # "NONE"
    BY <2>0, <1>1, <2>1 DEF Account, Role
  <2>. HIDE DEF row
  <2>. QED BY <1>1, <2>1, <2>2, RevokeKeeps
<1>. QED BY <1>2, <1>3, <1>4, <1>5, <1>6, <1>7 DEF GoogleStep

LEMMA LocalKeeps ==
    ASSUME IInv, NEW s \in Sessions, NEW u \in Users, LocalStep(s, u)
    PROVE  IInv'
<1>. DEFINE old == account[u]
<1>1. /\ old \in Account
      /\ old.archived => ~old.google /\ old.status = "SUSPENDED"
      /\ old.admin => old.team = NoTeam
      /\ old.grants # {} => old.admin /\ ~old.super
  BY RowFacts
<1>2. ASSUME ArchiveUser(s, u) PROVE IInv'
  <2>. DEFINE row == [old EXCEPT !.status = "SUSPENDED", !.archived = TRUE]
  <2>1. ~old.google /\ WriteAndRevoke(u, row)
    BY <1>2 DEF ArchiveUser
  <2>2. /\ row \in Account /\ row.version = old.version
        /\ ~row.google /\ row.status = "SUSPENDED"
        /\ row.admin = old.admin /\ row.team = old.team
        /\ row.grants = old.grants /\ row.super = old.super
    BY <1>1, <2>1 DEF Account, Status
  <2>. HIDE DEF row
  <2>. QED BY <1>1, <2>1, <2>2, RevokeKeeps
<1>3. ASSUME RestoreUser(s, u) PROVE IInv'
  <2>. DEFINE row == [old EXCEPT !.status = "ACTIVE", !.archived = FALSE]
  <2>1. WriteAndRevoke(u, row)
    BY <1>3 DEF RestoreUser
  <2>2. /\ row \in Account /\ row.version = old.version /\ ~row.archived
        /\ row.admin = old.admin /\ row.team = old.team
        /\ row.grants = old.grants /\ row.super = old.super
        /\ row.status # "NONE"
    BY <1>1 DEF Account, Status
  <2>. HIDE DEF row
  <2>. QED BY <1>1, <2>1, <2>2, RevokeKeeps
<1>4. ASSUME NEW role \in Roles, NEW team \in Membership,
             CreateUser(s, u, role, team)
      PROVE  IInv'
  <2>. DEFINE admin == MakesAdmin(role)
              row == NewLocal(admin, team)
  <2>0. admin \in BOOLEAN
    BY RoleDecides
  <2>1. /\ account[u].status = "NONE" /\ Write(u, row)
        /\ admin => team = NoTeam
    BY <1>4 DEF CreateUser, RoleIsValid
  <2>2. /\ row \in Account /\ ~row.archived /\ row.grants = {}
        /\ row.status # "NONE" /\ row.admin = admin /\ row.team = team
    BY <2>0, BlankIsAccount DEF NewLocal, Role, Blank, Account, Status
  <2>. HIDE DEF row
  <2>. QED BY <2>1, <2>2, InsertKeeps
<1>5. ASSUME NEW role \in Roles, NEW team \in Membership,
             UpdateUser(s, u, role, team)
      PROVE  IInv'
  <2>. DEFINE admin == MakesAdmin(role)
              row == Role(old, admin, team)
  <2>0. admin \in BOOLEAN
    BY RoleDecides
  <2>1. /\ old.status = "ACTIVE" /\ WriteAndRevoke(u, row)
        /\ admin => team = NoTeam
    BY <1>5 DEF UpdateUser, RoleIsValid
  <2>2. /\ row \in Account /\ row.version = old.version /\ ~row.archived
        /\ row.admin = admin /\ row.team = team
        /\ row.grants = old.grants /\ row.super = old.super
        /\ row.status # "NONE"
    BY <2>0, <1>1, <2>1 DEF Account, Role
  <2>. HIDE DEF row
  <2>. QED BY <1>1, <2>1, <2>2, RevokeKeeps
<1>. QED BY <1>2, <1>3, <1>4, <1>5 DEF LocalStep

LEMMA AccessKeeps ==
    ASSUME IInv, NEW s \in Sessions, NEW u \in Users, AccessStep(s, u)
    PROVE  IInv'
<1>. PICK super \in BOOLEAN, grants \in SUBSET Keys :
         SetAccess(s, u, super, grants)
  BY DEF AccessStep
<1>. DEFINE old == account[u]
            row == [old EXCEPT !.super = super,
                               !.grants = IF super THEN {} ELSE grants]
<1>1. /\ old \in Account
      /\ old.archived => ~old.google /\ old.status = "SUSPENDED"
      /\ old.admin => old.team = NoTeam
  BY RowFacts
<1>2. old.status = "ACTIVE" /\ old.admin /\ WriteAndRevoke(u, row)
  BY DEF SetAccess
<1>3. /\ row \in Account /\ row.version = old.version /\ ~row.archived
      /\ row.admin /\ row.team = NoTeam
      /\ row.grants # {} => ~row.super
      /\ row.status # "NONE"
  BY <1>1, <1>2 DEF Account
<1>. HIDE DEF row
<1>. QED BY <1>2, <1>3, RevokeKeeps

\* The archival of a team moves all of its members, who are no administrators.
LEMMA ArchiveTeamKeeps ==
    ASSUME IInv, NEW s \in Sessions, NEW team \in Teams, NEW to \in Teams,
           ArchiveTeam(s, team, to)
    PROVE  IInv'
<1>1. /\ account' = Moved(Members(team), to)
      /\ openTeams' = openTeams \ {team} /\ session' = session
      /\ team \in openTeams
      /\ Members(team) # {} => to \in openTeams \ {team}
      /\ \A u \in Members(team) : account[u].version < MaxVersion
  BY DEF ArchiveTeam
<1>2. \A u \in Users : u \in Members(team) <=> account[u].team = team
  BY DEF Members
<1>3. ASSUME NEW u \in Users, account[u].team # team
      PROVE  account'[u] = account[u]
  BY <1>1, <1>2, <1>3 DEF Moved
<1>4. ASSUME NEW u \in Users, account[u].team = team
      PROVE  /\ account'[u] \in Account
             /\ account'[u].team = to
             /\ account'[u].version > account[u].version
             /\ account'[u].admin = account[u].admin
             /\ account'[u].super = account[u].super
             /\ account'[u].grants = account[u].grants
             /\ account'[u].status = account[u].status
             /\ account'[u].google = account[u].google
             /\ account'[u].archived = account[u].archived
             /\ ~account[u].admin
  <2>1. /\ account[u] \in Account
        /\ account[u].version \in Nat
        /\ account[u].version < MaxVersion
    BY <1>1, <1>2, <1>4 DEF IInv, TypeOK, Account
  <2>2. account'[u] = [account[u] EXCEPT !.team = to, !.version = @ + 1]
    BY <1>1, <1>2, <1>4 DEF Moved
  <2>3. [account[u] EXCEPT !.team = to, !.version = @ + 1] \in Account
    <3>1. to \in Membership
      BY DEF Membership
    <3>2. account[u].version + 1 \in 1..MaxVersion
      BY <2>1, AccountsAssumption
    <3>. QED BY <2>1, <3>1, <3>2 DEF Account
  <2>4. ~account[u].admin
    BY <1>4, AccountsAssumption DEF IInv, AdminsHaveNoTeam
  <2>. QED BY <2>1, <2>2, <2>3, <2>4 DEF Account
<1>5. TypeOK'
  <2>1. account' = [u \in Users |-> account'[u]]
    BY <1>1 DEF Moved
  <2>2. \A u \in Users : account'[u] \in Account
    BY <1>3, <1>4 DEF IInv, TypeOK
  <2>3. \A u \in Users : account'[u].archived =>
            ~account'[u].google /\ account'[u].status = "SUSPENDED"
    BY <1>3, <1>4 DEF IInv, TypeOK
  <2>. QED BY <1>1, <2>1, <2>2, <2>3 DEF IInv, TypeOK
<1>6. SuperRemains'
  <2>1. PICK u \in Users : ActiveSuper(account[u])
    BY DEF IInv, SuperRemains
  <2>2. account'[u] = account[u]
    BY <1>3, <1>4, <2>1 DEF ActiveSuper
  <2>. QED BY <2>1, <2>2 DEF SuperRemains
<1>7. MembersHaveOpenTeam'
  <2>. SUFFICES ASSUME NEW u \in Users
                PROVE  account'[u].team \in openTeams' \cup {NoTeam}
    BY DEF MembersHaveOpenTeam
  <2>1. CASE account[u].team # team
    BY <1>1, <1>3, <2>1 DEF IInv, MembersHaveOpenTeam
  <2>2. CASE account[u].team = team
    BY <1>1, <1>2, <1>4, <2>2
  <2>. QED BY <2>1, <2>2
<1>8. GrantsNeedAdmin'
  BY <1>3, <1>4 DEF IInv, GrantsNeedAdmin
<1>9. AdminsHaveNoTeam'
  BY <1>3, <1>4 DEF IInv, AdminsHaveNoTeam
<1>10. CookiesMatch'
  <2>. SUFFICES ASSUME NEW x \in Sessions, session[x] # NoSession,
                       NEW u \in Users, u = session[x].user
                PROVE  /\ account'[u].status # "NONE"
                       /\ session[x].version <= account'[u].version
                       /\ session[x].version = account'[u].version =>
                              session[x].powers = PowersOf(u)'
    BY <1>1 DEF IInv, TypeOK, Session, CookiesMatch, PowersOf
  <2>1. /\ account[u].status # "NONE"
        /\ session[x].version <= account[u].version
        /\ session[x].version = account[u].version =>
               session[x].powers = PowersOf(u)
    BY DEF IInv, CookiesMatch
  <2>2. CASE account[u].team # team
    BY <1>3, <2>1, <2>2 DEF PowersOf
  <2>3. CASE account[u].team = team
    <3>1. /\ session[x].version \in Nat /\ account[u].version \in Nat
          /\ account'[u].version \in Nat
      BY <1>4, <2>3 DEF IInv, TypeOK, Session, Account
    <3>. QED BY <1>4, <2>1, <2>3, <3>1
  <2>. QED BY <2>2, <2>3
<1>. QED BY <1>5, <1>6, <1>7, <1>8, <1>9, <1>10 DEF IInv

LEMMA RestoreTeamKeeps ==
    ASSUME IInv, NEW s \in Sessions, NEW team \in Teams, RestoreTeam(s, team)
    PROVE  IInv'
<1>1. /\ account' = account /\ session' = session
      /\ openTeams' = openTeams \cup {team}
  BY DEF RestoreTeam
<1>. QED
  BY <1>1 DEF IInv, TypeOK, SuperRemains, MembersHaveOpenTeam,
              GrantsNeedAdmin, AdminsHaveNoTeam, CookiesMatch, PowersOf

\* Logging in and out touches one cookie.
LEMMA VisitKeeps ==
    ASSUME IInv, NEW s \in Sessions, Visit(s)
    PROVE  IInv'
<1>1. account' = account /\ openTeams' = openTeams
  BY DEF Visit, Leave, LoginLocal, LoginGoogle
<1>2. PICK cookie \in Session \cup {NoSession} :
          /\ session' = [session EXCEPT ![s] = cookie]
          /\ cookie # NoSession => LET u == cookie.user IN
                 /\ account[u].status = "ACTIVE"
                 /\ cookie.version = account[u].version
                 /\ cookie.powers = PowersOf(u)
  <2>1. CASE Leave(s)
    BY <2>1 DEF Leave
  <2>2. ASSUME NEW u \in Users, LoginLocal(s, u) \/ LoginGoogle(s, u)
        PROVE  \E cookie \in Session \cup {NoSession} :
                   /\ session' = [session EXCEPT ![s] = cookie]
                   /\ cookie # NoSession => LET v == cookie.user IN
                          /\ account[v].status = "ACTIVE"
                          /\ cookie.version = account[v].version
                          /\ cookie.powers = PowersOf(v)
    <3>. DEFINE cookie == [user |-> u, version |-> account[u].version,
                           powers |-> PowersOf(u)]
    <3>1. /\ account[u].status = "ACTIVE"
          /\ session' = [session EXCEPT ![s] = cookie]
      BY <2>2 DEF LoginLocal, LoginGoogle, MayEnter, Enter
    <3>2. PowersOf(u) \in Powers /\ account[u].version \in 1..MaxVersion
      BY DEF IInv, TypeOK, Account, PowersOf, Powers
    <3>3. cookie \in Session
      BY <3>2 DEF Session
    <3>4. /\ cookie.user = u /\ cookie.version = account[u].version
          /\ cookie.powers = PowersOf(u)
      OBVIOUS
    <3>. HIDE DEF cookie
    <3>. QED BY <3>1, <3>3, <3>4
  <2>. QED BY <2>1, <2>2 DEF Visit
<1>3. TypeOK'
  BY <1>1, <1>2 DEF IInv, TypeOK
<1>4. CookiesMatch'
  <2>. SUFFICES ASSUME NEW x \in Sessions, session'[x] # NoSession,
                       NEW u, u = session'[x].user
                PROVE  /\ account[u].status # "NONE"
                       /\ session'[x].version <= account[u].version
                       /\ session'[x].version = account[u].version =>
                              session'[x].powers = PowersOf(u)
    BY <1>1 DEF CookiesMatch, PowersOf
  <2>1. CASE x # s
    <3>1. session'[x] = session[x]
      BY <1>2, <2>1 DEF IInv, TypeOK
    <3>. QED BY <3>1 DEF IInv, CookiesMatch
  <2>2. CASE x = s
    <3>1. session'[x] = cookie
      BY <1>2, <2>2 DEF IInv, TypeOK
    <3>2. /\ account[u].status = "ACTIVE"
          /\ cookie.version = account[u].version
          /\ cookie.powers = PowersOf(u)
      BY <1>2, <3>1
    <3>3. account[u].version \in Nat
      BY <1>2, <3>1 DEF IInv, TypeOK, Account, Session
    <3>. QED BY <3>1, <3>2, <3>3
  <2>. QED BY <2>1, <2>2
<1>. QED
  BY <1>1, <1>3, <1>4 DEF IInv, SuperRemains, MembersHaveOpenTeam,
                          GrantsNeedAdmin, AdminsHaveNoTeam

LEMMA OutsideKeeps ==
    ASSUME IInv, Outside
    PROVE  IInv'
<1>1. ASSUME NEW u \in Users, BindInvite(u) PROVE IInv'
  <2>. DEFINE row == [account[u] EXCEPT !.status = "ACTIVE", !.bound = TRUE]
  <2>1. account[u].google /\ Write(u, row)
    BY <1>1 DEF BindInvite
  <2>2. /\ row \in Account /\ row.version = account[u].version
        /\ ~row.archived /\ row.status # "NONE"
        /\ row.admin = account[u].admin /\ row.team = account[u].team
        /\ row.grants = account[u].grants /\ row.super = account[u].super
    BY <2>1, RowFacts DEF Account, Status
  <2>. HIDE DEF row
  <2>3. /\ account[u].admin => account[u].team = NoTeam
        /\ account[u].super => account[u].admin
        /\ account[u].grants # {} => account[u].admin /\ ~account[u].super
    BY RowFacts
  <2>4. /\ GoodRow(u, Stored(row))
        /\ Stored(row).version = row.version
        /\ Stored(row).team = row.team /\ Stored(row).admin = row.admin
    BY <2>2, <2>3, StoredIsGood
  <2>5. Stored(row).super = row.super /\ Stored(row).grants = row.grants
    BY <2>2, <2>3, <2>4 DEF Stored, GoodRow, Account
  <2>6. Announced(u, Stored(row))
    BY <2>2, <2>4, <2>5 DEF Announced
  <2>. QED BY <2>1, <2>4, <2>6, WriteKeeps
<1>2. ASSUME NEW u \in Users, Apply(u) PROVE IInv'
  <2>. DEFINE row == [Blank EXCEPT !.status = "PENDING", !.google = TRUE,
                                   !.bound = TRUE]
  <2>1. account[u].status = "NONE" /\ Write(u, row)
    BY <1>2 DEF Apply
  <2>2. /\ row \in Account /\ ~row.archived /\ row.grants = {}
        /\ row.status # "NONE" /\ ~row.admin
    BY BlankIsAccount DEF Blank, Account, Status
  <2>. HIDE DEF row
  <2>. QED BY <2>1, <2>2, InsertKeeps
<1>3. ASSUME NEW u \in Users, NEW team \in Teams, AddUser(u, team)
      PROVE  IInv'
  <2>. DEFINE row == NewLocal(FALSE, team)
  <2>1. account[u].status = "NONE" /\ Write(u, row)
    BY <1>3 DEF AddUser
  <2>2. /\ row \in Account /\ ~row.archived /\ row.grants = {}
        /\ row.status # "NONE" /\ ~row.admin
    BY BlankIsAccount DEF NewLocal, Role, Blank, Account, Status, Membership
  <2>. HIDE DEF row
  <2>. QED BY <2>1, <2>2, InsertKeeps
<1>. QED BY <1>1, <1>2, <1>3 DEF Outside

------------------------------------------------------------------------------
(* The theorems                                                            *)

LEMMA InitIInv == Init => IInv
<1>. SUFFICES ASSUME Init PROVE IInv
  OBVIOUS
<1>. DEFINE founder == [Blank EXCEPT !.status = "ACTIVE", !.admin = TRUE,
                                     !.super = TRUE]
<1>1. /\ founder \in Account /\ ~founder.archived /\ founder.team = NoTeam
      /\ founder.grants = {} /\ founder.admin /\ founder.super
      /\ founder.status = "ACTIVE"
  BY BlankIsAccount DEF Blank, Account, Status
<1>2. /\ Blank \in Account /\ ~Blank.archived /\ Blank.team = NoTeam
      /\ Blank.grants = {} /\ ~Blank.super
  BY BlankIsAccount DEF Blank
<1>3. /\ account = [u \in Users |-> IF u \in Founders THEN founder ELSE Blank]
      /\ openTeams = Teams
      /\ session = [s \in Sessions |-> NoSession]
  BY DEF Init
<1>. HIDE DEF founder
<1>4. TypeOK
  BY <1>1, <1>2, <1>3 DEF TypeOK
<1>5. SuperRemains
  <2>1. PICK u : u \in Founders
    BY AccountsAssumption
  <2>. QED BY <1>1, <1>3, <2>1, AccountsAssumption
           DEF SuperRemains, ActiveSuper
<1>6. MembersHaveOpenTeam /\ GrantsNeedAdmin /\ AdminsHaveNoTeam
  BY <1>1, <1>2, <1>3 DEF MembersHaveOpenTeam, GrantsNeedAdmin,
                          AdminsHaveNoTeam
<1>7. CookiesMatch
  BY <1>3 DEF CookiesMatch
<1>. QED BY <1>4, <1>5, <1>6, <1>7 DEF IInv

LEMMA NextKeeps == IInv /\ [Next]_vars => IInv'
<1>. SUFFICES ASSUME IInv, [Next]_vars PROVE IInv'
  OBVIOUS
<1>1. CASE Outside
  BY <1>1, OutsideKeeps
<1>2. ASSUME NEW s \in Sessions, Visit(s) PROVE IInv'
  BY <1>2, VisitKeeps
<1>3. ASSUME NEW s \in Sessions, Administer(s) PROVE IInv'
  <2>1. ASSUME NEW u \in Users,
               GoogleStep(s, u) \/ LocalStep(s, u) \/ AccessStep(s, u)
        PROVE  IInv'
    BY <2>1, GoogleKeeps, LocalKeeps, AccessKeeps
  <2>2. CASE TeamStep(s)
    BY <2>2, RestoreTeamKeeps, ArchiveTeamKeeps DEF TeamStep
  <2>. QED BY <1>3, <2>1, <2>2 DEF Administer
<1>4. CASE UNCHANGED vars
  BY <1>4 DEF vars, IInv, TypeOK, SuperRemains, MembersHaveOpenTeam,
              GrantsNeedAdmin, AdminsHaveNoTeam, CookiesMatch, PowersOf
<1>. QED BY <1>1, <1>2, <1>3, <1>4 DEF Next

\* The strengthened invariant.
THEOREM Inductive == Spec => []IInv
  BY InitIInv, NextKeeps, PTL DEF Spec

\* The columns have their types and satisfy the CHECK constraint on archived
\* accounts, which the handlers never make PostgreSQL refuse.
THEOREM AccountsTypeOK == Spec => []TypeOK
  BY Inductive, PTL DEF IInv

\* There is always an active super administrator.
THEOREM SuperAlwaysRemains == Spec => []SuperRemains
  BY Inductive, PTL DEF IInv

\* Nobody ever belongs to an archived team.
THEOREM NobodyInArchivedTeam == Spec => []MembersHaveOpenTeam
  BY Inductive, PTL DEF IInv

\* A demotion leaves nothing that a later promotion would bring back.
THEOREM PowersNeedAdmin == Spec => []GrantsNeedAdmin
  BY Inductive, PTL DEF IInv

\* An accepted session is right about the powers of its account.
THEOREM AcceptedIsCurrent == Spec => []SessionsAreCurrent
<1>1. IInv => SessionsAreCurrent
  BY DEF IInv, CookiesMatch, SessionsAreCurrent, Accepted
<1>. QED BY <1>1, Inductive, PTL

\* No administrative step is made with powers that changed after the login.
THEOREM StaleSessionsAreIdle == Spec => ActsWithPowersAtLogin
<1>. DEFINE Step == \A s \in Sessions :
                /\ session[s] # NoSession
                /\ session[s].powers # PowersOf(session[s].user)
                => ~Administer(s)
<1>1. IInv => Step
  BY DEF IInv, CookiesMatch, Administer, Authorised
<1>2. IInv /\ [Next]_vars => [Step]_vars
  BY <1>1
<1>. QED BY <1>2, Inductive, PTL DEF Spec, ActsWithPowersAtLogin

\* What a session writes to one account, MayTouch allows: without a super
\* administrator, the row is of no administrator before, and of no powerful one
\* after.
LEMMA OneRowOfStaff ==
    ASSUME IInv, NEW s \in Sessions, NEW v \in Users,
           ~account[session[s].user].super,
           GoogleStep(s, v) \/ LocalStep(s, v) \/ AccessStep(s, v)
    PROVE  /\ ~account[v].admin
           /\ ~account'[v].super
           /\ account'[v].grants = {}
           /\ \A u \in Users \ {v} : account'[u] = account[u]
<1>. DEFINE old == account[v]
            Weak == /\ ~account'[v].super
                    /\ account'[v].grants = {}
                    /\ \A u \in Users \ {v} : account'[u] = account[u]
<1>1. old \in Account /\ account \in [Users -> Account]
  BY DEF IInv, TypeOK
<1>2. ASSUME NEW row \in Account, ~row.super, row.grants = {}, Write(v, row)
      PROVE  Weak
  <2>1. account' = [account EXCEPT ![v] = Stored(row)]
    BY <1>2 DEF Write
  <2>2. ~Stored(row).super /\ Stored(row).grants = {}
    BY <1>2 DEF Stored, Account
  <2>. QED BY <1>1, <2>1, <2>2
<1>3. ASSUME NEW row \in Account, ~row.super, row.grants = {},
             WriteAndRevoke(v, row), row.version = old.version
      PROVE  Weak
  <2>. DEFINE new == [row EXCEPT !.version = @ + 1]
  <2>1. new \in Account /\ ~new.super /\ new.grants = {}
    BY <1>1, <1>3, AccountsAssumption DEF Account, WriteAndRevoke
  <2>2. Write(v, new)
    BY <1>3 DEF WriteAndRevoke
  <2>. HIDE DEF new, Weak
  <2>. QED BY <1>2, <2>1, <2>2
<1>4. ~AccessStep(s, v)
  BY DEF AccessStep, SetAccess
<1>5. ~old.admin
  BY <1>4 DEF GoogleStep, Invite, Suspend, Reactivate, RevokeSessions, Approve,
              UpdateGoogle, LocalStep, ArchiveUser, RestoreUser, CreateUser,
              UpdateUser, Administers, MayTouch
<1>6. ~old.super /\ old.grants = {}
  BY <1>5 DEF IInv, GrantsNeedAdmin
<1>. HIDE DEF Weak
<1>7. ASSUME GoogleStep(s, v) PROVE Weak
  <2>1. CASE Invite(s, v)
    <3>. DEFINE row == [Blank EXCEPT !.status = "INVITED", !.google = TRUE]
    <3>1. row \in Account /\ ~row.super /\ row.grants = {}
      BY BlankIsAccount DEF Account, Status, Blank
    <3>2. Write(v, row)
      BY <2>1 DEF Invite
    <3>. HIDE DEF row
    <3>. QED BY <1>2, <3>1, <3>2
  <2>2. CASE Suspend(s, v)
    <3>. DEFINE row == [old EXCEPT !.status = "SUSPENDED"]
    <3>1. /\ row \in Account /\ row.version = old.version
          /\ ~row.super /\ row.grants = {}
      BY <1>1, <1>6 DEF Account, Status
    <3>2. WriteAndRevoke(v, row)
      BY <2>2 DEF Suspend
    <3>. HIDE DEF row
    <3>. QED BY <1>3, <3>1, <3>2
  <2>3. CASE Reactivate(s, v)
    <3>. DEFINE row == [old EXCEPT
                    !.status = IF old.bound THEN "ACTIVE" ELSE "INVITED"]
    <3>1. /\ row \in Account /\ row.version = old.version
          /\ ~row.super /\ row.grants = {}
      BY <1>1, <1>6 DEF Account, Status
    <3>2. WriteAndRevoke(v, row)
      BY <2>3 DEF Reactivate
    <3>. HIDE DEF row
    <3>. QED BY <1>3, <3>1, <3>2
  <2>4. CASE RevokeSessions(s, v)
    BY <1>1, <1>3, <1>6, <2>4 DEF RevokeSessions
  <2>5. ASSUME NEW role \in Roles, NEW team \in Membership,
               Approve(s, v, role, team) \/ UpdateGoogle(s, v, role, team)
        PROVE  Weak
    <3>. DEFINE row == Role(old, MakesAdmin(role), team)
                row2 == [row EXCEPT !.status = "ACTIVE"]
    <3>1. /\ row \in Account /\ row.version = old.version
          /\ ~row.super /\ row.grants = {}
      BY <1>1, <1>6, RoleDecides DEF Account, Role
    <3>2. /\ row2 \in Account /\ row2.version = old.version
          /\ ~row2.super /\ row2.grants = {}
      BY <3>1 DEF Account, Status
    <3>3. WriteAndRevoke(v, row2) \/ WriteAndRevoke(v, row)
      BY <2>5 DEF Approve, UpdateGoogle
    <3>. HIDE DEF row, row2
    <3>. QED BY <1>3, <3>1, <3>2, <3>3
  <2>. QED BY <1>7, <2>1, <2>2, <2>3, <2>4, <2>5 DEF GoogleStep
<1>8. ASSUME LocalStep(s, v) PROVE Weak
  <2>1. CASE ArchiveUser(s, v)
    <3>. DEFINE row == [old EXCEPT !.status = "SUSPENDED", !.archived = TRUE]
    <3>1. /\ row \in Account /\ row.version = old.version
          /\ ~row.super /\ row.grants = {}
      BY <1>1, <1>6 DEF Account, Status
    <3>2. WriteAndRevoke(v, row)
      BY <2>1 DEF ArchiveUser
    <3>. HIDE DEF row
    <3>. QED BY <1>3, <3>1, <3>2
  <2>2. CASE RestoreUser(s, v)
    <3>. DEFINE row == [old EXCEPT !.status = "ACTIVE", !.archived = FALSE]
    <3>1. /\ row \in Account /\ row.version = old.version
          /\ ~row.super /\ row.grants = {}
      BY <1>1, <1>6 DEF Account, Status
    <3>2. WriteAndRevoke(v, row)
      BY <2>2 DEF RestoreUser
    <3>. HIDE DEF row
    <3>. QED BY <1>3, <3>1, <3>2
  <2>3. ASSUME NEW role \in Roles, NEW team \in Membership,
               CreateUser(s, v, role, team)
        PROVE  Weak
    <3>. DEFINE row == NewLocal(MakesAdmin(role), team)
    <3>1. row \in Account /\ ~row.super /\ row.grants = {}
      BY BlankIsAccount, RoleDecides DEF NewLocal, Role, Blank, Account, Status
    <3>2. Write(v, row)
      BY <2>3 DEF CreateUser
    <3>. HIDE DEF row
    <3>. QED BY <1>2, <3>1, <3>2
  <2>4. ASSUME NEW role \in Roles, NEW team \in Membership,
               UpdateUser(s, v, role, team)
        PROVE  Weak
    <3>. DEFINE row == Role(old, MakesAdmin(role), team)
    <3>1. /\ row \in Account /\ row.version = old.version
          /\ ~row.super /\ row.grants = {}
      BY <1>1, <1>6, RoleDecides DEF Account, Role
    <3>2. WriteAndRevoke(v, row)
      BY <2>4 DEF UpdateUser
    <3>. HIDE DEF row
    <3>. QED BY <1>3, <3>1, <3>2
  <2>. QED BY <1>8, <2>1, <2>2, <2>3, <2>4 DEF LocalStep
<1>. QED BY <1>4, <1>5, <1>7, <1>8 DEF Weak

\* Without a super administrator no administrator is touched, and whom it
\* touches has no powers afterwards, in any team and on any path.
THEOREM OnlySupersTouchAdmins == Spec => AdminsAnswerToSupers
<1>. DEFINE Safe(u) == /\ ~account[u].admin
                       /\ ~account'[u].super
                       /\ account'[u].grants = {}
            Step == \A s \in Sessions, u \in Users :
                /\ session[s] # NoSession
                /\ ~account[session[s].user].super
                /\ account'[u] # account[u]
                /\ \/ account[u].admin
                   \/ account'[u].super
                   \/ account'[u].grants # {}
                => ~Administer(s)
<1>1. ASSUME IInv, NEW s \in Sessions, NEW u \in Users, Administer(s),
             ~account[session[s].user].super, account'[u] # account[u]
      PROVE  Safe(u)
  <2>1. ASSUME NEW v \in Users,
               GoogleStep(s, v) \/ LocalStep(s, v) \/ AccessStep(s, v)
        PROVE  Safe(u)
    BY <1>1, <2>1, OneRowOfStaff
  <2>2. ASSUME NEW team \in Teams, NEW to \in Teams, ArchiveTeam(s, team, to)
        PROVE  Safe(u)
    <3>1. account' = Moved(Members(team), to)
      BY <2>2 DEF ArchiveTeam
    <3>2. account[u].team = team
      BY <1>1, <3>1 DEF Moved, Members
    <3>3. /\ ~account[u].admin /\ ~account[u].super
          /\ account[u].grants = {}
      BY <1>1, <3>2, AccountsAssumption DEF IInv, AdminsHaveNoTeam, GrantsNeedAdmin
    <3>4. account'[u] = [account[u] EXCEPT !.team = to, !.version = @ + 1]
      BY <3>1, <3>2 DEF Moved, Members
    <3>5. account[u] \in Account
      BY <1>1 DEF IInv, TypeOK
    <3>. QED BY <3>3, <3>4, <3>5 DEF Account
  <2>3. ASSUME NEW team \in Teams, RestoreTeam(s, team)
        PROVE  Safe(u)
    BY <1>1, <2>3 DEF RestoreTeam
  <2>. QED BY <1>1, <2>1, <2>2, <2>3 DEF Administer, TeamStep
<1>2. IInv /\ [Next]_vars => [Step]_vars
  BY <1>1
<1>. QED BY <1>2, Inductive, PTL DEF Spec, AdminsAnswerToSupers

------------------------------------------------------------------------------
(* What the guard and the handlers read differently                        *)

\* A form is sent whose role has blanks around it.
Padded(s, u) ==
    \E team \in Membership :
        \/ Approve(s, u, "padded", team) \/ UpdateGoogle(s, u, "padded", team)
        \/ CreateUser(s, u, "padded", team) \/ UpdateUser(s, u, "padded", team)

\* Whoever is no super administrator sends none.
RolesAreTrimmed ==
    [][\A s \in Sessions, u \in Users :
           /\ session[s] # NoSession
           /\ ~account[session[s].user].super
           => ~Padded(s, u)]_vars

\* Without a super administrator, only such a form makes an administrator.
LEMMA OnlyPaddedPromotes ==
    ASSUME IInv, NEW s \in Sessions, NEW v \in Users,
           ~account[session[s].user].super,
           GoogleStep(s, v) \/ LocalStep(s, v) \/ AccessStep(s, v),
           ~account[v].admin, account'[v].admin
    PROVE  Padded(s, v)
<1>. DEFINE old == account[v]
<1>1. old \in Account /\ account \in [Users -> Account]
  BY DEF IInv, TypeOK
<1>2. ASSUME NEW row \in Account, ~row.admin, Write(v, row) \/ WriteAndRevoke(v, row)
      PROVE  FALSE
  <2>. DEFINE new == [row EXCEPT !.version = @ + 1]
  <2>1. ~Stored(row).admin /\ ~Stored(new).admin
    BY <1>2 DEF Stored, Account
  <2>2. account' = [account EXCEPT ![v] = Stored(row)]
        \/ account' = [account EXCEPT ![v] = Stored(new)]
    BY <1>2 DEF Write, WriteAndRevoke
  <2>. HIDE DEF new
  <2>. QED BY <1>1, <2>1, <2>2
<1>3. ASSUME NEW role \in Roles, MayTouch(s, v, role), role # "padded"
      PROVE  ~MakesAdmin(role)
  BY <1>3 DEF Roles, MayTouch, AsksForAdmin, MakesAdmin
<1>4. ~AccessStep(s, v)
  BY DEF AccessStep, SetAccess
<1>5. ASSUME NEW role \in Roles, NEW team \in Membership,
             Approve(s, v, role, team) \/ UpdateGoogle(s, v, role, team)
      PROVE  role = "padded"
  <2>. SUFFICES ASSUME role # "padded" PROVE FALSE
    OBVIOUS
  <2>. DEFINE row == Role(old, MakesAdmin(role), team)
              row2 == [row EXCEPT !.status = "ACTIVE"]
  <2>1. ~MakesAdmin(role)
    BY <1>3, <1>5 DEF Approve, UpdateGoogle, Administers
  <2>2. row \in Account /\ ~row.admin
    BY <1>1, <2>1, RoleDecides DEF Account, Role
  <2>3. row2 \in Account /\ ~row2.admin
    BY <2>2 DEF Account, Status
  <2>4. WriteAndRevoke(v, row2) \/ WriteAndRevoke(v, row)
    BY <1>5 DEF Approve, UpdateGoogle
  <2>. HIDE DEF row, row2
  <2>. QED BY <1>2, <2>2, <2>3, <2>4
<1>6. ASSUME NEW role \in Roles, NEW team \in Membership,
             CreateUser(s, v, role, team) \/ UpdateUser(s, v, role, team)
      PROVE  role = "padded"
  <2>. SUFFICES ASSUME role # "padded" PROVE FALSE
    OBVIOUS
  <2>. DEFINE row == Role(old, MakesAdmin(role), team)
              row2 == NewLocal(MakesAdmin(role), team)
  <2>1. ~MakesAdmin(role)
    BY <1>3, <1>6 DEF CreateUser, UpdateUser, Administers
  <2>2. row \in Account /\ ~row.admin
    BY <1>1, <2>1, RoleDecides DEF Account, Role
  <2>3. row2 \in Account /\ ~row2.admin
    BY <2>1, BlankIsAccount, RoleDecides DEF NewLocal, Role, Blank, Account, Status
  <2>4. WriteAndRevoke(v, row) \/ Write(v, row2)
    BY <1>6 DEF CreateUser, UpdateUser
  <2>. HIDE DEF row, row2
  <2>. QED BY <1>2, <2>2, <2>3, <2>4
<1>7. /\ ~Suspend(s, v) /\ ~Reactivate(s, v) /\ ~RevokeSessions(s, v)
      /\ ~ArchiveUser(s, v) /\ ~RestoreUser(s, v) /\ ~Invite(s, v)
  <2>1. ASSUME NEW row \in {[old EXCEPT !.status = "SUSPENDED"],
                            [old EXCEPT !.status =
                                IF old.bound THEN "ACTIVE" ELSE "INVITED"],
                            old,
                            [old EXCEPT !.status = "SUSPENDED", !.archived = TRUE],
                            [old EXCEPT !.status = "ACTIVE", !.archived = FALSE]}
        PROVE  ~WriteAndRevoke(v, row)
    <3>1. row \in Account /\ ~row.admin
      BY <1>1, <2>1 DEF Account, Status
    <3>. QED BY <1>2, <3>1
  <2>2. ~Write(v, [Blank EXCEPT !.status = "INVITED", !.google = TRUE])
    <3>. DEFINE row == [Blank EXCEPT !.status = "INVITED", !.google = TRUE]
    <3>1. row \in Account /\ ~row.admin
      BY BlankIsAccount DEF Account, Status, Blank
    <3>. HIDE DEF row
    <3>2. ~Write(v, row)
      BY <1>2, <3>1
    <3>. QED BY <3>2 DEF row
  <2>. QED BY <2>1, <2>2 DEF Suspend, Reactivate, RevokeSessions, ArchiveUser,
                             RestoreUser, Invite
<1>8. PICK role \in Roles, team \in Membership :
         \/ Approve(s, v, role, team) \/ UpdateGoogle(s, v, role, team)
         \/ CreateUser(s, v, role, team) \/ UpdateUser(s, v, role, team)
  BY <1>4, <1>7 DEF GoogleStep, LocalStep
<1>. QED BY <1>5, <1>6, <1>8 DEF Padded

\* On every path only super administrators make administrators, as long as
\* nobody else sends a role with blanks around it: that the guard does not strip
\* it is the only gap.
THEOREM TrimmedRolesSuffice == Spec /\ RolesAreTrimmed => PromotedBySupers
<1>. DEFINE Step == \A s \in Sessions, u \in Users :
                /\ session[s] # NoSession
                /\ ~account[session[s].user].super
                /\ ~account[u].admin
                /\ account'[u].admin
                => ~Administer(s)
            Trimmed == \A s \in Sessions, u \in Users :
                /\ session[s] # NoSession
                /\ ~account[session[s].user].super
                => ~Padded(s, u)
<1>1. ASSUME IInv, Trimmed, NEW s \in Sessions, NEW u \in Users, Administer(s),
             session[s] # NoSession, ~account[session[s].user].super,
             ~account[u].admin, account'[u].admin
      PROVE  FALSE
  <2>1. ASSUME NEW v \in Users,
               GoogleStep(s, v) \/ LocalStep(s, v) \/ AccessStep(s, v)
        PROVE  FALSE
    <3>1. u = v
      BY <1>1, <2>1, OneRowOfStaff
    <3>2. Padded(s, u)
      BY <1>1, <2>1, <3>1, OnlyPaddedPromotes
    <3>. QED BY <1>1, <3>2
  <2>2. ASSUME NEW team \in Teams, NEW to \in Teams, ArchiveTeam(s, team, to)
        PROVE  FALSE
    <3>1. account'[u] = IF u \in Members(team)
                        THEN [account[u] EXCEPT !.team = to, !.version = @ + 1]
                        ELSE account[u]
      BY <2>2 DEF ArchiveTeam, Moved
    <3>2. account[u] \in Account
      BY <1>1 DEF IInv, TypeOK
    <3>. QED BY <1>1, <3>1, <3>2 DEF Account
  <2>3. ASSUME NEW team \in Teams, RestoreTeam(s, team)
        PROVE  FALSE
    BY <1>1, <2>3 DEF RestoreTeam
  <2>. QED BY <1>1, <2>1, <2>2, <2>3 DEF Administer, TeamStep
<1>2. IInv /\ [Next]_vars /\ [Trimmed]_vars => [Step]_vars
  <2>. SUFFICES ASSUME IInv, [Next]_vars, [Trimmed]_vars PROVE [Step]_vars
    OBVIOUS
  <2>1. CASE Trimmed
    <3>1. Step
      BY <1>1, <2>1
    <3>. HIDE DEF Step
    <3>. QED BY <3>1
  <2>2. CASE UNCHANGED vars
    <3>. HIDE DEF Step
    <3>. QED BY <2>2
  <2>. HIDE DEF Step, Trimmed
  <2>. QED BY <2>1, <2>2
<1>3. [][Trimmed]_vars <=> RolesAreTrimmed
  BY DEF RolesAreTrimmed
<1>4. [][Step]_vars <=> PromotedBySupers
  BY DEF PromotedBySupers
<1>. HIDE DEF Step, Trimmed
<1>. QED BY <1>2, <1>3, <1>4, Inductive, PTL DEF Spec

------------------------------------------------------------------------------
(* The version alone decides                                               *)

\* A cookie is accepted exactly as long as it is as new as its account.  So the
\* two other things enforce_session_validity looks at, the status of the
\* account and of the team, never decide alone.
VersionDecides ==
    \A s \in Sessions : session[s] # NoSession =>
        (Accepted(s) <=> session[s].version = account[session[s].user].version)

\* What a step does to an account: it is inserted, its sessions end, or it was
\* not active and so had none, or it stays as it is and its team stays open.
MovesOn(u) ==
    \/ account[u].status = "NONE"
    \/ account'[u].version > account[u].version
    \/ account[u].status # "ACTIVE" /\ account'[u].version = account[u].version
    \/ /\ account'[u] = account[u]
       /\ account[u].team \in openTeams => account[u].team \in openTeams'

\* A row that is inserted, or written with a new auth_version.
LEMMA InsertMovesOn ==
    ASSUME IInv, NEW v \in Users, NEW row, account[v].status = "NONE", Write(v, row)
    PROVE  \A u \in Users : MovesOn(u)
BY DEF IInv, TypeOK, Write, MovesOn

LEMMA RevokeMovesOn ==
    ASSUME IInv, NEW v \in Users, NEW row \in Account,
           row.version = account[v].version, WriteAndRevoke(v, row)
    PROVE  \A u \in Users : MovesOn(u)
<1>. DEFINE new == [row EXCEPT !.version = @ + 1]
<1>1. account[v].version \in Nat /\ account[v].version < MaxVersion
  BY DEF IInv, TypeOK, Account, WriteAndRevoke
<1>2. new.version = account[v].version + 1
  BY DEF Account
<1>3. Write(v, new)
  BY DEF WriteAndRevoke
<1>4. Stored(new).version = new.version
  <2>1. CASE new.admin
    BY <2>1, Zenon DEF Stored
  <2>2. CASE ~new.admin
    <3>1. Stored(new) = [new EXCEPT !.super = FALSE, !.grants = {}]
      BY <2>2, Zenon DEF Stored
    <3>2. [new EXCEPT !.super = FALSE, !.grants = {}].version = new.version
      BY DEF Account
    <3>. QED BY <3>1, <3>2
  <2>. QED BY <2>1, <2>2
<1>. HIDE DEF new
<1>5. /\ account' = [account EXCEPT ![v] = Stored(new)] /\ openTeams' = openTeams
  BY <1>3 DEF Write
<1>6. account'[v].version > account[v].version
  BY <1>1, <1>2, <1>4, <1>5 DEF IInv, TypeOK
<1>7. \A u \in Users \ {v} : account'[u] = account[u]
  BY <1>5 DEF IInv, TypeOK
<1>. QED BY <1>5, <1>6, <1>7 DEF MovesOn

\* Each handler is one of these, or the binding of an invitation.
LEMMA GoogleMovesOn ==
    ASSUME IInv, NEW s \in Sessions, NEW v \in Users, GoogleStep(s, v)
    PROVE  \A u \in Users : MovesOn(u)
<1>. DEFINE old == account[v]
<1>1. old \in Account
  BY RowFacts
<1>2. CASE Invite(s, v)
  BY <1>2, InsertMovesOn DEF Invite
<1>3. CASE Suspend(s, v)
  <2>1. /\ [old EXCEPT !.status = "SUSPENDED"] \in Account
        /\ [old EXCEPT !.status = "SUSPENDED"].version = old.version
    BY <1>1 DEF Account, Status
  <2>. QED BY <1>3, <2>1, RevokeMovesOn DEF Suspend
<1>4. CASE Reactivate(s, v)
  <2>. DEFINE row == [old EXCEPT
                  !.status = IF old.bound THEN "ACTIVE" ELSE "INVITED"]
  <2>1. row \in Account /\ row.version = old.version
    BY <1>1 DEF Account, Status
  <2>2. WriteAndRevoke(v, row)
    BY <1>4 DEF Reactivate
  <2>. HIDE DEF row
  <2>. QED BY <2>1, <2>2, RevokeMovesOn
<1>5. CASE RevokeSessions(s, v)
  BY <1>1, <1>5, RevokeMovesOn DEF RevokeSessions
<1>6. ASSUME NEW role \in Roles, NEW team \in Membership,
             Approve(s, v, role, team) \/ UpdateGoogle(s, v, role, team)
      PROVE  \A u \in Users : MovesOn(u)
  <2>1. PICK row \in Account : row.version = old.version /\ WriteAndRevoke(v, row)
    <3>1. /\ Role(old, MakesAdmin(role), team) \in Account
          /\ Role(old, MakesAdmin(role), team).version = old.version
          /\ [Role(old, MakesAdmin(role), team) EXCEPT !.status = "ACTIVE"] \in Account
          /\ [Role(old, MakesAdmin(role), team) EXCEPT !.status = "ACTIVE"].version = old.version
      BY <1>1, RoleDecides DEF Account, Status, Role
    <3>. QED BY <1>6, <3>1 DEF Approve, UpdateGoogle
  <2>. QED BY <2>1, RevokeMovesOn
<1>. QED BY <1>2, <1>3, <1>4, <1>5, <1>6 DEF GoogleStep

LEMMA LocalMovesOn ==
    ASSUME IInv, NEW s \in Sessions, NEW v \in Users,
           LocalStep(s, v) \/ AccessStep(s, v)
    PROVE  \A u \in Users : MovesOn(u)
<1>. DEFINE old == account[v]
            Revoked == \E row \in Account :
                           row.version = old.version /\ WriteAndRevoke(v, row)
<1>1. old \in Account
  BY RowFacts
<1>2. ASSUME ArchiveUser(s, v) PROVE Revoked
  <2>1. LET row == [old EXCEPT !.status = "SUSPENDED", !.archived = TRUE]
        IN  row \in Account /\ row.version = old.version
    BY <1>1 DEF Account, Status
  <2>. QED BY <1>2, <2>1 DEF ArchiveUser
<1>3. ASSUME RestoreUser(s, v) PROVE Revoked
  <2>1. LET row == [old EXCEPT !.status = "ACTIVE", !.archived = FALSE]
        IN  row \in Account /\ row.version = old.version
    BY <1>1 DEF Account, Status
  <2>. QED BY <1>3, <2>1 DEF RestoreUser
<1>4. ASSUME NEW role \in Roles, NEW team \in Membership,
             UpdateUser(s, v, role, team)
      PROVE  Revoked
  <2>1. Role(old, MakesAdmin(role), team) \in Account /\ Role(old, MakesAdmin(role), team).version = old.version
    BY <1>1, RoleDecides DEF Account, Role
  <2>. QED BY <1>4, <2>1 DEF UpdateUser
<1>5. ASSUME AccessStep(s, v) PROVE Revoked
  <2>. PICK super \in BOOLEAN, grants \in SUBSET Keys : SetAccess(s, v, super, grants)
    BY <1>5 DEF AccessStep
  <2>. DEFINE row == [old EXCEPT !.super = super,
                                 !.grants = IF super THEN {} ELSE grants]
  <2>1. row \in Account /\ row.version = old.version
    BY <1>1 DEF Account
  <2>2. WriteAndRevoke(v, row)
    BY DEF SetAccess
  <2>. HIDE DEF row
  <2>. QED BY <2>1, <2>2
<1>6. ASSUME NEW role \in Roles, NEW team \in Membership,
             CreateUser(s, v, role, team)
      PROVE  \A u \in Users : MovesOn(u)
  BY <1>6, InsertMovesOn DEF CreateUser
<1>7. ASSUME Revoked PROVE \A u \in Users : MovesOn(u)
  BY <1>7, RevokeMovesOn
<1>. HIDE DEF Revoked
<1>. QED BY <1>2, <1>3, <1>4, <1>5, <1>6, <1>7 DEF LocalStep

LEMMA TeamMovesOn ==
    ASSUME IInv, NEW s \in Sessions, TeamStep(s)
    PROVE  \A u \in Users : MovesOn(u)
<1>1. ASSUME NEW team \in Teams, RestoreTeam(s, team)
      PROVE  \A u \in Users : MovesOn(u)
  BY <1>1 DEF RestoreTeam, MovesOn
<1>2. ASSUME NEW team \in Teams, NEW to \in Teams, ArchiveTeam(s, team, to),
             NEW u \in Users
      PROVE  MovesOn(u)
  <2>1. /\ account' = Moved(Members(team), to)
        /\ openTeams' = openTeams \ {team}
    BY <1>2 DEF ArchiveTeam
  <2>2. CASE account[u].team = team
    <3>1. account'[u] = [account[u] EXCEPT !.team = to, !.version = @ + 1]
      BY <2>1, <2>2 DEF Moved, Members
    <3>2. account[u] \in Account /\ account[u].version \in Nat
      BY DEF IInv, TypeOK, Account
    <3>3. account'[u].version > account[u].version
      BY <3>1, <3>2 DEF Account
    <3>. QED BY <3>3 DEF MovesOn
  <2>3. CASE account[u].team # team
    BY <2>1, <2>3 DEF Moved, Members, MovesOn
  <2>. QED BY <2>2, <2>3
<1>. QED BY <1>1, <1>2 DEF TeamStep

LEMMA OutsideMovesOn ==
    ASSUME IInv, Outside
    PROVE  \A u \in Users : MovesOn(u)
<1>1. ASSUME NEW v \in Users, Apply(v) \/ \E team \in Teams : AddUser(v, team)
      PROVE  \A u \in Users : MovesOn(u)
  BY <1>1, InsertMovesOn DEF Apply, AddUser
<1>2. ASSUME NEW v \in Users, BindInvite(v), NEW u \in Users
      PROVE  MovesOn(u)
  <2>. DEFINE row == [account[v] EXCEPT !.status = "ACTIVE", !.bound = TRUE]
  <2>1. account[v].status = "INVITED" /\ Write(v, row)
    BY <1>2 DEF BindInvite
  <2>2. row \in Account /\ row.version = account[v].version
    BY RowFacts DEF Account, Status
  <2>. HIDE DEF row
  <2>3. Stored(row).version = row.version
    BY <2>2 DEF Stored, Account
  <2>4. account' = [account EXCEPT ![v] = Stored(row)] /\ openTeams' = openTeams
    BY <2>1 DEF Write
  <2>. QED BY <2>1, <2>2, <2>3, <2>4 DEF IInv, TypeOK, MovesOn
<1>. QED BY <1>1, <1>2 DEF Outside

\* All that the steps of others do to a cookie that is kept.
LEMMA AllMoveOn ==
    ASSUME IInv, [Next]_vars
    PROVE  \A u \in Users : MovesOn(u)
<1>1. ASSUME NEW s \in Sessions, Visit(s) PROVE \A u \in Users : MovesOn(u)
  BY <1>1 DEF Visit, Leave, LoginLocal, LoginGoogle, MovesOn
<1>2. ASSUME NEW s \in Sessions, Administer(s) PROVE \A u \in Users : MovesOn(u)
  BY <1>2, GoogleMovesOn, LocalMovesOn, TeamMovesOn DEF Administer
<1>3. CASE UNCHANGED vars
  BY <1>3 DEF vars, MovesOn
<1>. QED BY <1>1, <1>2, <1>3, OutsideMovesOn DEF Next

\* A cookie is kept, dropped, or new and of an account that may enter.
LEMMA CookieChanges ==
    ASSUME IInv, [Next]_vars, NEW s \in Sessions, session'[s] # session[s],
           session'[s] # NoSession
    PROVE  /\ account' = account /\ openTeams' = openTeams
           /\ session'[s].version = account[session'[s].user].version
           /\ MayEnter(session'[s].user)
           /\ session'[s].powers = PowersOf(session'[s].user)
<1>1. \A u, row : Write(u, row) => session' = session
  BY DEF Write
<1>2. ASSUME NEW t \in Sessions, Administer(t) PROVE session' = session
  <2>1. \A u \in Users : GoogleStep(t, u) => session' = session
    BY <1>1 DEF GoogleStep, Invite, Suspend, Reactivate, RevokeSessions, Approve,
                UpdateGoogle, WriteAndRevoke
  <2>2. \A u \in Users : LocalStep(t, u) => session' = session
    BY <1>1 DEF LocalStep, ArchiveUser, RestoreUser, CreateUser, UpdateUser,
                WriteAndRevoke
  <2>3. \A u \in Users : AccessStep(t, u) => session' = session
    BY <1>1 DEF AccessStep, SetAccess, WriteAndRevoke
  <2>4. TeamStep(t) => session' = session
    BY DEF TeamStep, ArchiveTeam, RestoreTeam
  <2>. QED BY <1>2, <2>1, <2>2, <2>3, <2>4 DEF Administer
<1>3. Outside => session' = session
  BY <1>1 DEF Outside, BindInvite, Apply, AddUser
<1>4. PICK t \in Sessions : Visit(t)
  BY <1>2, <1>3 DEF Next, vars
<1>5. session \in [Sessions -> Session \cup {NoSession}]
  BY DEF IInv, TypeOK
<1>6. ~Leave(t)
  BY <1>5 DEF Leave
<1>7. PICK u \in Users : LoginLocal(t, u) \/ LoginGoogle(t, u)
  BY <1>4, <1>6 DEF Visit
<1>8. /\ account' = account /\ openTeams' = openTeams /\ MayEnter(u)
      /\ session' = [session EXCEPT ![t] =
             [user |-> u, version |-> account[u].version, powers |-> PowersOf(u)]]
  BY <1>7 DEF LoginLocal, LoginGoogle, Enter
<1>9. session'[s] =
          [user |-> u, version |-> account[u].version, powers |-> PowersOf(u)]
  BY <1>5, <1>8
<1>. QED BY <1>8, <1>9

\* A cookie that is kept is accepted as long as no new version has come.
LEMMA DecidesKept ==
    ASSUME IInv, IInv', [Next]_vars, VersionDecides
    PROVE  VersionDecides'
<1>. SUFFICES ASSUME NEW s \in Sessions, session'[s] # NoSession,
                     NEW u, u = session'[s].user,
                     session'[s].version = account'[u].version
              PROVE  /\ account'[u].status = "ACTIVE"
                     /\ session'[s].powers.admin \/ session'[s].powers.team \in openTeams'
  BY DEF VersionDecides, Accepted
<1>1. CASE session'[s] # session[s]
  <2>1. /\ account' = account /\ openTeams' = openTeams
        /\ MayEnter(u) /\ session'[s].powers = PowersOf(u)
    BY <1>1, CookieChanges
  <2>. QED BY <2>1 DEF MayEnter, PowersOf
<1>2. CASE session'[s] = session[s]
  <2>1. /\ session[s] \in Session /\ u \in Users
        /\ account[u] \in Account /\ account'[u] \in Account
    BY <1>2 DEF IInv, TypeOK, Session
  <2>2. /\ session[s].version \in Nat
        /\ account[u].version \in Nat /\ account'[u].version \in Nat
    BY <2>1 DEF Session, Account
  <2>3. /\ account[u].status # "NONE"
        /\ session[s].version <= account[u].version
        /\ session[s].version = account[u].version => session[s].powers = PowersOf(u)
    BY <1>2 DEF IInv, CookiesMatch
  <2>4. MovesOn(u)
    BY <2>1, AllMoveOn
  <2>5. /\ account[u].version = account'[u].version
        /\ session[s].version = account[u].version
    BY <1>2, <2>2, <2>3, <2>4 DEF MovesOn
  <2>6. Accepted(s) /\ session[s].powers = PowersOf(u)
    BY <1>2, <2>3, <2>5 DEF VersionDecides
  <2>7. account[u].status = "ACTIVE"
    BY <1>2, <2>6 DEF Accepted
  <2>8. /\ account'[u] = account[u]
        /\ account[u].team \in openTeams => account[u].team \in openTeams'
    BY <2>2, <2>3, <2>4, <2>5, <2>7 DEF MovesOn
  <2>. QED BY <1>2, <2>6, <2>7, <2>8 DEF Accepted, PowersOf
<1>. QED BY <1>1, <1>2

\* An accepted session is one that is as new as its account.
THEOREM VersionAlwaysDecides == Spec => []VersionDecides
<1>1. Init => VersionDecides
  BY DEF Init, VersionDecides
<1>2. VersionDecides /\ IInv /\ IInv' /\ [Next]_vars => VersionDecides'
  BY DecidesKept
<1>. QED BY <1>1, <1>2, Inductive, PTL DEF Spec

\* Versions only grow, so what was rejected once is rejected for good.
THEOREM RejectedStaysRejected == Spec => RejectedForGood
<1>. DEFINE Step == \A s \in Sessions :
                /\ session[s] # NoSession
                /\ ~Accepted(s)
                /\ session'[s] = session[s]
                => ~Accepted(s)'
<1>1. ASSUME IInv, IInv', VersionDecides, VersionDecides', [Next]_vars,
             NEW s \in Sessions, session[s] # NoSession, ~Accepted(s),
             session'[s] = session[s]
      PROVE  ~Accepted(s)'
  <2>. DEFINE u == session[s].user
  <2>1. /\ session[s] \in Session /\ u \in Users
        /\ account[u] \in Account /\ account'[u] \in Account
    BY <1>1 DEF IInv, TypeOK, Session
  <2>2. /\ session[s].version \in Nat
        /\ account[u].version \in Nat /\ account'[u].version \in Nat
    BY <2>1 DEF Session, Account
  <2>3. /\ account[u].status # "NONE"
        /\ session[s].version <= account[u].version
        /\ session[s].version # account[u].version
    BY <1>1 DEF IInv, CookiesMatch, VersionDecides
  <2>4. account'[u].version >= account[u].version
    BY <1>1, <2>1, <2>2, <2>3, AllMoveOn DEF MovesOn
  <2>5. session'[s].version # account'[u].version
    BY <1>1, <2>2, <2>3, <2>4
  <2>. QED BY <1>1, <2>5 DEF VersionDecides
<1>2. IInv /\ IInv' /\ VersionDecides /\ VersionDecides' /\ [Next]_vars => [Step]_vars
  BY <1>1
<1>. QED BY <1>2, Inductive, VersionAlwaysDecides, PTL DEF Spec, RejectedForGood

=============================================================================
