----------------------------- MODULE TeamPreviews -----------------------------
(***************************************************************************)
(* Teams, their policies and their members: admin_teams.py and the team    *)
(* half of admin_lifecycle.py, with the paths that change who is a member. *)
(*                                                                         *)
(* A team is archived, or gets another policy, in three transactions of    *)
(* the administrator: the preview, which stores a token; the confirmation, *)
(* which first uses the token up and commits; then the change itself, if   *)
(* the team still has the stamp (updated_at) that the preview captured.    *)
(* All of them hold ACCOUNT_LOCK, and so do all other writers but the      *)
(* scripts of the operator.                                                *)
(*                                                                         *)
(* Who may do all this is the subject of Accounts.  Here any check of the  *)
(* actor may succeed or fail, and any administrator may use any token,     *)
(* although the program finds only those of the actor.                     *)
(***************************************************************************)
EXTENDS Naturals, FiniteSets

CONSTANTS
    Teams,          \* ids of the teams
    Users,          \* people who may belong to a team
    Policies,       \* values of brands, ip_policy and permission_keys together
    Tokens,         \* tokens of previews
    Requests,       \* requests that confirm a preview
    MaxStamp,       \* bound on the number of stamps
    NoTeam,         \* SQL NULL in a column for a team
    NoPreview,      \* a token that was not made yet
    NoToken         \* a request that is not under way

ASSUME TeamPreviewsAssumption ==
    /\ MaxStamp \in Nat
    /\ NoTeam \notin Teams
    /\ NoToken \notin Tokens
    /\ IsFiniteSet(Users)

VARIABLES
    team,           \* table teams with team_brands
    member,         \* column team_id of app_users
    preview,        \* what was previewed under each token
    live,           \* tokens in the two tables of previews
    hand,           \* the token each request has used up
    step,           \* where each request is
    roster,         \* the members each request has read
    clock,          \* the last stamp that was given
    done            \* history: the tokens whose change was made

vars == <<team, member, preview, live, hand, step, roster, clock, done>>

------------------------------------------------------------------------------
(* Types                                                                   *)

Membership == Teams \cup {NoTeam}

Team == [status: {"NONE", "ACTIVE", "ARCHIVED"}, policy: Policies,
         stamp: 0..MaxStamp]

\* members and policy are what the team had when it was previewed.  Of the
\* members only their number is stored in the table, and the policy is not.
Preview == [kind: {"archive", "policy"}, team: Teams, to: Membership,
            new: Policies, stamp: 0..MaxStamp, members: SUBSET Users,
            policy: Policies]

ASSUME NoPreviewAssumption == NoPreview \notin Preview

\* Only the transaction that archives a team takes more than one step.
Archiving(r) == step[r] \in {"locked", "counted"}

TypeOK ==
    /\ team \in [Teams -> Team]
    /\ member \in [Users -> Membership]
    /\ preview \in [Tokens -> Preview \cup {NoPreview}]
    /\ live \in SUBSET {token \in Tokens : preview[token] # NoPreview}
    /\ hand \in [Requests -> Tokens \cup {NoToken}]
    /\ step \in [Requests -> {"idle", "popped", "locked", "counted"}]
    /\ roster \in [Requests -> SUBSET Users]
    /\ clock \in 0..MaxStamp
    /\ done \subseteq Tokens
    /\ \A r \in Requests :
           /\ step[r] = "idle" <=> hand[r] = NoToken
           /\ hand[r] # NoToken => preview[hand[r]] # NoPreview
           /\ Archiving(r) => preview[hand[r]].kind = "archive"

Init ==
    /\ team \in [Teams -> [status: {"NONE", "ACTIVE"}, policy: Policies,
                           stamp: {0}]]
    /\ member = [u \in Users |-> NoTeam]
    /\ preview = [token \in Tokens |-> NoPreview]
    /\ live = {}
    /\ hand = [r \in Requests |-> NoToken]
    /\ step = [r \in Requests |-> "idle"]
    /\ roster = [r \in Requests |-> {}]
    /\ clock = 0
    /\ done = {}

------------------------------------------------------------------------------
(* Locks, stamps and members                                               *)

Open(t) == team[t].status = "ACTIVE"
Members(t) == {u \in Users : member[u] = t}

\* ACCOUNT_LOCK is free.
LockFree == \A r \in Requests : ~Archiving(r)

\* The rows of teams that are locked FOR UPDATE.
LockedTeams ==
    UNION {{preview[hand[r]].team, preview[hand[r]].to} :
               r \in {q \in Requests : Archiving(q)}}

\* updated_at = NOW() for these teams.  NOW() is when the transaction began, so
\* stamps need not grow, but no two transactions have the same; the program
\* only asks whether two stamps are equal.
Touched(teams) ==
    [t \in Teams |-> IF t \in teams THEN [team[t] EXCEPT !.stamp = clock + 1]
                     ELSE team[t]]

Tick ==
    /\ clock < MaxStamp
    /\ clock' = clock + 1

------------------------------------------------------------------------------
(* Who belongs to a team                                                   *)

\* Mutant of Assign: the team that is left is not touched.
AssignQuietly(u, to) ==
    /\ LockFree
    /\ {member[u], to} # {NoTeam}
    /\ to # NoTeam => Open(to)
    /\ Tick
    /\ member' = [member EXCEPT ![u] = to]
    /\ team' = Touched({to} \cap Teams)
    /\ UNCHANGED <<preview, live, hand, step, roster, done>>

\* An administrator creates, approves or changes an account.  An account that
\* does not exist and an administrator's have no team.  The stamps are touched
\* even if the team is the same.
Assign(u, to) ==
    /\ LockFree
    /\ {member[u], to} # {NoTeam}
    /\ to # NoTeam => Open(to)
    /\ Tick
    /\ member' = [member EXCEPT ![u] = to]
    /\ team' = Touched({member[u], to} \cap Teams)
    /\ UNCHANGED <<preview, live, hand, step, roster, done>>

\* Mutant of AddUser: the trigger looks at the team without FOR SHARE.
AddUserUnlocked(u, t) ==
    /\ member[u] = NoTeam
    /\ Open(t)
    /\ member' = [member EXCEPT ![u] = t]
    /\ UNCHANGED <<team, preview, live, hand, step, roster, clock, done>>

\* scripts/add_user.py: no lock and no stamp.  The trigger of migration 020
\* waits for the row of the team.
AddUser(u, t) ==
    /\ member[u] = NoTeam
    /\ t \notin LockedTeams
    /\ Open(t)
    /\ member' = [member EXCEPT ![u] = t]
    /\ UNCHANGED <<team, preview, live, hand, step, roster, clock, done>>

------------------------------------------------------------------------------
(* Teams                                                                   *)

\* scripts/seed_team_brands.py writes the brands of a team, without a stamp.
SeedBrands(t, policy) ==
    /\ team[t].status # "NONE"
    /\ team' = [team EXCEPT ![t].policy = policy]
    /\ UNCHANGED <<member, preview, live, hand, step, roster, clock, done>>

CreateTeam(t, policy) ==
    /\ LockFree
    /\ team[t].status = "NONE"
    /\ Tick
    /\ team' = [team EXCEPT ![t] =
           [status |-> "ACTIVE", policy |-> policy, stamp |-> clock + 1]]
    /\ UNCHANGED <<member, preview, live, hand, step, roster, done>>

RestoreTeam(t) ==
    /\ LockFree
    /\ team[t].status = "ARCHIVED"
    /\ Tick
    /\ team' = [team EXCEPT ![t].status = "ACTIVE", ![t].stamp = clock + 1]
    /\ UNCHANGED <<member, preview, live, hand, step, roster, done>>

------------------------------------------------------------------------------
(* Previews                                                                *)

Shown(kind, t, to, new) ==
    [kind |-> kind, team |-> t, to |-> to, new |-> new,
     stamp |-> team[t].stamp, members |-> Members(t),
     policy |-> team[t].policy]

Store(token, record) ==
    /\ preview[token] = NoPreview
    /\ preview' = [preview EXCEPT ![token] = record]
    /\ live' = live \cup {token}
    /\ UNCHANGED <<team, member, hand, step, roster, clock, done>>

PreviewArchive(token, t, to) ==
    /\ LockFree
    /\ Open(t)
    /\ IF Members(t) = {} THEN to = NoTeam
       ELSE to \in {other \in Teams \ {t} : Open(other)}
    /\ Store(token, Shown("archive", t, to, team[t].policy))

PreviewPolicy(token, t, new) ==
    /\ LockFree
    /\ Open(t)
    /\ Store(token, Shown("policy", t, NoTeam, new))

\* After half an hour the token is not found any more.
Expire(token) ==
    /\ token \in live
    /\ live' = live \ {token}
    /\ UNCHANGED <<team, member, preview, hand, step, roster, clock, done>>

------------------------------------------------------------------------------
(* Confirmations                                                           *)

\* Mutant of Pop: the row is read and not deleted.
PopKept(r, token) ==
    /\ LockFree
    /\ hand[r] = NoToken
    /\ token \in live
    /\ hand' = [hand EXCEPT ![r] = token]
    /\ step' = [step EXCEPT ![r] = "popped"]
    /\ UNCHANGED <<team, member, preview, live, roster, clock, done>>

\* The first transaction: DELETE ... RETURNING.
Pop(r, token) ==
    /\ LockFree
    /\ hand[r] = NoToken
    /\ token \in live
    /\ live' = live \ {token}
    /\ hand' = [hand EXCEPT ![r] = token]
    /\ step' = [step EXCEPT ![r] = "popped"]
    /\ UNCHANGED <<team, member, preview, roster, clock, done>>

\* Mutant of Unchanged: the stamp is not compared.
StillOpen(shown) == Open(shown.team)

\* The team is open and has the stamp of the preview.
Unchanged(shown) ==
    /\ Open(shown.team)
    /\ team[shown.team].stamp = shown.stamp

\* Mutant of Confirms: the token may come from the other table.
ConfirmsEither(r, kind) ==
    /\ step[r] = "popped"
    /\ LockFree
    /\ Unchanged(preview[hand[r]])

\* The second transaction finds the team as it was previewed.
Confirms(r, kind) ==
    /\ step[r] = "popped"
    /\ LockFree
    /\ preview[hand[r]].kind = kind
    /\ Unchanged(preview[hand[r]])

Finish(r) ==
    /\ hand' = [hand EXCEPT ![r] = NoToken]
    /\ step' = [step EXCEPT ![r] = "idle"]
    /\ roster' = [roster EXCEPT ![r] = {}]

LockTeams(r) ==
    /\ Confirms(r, "archive")
    /\ step' = [step EXCEPT ![r] = "locked"]
    /\ UNCHANGED <<team, member, preview, live, hand, roster, clock, done>>

\* As many members as were previewed.
SameNumber(shown) ==
    Cardinality(Members(shown.team)) = Cardinality(shown.members)

ReadMembers(r) ==
    LET shown == preview[hand[r]]
    IN  /\ step[r] = "locked"
        /\ SameNumber(shown)
        /\ roster' = [roster EXCEPT ![r] = Members(shown.team)]
        /\ step' = [step EXCEPT ![r] = "counted"]
        /\ UNCHANGED <<team, member, preview, live, hand, clock, done>>

Moved(members, to) ==
    [u \in Users |-> IF u \in members THEN to ELSE member[u]]

\* Those who were read are moved.
Archive(r) ==
    LET shown == preview[hand[r]]
        moves == roster[r] # {}
    IN  /\ step[r] = "counted"
        /\ moves => shown.to \in {t \in Teams \ {shown.team} : Open(t)}
        /\ Tick
        /\ member' = Moved(roster[r], shown.to)
        /\ team' = [Touched({shown.team} \cup (IF moves THEN {shown.to} ELSE {}))
                    EXCEPT ![shown.team].status = "ARCHIVED"]
        /\ done' = done \cup {hand[r]}
        /\ Finish(r)
        /\ UNCHANGED <<preview, live>>

\* No change is no new stamp.
ApplyPolicy(r) ==
    LET shown == preview[hand[r]]
    IN  /\ Confirms(r, "policy")
        /\ IF shown.new = team[shown.team].policy
           THEN UNCHANGED <<team, clock, done>>
           ELSE /\ Tick
                /\ done' = done \cup {hand[r]}
                /\ team' = [Touched({shown.team}) EXCEPT
                                ![shown.team].policy = shown.new]
        /\ Finish(r)
        /\ UNCHANGED <<member, preview, live>>

\* The request is refused, or its process dies: what it did in the second
\* transaction is rolled back, but the token stays used up.
Abandon(r) ==
    /\ hand[r] # NoToken
    /\ Finish(r)
    /\ UNCHANGED <<team, member, preview, live, clock, done>>

------------------------------------------------------------------------------
(* The specification                                                       *)

Confirmation(r) ==
    \/ \E token \in Tokens : Pop(r, token)
    \/ LockTeams(r)
    \/ ReadMembers(r)
    \/ Archive(r)
    \/ ApplyPolicy(r)
    \/ Abandon(r)

Previewing(token) ==
    \E t \in Teams :
        \/ \E to \in Membership : PreviewArchive(token, t, to)
        \/ \E new \in Policies : PreviewPolicy(token, t, new)

Membering(u) ==
    \/ \E to \in Membership : Assign(u, to)
    \/ \E t \in Teams : AddUser(u, t)

Editing(t) ==
    \/ \E policy \in Policies : SeedBrands(t, policy) \/ CreateTeam(t, policy)
    \/ RestoreTeam(t)

Next ==
    \/ \E u \in Users : Membering(u)
    \/ \E t \in Teams : Editing(t)
    \/ \E token \in Tokens : Previewing(token) \/ Expire(token)
    \/ \E r \in Requests : Confirmation(r)

Spec == Init /\ [][Next]_vars

------------------------------------------------------------------------------
(* Properties                                                              *)

\* Nobody belongs to an archived team, although the script that adds members
\* takes no lock and the transaction that archives reads them one by one.
MembersHaveOpenTeam ==
    \A u \in Users : member[u] # NoTeam => Open(member[u])

\* A token is used by one request only, whoever clicks twice.
OnceOnly ==
    \A r, q \in Requests : hand[r] = hand[q] /\ hand[r] # NoToken =>
        r = q /\ hand[r] \notin live

\* When a team is archived, those who are moved are exactly those who belonged
\* to it when it was previewed, and they go where the preview said.  The stamp
\* notices who has left and the number who was added by the script.
MovesWhoWasShown ==
    [][\A t \in Teams : Open(t) /\ team'[t].status = "ARCHIVED" =>
           \E r \in Requests :
               /\ hand[r] # NoToken
               /\ preview[hand[r]].team = t
               /\ preview[hand[r]].members = Members(t)
               /\ \A u \in Members(t) : member'[u] = preview[hand[r]].to]_vars

\* No two previews of one and the same state of a team are both carried out:
\* administrators do not overwrite each other's changes.
OneChangePerState ==
    \A one, other \in done :
        preview[one].team = preview[other].team /\ one # other =>
            preview[one].stamp # preview[other].stamp

\* What a comment of confirm_permissions says: the change is refused if someone
\* else changed the brands of the team since the preview.
KeepsNewerPolicy ==
    [][\A r \in Requests :
           hand[r] # NoToken /\ ApplyPolicy(r) =>
               preview[hand[r]].policy = team[preview[hand[r]].team].policy]_vars

=============================================================================
