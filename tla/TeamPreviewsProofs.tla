-------------------------- MODULE TeamPreviewsProofs --------------------------
(***************************************************************************)
(* Proofs about TeamPreviews, for any number of teams, people, tokens and  *)
(* requests.                                                               *)
(*                                                                         *)
(* A stamp stands for the state of a team.  What makes that true is in     *)
(* Fresh: as long as a team has the stamp of a preview, it is open and     *)
(* nobody who was previewed has left it.                                   *)
(***************************************************************************)
EXTENDS TeamPreviews, FiniteSetTheorems, TLAPS

\* ACCOUNT_LOCK has one holder.
OneLock ==
    \A r, q \in Requests : Archiving(r) /\ Archiving(q) => r = q

\* No stamp is still to come.
StampsPast ==
    /\ \A t \in Teams : team[t].stamp <= clock
    /\ \A k \in Tokens : preview[k] # NoPreview => preview[k].stamp <= clock

\* A team with the stamp of a preview has changed by new members only.
Fresh ==
    \A k \in Tokens :
        /\ preview[k] # NoPreview
        /\ team[preview[k].team].stamp = preview[k].stamp
        => /\ Open(preview[k].team)
           /\ preview[k].members \subseteq Members(preview[k].team)

\* Members have somewhere to go.
Destination ==
    \A k \in Tokens :
        preview[k] # NoPreview /\ preview[k].kind = "archive" =>
            /\ preview[k].to # preview[k].team
            /\ preview[k].to = NoTeam => preview[k].members = {}

\* What the transaction that archives has found stays true until it commits.
Locked ==
    \A r \in Requests :
        /\ Archiving(r) => Unchanged(preview[hand[r]])
        /\ step[r] = "counted" =>
               /\ roster[r] = Members(preview[hand[r]].team)
               /\ SameNumber(preview[hand[r]])

\* A team has left the state in which a change was previewed that was made.
Done ==
    \A k \in done :
        /\ preview[k] # NoPreview
        /\ preview[k].stamp < team[preview[k].team].stamp

IInv ==
    /\ TypeOK
    /\ MembersHaveOpenTeam
    /\ OnceOnly
    /\ OneChangePerState
    /\ OneLock
    /\ StampsPast
    /\ Fresh
    /\ Destination
    /\ Locked
    /\ Done

------------------------------------------------------------------------------
(* Stamps                                                                  *)

\* The teams S get a new stamp, and no other team loses members.
Restamped(S) ==
    /\ clock' = clock + 1
    /\ preview' = preview
    /\ \A t \in S : team'[t].stamp = clock + 1
    /\ \A t \in Teams \ S : team'[t] = team[t] /\ Members(t) \subseteq Members(t)'

\* A new stamp is unlike any that a preview has.
LEMMA RestampKeeps ==
    ASSUME IInv, NEW S \in SUBSET Teams, Restamped(S)
    PROVE  /\ StampsPast'
           /\ Fresh'
           /\ \A k \in done : preview'[k] # NoPreview
                  /\ preview'[k].stamp < team'[preview'[k].team].stamp
<1>1. /\ clock \in Nat /\ clock' = clock + 1 /\ preview' = preview
      /\ \A k \in Tokens : preview[k] # NoPreview =>
             preview[k] \in Preview /\ preview[k].team \in Teams
             /\ preview[k].stamp \in Nat /\ preview[k].stamp <= clock
      /\ \A t \in Teams : team[t].stamp \in Nat /\ team[t].stamp <= clock
  BY TeamPreviewsAssumption DEF IInv, TypeOK, StampsPast, Restamped, Team, Preview
<1>2. \A t \in Teams : \/ team'[t].stamp = clock + 1
                       \/ /\ team'[t] = team[t]
                          /\ Members(t) \subseteq Members(t)'
  BY DEF Restamped
<1>3. StampsPast'
  BY <1>1, <1>2 DEF StampsPast
<1>4. Fresh'
  <2>. SUFFICES ASSUME NEW k \in Tokens, preview[k] # NoPreview,
                       team'[preview[k].team].stamp = preview[k].stamp
                PROVE  /\ Open(preview[k].team)'
                       /\ preview[k].members \subseteq Members(preview[k].team)'
    BY <1>1 DEF Fresh
  <2>. DEFINE t == preview[k].team
  <2>1. /\ t \in Teams /\ preview'[k].team = t
        /\ preview[k].stamp \in Nat /\ preview[k].stamp <= clock
    BY <1>1
  <2>2. team'[t] = team[t] /\ Members(t) \subseteq Members(t)'
    BY <1>1, <1>2, <2>1
  <2>3. Open(t) /\ preview[k].members \subseteq Members(t)
    BY <2>2 DEF IInv, Fresh
  <2>4. Open(t)'
    BY <1>1, <2>2, <2>3 DEF Open
  <2>. QED BY <1>1, <2>2, <2>3, <2>4 DEF Open, Members
<1>5. ASSUME NEW k \in done
      PROVE  preview'[k] # NoPreview
             /\ preview'[k].stamp < team'[preview'[k].team].stamp
  <2>1. /\ k \in Tokens /\ preview[k] # NoPreview
        /\ preview[k].stamp < team[preview[k].team].stamp
    BY DEF IInv, TypeOK, Done
  <2>. QED BY <1>1, <1>2, <2>1
<1>. QED BY <1>3, <1>4, <1>5

\* A change is made in the state that was previewed, which the team then
\* leaves.
LEMMA ChangeKeeps ==
    ASSUME IInv, NEW S \in SUBSET Teams, Restamped(S), NEW k \in Tokens,
           preview[k] # NoPreview, preview[k].team \in S,
           Unchanged(preview[k]), done' = done \cup {k}
    PROVE  Done' /\ OneChangePerState'
<1>1. /\ clock \in Nat /\ preview' = preview /\ preview[k].team \in Teams
      /\ preview[k].stamp \in Nat /\ preview[k].stamp <= clock
      /\ team[preview[k].team].stamp = preview[k].stamp
      /\ team'[preview[k].team].stamp = clock + 1
  BY TeamPreviewsAssumption
     DEF IInv, TypeOK, StampsPast, Restamped, Team, Preview, Unchanged
<1>2. \A j \in done : preview'[j] # NoPreview
          /\ preview'[j].stamp < team'[preview'[j].team].stamp
  BY RestampKeeps
<1>3. Done'
  BY <1>1, <1>2 DEF Done
<1>4. \A j \in done : preview[j].team = preview[k].team =>
          preview[j].stamp < preview[k].stamp
  BY <1>1 DEF IInv, Done
<1>5. \A j \in done : j \in Tokens /\ preview[j] # NoPreview
                      /\ preview[j].stamp \in Nat
  BY TeamPreviewsAssumption DEF IInv, TypeOK, Done, Preview
<1>6. OneChangePerState'
  <2>. SUFFICES ASSUME NEW i \in done \cup {k}, NEW j \in done \cup {k},
                       preview[i].team = preview[j].team, i # j
                PROVE  preview[i].stamp # preview[j].stamp
    BY <1>1 DEF OneChangePerState
  <2>1. CASE i \in done /\ j \in done
    BY <2>1 DEF IInv, OneChangePerState
  <2>2. CASE i = k \/ j = k
    BY <1>1, <1>4, <1>5, <2>2
  <2>. QED BY <2>1, <2>2
<1>. QED BY <1>3, <1>6

\* While ACCOUNT_LOCK is free nobody archives.
LEMMA NobodyLocks ==
    ASSUME LockFree
    PROVE  /\ \A r \in Requests : step[r] # "locked" /\ step[r] # "counted"
           /\ step' = step => Locked' /\ OneLock'
BY DEF LockFree, Archiving, Locked, OneLock

------------------------------------------------------------------------------
(* Members and teams                                                       *)

LEMMA InitHolds ==
    ASSUME Init
    PROVE  IInv
<1>1. TypeOK
  BY TeamPreviewsAssumption
     DEF Init, TypeOK, Team, Membership, Archiving
<1>2. /\ MembersHaveOpenTeam /\ OnceOnly /\ OneChangePerState /\ OneLock
      /\ Fresh /\ Destination /\ Locked /\ Done
  BY DEF Init, MembersHaveOpenTeam, OnceOnly, OneChangePerState, OneLock,
         Archiving, Fresh, Destination, Locked, Done
<1>3. StampsPast
  BY DEF Init, StampsPast
<1>. QED BY <1>1, <1>2, <1>3 DEF IInv

\* Touched teams have a new stamp and are as before otherwise.
LEMMA TouchedTeams ==
    ASSUME IInv, clock < MaxStamp, NEW S \in SUBSET Teams
    PROVE  /\ Touched(S) \in [Teams -> Team]
           /\ \A t \in Teams : /\ Touched(S)[t].status = team[t].status
                               /\ Touched(S)[t].policy = team[t].policy
           /\ \A t \in S : Touched(S)[t].stamp = clock + 1
           /\ \A t \in Teams \ S : Touched(S)[t] = team[t]
<1>1. /\ team \in [Teams -> Team] /\ clock + 1 \in 0..MaxStamp
  BY TeamPreviewsAssumption DEF IInv, TypeOK
<1>. QED BY <1>1 DEF Touched, Team

LEMMA AssignKeeps ==
    ASSUME IInv, NEW u \in Users, NEW to \in Membership, Assign(u, to)
    PROVE  IInv'
<1>. DEFINE S == {member[u], to} \cap Teams
<1>1. /\ LockFree /\ clock < MaxStamp /\ clock' = clock + 1
      /\ to # NoTeam => Open(to)
      /\ member' = [member EXCEPT ![u] = to] /\ team' = Touched(S)
      /\ UNCHANGED <<preview, live, hand, step, roster, done>>
  BY DEF Assign, Tick
<1>2. /\ member \in [Users -> Membership] /\ member' \in [Users -> Membership]
      /\ member'[u] = to /\ \A v \in Users \ {u} : member'[v] = member[v]
  BY <1>1 DEF IInv, TypeOK
<1>3. /\ team' \in [Teams -> Team]
      /\ \A t \in Teams : team'[t].status = team[t].status
      /\ \A t \in S : team'[t].stamp = clock + 1
      /\ \A t \in Teams \ S : team'[t] = team[t]
  BY <1>1, TouchedTeams
<1>4. Restamped(S)
  <2>1. \A t \in Teams \ S : Members(t) \subseteq Members(t)'
    BY <1>2 DEF Members
  <2>. QED BY <1>1, <1>3, <2>1 DEF Restamped
<1>. HIDE DEF S
<1>5. TypeOK'
  BY <1>1, <1>2, <1>3, TeamPreviewsAssumption DEF IInv, TypeOK, Archiving
<1>6. MembersHaveOpenTeam'
  BY <1>1, <1>2, <1>3, TeamPreviewsAssumption
     DEF IInv, MembersHaveOpenTeam, Open, Membership
<1>7. StampsPast' /\ Fresh' /\ Done'
  BY <1>1, <1>4, RestampKeeps DEF S, Done
<1>8. OneLock' /\ Locked'
  BY <1>1, NobodyLocks
<1>9. OnceOnly' /\ OneChangePerState' /\ Destination'
  BY <1>1 DEF IInv, OnceOnly, OneChangePerState, Destination
<1>. QED BY <1>5, <1>6, <1>7, <1>8, <1>9 DEF IInv

\* The script adds a member to a team that nobody is archiving.
LEMMA AddUserKeeps ==
    ASSUME IInv, NEW u \in Users, NEW t \in Teams, AddUser(u, t)
    PROVE  IInv'
<1>1. /\ member[u] = NoTeam /\ t \notin LockedTeams /\ Open(t)
      /\ member' = [member EXCEPT ![u] = t]
      /\ UNCHANGED <<team, preview, live, hand, step, roster, clock, done>>
  BY DEF AddUser
<1>2. /\ member' \in [Users -> Membership]
      /\ member'[u] = t /\ \A v \in Users \ {u} : member'[v] = member[v]
  BY <1>1 DEF IInv, TypeOK, Membership
<1>3. TypeOK'
  BY <1>1, <1>2 DEF IInv, TypeOK, Archiving
<1>4. MembersHaveOpenTeam'
  BY <1>1, <1>2 DEF IInv, MembersHaveOpenTeam, Open
<1>5. \A s \in Teams : /\ Members(s) \subseteq Members(s)'
                       /\ s # t => Members(s)' = Members(s)
  BY <1>1, <1>2, TeamPreviewsAssumption DEF Members
<1>6. Fresh'
  <2>1. \A k \in Tokens : preview[k] # NoPreview => preview[k].team \in Teams
    BY DEF IInv, TypeOK, Preview
  <2>. QED BY <1>1, <1>5, <2>1 DEF IInv, Fresh, Open, Members
<1>7. Locked'
  <2>1. ASSUME NEW r \in Requests, Archiving(r)
        PROVE  /\ preview[hand[r]].team \in Teams
               /\ Members(preview[hand[r]].team)' = Members(preview[hand[r]].team)
    <3>1. preview[hand[r]].team \in Teams
      BY <2>1 DEF IInv, TypeOK, Archiving, Preview
    <3>2. preview[hand[r]].team # t
      BY <1>1, <2>1 DEF LockedTeams
    <3>3. Members(preview[hand[r]].team)' =
              {v \in Users : member'[v] = preview[hand[r]].team}
      BY <1>1 DEF Members
    <3>. QED BY <1>2, <1>1, <3>1, <3>2, <3>3, TeamPreviewsAssumption DEF Members
  <2>. QED BY <1>1, <2>1
           DEF IInv, Locked, Archiving, Unchanged, Open, SameNumber
<1>8. /\ OnceOnly' /\ OneChangePerState' /\ OneLock' /\ StampsPast'
      /\ Destination' /\ Done'
  BY <1>1 DEF IInv, OnceOnly, OneChangePerState, OneLock, Archiving,
              StampsPast, Destination, Done
<1>. QED BY <1>3, <1>4, <1>6, <1>7, <1>8 DEF IInv

\* Only the policy of a team is changed.
LEMMA SeedKeeps ==
    ASSUME IInv, NEW t \in Teams, NEW policy \in Policies, SeedBrands(t, policy)
    PROVE  IInv'
<1>1. /\ team' = [team EXCEPT ![t].policy = policy]
      /\ UNCHANGED <<member, preview, live, hand, step, roster, clock, done>>
  BY DEF SeedBrands
<1>2. /\ team' \in [Teams -> Team]
      /\ \A s \in Teams : /\ team'[s].status = team[s].status
                          /\ team'[s].stamp = team[s].stamp
  BY <1>1 DEF IInv, TypeOK, Team
<1>3. TypeOK'
  BY <1>1, <1>2 DEF IInv, TypeOK, Archiving
<1>4. \A k \in Tokens : preview[k] # NoPreview => preview[k].team \in Teams
  BY DEF IInv, TypeOK, Preview
<1>5. MembersHaveOpenTeam' /\ StampsPast'
  BY <1>1, <1>2
     DEF IInv, TypeOK, Membership, MembersHaveOpenTeam, Open, StampsPast
<1>6. Fresh' /\ Done'
  BY <1>1, <1>2, <1>4 DEF IInv, TypeOK, Fresh, Open, Members, Done
<1>7. Locked'
  <2>1. \A r \in Requests : Archiving(r) => preview[hand[r]].team \in Teams
    BY <1>4 DEF IInv, TypeOK, Archiving
  <2>. QED BY <1>1, <1>2, <2>1
           DEF IInv, Locked, Archiving, Unchanged, Open, SameNumber, Members
<1>8. OnceOnly' /\ OneChangePerState' /\ OneLock' /\ Destination'
  BY <1>1 DEF IInv, OnceOnly, OneChangePerState, OneLock, Archiving, Destination
<1>. QED BY <1>3, <1>5, <1>6, <1>7, <1>8 DEF IInv

\* A team is created or restored: it is open and has a new stamp.
LEMMA OpeningKeeps ==
    ASSUME IInv, NEW t \in Teams,
           RestoreTeam(t) \/ \E policy \in Policies : CreateTeam(t, policy)
    PROVE  IInv'
<1>1. /\ LockFree /\ clock < MaxStamp /\ clock' = clock + 1
      /\ UNCHANGED <<member, preview, live, hand, step, roster, done>>
  BY DEF RestoreTeam, CreateTeam, Tick
<1>2. PICK new \in Team :
          new.status = "ACTIVE" /\ new.stamp = clock + 1
          /\ team' = [team EXCEPT ![t] = new]
  <2>1. clock + 1 \in 0..MaxStamp /\ team[t] \in Team
    BY <1>1, TeamPreviewsAssumption DEF IInv, TypeOK
  <2>2. CASE RestoreTeam(t)
    <3>. DEFINE new == [team[t] EXCEPT !.status = "ACTIVE", !.stamp = clock + 1]
    <3>1. team' = [team EXCEPT ![t] = new]
      BY <2>2 DEF RestoreTeam, IInv, TypeOK
    <3>2. new \in Team /\ new.status = "ACTIVE" /\ new.stamp = clock + 1
      BY <2>1 DEF Team
    <3>. QED BY <3>1, <3>2
  <2>3. CASE \E policy \in Policies : CreateTeam(t, policy)
    BY <2>1, <2>3 DEF CreateTeam, Team
  <2>. QED BY <2>2, <2>3
<1>3. /\ team' \in [Teams -> Team] /\ Open(t)' /\ team'[t].stamp = clock + 1
      /\ \A s \in Teams \ {t} : team'[s] = team[s]
  BY <1>2 DEF IInv, TypeOK, Open
<1>4. Restamped({t})
  BY <1>1, <1>3 DEF Restamped, Members
<1>5. TypeOK'
  BY <1>1, <1>3, TeamPreviewsAssumption DEF IInv, TypeOK, Archiving
<1>6. MembersHaveOpenTeam'
  BY <1>1, <1>3 DEF IInv, TypeOK, Membership, MembersHaveOpenTeam, Open
<1>7. StampsPast' /\ Fresh' /\ Done'
  BY <1>1, <1>4, RestampKeeps DEF Done
<1>8. OneLock' /\ Locked'
  BY <1>1, NobodyLocks
<1>9. OnceOnly' /\ OneChangePerState' /\ Destination'
  BY <1>1 DEF IInv, OnceOnly, OneChangePerState, Destination
<1>. QED BY <1>5, <1>6, <1>7, <1>8, <1>9 DEF IInv

------------------------------------------------------------------------------
(* Previews and their tokens                                               *)

\* What is stored is what the team has now.
LEMMA StoreKeeps ==
    ASSUME IInv, NEW token \in Tokens, NEW shown \in Preview,
           Store(token, shown), Open(shown.team), LockFree,
           shown.stamp = team[shown.team].stamp,
           shown.members = Members(shown.team),
           shown.kind = "archive" =>
               /\ shown.to # shown.team
               /\ shown.to = NoTeam => shown.members = {}
    PROVE  IInv'
<1>1. /\ preview[token] = NoPreview
      /\ preview' = [preview EXCEPT ![token] = shown]
      /\ live' = live \cup {token} /\ shown # NoPreview
      /\ UNCHANGED <<team, member, hand, step, roster, clock, done>>
  BY NoPreviewAssumption DEF Store
<1>2. /\ preview' \in [Tokens -> Preview \cup {NoPreview}]
      /\ preview'[token] = shown
      /\ \A k \in Tokens \ {token} : preview'[k] = preview[k]
  BY <1>1 DEF IInv, TypeOK
<1>3. \A r \in Requests : hand[r] # NoToken => hand[r] \in Tokens \ {token}
  BY <1>1 DEF IInv, TypeOK
<1>4. TypeOK'
  BY <1>1, <1>2, <1>3 DEF IInv, TypeOK, Archiving
<1>5. OnceOnly'
  BY <1>1, <1>3 DEF IInv, OnceOnly
<1>6. StampsPast'
  BY <1>1, <1>2 DEF IInv, StampsPast, Preview
<1>7. Fresh' /\ Destination'
  BY <1>1, <1>2 DEF IInv, Fresh, Destination, Open, Members
<1>8. done \subseteq Tokens \ {token}
  BY <1>1 DEF IInv, TypeOK, Done
<1>9. OneChangePerState' /\ Done'
  BY <1>1, <1>2, <1>8 DEF IInv, OneChangePerState, Done
<1>10. OneLock' /\ Locked'
  BY <1>1, NobodyLocks
<1>11. MembersHaveOpenTeam'
  BY <1>1 DEF IInv, MembersHaveOpenTeam, Open
<1>. QED BY <1>4, <1>5, <1>6, <1>7, <1>9, <1>10, <1>11 DEF IInv

LEMMA PreviewKeeps ==
    ASSUME IInv, NEW token \in Tokens, Previewing(token)
    PROVE  IInv'
<1>1. \A t \in Teams : /\ team[t].stamp \in 0..MaxStamp
                       /\ team[t].policy \in Policies
                       /\ Members(t) \in SUBSET Users
  BY DEF IInv, TypeOK, Team, Members
<1>2. ASSUME NEW t \in Teams, NEW to \in Membership,
             PreviewArchive(token, t, to)
      PROVE  IInv'
  <2>. DEFINE shown == Shown("archive", t, to, team[t].policy)
  <2>1. /\ shown \in Preview /\ shown.team = t /\ shown.to = to
        /\ shown.stamp = team[t].stamp /\ shown.members = Members(t)
    BY <1>1 DEF Shown, Preview
  <2>2. Store(token, shown) /\ Open(t) /\ LockFree
    BY <1>2 DEF PreviewArchive
  <2>3. to # t /\ (to = NoTeam => Members(t) = {})
    BY <1>2, TeamPreviewsAssumption DEF PreviewArchive
  <2>. HIDE DEF shown
  <2>. QED BY <2>1, <2>2, <2>3, StoreKeeps
<1>3. ASSUME NEW t \in Teams, NEW new \in Policies,
             PreviewPolicy(token, t, new)
      PROVE  IInv'
  <2>. DEFINE shown == Shown("policy", t, NoTeam, new)
  <2>1. /\ shown \in Preview /\ shown.team = t /\ shown.kind = "policy"
        /\ shown.stamp = team[t].stamp /\ shown.members = Members(t)
    BY <1>1 DEF Shown, Preview, Membership
  <2>2. Store(token, shown) /\ Open(t) /\ LockFree
    BY <1>3 DEF PreviewPolicy
  <2>. HIDE DEF shown
  <2>. QED BY <2>1, <2>2, StoreKeeps
<1>. QED BY <1>2, <1>3 DEF Previewing

\* A token is lost, and nothing else happens.
LEMMA ExpireKeeps ==
    ASSUME IInv, NEW token \in Tokens, Expire(token)
    PROVE  IInv'
<1>1. /\ live' = live \ {token}
      /\ UNCHANGED <<team, member, preview, hand, step, roster, clock, done>>
  BY DEF Expire
<1>2. TypeOK' /\ OnceOnly'
  BY <1>1 DEF IInv, TypeOK, OnceOnly, Archiving
<1>3. /\ MembersHaveOpenTeam' /\ OneChangePerState' /\ OneLock'
      /\ StampsPast' /\ Destination' /\ Done'
  BY <1>1 DEF IInv, MembersHaveOpenTeam, Open, OneChangePerState, OneLock,
              Archiving, StampsPast, Destination, Done
<1>4. Fresh' /\ Locked'
  BY <1>1 DEF IInv, Fresh, Locked, Archiving, Unchanged, SameNumber, Open, Members
<1>. QED BY <1>2, <1>3, <1>4 DEF IInv

\* The token leaves the table in the step that hands it to the request.
LEMMA PopKeeps ==
    ASSUME IInv, NEW r \in Requests, NEW token \in Tokens, Pop(r, token)
    PROVE  IInv'
<1>1. /\ LockFree /\ hand[r] = NoToken /\ token \in live
      /\ live' = live \ {token}
      /\ hand' = [hand EXCEPT ![r] = token]
      /\ step' = [step EXCEPT ![r] = "popped"]
      /\ UNCHANGED <<team, member, preview, roster, clock, done>>
  BY DEF Pop
<1>2. /\ hand'[r] = token /\ step'[r] = "popped" /\ preview[token] # NoPreview
      /\ \A q \in Requests \ {r} : hand'[q] = hand[q] /\ step'[q] = step[q]
  BY <1>1 DEF IInv, TypeOK
<1>3. \A q \in Requests : step'[q] # "locked" /\ step'[q] # "counted"
  BY <1>1, <1>2, NobodyLocks
<1>4. TypeOK'
  BY <1>1, <1>2, <1>3, TeamPreviewsAssumption DEF IInv, TypeOK, Archiving
<1>5. OnceOnly'
  BY <1>1, <1>2 DEF IInv, OnceOnly
<1>6. OneLock' /\ Locked'
  BY <1>3 DEF OneLock, Locked, Archiving
<1>7. /\ MembersHaveOpenTeam' /\ OneChangePerState' /\ StampsPast'
      /\ Fresh' /\ Destination' /\ Done'
  BY <1>1 DEF IInv, MembersHaveOpenTeam, Open, OneChangePerState, StampsPast,
              Fresh, Members, Destination, Done
<1>. QED BY <1>4, <1>5, <1>6, <1>7 DEF IInv

------------------------------------------------------------------------------
(* The transaction that changes a team                                     *)

LEMMA LockTeamsKeeps ==
    ASSUME IInv, NEW r \in Requests, LockTeams(r)
    PROVE  IInv'
<1>1. /\ LockFree /\ step[r] = "popped" /\ preview[hand[r]].kind = "archive"
      /\ Unchanged(preview[hand[r]])
      /\ step' = [step EXCEPT ![r] = "locked"]
      /\ UNCHANGED <<team, member, preview, live, hand, roster, clock, done>>
  BY DEF LockTeams, Confirms
<1>2. /\ step'[r] = "locked"
      /\ \A q \in Requests \ {r} : step'[q] = step[q]
                                   /\ step[q] # "locked" /\ step[q] # "counted"
  BY <1>1, NobodyLocks DEF IInv, TypeOK
<1>3. TypeOK'
  BY <1>1, <1>2 DEF IInv, TypeOK, Archiving
<1>4. OneLock' /\ Locked'
  BY <1>1, <1>2 DEF OneLock, Locked, Archiving, Unchanged, Open
<1>5. /\ OnceOnly' /\ MembersHaveOpenTeam' /\ OneChangePerState' /\ StampsPast'
      /\ Fresh' /\ Destination' /\ Done'
  BY <1>1 DEF IInv, OnceOnly, MembersHaveOpenTeam, Open, OneChangePerState,
              StampsPast, Fresh, Members, Destination, Done
<1>. QED BY <1>3, <1>4, <1>5 DEF IInv

LEMMA ReadMembersKeeps ==
    ASSUME IInv, NEW r \in Requests, ReadMembers(r)
    PROVE  IInv'
<1>. DEFINE shown == preview[hand[r]]
<1>1. /\ step[r] = "locked" /\ SameNumber(shown)
      /\ roster' = [roster EXCEPT ![r] = Members(shown.team)]
      /\ step' = [step EXCEPT ![r] = "counted"]
      /\ UNCHANGED <<team, member, preview, live, hand, clock, done>>
  BY DEF ReadMembers
<1>2. /\ step'[r] = "counted" /\ roster'[r] = Members(shown.team)
      /\ \A q \in Requests \ {r} : step'[q] = step[q] /\ roster'[q] = roster[q]
  BY <1>1 DEF IInv, TypeOK
<1>3. \A q \in Requests : Archiving(q)' <=> Archiving(q)
  BY <1>1, <1>2 DEF Archiving
<1>4. TypeOK'
  BY <1>1, <1>2, <1>3 DEF IInv, TypeOK, Members, Archiving
<1>5. OneLock'
  BY <1>3 DEF IInv, OneLock
<1>6. Locked'
  <2>1. \A t : Members(t)' = Members(t)
    BY <1>1 DEF Members
  <2>2. \A q \in Requests : Archiving(q) => Unchanged(preview[hand[q]])'
    BY <1>1 DEF IInv, Locked, Unchanged, Open
  <2>3. SameNumber(shown)' /\ roster'[r] = Members(preview[hand[r]].team)'
    BY <1>1, <1>2, <2>1 DEF SameNumber
  <2>4. ASSUME NEW q \in Requests \ {r}, step[q] = "counted"
        PROVE  /\ roster'[q] = Members(preview[hand[q]].team)'
               /\ SameNumber(preview[hand[q]])'
    BY <1>1, <1>2, <2>1, <2>4 DEF IInv, Locked, SameNumber
  <2>. QED BY <1>1, <1>2, <1>3, <2>2, <2>3, <2>4 DEF Locked
<1>7. /\ OnceOnly' /\ MembersHaveOpenTeam' /\ OneChangePerState' /\ StampsPast'
      /\ Fresh' /\ Destination' /\ Done'
  BY <1>1 DEF IInv, OnceOnly, MembersHaveOpenTeam, Open, OneChangePerState,
              StampsPast, Fresh, Members, Destination, Done
<1>. QED BY <1>4, <1>5, <1>6, <1>7 DEF IInv

\* A request that ends leaves the others as they are.
LEMMA FinishKeeps ==
    ASSUME IInv, NEW r \in Requests, Finish(r), live' = live
    PROVE  /\ OnceOnly' /\ OneLock'
           /\ hand' \in [Requests -> Tokens \cup {NoToken}]
           /\ step' \in [Requests -> {"idle", "popped", "locked", "counted"}]
           /\ roster' \in [Requests -> SUBSET Users]
           /\ hand'[r] = NoToken /\ step'[r] = "idle"
           /\ \A q \in Requests \ {r} : /\ hand'[q] = hand[q]
                                        /\ step'[q] = step[q]
                                        /\ roster'[q] = roster[q]
<1>1. /\ hand' \in [Requests -> Tokens \cup {NoToken}]
      /\ step' \in [Requests -> {"idle", "popped", "locked", "counted"}]
      /\ roster' \in [Requests -> SUBSET Users]
      /\ hand'[r] = NoToken /\ step'[r] = "idle"
      /\ \A q \in Requests \ {r} : /\ hand'[q] = hand[q]
                                   /\ step'[q] = step[q]
                                   /\ roster'[q] = roster[q]
  BY DEF Finish, IInv, TypeOK
<1>2. OnceOnly'
  BY <1>1 DEF IInv, OnceOnly
<1>3. OneLock'
  BY <1>1 DEF IInv, OneLock, Archiving
<1>. QED BY <1>1, <1>2, <1>3

LEMMA AbandonKeeps ==
    ASSUME IInv, NEW r \in Requests, Abandon(r)
    PROVE  IInv'
<1>1. Finish(r) /\ UNCHANGED <<team, member, preview, live, clock, done>>
  BY DEF Abandon
<1>2. /\ OnceOnly' /\ OneLock'
      /\ hand' \in [Requests -> Tokens \cup {NoToken}]
      /\ step' \in [Requests -> {"idle", "popped", "locked", "counted"}]
      /\ roster' \in [Requests -> SUBSET Users]
      /\ hand'[r] = NoToken /\ step'[r] = "idle"
      /\ \A q \in Requests \ {r} : /\ hand'[q] = hand[q]
                                   /\ step'[q] = step[q]
                                   /\ roster'[q] = roster[q]
  BY <1>1, FinishKeeps
<1>3. TypeOK'
  BY <1>1, <1>2, TeamPreviewsAssumption DEF IInv, TypeOK, Archiving
<1>4. Locked'
  <2>1. \A q \in Requests : /\ Archiving(q)' => Archiving(q) /\ q # r
                            /\ step'[q] = "counted" => step[q] = "counted" /\ q # r
    BY <1>2 DEF Archiving
  <2>2. \A t : Members(t)' = Members(t)
    BY <1>1 DEF Members
  <2>3. ASSUME NEW q \in Requests \ {r}, Archiving(q)
        PROVE  Unchanged(preview[hand[q]])'
    BY <1>1, <1>2, <2>3 DEF IInv, Locked, Unchanged, Open
  <2>4. ASSUME NEW q \in Requests \ {r}, step[q] = "counted"
        PROVE  /\ roster'[q] = Members(preview[hand[q]].team)'
               /\ SameNumber(preview[hand[q]])'
    BY <1>1, <1>2, <2>2, <2>4 DEF IInv, Locked, SameNumber
  <2>. QED BY <1>1, <1>2, <2>1, <2>3, <2>4 DEF Locked
<1>5. /\ MembersHaveOpenTeam' /\ OneChangePerState' /\ StampsPast'
      /\ Fresh' /\ Destination' /\ Done'
  BY <1>1 DEF IInv, MembersHaveOpenTeam, Open, OneChangePerState,
              StampsPast, Fresh, Members, Destination, Done
<1>. QED BY <1>2, <1>3, <1>4, <1>5 DEF IInv

\* The teams that get a new stamp when one of them is archived.
Stamped(r) ==
    {preview[hand[r]].team} \cup
        (IF roster[r] # {} THEN {preview[hand[r]].to} ELSE {})

\* Those who were read are all who belong to the team, and they move to an
\* open team.
LEMMA Archived ==
    ASSUME IInv, NEW r \in Requests, Archive(r)
    PROVE  LET shown == preview[hand[r]]
           IN  /\ hand[r] \in Tokens /\ shown \in Preview /\ shown # NoPreview
               /\ Stamped(r) \in SUBSET Teams /\ shown.team \in Stamped(r)
               /\ Unchanged(shown) /\ SameNumber(shown)
               /\ roster[r] = Members(shown.team)
               /\ clock < MaxStamp /\ clock' = clock + 1
               /\ roster[r] # {} =>
                      /\ shown.to \in {t \in Teams \ {shown.team} : Open(t)}
                      /\ shown.to \in Stamped(r)
               /\ member' = Moved(roster[r], shown.to)
               /\ team' = [Touched(Stamped(r)) EXCEPT
                               ![shown.team].status = "ARCHIVED"]
               /\ done' = done \cup {hand[r]}
               /\ Finish(r) /\ UNCHANGED <<preview, live>>
<1>. DEFINE shown == preview[hand[r]]
<1>1. Archiving(r) /\ step[r] = "counted"
  BY DEF Archive, Archiving
<1>2. /\ hand[r] # NoToken /\ hand[r] \in Tokens
      /\ shown # NoPreview /\ shown \in Preview
  BY <1>1 DEF IInv, TypeOK
<1>3. shown.team \in Teams
  BY <1>2 DEF Preview
<1>4. Unchanged(shown) /\ SameNumber(shown) /\ roster[r] = Members(shown.team)
  BY <1>1 DEF IInv, Locked
<1>5. roster[r] # {} => shown.to \in {t \in Teams \ {shown.team} : Open(t)}
  BY DEF Archive
<1>6. /\ Stamped(r) \in SUBSET Teams /\ shown.team \in Stamped(r)
      /\ roster[r] # {} => shown.to \in Stamped(r)
  BY <1>3, <1>5 DEF Stamped
<1>7. /\ clock < MaxStamp /\ clock' = clock + 1
      /\ member' = Moved(roster[r], shown.to)
      /\ team' = [Touched(Stamped(r)) EXCEPT ![shown.team].status = "ARCHIVED"]
      /\ done' = done \cup {hand[r]}
      /\ Finish(r) /\ UNCHANGED <<preview, live>>
  BY DEF Archive, Tick, Stamped
<1>. QED BY <1>2, <1>4, <1>5, <1>6, <1>7

LEMMA ArchiveKeeps ==
    ASSUME IInv, NEW r \in Requests, Archive(r)
    PROVE  IInv'
<1>. DEFINE shown == preview[hand[r]]
            S == Stamped(r)
<1>1. /\ hand[r] \in Tokens /\ shown \in Preview /\ shown # NoPreview
      /\ S \in SUBSET Teams /\ shown.team \in S
      /\ Unchanged(shown) /\ SameNumber(shown)
      /\ roster[r] = Members(shown.team)
      /\ clock < MaxStamp /\ clock' = clock + 1
      /\ roster[r] # {} =>
             /\ shown.to \in {t \in Teams \ {shown.team} : Open(t)}
             /\ shown.to \in S
      /\ member' = Moved(roster[r], shown.to)
      /\ team' = [Touched(S) EXCEPT ![shown.team].status = "ARCHIVED"]
      /\ done' = done \cup {hand[r]}
      /\ Finish(r) /\ UNCHANGED <<preview, live>>
  BY Archived
<1>. HIDE DEF S
<1>2. /\ Touched(S) \in [Teams -> Team]
      /\ \A t \in Teams : /\ Touched(S)[t].status = team[t].status
                          /\ Touched(S)[t].policy = team[t].policy
      /\ \A t \in S : Touched(S)[t].stamp = clock + 1
      /\ \A t \in Teams \ S : Touched(S)[t] = team[t]
  BY <1>1, TouchedTeams
<1>3. /\ team' \in [Teams -> Team]
      /\ \A t \in Teams \ {shown.team} : team'[t].status = team[t].status
      /\ \A t \in S : team'[t].stamp = clock + 1
      /\ \A t \in Teams \ S : team'[t] = team[t]
  <2>. DEFINE T == Touched(S)
  <2>. HIDE DEF T
  <2>1. T \in [Teams -> Team] /\ team' = [T EXCEPT ![shown.team].status = "ARCHIVED"]
    BY <1>1, <1>2 DEF T
  <2>. DEFINE new == [T[shown.team] EXCEPT !.status = "ARCHIVED"]
  <2>2. /\ shown.team \in Teams /\ team' = [T EXCEPT ![shown.team] = new]
        /\ new \in Team /\ new.stamp = T[shown.team].stamp
    <3>1. shown.team \in Teams
      BY <1>1
    <3>2. T[shown.team] \in Team
      BY <2>1, <3>1
    <3>3. new \in Team /\ new.stamp = T[shown.team].stamp
      BY <3>2 DEF Team
    <3>4. team' = [T EXCEPT ![shown.team] = new]
      BY <2>1
    <3>. QED BY <3>1, <3>3, <3>4
  <2>. HIDE DEF new
  <2>3. /\ team' \in [Teams -> Team]
        /\ \A t \in Teams \ {shown.team} : team'[t] = T[t]
        /\ team'[shown.team].stamp = T[shown.team].stamp
    BY <2>1, <2>2
  <2>. QED BY <1>1, <1>2, <2>3 DEF T
<1>4. \A u \in Users : IF u \in Members(shown.team) THEN member'[u] = shown.to
                       ELSE member'[u] = member[u]
  BY <1>1 DEF Moved
<1>5. member' \in [Users -> Membership]
  <2>. \A u \in Users : member'[u] \in Membership
    BY <1>1, <1>4 DEF IInv, TypeOK, Membership
  <2>. QED BY <1>1 DEF Moved
<1>6. Restamped(S)
  <2>1. \A t \in Teams \ S : Members(t) \subseteq Members(t)'
    BY <1>1, <1>4 DEF Members
  <2>. QED BY <1>1, <1>3, <2>1 DEF Restamped
<1>7. /\ OnceOnly' /\ OneLock'
      /\ hand' \in [Requests -> Tokens \cup {NoToken}]
      /\ step' \in [Requests -> {"idle", "popped", "locked", "counted"}]
      /\ roster' \in [Requests -> SUBSET Users]
      /\ hand'[r] = NoToken /\ step'[r] = "idle"
      /\ \A q \in Requests \ {r} : /\ hand'[q] = hand[q]
                                   /\ step'[q] = step[q]
                                   /\ roster'[q] = roster[q]
  BY <1>1, FinishKeeps
<1>8. TypeOK'
  BY <1>1, <1>3, <1>5, <1>7, TeamPreviewsAssumption DEF IInv, TypeOK, Archiving
<1>9. MembersHaveOpenTeam'
  <2>. SUFFICES ASSUME NEW u \in Users, member'[u] # NoTeam
                PROVE  team'[member'[u]].status = "ACTIVE"
    BY DEF MembersHaveOpenTeam, Open
  <2>1. CASE u \in Members(shown.team)
    BY <1>1, <1>3, <1>4, <2>1 DEF Open
  <2>2. CASE u \notin Members(shown.team)
    <3>1. member'[u] = member[u] /\ member[u] \in Teams \ {shown.team}
      BY <1>4, <2>2 DEF Members, IInv, TypeOK, Membership
    <3>. QED BY <1>3, <3>1 DEF IInv, MembersHaveOpenTeam, Open
  <2>. QED BY <2>1, <2>2
<1>10. StampsPast' /\ Fresh'
  BY <1>1, <1>6, RestampKeeps
<1>11. Done' /\ OneChangePerState'
  BY <1>1, <1>6, ChangeKeeps
<1>12. Locked'
  <2>1. step[r] = "counted"
    BY DEF Archive
  <2>2. \A q \in Requests : step'[q] # "locked" /\ step'[q] # "counted"
    BY <1>7, <2>1 DEF IInv, OneLock, Archiving
  <2>. QED BY <2>2 DEF Locked, Archiving
<1>13. Destination'
  BY <1>1 DEF IInv, Destination
<1>. QED BY <1>7, <1>8, <1>9, <1>10, <1>11, <1>12, <1>13 DEF IInv

\* The team keeps its status and its members.
LEMMA ApplyPolicyKeeps ==
    ASSUME IInv, NEW r \in Requests, ApplyPolicy(r)
    PROVE  IInv'
<1>. DEFINE shown == preview[hand[r]]
<1>1. /\ step[r] = "popped" /\ LockFree /\ Unchanged(shown) /\ Finish(r)
      /\ UNCHANGED <<member, preview, live>>
  BY DEF ApplyPolicy, Confirms
<1>2. /\ hand[r] \in Tokens /\ shown \in Preview /\ shown # NoPreview
      /\ shown.team \in Teams /\ shown.new \in Policies
  BY <1>1 DEF IInv, TypeOK, Preview
<1>3. /\ OnceOnly' /\ OneLock'
      /\ hand' \in [Requests -> Tokens \cup {NoToken}]
      /\ step' \in [Requests -> {"idle", "popped", "locked", "counted"}]
      /\ roster' \in [Requests -> SUBSET Users]
      /\ hand'[r] = NoToken /\ step'[r] = "idle"
      /\ \A q \in Requests \ {r} : /\ hand'[q] = hand[q]
                                   /\ step'[q] = step[q]
                                   /\ roster'[q] = roster[q]
  BY <1>1, FinishKeeps
<1>4. Locked'
  <2>1. \A q \in Requests : step'[q] # "locked" /\ step'[q] # "counted"
    BY <1>1, <1>3, NobodyLocks
  <2>. QED BY <2>1 DEF Locked, Archiving
<1>5. Destination'
  BY <1>1 DEF IInv, Destination
<1>6. CASE UNCHANGED <<team, clock, done>>
  <2>1. TypeOK'
    BY <1>1, <1>3, <1>6, TeamPreviewsAssumption DEF IInv, TypeOK, Archiving
  <2>2. /\ MembersHaveOpenTeam' /\ StampsPast' /\ Fresh' /\ Done'
        /\ OneChangePerState'
    BY <1>1, <1>6 DEF IInv, MembersHaveOpenTeam, Open, StampsPast, Fresh,
                      Members, Done, OneChangePerState
  <2>. QED BY <1>3, <1>4, <1>5, <2>1, <2>2 DEF IInv
<1>7. CASE /\ Tick /\ done' = done \cup {hand[r]}
           /\ team' = [Touched({shown.team}) EXCEPT ![shown.team].policy = shown.new]
  <2>. DEFINE T == Touched({shown.team})
  <2>1. clock < MaxStamp /\ clock' = clock + 1
    BY <1>7 DEF Tick
  <2>2. /\ T \in [Teams -> Team]
        /\ \A t \in Teams : T[t].status = team[t].status
        /\ T[shown.team].stamp = clock + 1
        /\ \A t \in Teams \ {shown.team} : T[t] = team[t]
    BY <1>2, <2>1, TouchedTeams
  <2>. HIDE DEF T
  <2>3. team' = [T EXCEPT ![shown.team].policy = shown.new]
    BY <1>7 DEF T
  <2>4. /\ team' \in [Teams -> Team]
        /\ \A t \in Teams : team'[t].status = team[t].status
        /\ team'[shown.team].stamp = clock + 1
        /\ \A t \in Teams \ {shown.team} : team'[t] = team[t]
    BY <1>2, <2>2, <2>3 DEF Team
  <2>5. Restamped({shown.team})
    BY <1>1, <2>1, <2>4 DEF Restamped, Members
  <2>6. TypeOK'
    <3>1. clock' \in 0..MaxStamp /\ done' \subseteq Tokens
      BY <1>2, <1>7, <2>1, TeamPreviewsAssumption DEF IInv, TypeOK
    <3>2. \A q \in Requests : /\ step'[q] = "idle" <=> hand'[q] = NoToken
                              /\ hand'[q] # NoToken => preview[hand'[q]] # NoPreview
                              /\ ~(step'[q] \in {"locked", "counted"})
      BY <1>1, <1>3, NobodyLocks DEF IInv, TypeOK
    <3>. QED BY <1>1, <1>3, <2>4, <3>1, <3>2 DEF IInv, TypeOK, Archiving
  <2>7. MembersHaveOpenTeam'
    BY <1>1, <2>4 DEF IInv, TypeOK, Membership, MembersHaveOpenTeam, Open
  <2>8. StampsPast' /\ Fresh'
    BY <1>2, <2>5, RestampKeeps
  <2>9. Done' /\ OneChangePerState'
    BY <1>1, <1>2, <1>7, <2>5, ChangeKeeps
  <2>. QED BY <1>3, <1>4, <1>5, <2>6, <2>7, <2>8, <2>9 DEF IInv
<1>. QED BY <1>6, <1>7 DEF ApplyPolicy

------------------------------------------------------------------------------
(* The theorems                                                            *)

LEMMA StutterKeeps ==
    ASSUME IInv, UNCHANGED vars
    PROVE  IInv'
<1>1. TypeOK' /\ MembersHaveOpenTeam' /\ OnceOnly' /\ OneChangePerState'
  BY DEF vars, IInv, TypeOK, Archiving, MembersHaveOpenTeam, Open, OnceOnly,
         OneChangePerState
<1>2. OneLock' /\ StampsPast' /\ Fresh' /\ Destination' /\ Done'
  BY DEF vars, IInv, OneLock, Archiving, StampsPast, Fresh, Open, Members,
         Destination, Done
<1>3. Locked'
  BY DEF vars, IInv, Locked, Archiving, Unchanged, Open, SameNumber, Members
<1>. QED BY <1>1, <1>2, <1>3 DEF IInv

LEMMA NextKeeps ==
    ASSUME IInv, Next
    PROVE  IInv'
<1>1. ASSUME NEW u \in Users, Membering(u)
      PROVE  IInv'
  BY <1>1, AssignKeeps, AddUserKeeps DEF Membering
<1>2. ASSUME NEW t \in Teams, Editing(t)
      PROVE  IInv'
  BY <1>2, SeedKeeps, OpeningKeeps DEF Editing
<1>3. ASSUME NEW token \in Tokens, Previewing(token) \/ Expire(token)
      PROVE  IInv'
  BY <1>3, PreviewKeeps, ExpireKeeps
<1>4. ASSUME NEW r \in Requests, Confirmation(r)
      PROVE  IInv'
  BY <1>4, PopKeeps, LockTeamsKeeps, ReadMembersKeeps, ArchiveKeeps,
     ApplyPolicyKeeps, AbandonKeeps DEF Confirmation
<1>. QED BY <1>1, <1>2, <1>3, <1>4 DEF Next

\* The inductive invariant holds in every reachable state.
THEOREM Inductive == Spec => []IInv
<1>1. Init => IInv
  BY InitHolds
<1>2. IInv /\ [Next]_vars => IInv'
  BY NextKeeps, StutterKeeps
<1>. QED BY <1>1, <1>2, PTL DEF Spec

\* Type correctness.
THEOREM TypeCorrect == Spec => []TypeOK
<1>1. IInv => TypeOK
  BY DEF IInv
<1>. QED BY <1>1, Inductive, PTL

\* Nobody is left in an archived team, whatever the script does meanwhile.
THEOREM NobodyIsStranded == Spec => []MembersHaveOpenTeam
<1>1. IInv => MembersHaveOpenTeam
  BY DEF IInv
<1>. QED BY <1>1, Inductive, PTL

\* Each token is used once.
THEOREM TokensAreSpent == Spec => []OnceOnly
<1>1. IInv => OnceOnly
  BY DEF IInv
<1>. QED BY <1>1, Inductive, PTL

\* Of all changes previewed in one state of a team at most one is made.
THEOREM ChangesAreOrdered == Spec => []OneChangePerState
<1>1. IInv => OneChangePerState
  BY DEF IInv
<1>. QED BY <1>1, Inductive, PTL

\* Archiving is the only step that archives.
LEMMA OnlyArchive ==
    ASSUME IInv, Next, NEW t \in Teams, Open(t), team'[t].status = "ARCHIVED"
    PROVE  \E r \in Requests : Archive(r)
<1>. team[t].status = "ACTIVE" /\ team \in [Teams -> Team]
  BY DEF Open, IInv, TypeOK
<1>1. ASSUME NEW u \in Users, Membering(u)
      PROVE  FALSE
  <2>1. ASSUME NEW to \in Membership, Assign(u, to)
        PROVE  FALSE
    <3>. DEFINE S == {member[u], to} \cap Teams
    <3>1. clock < MaxStamp /\ team' = Touched(S)
      BY <2>1 DEF Assign, Tick
    <3>. HIDE DEF S
    <3>2. S \in SUBSET Teams
      BY DEF S
    <3>. QED BY <3>1, <3>2, TouchedTeams
  <2>2. ASSUME NEW s \in Teams, AddUser(u, s)
        PROVE  FALSE
    BY <2>2 DEF AddUser
  <2>. QED BY <1>1, <2>1, <2>2 DEF Membering
<1>2. ASSUME NEW s \in Teams, Editing(s)
      PROVE  FALSE
  <2>1. ASSUME NEW policy \in Policies, SeedBrands(s, policy)
        PROVE  FALSE
    BY <2>1 DEF SeedBrands, Team
  <2>2. ASSUME NEW policy \in Policies, CreateTeam(s, policy)
        PROVE  FALSE
    BY <2>2 DEF CreateTeam, Team
  <2>3. ASSUME RestoreTeam(s)
        PROVE  FALSE
    BY <2>3 DEF RestoreTeam, Team
  <2>. QED BY <1>2, <2>1, <2>2, <2>3 DEF Editing
<1>3. ASSUME NEW token \in Tokens, Previewing(token) \/ Expire(token)
      PROVE  FALSE
  BY <1>3 DEF Previewing, PreviewArchive, PreviewPolicy, Store, Expire
<1>4. ASSUME NEW r \in Requests, Confirmation(r)
      PROVE  Archive(r)
  <2>1. ASSUME ApplyPolicy(r)
        PROVE  FALSE
    <3>. DEFINE s == preview[hand[r]].team
                T == Touched({s})
    <3>1. team' # team
      OBVIOUS
    <3>2. clock < MaxStamp /\ team' = [T EXCEPT ![s].policy = preview[hand[r]].new]
      BY <2>1, <3>1 DEF ApplyPolicy, Tick
    <3>3. s \in Teams
      BY <2>1 DEF ApplyPolicy, Confirms, IInv, TypeOK, Preview
    <3>4. T \in [Teams -> Team] /\ T[t].status = "ACTIVE"
      BY <3>2, <3>3, TouchedTeams
    <3>. HIDE DEF T
    <3>. QED BY <3>2, <3>3, <3>4 DEF Team
  <2>2. ASSUME LockTeams(r) \/ ReadMembers(r) \/ Abandon(r)
               \/ \E token \in Tokens : Pop(r, token)
        PROVE  FALSE
    BY <2>2 DEF LockTeams, ReadMembers, Abandon, Pop
  <2>. QED BY <1>4, <2>1, <2>2 DEF Confirmation
<1>. QED BY <1>1, <1>2, <1>3, <1>4 DEF Next

\* As many members as were previewed, and all who were previewed: the same.
LEMMA SameMembers ==
    ASSUME IInv, NEW k \in Tokens, preview[k] # NoPreview,
           Unchanged(preview[k]), SameNumber(preview[k])
    PROVE  preview[k].members = Members(preview[k].team)
<1>1. preview[k].members \subseteq Members(preview[k].team)
  BY DEF IInv, Fresh, Unchanged
<1>2. IsFiniteSet(Members(preview[k].team))
  BY FS_Subset, TeamPreviewsAssumption DEF Members
<1>. QED BY <1>1, <1>2, FS_Subset DEF SameNumber

\* Those who are moved are those who were previewed, although only their
\* number is compared.
THEOREM PreviewIsCarriedOut == Spec => MovesWhoWasShown
<1>. DEFINE Shows(t, r) ==
                /\ hand[r] # NoToken
                /\ preview[hand[r]].team = t
                /\ preview[hand[r]].members = Members(t)
                /\ \A u \in Members(t) : member'[u] = preview[hand[r]].to
            Step == \A t \in Teams : Open(t) /\ team'[t].status = "ARCHIVED" =>
                        \E r \in Requests : Shows(t, r)
<1>1. ASSUME IInv, Next
      PROVE  Step
  <2>. SUFFICES ASSUME NEW t \in Teams, Open(t), team'[t].status = "ARCHIVED"
                PROVE  \E r \in Requests : Shows(t, r)
    OBVIOUS
  <2>1. PICK r \in Requests : Archive(r)
    BY <1>1, OnlyArchive
  <2>. DEFINE shown == preview[hand[r]]
              S == Stamped(r)
  <2>2. /\ hand[r] \in Tokens /\ shown # NoPreview
        /\ S \in SUBSET Teams /\ Unchanged(shown) /\ SameNumber(shown)
        /\ roster[r] = Members(shown.team)
        /\ clock < MaxStamp
        /\ member' = Moved(roster[r], shown.to)
        /\ team' = [Touched(S) EXCEPT ![shown.team].status = "ARCHIVED"]
    BY <1>1, <2>1, Archived
  <2>. HIDE DEF S
  <2>3. shown.team = t
    <3>1. Touched(S)[t].status = "ACTIVE" /\ Touched(S) \in [Teams -> Team]
      BY <1>1, <2>2, TouchedTeams DEF Open
    <3>. DEFINE T == Touched(S)
    <3>2. T[t].status = "ACTIVE" /\ T \in [Teams -> Team]
          /\ team' = [T EXCEPT ![shown.team].status = "ARCHIVED"]
      BY <2>2, <3>1
    <3>. HIDE DEF T
    <3>. QED BY <3>2
  <2>4. shown.members = Members(t)
    BY <1>1, <2>2, <2>3, SameMembers
  <2>5. \A u \in Members(t) : member'[u] = shown.to
    BY <2>2, <2>3 DEF Moved, Members
  <2>6. hand[r] # NoToken
    BY <2>2, TeamPreviewsAssumption
  <2>. QED BY <2>3, <2>4, <2>5, <2>6
<1>2. ASSUME UNCHANGED vars
      PROVE  Step
  BY <1>2 DEF vars, Open
<1>3. IInv /\ [Next]_vars => [Step]_vars
  BY <1>1
<1>. QED BY <1>3, Inductive, PTL DEF Spec, MovesWhoWasShown

------------------------------------------------------------------------------
(* The script that seeds brands is all that hides a newer policy            *)

\* A change that was previewed may still be made.
Pending(k) == k \in live \/ \E r \in Requests : hand[r] = k

\* The script is run only on teams of which no change is under way.
SeedsInPeace ==
    [][\A t \in Teams, policy \in Policies : SeedBrands(t, policy) =>
           \A k \in Tokens : preview[k] # NoPreview /\ Pending(k) =>
               preview[k].team # t]_vars

\* Where the stamp is that of a pending preview, the policy is.
StampsTell ==
    \A k \in Tokens :
        /\ preview[k] # NoPreview
        /\ Pending(k)
        /\ team[preview[k].team].stamp = preview[k].stamp
        => team[preview[k].team].policy = preview[k].policy

\* A team gets a new stamp or keeps its stamp and its policy.
Follows(t) ==
    \/ team'[t].stamp = clock + 1
    \/ team'[t].stamp = team[t].stamp /\ team'[t].policy = team[t].policy

\* No token becomes pending that was not.
NoneAppears ==
    preview' = preview /\ \A k \in Tokens : Pending(k)' => Pending(k)

LEMMA TellsOn ==
    ASSUME IInv, StampsTell, NoneAppears, \A t \in Teams : Follows(t)
    PROVE  StampsTell'
<1>. SUFFICES ASSUME NEW k \in Tokens, preview[k] # NoPreview, Pending(k),
                     NEW t, t = preview[k].team,
                     team'[t].stamp = preview[k].stamp
              PROVE  team'[t].policy = preview[k].policy
  BY Zenon DEF StampsTell, NoneAppears
<1>1. /\ t \in Teams /\ preview[k].stamp \in Nat /\ clock \in Nat
      /\ preview[k].stamp <= clock
  BY TeamPreviewsAssumption DEF IInv, TypeOK, Preview, StampsPast
<1>2. team'[t].stamp = team[t].stamp /\ team'[t].policy = team[t].policy
  BY <1>1 DEF Follows
<1>. QED BY <1>2 DEF StampsTell

LEMMA MembersTell ==
    ASSUME IInv, NEW u \in Users, Membering(u)
    PROVE  NoneAppears /\ \A t \in Teams : Follows(t)
<1>1. ASSUME NEW to \in Membership, Assign(u, to)
      PROVE  NoneAppears /\ \A t \in Teams : Follows(t)
  <2>. DEFINE S == {member[u], to} \cap Teams
  <2>1. /\ clock < MaxStamp /\ team' = Touched(S) /\ S \in SUBSET Teams
        /\ UNCHANGED <<preview, live, hand>>
    BY <1>1 DEF Assign, Tick
  <2>. HIDE DEF S
  <2>. QED BY <2>1, TouchedTeams DEF NoneAppears, Pending, Follows
<1>2. ASSUME NEW t \in Teams, AddUser(u, t)
      PROVE  NoneAppears /\ \A s \in Teams : Follows(s)
  BY <1>2 DEF AddUser, NoneAppears, Pending, Follows
<1>. QED BY <1>1, <1>2 DEF Membering

LEMMA OpeningTells ==
    ASSUME IInv, NEW t \in Teams,
           RestoreTeam(t) \/ \E policy \in Policies : CreateTeam(t, policy)
    PROVE  NoneAppears /\ \A s \in Teams : Follows(s)
<1>1. team \in [Teams -> Team]
  BY DEF IInv, TypeOK
<1>2. UNCHANGED <<preview, live, hand>>
  BY DEF RestoreTeam, CreateTeam
<1>3. /\ team'[t].stamp = clock + 1
      /\ \A s \in Teams \ {t} : team'[s] = team[s]
  <2>1. CASE RestoreTeam(t)
    <3>1. team' = [team EXCEPT ![t].status = "ACTIVE", ![t].stamp = clock + 1]
      BY <2>1 DEF RestoreTeam
    <3>. QED BY <1>1, <3>1 DEF Team
  <2>2. ASSUME NEW policy \in Policies, CreateTeam(t, policy)
        PROVE  /\ team'[t].stamp = clock + 1
               /\ \A s \in Teams \ {t} : team'[s] = team[s]
    BY <1>1, <2>2 DEF CreateTeam
  <2>. QED BY <2>1, <2>2
<1>. QED BY <1>2, <1>3 DEF NoneAppears, Pending, Follows

LEMMA ConfirmationTells ==
    ASSUME IInv, NEW r \in Requests, Confirmation(r)
    PROVE  NoneAppears /\ \A t \in Teams : Follows(t)
<1>1. hand \in [Requests -> Tokens \cup {NoToken}] /\ NoToken \notin Tokens
  BY TeamPreviewsAssumption DEF IInv, TypeOK
<1>2. ASSUME NEW token \in Tokens, Pop(r, token)
      PROVE  NoneAppears /\ \A t \in Teams : Follows(t)
  <2>1. /\ token \in live /\ live' = live \ {token}
        /\ hand' = [hand EXCEPT ![r] = token]
        /\ team' = team /\ preview' = preview
    BY <1>2 DEF Pop
  <2>2. ASSUME NEW k \in Tokens, Pending(k)' PROVE Pending(k)
    BY <1>1, <2>1, <2>2 DEF Pending
  <2>. QED BY <2>1, <2>2 DEF NoneAppears, Follows
<1>3. CASE LockTeams(r) \/ ReadMembers(r)
  BY <1>3 DEF LockTeams, ReadMembers, NoneAppears, Pending, Follows
<1>4. ASSUME Finish(r), preview' = preview, live' = live PROVE NoneAppears
  <2>1. hand' = [hand EXCEPT ![r] = NoToken]
    BY <1>4 DEF Finish
  <2>2. ASSUME NEW k \in Tokens, Pending(k)' PROVE Pending(k)
    BY <1>1, <1>4, <2>1, <2>2 DEF Pending
  <2>. QED BY <1>4, <2>2 DEF NoneAppears
<1>5. CASE Abandon(r)
  BY <1>4, <1>5 DEF Abandon, Follows
<1>6. CASE Archive(r)
  <2>. DEFINE t == preview[hand[r]].team
              S == {t} \cup (IF roster[r] # {} THEN {preview[hand[r]].to} ELSE {})
              T == Touched(S)
  <2>1. /\ clock < MaxStamp /\ Finish(r) /\ preview' = preview /\ live' = live
        /\ team' = [T EXCEPT ![t].status = "ARCHIVED"]
        /\ roster[r] # {} => preview[hand[r]].to \in Teams
        /\ step[r] = "counted"
    BY <1>6 DEF Archive, Tick
  <2>2. t \in Teams
    BY <2>1 DEF IInv, TypeOK, Preview
  <2>3. S \in SUBSET Teams
    BY <2>1, <2>2
  <2>. HIDE DEF S
  <2>4. /\ T \in [Teams -> Team]
        /\ \A s \in S : T[s].stamp = clock + 1
        /\ \A s \in Teams \ S : T[s] = team[s]
    BY <2>1, <2>3, TouchedTeams
  <2>. HIDE DEF T
  <2>5. \A s \in Teams : /\ team'[s].stamp = T[s].stamp
                         /\ team'[s].policy = T[s].policy
    BY <2>1, <2>2, <2>4 DEF Team
  <2>. QED BY <1>4, <2>1, <2>4, <2>5 DEF Follows
<1>7. CASE ApplyPolicy(r)
  <2>. DEFINE t == preview[hand[r]].team
              T == Touched({t})
  <2>1. /\ Finish(r) /\ preview' = preview /\ live' = live
        /\ step[r] = "popped"
        /\ \/ team' = team
           \/ /\ clock < MaxStamp
              /\ team' = [T EXCEPT ![t].policy = preview[hand[r]].new]
    BY <1>7 DEF ApplyPolicy, Confirms, Tick
  <2>2. t \in Teams
    BY <2>1 DEF IInv, TypeOK, Preview
  <2>3. CASE team' = team
    BY <1>4, <2>1, <2>3 DEF Follows
  <2>4. CASE /\ clock < MaxStamp
             /\ team' = [T EXCEPT ![t].policy = preview[hand[r]].new]
    <3>1. /\ T \in [Teams -> Team]
          /\ T[t].stamp = clock + 1
          /\ \A s \in Teams \ {t} : T[s] = team[s]
      BY <2>2, <2>4, TouchedTeams
    <3>. HIDE DEF T
    <3>2. /\ team'[t].stamp = clock + 1
          /\ \A s \in Teams \ {t} : team'[s] = team[s]
      BY <2>2, <2>4, <3>1 DEF Team
    <3>. QED BY <1>4, <2>1, <3>2 DEF Follows
  <2>. QED BY <2>1, <2>3, <2>4
<1>. QED BY <1>2, <1>3, <1>5, <1>6, <1>7 DEF Confirmation

LEMMA PreviewTells ==
    ASSUME IInv, StampsTell, NEW token \in Tokens, Previewing(token)
    PROVE  StampsTell'
<1>1. PICK t, kind, to, new : t \in Teams /\ Store(token, Shown(kind, t, to, new))
  BY DEF Previewing, PreviewArchive, PreviewPolicy
<1>2. /\ preview[token] = NoPreview
      /\ preview' = [preview EXCEPT ![token] = Shown(kind, t, to, new)]
      /\ live' = live \cup {token} /\ UNCHANGED <<team, hand>>
      /\ preview \in [Tokens -> Preview \cup {NoPreview}]
  BY <1>1 DEF Store, IInv, TypeOK
<1>3. ASSUME NEW k \in Tokens, k # token, Pending(k)'
      PROVE  Pending(k) /\ preview'[k] = preview[k]
  BY <1>2, <1>3 DEF Pending
<1>4. /\ preview'[token].team = t
      /\ preview'[token].policy = team[t].policy
  BY <1>2 DEF Shown
<1>. QED BY <1>2, <1>3, <1>4 DEF StampsTell

LEMMA StepTells ==
    ASSUME IInv, StampsTell, Next,
           \A t \in Teams, policy \in Policies : SeedBrands(t, policy) =>
               \A k \in Tokens : preview[k] # NoPreview /\ Pending(k) =>
                   preview[k].team # t
    PROVE  StampsTell'
<1>1. ASSUME NEW u \in Users, Membering(u) PROVE StampsTell'
  BY <1>1, MembersTell, TellsOn
<1>2. ASSUME NEW t \in Teams, NEW policy \in Policies, SeedBrands(t, policy)
      PROVE  StampsTell'
  <2>1. /\ team' = [team EXCEPT ![t].policy = policy]
        /\ UNCHANGED <<preview, live, hand>> /\ team \in [Teams -> Team]
    BY <1>2 DEF SeedBrands, IInv, TypeOK
  <2>2. \A s \in Teams \ {t} : team'[s] = team[s]
    BY <2>1
  <2>3. \A k \in Tokens : preview[k] # NoPreview /\ Pending(k) =>
            preview[k].team \in Teams \ {t}
    BY <1>2 DEF IInv, TypeOK, Preview
  <2>. QED BY <2>1, <2>2, <2>3 DEF StampsTell, Pending
<1>3. ASSUME NEW t \in Teams,
             RestoreTeam(t) \/ \E policy \in Policies : CreateTeam(t, policy)
      PROVE  StampsTell'
  BY <1>3, OpeningTells, TellsOn
<1>4. ASSUME NEW token \in Tokens, Expire(token) PROVE StampsTell'
  BY <1>4 DEF Expire, StampsTell, Pending
<1>5. ASSUME NEW r \in Requests, Confirmation(r) PROVE StampsTell'
  BY <1>5, ConfirmationTells, TellsOn
<1>. QED BY <1>1, <1>2, <1>3, <1>4, <1>5, PreviewTells DEF Next, Editing

\* What the comment of confirm_permissions promises holds if the script keeps
\* away from the teams that somebody is about to change: nothing else changes a
\* policy without the stamp that confirmations compare.
THEOREM NewerPolicyIsKept == Spec /\ SeedsInPeace => KeepsNewerPolicy
<1>. DEFINE Peace == \A t \in Teams, policy \in Policies : SeedBrands(t, policy) =>
                         \A k \in Tokens : preview[k] # NoPreview /\ Pending(k) =>
                             preview[k].team # t
            Step == \A r \in Requests : hand[r] # NoToken /\ ApplyPolicy(r) =>
                        preview[hand[r]].policy = team[preview[hand[r]].team].policy
<1>1. Init => StampsTell
  BY DEF Init, StampsTell
<1>2. IInv /\ StampsTell /\ [Next]_vars /\ [Peace]_vars => StampsTell'
  <2>1. ASSUME UNCHANGED vars, StampsTell PROVE StampsTell'
    BY <2>1 DEF vars, StampsTell, Pending
  <2>2. CASE UNCHANGED vars
    BY <2>1, <2>2
  <2>3. CASE Next /\ Peace
    BY <2>3, StepTells
  <2>. QED BY <2>2, <2>3
<1>3. IInv /\ StampsTell => Step
  <2>. SUFFICES ASSUME IInv, StampsTell, NEW r \in Requests, hand[r] # NoToken,
                       ApplyPolicy(r)
                PROVE  preview[hand[r]].policy = team[preview[hand[r]].team].policy
    OBVIOUS
  <2>1. hand[r] \in Tokens /\ preview[hand[r]] # NoPreview /\ Pending(hand[r])
    BY DEF IInv, TypeOK, Pending
  <2>2. team[preview[hand[r]].team].stamp = preview[hand[r]].stamp
    BY DEF ApplyPolicy, Confirms, Unchanged
  <2>. QED BY <2>1, <2>2 DEF StampsTell
<1>4. IInv /\ StampsTell /\ [Next]_vars => [Step]_vars
  BY <1>3
<1>. HIDE DEF Peace, Step
<1>5. [][Peace]_vars <=> SeedsInPeace
  BY DEF Peace, SeedsInPeace
<1>6. [][Step]_vars <=> KeepsNewerPolicy
  BY DEF Step, KeepsNewerPolicy
<1>. QED BY <1>1, <1>2, <1>4, <1>5, <1>6, Inductive, PTL DEF Spec

=============================================================================
