----------------------------- MODULE AdminProofs -----------------------------
(* What is proved of MCAdmin, for all of its constants that AdminAssumption   *)
(* allows, a part after the other: the invariant of each, that its initial    *)
(* states have it and its steps keep it, and that its safety property         *)
(* follows.  The theorems are at the end.                                     *)
EXTENDS MCAdmin, SequenceTheorems, FiniteSetTheorems, TLAPS

-----------------------------------------------------------------------------
(* Accounts: what a request is, whatever is served beside it.                 *)

AccountModes == {"local", "ldap", "oidc"}
SyncKinds == {"timer", "users", "groups"}
AccountKinds == {"idle", "create", "delete", "superadmin_create", "superadmin_delete", "whitelist", "login",
                 "timer", "users", "groups", "config"}
AccountPlaces == {"insert", "init", "archive", "record", "ensure", "claims", "fetch", "memberships", "stale",
                  "hierarchy", "create", "replace", "clear", "parents", "synced", "timer", "purge", "ungroup", "wipe"}
Snapshot == [groups : SUBSET Groups, members : [Groups -> SUBSET People!Names], subs : [Groups -> SUBSET Groups]]
AccountRequest == [kind : AccountKinds, by : People!Names \cup {"nobody"}, user : People!Names \cup {"nobody"},
                   at : AccountPlaces \cup {"idle"}, mode : AccountModes, todo : SUBSET People!Names,
                   allowed : SUBSET People!Names, snap : Snapshot, quiet : BOOLEAN]

UserKinds == {"create", "delete", "superadmin_delete", "login"}

RequestTypes ==
    /\ accountReq \in [AccountRequests -> AccountRequest]
    /\ \A r \in AccountRequests :
           /\ accountReq[r].at = "idle" => accountReq[r] = People!Idle
           /\ accountReq[r].kind \in UserKinds => accountReq[r].user \in People!Names
           /\ accountReq[r].at = "memberships" => accountReq[r].user \in People!Names

AccountTypes == People!TypeOK /\ RequestTypes /\ served \in Nat /\ late \subseteq People!Names

LEMMA IdleRequest ==
    /\ People!Idle \in AccountRequest /\ People!Idle.at = "idle" /\ People!Idle.kind = "idle"
    /\ People!Idle.todo = {} /\ People!Idle.allowed = {} /\ People!NoGroups \in Snapshot
<1>1. People!NoGroups \in Snapshot
  BY DEF People!NoGroups, Snapshot
<1>2. "nobody" \in People!Names \cup {"nobody"} /\ "idle" \in AccountKinds /\ "local" \in AccountModes
  BY DEF AccountKinds, AccountModes
<1> QED
  BY <1>1, <1>2 DEF People!Idle, People!Nobody, AccountRequest

\* A request begins, goes on or ends; the others stay as they are.
LEMMA AccountBegins ==
    ASSUME AccountTypes, NEW r \in AccountRequests, NEW k \in AccountKinds, NEW by \in People!Names \cup {"nobody"},
           NEW u \in People!Names \cup {"nobody"}, NEW a \in AccountPlaces \ {"memberships"},
           k \in UserKinds => u \in People!Names, People!Begin(r, k, by, u, a)
    PROVE  /\ RequestTypes' /\ \A x \in AccountRequests \ {r} : accountReq'[x] = accountReq[x]
           /\ accountReq[r].at = "idle" /\ served' = served + 1
           /\ accountReq'[r].kind = k /\ accountReq'[r].by = by /\ accountReq'[r].user = u /\ accountReq'[r].at = a
           /\ accountReq'[r].mode = mode /\ accountReq'[r].quiet = (late = {}) /\ accountReq'[r].at # "idle"
<1>1. /\ accountReq' = [accountReq EXCEPT ![r] = [People!Idle EXCEPT !.kind = k, !.by = by, !.user = u, !.at = a,
                                                                   !.mode = mode, !.quiet = (late = {})]]
      /\ accountReq[r].at = "idle" /\ served' = served + 1
  BY DEF People!Begin
<1>2. accountReq \in [AccountRequests -> AccountRequest] /\ mode \in AccountModes /\ (late = {}) \in BOOLEAN
  BY DEF AccountTypes, RequestTypes, People!TypeOK, AccountModes
<1> DEFINE q == [People!Idle EXCEPT !.kind = k, !.by = by, !.user = u, !.at = a, !.mode = mode, !.quiet = (late = {})]
<1>3. /\ q \in AccountRequest /\ q.kind = k /\ q.by = by /\ q.user = u /\ q.at = a /\ q.mode = mode /\ q.quiet = (late = {})
  BY <1>2, IdleRequest DEF AccountRequest
<1>4. a # "idle" /\ a # "memberships"
  BY DEF AccountPlaces
<1> HIDE DEF q
<1>5. accountReq' = [accountReq EXCEPT ![r] = q]
  BY <1>1 DEF q
<1>6. accountReq'[r] = q /\ \A x \in AccountRequests \ {r} : accountReq'[x] = accountReq[x]
  BY <1>2, <1>5
<1>7. accountReq' \in [AccountRequests -> AccountRequest]
  BY <1>2, <1>3, <1>5
<1>8. RequestTypes'
  BY <1>3, <1>4, <1>6, <1>7 DEF RequestTypes, AccountTypes
<1> QED
  BY <1>1, <1>3, <1>4, <1>6, <1>8

LEMMA AccountGoes ==
    ASSUME AccountTypes, NEW r \in AccountRequests, NEW a \in AccountPlaces \ {"memberships"}, People!Go(r, a)
    PROVE  /\ RequestTypes' /\ \A x \in AccountRequests \ {r} : accountReq'[x] = accountReq[x]
           /\ accountReq'[r] = [accountReq[r] EXCEPT !.at = a]
           /\ accountReq'[r].at = a /\ accountReq'[r].at # "idle"
           /\ accountReq'[r].kind = accountReq[r].kind /\ accountReq'[r].user = accountReq[r].user
           /\ accountReq'[r].mode = accountReq[r].mode /\ accountReq'[r].todo = accountReq[r].todo
           /\ accountReq'[r].allowed = accountReq[r].allowed /\ accountReq'[r].snap = accountReq[r].snap
           /\ accountReq'[r].quiet = accountReq[r].quiet
<1>1. accountReq' = [accountReq EXCEPT ![r].at = a]
  BY DEF People!Go
<1>2. accountReq \in [AccountRequests -> AccountRequest] /\ accountReq[r] \in AccountRequest
  BY DEF AccountTypes, RequestTypes
<1>3. accountReq'[r] = [accountReq[r] EXCEPT !.at = a] /\ \A x \in AccountRequests \ {r} : accountReq'[x] = accountReq[x]
  BY <1>1, <1>2
<1>4. /\ accountReq'[r] \in AccountRequest
      /\ accountReq'[r].at = a
      /\ accountReq'[r].kind = accountReq[r].kind /\ accountReq'[r].user = accountReq[r].user
      /\ accountReq'[r].mode = accountReq[r].mode /\ accountReq'[r].todo = accountReq[r].todo
      /\ accountReq'[r].allowed = accountReq[r].allowed /\ accountReq'[r].snap = accountReq[r].snap
      /\ accountReq'[r].quiet = accountReq[r].quiet
  BY <1>2, <1>3 DEF AccountRequest
<1>5. a # "idle" /\ a # "memberships"
  BY DEF AccountPlaces
<1>6. accountReq' \in [AccountRequests -> AccountRequest]
  BY <1>1, <1>2, <1>3, <1>4
<1>7. RequestTypes'
  BY <1>3, <1>4, <1>5, <1>6 DEF RequestTypes, AccountTypes
<1> QED
  BY <1>3, <1>4, <1>5, <1>7

LEMMA AccountEnds ==
    ASSUME AccountTypes, NEW r \in AccountRequests, People!Done(r)
    PROVE  /\ RequestTypes' /\ \A x \in AccountRequests \ {r} : accountReq'[x] = accountReq[x]
           /\ accountReq'[r] = People!Idle /\ accountReq'[r].at = "idle" /\ accountReq'[r].kind = "idle"
<1>1. accountReq' = [accountReq EXCEPT ![r] = People!Idle] /\ accountReq \in [AccountRequests -> AccountRequest]
  BY DEF People!Done, AccountTypes, RequestTypes
<1>2. accountReq'[r] = People!Idle /\ \A x \in AccountRequests \ {r} : accountReq'[x] = accountReq[x]
  BY <1>1
<1>3. accountReq' \in [AccountRequests -> AccountRequest]
  BY <1>1, IdleRequest
<1>4. "idle" \notin UserKinds
  BY DEF UserKinds
<1>5. RequestTypes'
  BY <1>2, <1>3, <1>4, IdleRequest DEF RequestTypes, AccountTypes
<1> QED
  BY <1>2, <1>5, IdleRequest

\* A synchronisation goes on with something new in its request.
LEMMA SyncGoes ==
    ASSUME AccountTypes, NEW r \in AccountRequests, NEW q \in AccountRequest, accountReq' = [accountReq EXCEPT ![r] = q],
           q.at # "idle", q.kind \in SyncKinds, q.at = "memberships" => q.user \in People!Names
    PROVE  RequestTypes' /\ accountReq'[r] = q /\ \A x \in AccountRequests \ {r} : accountReq'[x] = accountReq[x]
<1>1. accountReq \in [AccountRequests -> AccountRequest]
  BY DEF AccountTypes, RequestTypes
<1>2. accountReq'[r] = q /\ \A x \in AccountRequests \ {r} : accountReq'[x] = accountReq[x]
  BY <1>1
<1>3. accountReq' \in [AccountRequests -> AccountRequest]
  BY <1>1
<1>4. q.kind \notin UserKinds
  BY DEF UserKinds, SyncKinds
<1> QED
  BY <1>2, <1>3, <1>4 DEF RequestTypes, AccountTypes

LEMMA AccountStays ==
    ASSUME AccountTypes, accountReq' = accountReq PROVE RequestTypes'
BY DEF AccountTypes, RequestTypes

-----------------------------------------------------------------------------
\* What the store's transactions leave.
LEMMA Ensures ==
    ASSUME People!TypeOK, NEW S, NEW source \in AccountModes, People!EnsureExternalUser(S, source)
    PROVE  /\ account' \in [People!Names -> {"none", "superadmin", "local", "ldap", "oidc"}]
           /\ \A u \in People!Names : account'[u] = IF u \in S THEN source ELSE account[u]
BY DEF People!TypeOK, People!EnsureExternalUser, AccountModes

LEMMA Deletes ==
    ASSUME People!TypeOK, NEW S, People!DeleteUsers(S)
    PROVE  /\ account' \in [People!Names -> {"none", "superadmin", "local", "ldap", "oidc"}]
           /\ \A u \in People!Names : account'[u] = IF u \in S THEN "none" ELSE account[u]
           /\ member' \subseteq People!Names \X Groups /\ rows' \subseteq People!Names /\ rows' = rows \ S
BY DEF People!TypeOK, People!DeleteUsers

LEMMA GroupsAreMade ==
    ASSUME People!TypeOK, NEW S, NEW source \in AccountModes
    PROVE  /\ People!Grouped(S, source) \in [Groups -> {"none", "local", "ldap", "oidc"}]
           /\ \A g \in Groups : /\ group[g] # "none" => People!Grouped(S, source)[g] = group[g]
                                /\ group[g] = "none" => People!Grouped(S, source)[g] \in {"none", source}
                                /\ g \in S => People!Grouped(S, source)[g] # "none"
BY DEF People!TypeOK, People!Grouped, AccountModes

LEMMA MembershipsAreMade ==
    ASSUME People!TypeOK, NEW u \in People!Names, NEW S \in SUBSET Groups, NEW source \in AccountModes,
           People!SyncUserGroups(u, S, source)
    PROVE  /\ group' = People!Grouped(S, source) /\ member' \subseteq People!Names \X Groups
           /\ group' \in [Groups -> {"none", "local", "ldap", "oidc"}]
<1>1. group' = People!Grouped(S, source) /\ member' \subseteq People!Names \X Groups
  BY DEF People!TypeOK, People!SyncUserGroups
<1> QED
  BY <1>1, GroupsAreMade

LEMMA Archives ==
    ASSUME People!TypeOK, NEW u \in People!Names, People!ArchiveUser(u)
    PROVE  home' \subseteq People!Names /\ archived' \subseteq People!Names
BY DEF People!TypeOK, People!ArchiveUser

\* What a directory says is about the accounts and groups there are.
LEMMA DirectoryTypes ==
    ASSUME NEW d \in Directories
    PROVE  /\ d.users \subseteq People!Names /\ d.people \subseteq People!Names /\ d.groups \subseteq Groups
           /\ d.members \in [Groups -> SUBSET People!Names] /\ d.subs \in [Groups -> SUBSET Groups]
           /\ \A S \in (SUBSET d.groups) \ {{}} : \E g \in S : \A p \in S : g \notin d.subs[p]
           /\ \A u : People!GroupsOf(d, u) \subseteq Groups
BY AdminAssumption DEF People!Names, People!GroupsOf

\* The requests on users.
LEMMA LocalTypes ==
    ASSUME AccountTypes, NEW r \in AccountRequests, NEW by \in Admins, People!Local(r, by) PROVE AccountTypes'
<1>0. /\ People!TypeOK /\ RequestTypes /\ served \in Nat /\ late \subseteq People!Names
      /\ accountReq[r] \in AccountRequest /\ by \in People!Names \cup {"nobody"}
      /\ \A a \in Admins : a \in People!Names
      /\ (accountReq[r].kind \in UserKinds => accountReq[r].user \in People!Names)
  BY DEF AccountTypes, RequestTypes, People!Names
<1>1. ASSUME NEW u \in People!Names,
             \/ People!UserCreate(r, by, u) \/ People!UserDelete(r, by, u) \/ People!SuperadminDelete(r, by, u)
      PROVE  AccountTypes'
  <2>1. PICK k \in {"create", "delete", "superadmin_delete"}, a \in {"insert", "archive", "record"} :
            People!Begin(r, k, by, u, a)
    BY <1>1 DEF People!UserCreate, People!UserDelete, People!SuperadminDelete
  <2>2. k \in AccountKinds /\ a \in AccountPlaces \ {"memberships"} /\ u \in People!Names \cup {"nobody"}
    BY <2>1 DEF AccountKinds, AccountPlaces
  <2>3. RequestTypes' /\ served' = served + 1
    BY <1>0, <2>1, <2>2, AccountBegins
  <2>4. UNCHANGED <<account, group, parent, member, rows, home, archived, mode, timer, whitelist, dir, late>>
    BY <1>1 DEF People!UserCreate, People!UserDelete, People!SuperadminDelete, People!tables, People!config
  <2> QED
    BY <1>0, <2>3, <2>4 DEF AccountTypes, People!TypeOK
<1>2. ASSUME People!InsertUser(r) PROVE AccountTypes'
  <2>1. /\ UNCHANGED <<group, parent, member, rows, home, archived, mode, timer, whitelist, dir, late, served>>
        /\ accountReq[r].user \in People!Names
        /\ \/ account' = [account EXCEPT ![accountReq[r].user] = "local"] /\ People!Go(r, "init")
           \/ account' = account /\ People!Done(r)
    BY <1>0, <1>2 DEF People!InsertUser, People!At, UserKinds, People!config
  <2>2. RequestTypes'
    BY <2>1, AccountGoes, AccountEnds DEF AccountPlaces
  <2>3. account' \in [People!Names -> {"none", "superadmin", "local", "ldap", "oidc"}]
    BY <1>0, <2>1 DEF People!TypeOK
  <2> QED
    BY <1>0, <2>1, <2>2, <2>3 DEF AccountTypes, People!TypeOK
<1>3. ASSUME People!InitCreated(r) PROVE AccountTypes'
  <2>1. /\ UNCHANGED <<account, group, parent, member, archived, mode, timer, whitelist, dir, late, served>>
        /\ accountReq[r].user \in People!Names /\ People!Done(r)
        /\ home' = home \cup {accountReq[r].user} /\ rows' = rows \cup {accountReq[r].user}
    BY <1>0, <1>3 DEF People!InitCreated, People!At, UserKinds, People!config, People!InitializeUser
  <2> QED
    BY <1>0, <2>1, AccountEnds DEF AccountTypes, People!TypeOK
<1>4. ASSUME People!RollBackUser(r) PROVE AccountTypes'
  <2>1. /\ UNCHANGED <<group, parent, archived, mode, timer, whitelist, dir, late, served>>
        /\ accountReq[r].user \in People!Names /\ People!Done(r)
        /\ home' = home \cup {accountReq[r].user} /\ People!DeleteUsers({accountReq[r].user})
    BY <1>0, <1>4 DEF People!RollBackUser, People!At, UserKinds, People!config
  <2> QED
    BY <1>0, <2>1, AccountEnds, Deletes DEF AccountTypes, People!TypeOK
<1>5. ASSUME People!DeleteArchives(r) PROVE AccountTypes'
  <2>1. /\ UNCHANGED <<account, group, parent, member, rows, mode, timer, whitelist, dir, late, served>>
        /\ accountReq[r].user \in People!Names /\ People!Go(r, "record") /\ People!ArchiveUser(accountReq[r].user)
    BY <1>0, <1>5 DEF People!DeleteArchives, People!At, UserKinds, People!config
  <2>2. RequestTypes'
    BY <2>1, AccountGoes DEF AccountPlaces
  <2>3. home' \subseteq People!Names /\ archived' \subseteq People!Names
    BY <1>0, <2>1, Archives
  <2> QED
    BY <1>0, <2>1, <2>2, <2>3 DEF AccountTypes, People!TypeOK
<1>6. ASSUME People!ArchiveFails(r) PROVE AccountTypes'
  <2>1. /\ UNCHANGED <<account, group, parent, member, rows, home, archived, mode, timer, whitelist, dir, late, served>>
        /\ People!Done(r)
    BY <1>6 DEF People!ArchiveFails, People!tables, People!config
  <2> QED
    BY <1>0, <2>1, AccountEnds DEF AccountTypes, People!TypeOK
<1>7. ASSUME People!DeleteRecord(r) \/ People!DeleteSuperadmin(r) PROVE AccountTypes'
  <2>1. /\ UNCHANGED <<group, parent, home, archived, mode, timer, whitelist, dir, late, served>> /\ People!Done(r)
        /\ UNCHANGED <<account, member, rows>> \/ \E S : People!DeleteUsers(S)
    BY <1>7 DEF People!DeleteRecord, People!DeleteSuperadmin, People!config
  <2>2. /\ account' \in [People!Names -> {"none", "superadmin", "local", "ldap", "oidc"}]
        /\ member' \subseteq People!Names \X Groups /\ rows' \subseteq People!Names
    BY <1>0, <2>1, Deletes DEF People!TypeOK
  <2> QED
    BY <1>0, <2>1, <2>2, AccountEnds DEF AccountTypes, People!TypeOK
<1>8. ASSUME NEW a \in Admins, People!SuperadminCreate(by, a) PROVE AccountTypes'
  <2>1. /\ UNCHANGED <<group, parent, member, rows, home, archived, mode, timer, whitelist, dir, accountReq, late>>
        /\ served' = served + 1 /\ account' = [account EXCEPT ![a] = "superadmin"]
    BY <1>8 DEF People!SuperadminCreate, People!Brief, People!config
  <2> QED
    BY <1>0, <2>1, AccountStays DEF AccountTypes, People!TypeOK
<1>9. ASSUME NEW g \in Groups, NEW p \in Groups \cup {"top"}, People!GroupCreate(by, g, p) \/ People!GroupDelete(by, g)
      PROVE  AccountTypes'
  <2>1. /\ UNCHANGED <<account, rows, home, archived, mode, timer, whitelist, dir, accountReq, late>>
        /\ served' = served + 1 /\ member' \subseteq member
    BY <1>9 DEF People!GroupCreate, People!GroupDelete, People!Brief, People!config
  <2>2. /\ group' \in [Groups -> {"none", "local", "ldap", "oidc"}] /\ parent' \in [Groups -> Groups \cup {"top"}]
    BY <1>0, <1>9 DEF People!GroupCreate, People!GroupDelete, People!TypeOK
  <2> QED
    BY <1>0, <2>1, <2>2, AccountStays DEF AccountTypes, People!TypeOK
<1>10. ASSUME NEW g \in Groups, NEW u \in Users, People!GroupMembersAdd(by, g, {u}) \/ People!GroupMembersRemove(by, g, u)
       PROVE  AccountTypes'
  <2>1. /\ UNCHANGED <<account, group, parent, rows, home, archived, mode, timer, whitelist, dir, accountReq, late>>
        /\ served' = served + 1 /\ member' \subseteq member \cup {<<u, g>>}
    BY <1>10 DEF People!GroupMembersAdd, People!GroupMembersRemove, People!Brief, People!config
  <2> QED
    BY <1>0, <2>1, AccountStays DEF AccountTypes, People!TypeOK, People!Names
<1>11. ASSUME NEW S \in SUBSET Users, People!WhitelistPost(by, S) PROVE AccountTypes'
  <2>1. /\ UNCHANGED <<account, group, parent, member, rows, home, archived, mode, timer, dir, accountReq, late>>
        /\ served' = served + 1 /\ whitelist' = S
    BY <1>11 DEF People!WhitelistPost, People!Brief, People!tables
  <2> QED
    BY <1>0, <2>1, AccountStays DEF AccountTypes, People!TypeOK, People!Names
<1>12. \A u \in Users : u \in People!Names
  BY DEF People!Names
<1> QED
  BY <1>0, <1>1, <1>2, <1>3, <1>4, <1>5, <1>6, <1>7, <1>8, <1>9, <1>10, <1>11, <1>12 DEF People!Local

\* Logins.
LEMMA LoginTypes ==
    ASSUME AccountTypes, NEW r \in AccountRequests, People!Login(r) PROVE AccountTypes'
<1>0. /\ People!TypeOK /\ RequestTypes /\ served \in Nat /\ late \subseteq People!Names
      /\ accountReq[r] \in AccountRequest /\ accountReq[r].mode \in AccountModes
      /\ (accountReq[r].kind = "login" => accountReq[r].user \in People!Names)
  BY DEF AccountTypes, RequestTypes, AccountRequest, UserKinds
<1>1. ASSUME NEW u \in People!Names, People!LoginStart(r, u) PROVE AccountTypes'
  <2>1. PICK a \in {"ensure", "init"} : People!Begin(r, "login", "nobody", u, a)
    BY <1>1 DEF People!LoginStart, People!Nobody
  <2>2. "login" \in AccountKinds /\ a \in AccountPlaces \ {"memberships"} /\ "nobody" \in People!Names \cup {"nobody"}
        /\ u \in People!Names \cup {"nobody"}
    BY <2>1 DEF AccountKinds, AccountPlaces
  <2>3. RequestTypes' /\ served' = served + 1
    BY <1>0, <2>1, <2>2, AccountBegins
  <2>4. UNCHANGED <<account, group, parent, member, rows, home, archived, mode, timer, whitelist, dir, late>>
    BY <1>1 DEF People!LoginStart, People!tables, People!config
  <2> QED
    BY <1>0, <2>3, <2>4 DEF AccountTypes, People!TypeOK
<1>2. ASSUME People!LoginEnsure(r) PROVE AccountTypes'
  <2>1. /\ UNCHANGED <<group, parent, member, rows, home, archived, mode, timer, whitelist, dir, late, served>>
        /\ \/ /\ People!EnsureExternalUser({accountReq[r].user}, accountReq[r].mode)
              /\ People!Go(r, "claims") \/ People!Go(r, "init")
           \/ account' = account /\ People!Done(r)
    BY <1>2 DEF People!LoginEnsure, People!config
  <2>2. RequestTypes'
    BY <2>1, AccountGoes, AccountEnds DEF AccountPlaces
  <2>3. account' \in [People!Names -> {"none", "superadmin", "local", "ldap", "oidc"}]
    BY <1>0, <2>1, Ensures DEF People!TypeOK
  <2> QED
    BY <1>0, <2>1, <2>2, <2>3 DEF AccountTypes, People!TypeOK
<1>3. ASSUME NEW S \in SUBSET Groups, People!LoginClaims(r, S) PROVE AccountTypes'
  <2>1. /\ UNCHANGED <<account, parent, rows, home, archived, mode, timer, whitelist, dir, late, served>>
        /\ People!Go(r, "init") /\ accountReq[r].user \in People!Names
        /\ UNCHANGED <<group, member>> \/ People!SyncUserGroups(accountReq[r].user, S, accountReq[r].mode)
    BY <1>0, <1>3 DEF People!LoginClaims, People!At, People!config
  <2>2. RequestTypes'
    BY <2>1, AccountGoes DEF AccountPlaces
  <2>3. group' \in [Groups -> {"none", "local", "ldap", "oidc"}] /\ member' \subseteq People!Names \X Groups
    <3>1. CASE UNCHANGED <<group, member>>
      BY <1>0, <3>1 DEF People!TypeOK
    <3>2. CASE ~UNCHANGED <<group, member>>
      BY <1>0, <2>1, <3>2, MembershipsAreMade
    <3> QED
      BY <3>1, <3>2
  <2> QED
    BY <1>0, <2>1, <2>2, <2>3 DEF AccountTypes, People!TypeOK
<1>4. ASSUME People!LoginInit(r) PROVE AccountTypes'
  <2>1. /\ UNCHANGED <<account, group, parent, member, archived, mode, timer, whitelist, dir, served>>
        /\ accountReq[r].user \in People!Names /\ People!Done(r)
        /\ home' = home \cup {accountReq[r].user} /\ rows' = rows \cup {accountReq[r].user}
        /\ late' \subseteq late \cup {accountReq[r].user}
    BY <1>0, <1>4 DEF People!LoginInit, People!At, People!config, People!InitializeUser
  <2> QED
    BY <1>0, <2>1, AccountEnds DEF AccountTypes, People!TypeOK
<1> QED
  BY <1>1, <1>2, <1>3, <1>4 DEF People!Login

LEMMA LateTypes ==
    ASSUME AccountTypes, People!DirectoryChanges \/ \E u \in People!Names : People!LateGroups(u) PROVE AccountTypes'
<1>0. /\ People!TypeOK /\ RequestTypes /\ served \in Nat /\ late \subseteq People!Names /\ dir \in Directories
  BY DEF AccountTypes, People!TypeOK
<1>1. ASSUME NEW u \in People!Names, People!LateGroups(u) PROVE AccountTypes'
  <2>1. /\ UNCHANGED <<account, parent, rows, home, archived, mode, timer, whitelist, dir, accountReq, served>>
        /\ late' \subseteq late
        /\ UNCHANGED <<group, member>> \/ People!SyncUserGroups(u, People!GroupsOf(dir, u), "ldap")
    BY <1>1 DEF People!LateGroups, People!config
  <2>2. People!GroupsOf(dir, u) \in SUBSET Groups /\ "ldap" \in AccountModes
    BY <1>0, DirectoryTypes DEF AccountModes
  <2>3. group' \in [Groups -> {"none", "local", "ldap", "oidc"}] /\ member' \subseteq People!Names \X Groups
    <3>1. CASE UNCHANGED <<group, member>>
      BY <1>0, <3>1 DEF People!TypeOK
    <3>2. CASE ~UNCHANGED <<group, member>>
      BY <1>0, <2>1, <3>2, <2>2, MembershipsAreMade
    <3> QED
      BY <3>1, <3>2
  <2> QED
    BY <1>0, <2>1, <2>3, AccountStays DEF AccountTypes, People!TypeOK
<1>2. ASSUME People!DirectoryChanges PROVE AccountTypes'
  <2>1. /\ UNCHANGED <<account, group, parent, member, rows, home, archived, mode, timer, whitelist, accountReq, late, served>>
        /\ dir' \in Directories
    BY <1>2 DEF People!DirectoryChanges, People!tables, People!config
  <2> QED
    BY <1>0, <2>1, AccountStays DEF AccountTypes, People!TypeOK
<1> QED
  BY <1>1, <1>2

LEMMA ConfigTypes ==
    ASSUME AccountTypes, NEW r \in AccountRequests, NEW by \in Admins, People!Config(r, by) PROVE AccountTypes'
<1>0. /\ People!TypeOK /\ RequestTypes /\ served \in Nat /\ late \subseteq People!Names
      /\ accountReq[r] \in AccountRequest /\ by \in People!Names \cup {"nobody"}
  BY DEF AccountTypes, RequestTypes, People!Names
<1>1. ASSUME NEW m \in AccountModes, People!ConfigSave(r, by, m) PROVE AccountTypes'
  <2>1. PICK a \in {"timer", "purge"} : People!Begin(r, "config", by, "nobody", a)
    BY <1>1 DEF People!ConfigSave, People!Nobody
  <2>2. "config" \in AccountKinds /\ a \in AccountPlaces \ {"memberships"} /\ "nobody" \in People!Names \cup {"nobody"}
        /\ "config" \notin UserKinds
    BY <2>1 DEF AccountKinds, AccountPlaces, UserKinds
  <2>3. RequestTypes' /\ served' = served + 1
    BY <1>0, <2>1, <2>2, AccountBegins
  <2>4. UNCHANGED <<account, group, parent, member, rows, home, archived, timer, whitelist, dir, late>> /\ mode' = m
    BY <1>1 DEF People!ConfigSave, People!tables
  <2> QED
    BY <1>0, <2>3, <2>4 DEF AccountTypes, People!TypeOK, AccountModes
<1>2. ASSUME People!Purge(r) PROVE AccountTypes'
  <2>1. /\ UNCHANGED <<group, parent, home, archived, mode, timer, whitelist, dir, late, served>>
        /\ People!DeleteUsers(People!Ordinary) /\ People!Go(r, "ungroup")
    BY <1>2 DEF People!Purge, People!config
  <2>2. RequestTypes'
    BY <2>1, AccountGoes DEF AccountPlaces
  <2> QED
    BY <1>0, <2>1, <2>2, Deletes DEF AccountTypes, People!TypeOK
<1>3. ASSUME People!ClearAllGroups(r) PROVE AccountTypes'
  <2>1. /\ UNCHANGED <<account, rows, home, archived, mode, timer, whitelist, dir, late, served>> /\ People!Go(r, "wipe")
        /\ member' = {} /\ group' = [g \in Groups |-> "none"] /\ parent' = [g \in Groups |-> "top"]
    BY <1>3 DEF People!ClearAllGroups, People!config
  <2>2. RequestTypes'
    BY <2>1, AccountGoes DEF AccountPlaces
  <2> QED
    BY <1>0, <2>1, <2>2 DEF AccountTypes, People!TypeOK
<1>4. ASSUME People!RemoveAllUserData(r) PROVE AccountTypes'
  <2>1. /\ UNCHANGED <<account, group, parent, member, rows, mode, timer, whitelist, dir, late, served>>
        /\ People!Go(r, "timer") /\ home' = {} /\ archived' = {}
    BY <1>4 DEF People!RemoveAllUserData, People!config
  <2>2. RequestTypes'
    BY <2>1, AccountGoes DEF AccountPlaces
  <2> QED
    BY <1>0, <2>1, <2>2 DEF AccountTypes, People!TypeOK
<1>5. ASSUME People!WipeFails(r) \/ People!RestartSyncTimer(r) PROVE AccountTypes'
  <2>1. /\ UNCHANGED <<account, group, parent, member, rows, home, archived, mode, whitelist, dir, late, served>>
        /\ People!Done(r) /\ timer' \in {timer, "on", "off"}
    BY <1>5 DEF People!WipeFails, People!RestartSyncTimer, People!tables, People!config
  <2> QED
    BY <1>0, <2>1, AccountEnds DEF AccountTypes, People!TypeOK
<1> QED
  BY <1>1, <1>2, <1>3, <1>4, <1>5 DEF People!Config, AccountModes

-----------------------------------------------------------------------------
\* A synchronisation goes on: its place, user, users and groups.
Turns(r, a, u, al, td, sn) ==
    /\ RequestTypes' /\ \A x \in AccountRequests \ {r} : accountReq'[x] = accountReq[x]
    /\ accountReq'[r].kind = accountReq[r].kind /\ accountReq'[r].mode = accountReq[r].mode
    /\ accountReq'[r].quiet = accountReq[r].quiet
    /\ accountReq'[r].at = a /\ accountReq'[r].user = u /\ accountReq'[r].allowed = al
    /\ accountReq'[r].todo = td /\ accountReq'[r].snap = sn

LEMMA SyncTurns ==
    ASSUME AccountTypes, NEW r \in AccountRequests, accountReq[r].kind \in SyncKinds,
           NEW a \in AccountPlaces, NEW u \in People!Names \cup {"nobody"}, a = "memberships" => u \in People!Names,
           NEW al \in SUBSET People!Names, NEW td \in SUBSET People!Names, NEW sn \in Snapshot,
           accountReq' = [accountReq EXCEPT ![r] =
               [accountReq[r] EXCEPT !.at = a, !.user = u, !.allowed = al, !.todo = td, !.snap = sn]]
    PROVE  Turns(r, a, u, al, td, sn)
<1> DEFINE q == [accountReq[r] EXCEPT !.at = a, !.user = u, !.allowed = al, !.todo = td, !.snap = sn]
<1>1. accountReq[r] \in AccountRequest
  BY DEF AccountTypes, RequestTypes
<1>2. /\ q \in AccountRequest /\ q.kind = accountReq[r].kind /\ q.mode = accountReq[r].mode /\ q.quiet = accountReq[r].quiet
      /\ q.at = a /\ q.user = u /\ q.allowed = al /\ q.todo = td /\ q.snap = sn
  BY <1>1 DEF AccountRequest
<1>3. a # "idle"
  BY DEF AccountPlaces
<1> HIDE DEF q
<1>4. accountReq' = [accountReq EXCEPT ![r] = q]
  BY DEF q
<1>5. RequestTypes' /\ accountReq'[r] = q /\ \A x \in AccountRequests \ {r} : accountReq'[x] = accountReq[x]
  BY <1>2, <1>3, <1>4, SyncGoes
<1> QED
  BY <1>2, <1>5 DEF Turns

\* Which way each of its steps goes on.
LEMMA SyncSteps ==
    ASSUME AccountTypes, NEW r \in AccountRequests
    PROVE  LET q == accountReq[r] IN
      /\ People!FetchUsers(r) => Turns(r, "ensure", q.user, {u \in dir.users : People!Whitelisted(u)},
                                       {u \in dir.users : People!Whitelisted(u)}, q.snap)
      /\ q.kind \in SyncKinds /\ People!Abandon(r) =>
             People!Done(r) \/ (q.kind = "timer" /\ Turns(r, "hierarchy", q.user, {}, q.todo, q.snap))
      /\ \A u \in People!Names : People!EnsureNext(r, u) /\ People!CanEnsure(u) =>
             Turns(r, "memberships", u, q.allowed, q.todo, q.snap)
      /\ People!Memberships(r) => Turns(r, "ensure", q.user, q.allowed, q.todo \ {q.user}, q.snap)
      /\ People!DropLocals(r) => Turns(r, "init", q.user, q.allowed, q.allowed, q.snap)
      /\ People!InitAllowed(r) => Turns(r, IF q.kind = "groups" THEN "hierarchy" ELSE "stale", q.user, q.allowed,
                                        People!Ordinary \ q.allowed, q.snap)
      /\ \A u \in People!Names : People!CleanUp(r, u) => Turns(r, "stale", q.user, q.allowed, q.todo \ {u}, q.snap)
<1> DEFINE q == accountReq[r]
<1>1. /\ q \in AccountRequest /\ DOMAIN accountReq = AccountRequests /\ dir \in Directories
      /\ accountReq \in [AccountRequests -> AccountRequest]
  BY DEF AccountTypes, RequestTypes, People!TypeOK
<1>2. /\ q.user \in People!Names \cup {"nobody"} /\ q.allowed \in SUBSET People!Names /\ q.todo \in SUBSET People!Names
      /\ q.snap \in Snapshot /\ {} \in SUBSET People!Names
  BY <1>1 DEF AccountRequest
<1>3. /\ "ensure" \in AccountPlaces /\ "hierarchy" \in AccountPlaces /\ "memberships" \in AccountPlaces
      /\ "init" \in AccountPlaces /\ "stale" \in AccountPlaces
  BY DEF AccountPlaces
<1>4. ASSUME People!FetchUsers(r)
      PROVE  Turns(r, "ensure", q.user, {u \in dir.users : People!Whitelisted(u)}, {u \in dir.users : People!Whitelisted(u)}, q.snap)
  <2> DEFINE S == {u \in dir.users : People!Whitelisted(u)}
  <2>1. S \in SUBSET People!Names
    BY <1>1, DirectoryTypes
  <2> HIDE DEF S
  <2>2. q.kind \in SyncKinds /\ accountReq' = [accountReq EXCEPT ![r].at = "ensure", ![r].allowed = S, ![r].todo = S]
    BY <1>4 DEF People!FetchUsers, People!Syncing, SyncKinds, S
  <2>3. accountReq' = [accountReq EXCEPT ![r] =
               [q EXCEPT !.at = "ensure", !.user = q.user, !.allowed = S, !.todo = S, !.snap = q.snap]]
    BY <1>1, <2>2 DEF AccountRequest
  <2>4. Turns(r, "ensure", q.user, S, S, q.snap)
    BY <1>2, <1>3, <2>1, <2>2, <2>3, SyncTurns
  <2> QED
    BY <2>4 DEF S
<1>5. ASSUME q.kind \in SyncKinds, People!Abandon(r)
      PROVE  People!Done(r) \/ (q.kind = "timer" /\ Turns(r, "hierarchy", q.user, {}, q.todo, q.snap))
  <2> SUFFICES ASSUME ~People!Done(r) PROVE q.kind = "timer" /\ Turns(r, "hierarchy", q.user, {}, q.todo, q.snap)
    OBVIOUS
  <2>1. q.kind = "timer" /\ accountReq' = [accountReq EXCEPT ![r].at = "hierarchy", ![r].allowed = {}]
    BY <1>5 DEF People!Abandon
  <2>2. accountReq' = [accountReq EXCEPT ![r] =
               [q EXCEPT !.at = "hierarchy", !.user = q.user, !.allowed = {}, !.todo = q.todo, !.snap = q.snap]]
    BY <1>1, <2>1 DEF AccountRequest
  <2> QED
    BY <1>2, <1>3, <1>5, <2>1, <2>2, SyncTurns
<1>6. ASSUME NEW u \in People!Names, People!EnsureNext(r, u), People!CanEnsure(u)
      PROVE  Turns(r, "memberships", u, q.allowed, q.todo, q.snap)
  <2>1. q.kind \in SyncKinds /\ accountReq' = [accountReq EXCEPT ![r].user = u, ![r].at = "memberships"]
    BY <1>6 DEF People!EnsureNext, People!Syncing, SyncKinds
  <2>2. accountReq' = [accountReq EXCEPT ![r] =
               [q EXCEPT !.at = "memberships", !.user = u, !.allowed = q.allowed, !.todo = q.todo, !.snap = q.snap]]
    BY <1>1, <2>1 DEF AccountRequest
  <2> QED
    BY <1>2, <1>3, <2>1, <2>2, SyncTurns
<1>7. ASSUME People!Memberships(r) PROVE Turns(r, "ensure", q.user, q.allowed, q.todo \ {q.user}, q.snap)
  <2>1. q.kind \in SyncKinds /\ accountReq' = [accountReq EXCEPT ![r].at = "ensure", ![r].todo = @ \ {q.user}]
    BY <1>7 DEF People!Memberships, People!Syncing, SyncKinds
  <2>2. accountReq' = [accountReq EXCEPT ![r] =
               [q EXCEPT !.at = "ensure", !.user = q.user, !.allowed = q.allowed, !.todo = q.todo \ {q.user}, !.snap = q.snap]]
    BY <1>1, <2>1 DEF AccountRequest
  <2>3. q.todo \ {q.user} \in SUBSET People!Names
    BY <1>2
  <2> QED
    BY <1>2, <1>3, <2>1, <2>2, <2>3, SyncTurns
<1>8. ASSUME People!DropLocals(r) PROVE Turns(r, "init", q.user, q.allowed, q.allowed, q.snap)
  <2>1. q.kind \in SyncKinds /\ accountReq' = [accountReq EXCEPT ![r].at = "init", ![r].todo = q.allowed]
    BY <1>8 DEF People!DropLocals, People!Syncing, SyncKinds
  <2>2. accountReq' = [accountReq EXCEPT ![r] =
               [q EXCEPT !.at = "init", !.user = q.user, !.allowed = q.allowed, !.todo = q.allowed, !.snap = q.snap]]
    BY <1>1, <2>1 DEF AccountRequest
  <2> QED
    BY <1>2, <1>3, <2>1, <2>2, SyncTurns
<1>9. ASSUME People!InitAllowed(r)
      PROVE  Turns(r, IF q.kind = "groups" THEN "hierarchy" ELSE "stale", q.user, q.allowed, People!Ordinary \ q.allowed, q.snap)
  <2> DEFINE S == People!Ordinary \ q.allowed
             a == IF q.kind = "groups" THEN "hierarchy" ELSE "stale"
  <2>1. S \in SUBSET People!Names /\ a \in AccountPlaces /\ a # "memberships"
    BY <1>3 DEF People!Ordinary
  <2>2. q.kind \in SyncKinds /\ accountReq' = [accountReq EXCEPT ![r].at = a, ![r].todo = S]
    BY <1>9 DEF People!InitAllowed, People!Syncing, SyncKinds
  <2> HIDE DEF S, a
  <2>3. accountReq' = [accountReq EXCEPT ![r] =
               [q EXCEPT !.at = a, !.user = q.user, !.allowed = q.allowed, !.todo = S, !.snap = q.snap]]
    BY <1>1, <2>2 DEF AccountRequest
  <2>4. Turns(r, a, q.user, q.allowed, S, q.snap)
    BY <1>2, <2>1, <2>2, <2>3, SyncTurns
  <2> QED
    BY <2>4 DEF S, a
<1>10. ASSUME NEW u \in People!Names, People!CleanUp(r, u)
       PROVE  Turns(r, "stale", q.user, q.allowed, q.todo \ {u}, q.snap)
  <2>1. q.kind \in SyncKinds /\ q.at = "stale" /\ accountReq' = [accountReq EXCEPT ![r].todo = @ \ {u}]
    BY <1>10 DEF People!CleanUp, People!Syncing, SyncKinds
  <2>2. accountReq' = [accountReq EXCEPT ![r] =
               [q EXCEPT !.at = "stale", !.user = q.user, !.allowed = q.allowed, !.todo = q.todo \ {u}, !.snap = q.snap]]
    BY <1>1, <2>1 DEF AccountRequest
  <2>3. q.todo \ {u} \in SUBSET People!Names
    BY <1>2
  <2> QED
    BY <1>2, <1>3, <2>1, <2>2, <2>3, SyncTurns
<1> QED
  BY <1>4, <1>5, <1>6, <1>7, <1>8, <1>9, <1>10

\* The groups that it fetched, and then has members for.
LEMMA GroupSteps ==
    ASSUME AccountTypes, NEW r \in AccountRequests
    PROVE  LET q == accountReq[r] IN
      /\ People!FetchGroups(r) => People!Done(r) \/ \E sn \in Snapshot :
             /\ Turns(r, "create", q.user, q.allowed, q.todo, sn) /\ sn.groups = dir.groups /\ sn.subs = dir.subs
      /\ People!CreateGroups(r) => \E sn \in Snapshot :
             /\ Turns(r, "replace", q.user, q.allowed, q.todo, sn) /\ sn.groups = q.snap.groups /\ sn.subs = q.snap.subs
             /\ \A g \in Groups : sn.members[g] = q.snap.members[g] \cap
                    {u \in UNION {q.snap.members[h] : h \in q.snap.groups} : People!CanEnsure(u)}
<1> DEFINE q == accountReq[r]
<1>1. /\ q \in AccountRequest /\ DOMAIN accountReq = AccountRequests /\ dir \in Directories
      /\ accountReq \in [AccountRequests -> AccountRequest]
  BY DEF AccountTypes, RequestTypes, People!TypeOK
<1>2. /\ q.user \in People!Names \cup {"nobody"} /\ q.allowed \in SUBSET People!Names /\ q.todo \in SUBSET People!Names
      /\ q.snap \in Snapshot
  BY <1>1 DEF AccountRequest
<1>3. "create" \in AccountPlaces /\ "replace" \in AccountPlaces
  BY DEF AccountPlaces
<1>4. ASSUME People!FetchGroups(r), ~People!Done(r)
      PROVE  \E sn \in Snapshot : /\ Turns(r, "create", q.user, q.allowed, q.todo, sn)
                                  /\ sn.groups = dir.groups /\ sn.subs = dir.subs
  <2> DEFINE ok(S) == {u \in S : People!Whitelisted(u)}
             sn == [groups |-> dir.groups, members |-> [g \in Groups |-> ok(dir.members[g])], subs |-> dir.subs]
  <2>1. sn \in Snapshot
    <3>1. /\ dir.groups \subseteq Groups /\ dir.subs \in [Groups -> SUBSET Groups]
          /\ dir.members \in [Groups -> SUBSET People!Names]
      BY <1>1, DirectoryTypes
    <3>2. [g \in Groups |-> ok(dir.members[g])] \in [Groups -> SUBSET People!Names]
      BY <3>1
    <3> QED
      BY <3>1, <3>2 DEF Snapshot
  <2>2. sn.groups = dir.groups /\ sn.subs = dir.subs
    OBVIOUS
  <2>3. q.kind \in SyncKinds /\ accountReq' = [accountReq EXCEPT ![r].at = "create", ![r].snap = sn]
    BY <1>4 DEF People!FetchGroups, People!Syncing, SyncKinds
  <2> HIDE DEF sn
  <2>4. accountReq' = [accountReq EXCEPT ![r] =
               [q EXCEPT !.at = "create", !.user = q.user, !.allowed = q.allowed, !.todo = q.todo, !.snap = sn]]
    BY <1>1, <2>3 DEF AccountRequest
  <2>5. Turns(r, "create", q.user, q.allowed, q.todo, sn)
    BY <1>2, <1>3, <2>1, <2>3, <2>4, SyncTurns
  <2> QED
    BY <2>1, <2>2, <2>5
<1>5. ASSUME People!CreateGroups(r)
      PROVE  \E sn \in Snapshot :
                /\ Turns(r, "replace", q.user, q.allowed, q.todo, sn) /\ sn.groups = q.snap.groups /\ sn.subs = q.snap.subs
                /\ \A g \in Groups : sn.members[g] = q.snap.members[g] \cap
                       {u \in UNION {q.snap.members[h] : h \in q.snap.groups} : People!CanEnsure(u)}
  <2> DEFINE can == {u \in UNION {q.snap.members[h] : h \in q.snap.groups} : People!CanEnsure(u)}
  <2>1. q.kind \in SyncKinds /\ accountReq' = [accountReq EXCEPT ![r].at = "replace",
                                                  ![r].snap.members = [g \in Groups |-> @[g] \cap can]]
    BY <1>5 DEF People!CreateGroups, People!Syncing, SyncKinds
  <2> HIDE DEF can
  <2> DEFINE sn == [groups |-> q.snap.groups, members |-> [g \in Groups |-> q.snap.members[g] \cap can], subs |-> q.snap.subs]
  <2>2. sn \in Snapshot
    BY <1>2 DEF Snapshot
  <2>3. /\ sn.groups = q.snap.groups /\ sn.subs = q.snap.subs
        /\ \A g \in Groups : sn.members[g] = q.snap.members[g] \cap can
    OBVIOUS
  <2>4. sn = [q.snap EXCEPT !.members = [g \in Groups |-> @[g] \cap can]]
    <3> DEFINE m == [g \in Groups |-> q.snap.members[g] \cap can]
    <3>1. \A n : \A t \in Snapshot : [t EXCEPT !.members = n] = [groups |-> t.groups, members |-> n, subs |-> t.subs]
      BY DEF Snapshot
    <3>2. [q.snap EXCEPT !.members = m] = [groups |-> q.snap.groups, members |-> m, subs |-> q.snap.subs]
      <4> HIDE DEF m
      <4> QED
        BY <1>2, <3>1
    <3> QED
      BY <3>2
  <2>5. accountReq' = [accountReq EXCEPT ![r] =
               [q EXCEPT !.at = "replace", !.user = q.user, !.allowed = q.allowed, !.todo = q.todo, !.snap = sn]]
    <3> HIDE DEF sn
    <3> QED
      BY <1>1, <2>1, <2>4 DEF AccountRequest
  <2>6. Turns(r, "replace", q.user, q.allowed, q.todo, sn)
    <3> HIDE DEF sn
    <3> QED
      BY <1>2, <1>3, <2>1, <2>2, <2>5, SyncTurns
  <2> HIDE DEF sn
  <2>7. \E x \in Snapshot :
                /\ Turns(r, "replace", q.user, q.allowed, q.todo, x) /\ x.groups = q.snap.groups /\ x.subs = q.snap.subs
                /\ \A g \in Groups : x.members[g] = q.snap.members[g] \cap can
    BY <2>2, <2>3, <2>6
  <2> QED
    BY <2>7 DEF can
<1> QED
  BY <1>4, <1>5

LEMMA SyncStarts ==
    ASSUME AccountTypes, NEW r \in AccountRequests, NEW k \in SyncKinds, NEW by \in People!Names \cup {"nobody"},
           People!SyncStart(r, k, by)
    PROVE  /\ RequestTypes' /\ \A x \in AccountRequests \ {r} : accountReq'[x] = accountReq[x]
           /\ accountReq[r].at = "idle" /\ served' = served + 1
           /\ accountReq'[r].kind = k /\ accountReq'[r].at = "fetch" /\ accountReq'[r].mode = mode
           /\ accountReq'[r].quiet = (late = {}) /\ mode = "ldap"
           /\ UNCHANGED <<account, group, parent, member, rows, home, archived, mode, timer, whitelist, dir, late>>
<1>1. /\ People!Begin(r, k, by, "nobody", "fetch") /\ mode = "ldap"
      /\ UNCHANGED <<account, group, parent, member, rows, home, archived, mode, timer, whitelist, dir, late>>
  BY DEF People!SyncStart, People!Nobody, People!HasDirectory, People!tables, People!config
<1>2. k \in AccountKinds /\ "fetch" \in AccountPlaces \ {"memberships"} /\ "nobody" \in People!Names \cup {"nobody"}
      /\ k \notin UserKinds
  BY DEF AccountKinds, AccountPlaces, SyncKinds, UserKinds
<1> QED
  BY <1>1, <1>2, AccountBegins

\* Synchronisations.
LEMMA SyncTypes ==
    ASSUME AccountTypes, NEW r \in AccountRequests, NEW by \in Admins, People!Sync(r, by) PROVE AccountTypes'
<1>0. /\ People!TypeOK /\ RequestTypes /\ served \in Nat /\ late \subseteq People!Names
      /\ accountReq[r] \in AccountRequest /\ accountReq[r].mode \in AccountModes /\ accountReq[r].snap \in Snapshot
      /\ accountReq[r].allowed \subseteq People!Names
      /\ by \in People!Names \cup {"nobody"} /\ "nobody" \in People!Names \cup {"nobody"}
  BY DEF AccountTypes, RequestTypes, People!Names, AccountRequest
<1>1. ASSUME NEW k \in SyncKinds, NEW b \in People!Names \cup {"nobody"}, People!SyncStart(r, k, b) PROVE AccountTypes'
  <2>1. /\ RequestTypes' /\ served' = served + 1
        /\ UNCHANGED <<account, group, parent, member, rows, home, archived, mode, timer, whitelist, dir, late>>
    BY <1>1, SyncStarts
  <2> QED
    BY <1>0, <2>1 DEF AccountTypes, People!TypeOK
<1>2. ASSUME \/ People!FetchUsers(r) \/ People!FetchFails(r) \/ People!CleanedUp(r) \/ People!FetchGroups(r) \/ People!Synced(r)
      PROVE  AccountTypes'
  <2>1. UNCHANGED <<account, group, parent, member, rows, home, archived, mode, timer, whitelist, dir, late, served>>
    BY <1>2 DEF People!FetchUsers, People!FetchFails, People!CleanedUp, People!FetchGroups, People!Synced,
                People!tables, People!config
  <2>2. RequestTypes'
    <3>1. CASE People!FetchUsers(r)
      BY <3>1, SyncSteps DEF Turns
    <3>2. CASE People!FetchFails(r)
      <4>1. accountReq[r].kind \in SyncKinds /\ People!Abandon(r)
        BY <3>2 DEF People!FetchFails, People!Syncing, SyncKinds
      <4> QED
        BY <4>1, SyncSteps, AccountEnds DEF Turns
    <3>3. CASE People!CleanedUp(r)
      <4>1. People!Go(r, "hierarchy") \/ People!Done(r)
        BY <3>3 DEF People!CleanedUp
      <4> QED
        BY <4>1, AccountGoes, AccountEnds DEF AccountPlaces
    <3>4. CASE People!FetchGroups(r)
      BY <3>4, GroupSteps, AccountEnds DEF Turns
    <3>5. CASE People!Synced(r)
      BY <3>5, AccountEnds DEF People!Synced
    <3> QED
      BY <1>2, <3>1, <3>2, <3>3, <3>4, <3>5
  <2> QED
    BY <1>0, <2>1, <2>2 DEF AccountTypes, People!TypeOK
<1>3. ASSUME NEW u \in People!Names, People!EnsureNext(r, u) PROVE AccountTypes'
  <2>1. /\ UNCHANGED <<group, parent, member, rows, home, archived, mode, timer, whitelist, dir, late, served>>
        /\ accountReq[r].kind \in SyncKinds
        /\ \/ People!CanEnsure(u) /\ People!EnsureExternalUser({u}, accountReq[r].mode)
           \/ account' = account /\ People!Abandon(r)
    BY <1>3 DEF People!EnsureNext, People!config, People!Syncing, SyncKinds
  <2>2. RequestTypes'
    BY <1>3, <2>1, SyncSteps, AccountEnds DEF Turns
  <2>3. account' \in [People!Names -> {"none", "superadmin", "local", "ldap", "oidc"}]
    BY <1>0, <2>1, Ensures DEF People!TypeOK
  <2> QED
    BY <1>0, <2>1, <2>2, <2>3 DEF AccountTypes, People!TypeOK
<1>4. ASSUME NEW u \in People!Names, People!CleanUp(r, u) PROVE AccountTypes'
  <2>1. /\ UNCHANGED <<group, parent, mode, timer, whitelist, dir, late, served>>
        /\ People!ArchiveUser(u) /\ People!DeleteUsers({u})
    BY <1>4 DEF People!CleanUp, People!config
  <2>2. RequestTypes'
    BY <1>4, SyncSteps DEF Turns
  <2>3. home' \subseteq People!Names /\ archived' \subseteq People!Names
    BY <1>0, <2>1, Archives
  <2> QED
    BY <1>0, <2>1, <2>2, <2>3, Deletes DEF AccountTypes, People!TypeOK
<1>5. ASSUME People!Memberships(r) PROVE AccountTypes'
  <2>1. /\ UNCHANGED <<account, parent, rows, home, archived, mode, timer, whitelist, dir, late, served>>
        /\ accountReq[r].user \in People!Names
        /\ People!SyncUserGroups(accountReq[r].user, People!GroupsOf(dir, accountReq[r].user), accountReq[r].mode)
    BY <1>0, <1>5 DEF People!Memberships, People!config, People!Syncing, RequestTypes
  <2>2. RequestTypes'
    BY <1>5, SyncSteps DEF Turns
  <2>3. People!GroupsOf(dir, accountReq[r].user) \in SUBSET Groups
    BY <1>0, DirectoryTypes DEF People!TypeOK
  <2>4. group' \in [Groups -> {"none", "local", "ldap", "oidc"}] /\ member' \subseteq People!Names \X Groups
    BY <1>0, <2>1, <2>3, MembershipsAreMade
  <2> QED
    BY <1>0, <2>1, <2>2, <2>4 DEF AccountTypes, People!TypeOK
<1>6. ASSUME People!DropLocals(r) PROVE AccountTypes'
  <2>1. /\ UNCHANGED <<group, parent, home, archived, mode, timer, whitelist, dir, late, served>>
        /\ \E S : People!DeleteUsers(S)
    BY <1>6 DEF People!DropLocals, People!config
  <2>2. RequestTypes'
    BY <1>6, SyncSteps DEF Turns
  <2> QED
    BY <1>0, <2>1, <2>2, Deletes DEF AccountTypes, People!TypeOK
<1>7. ASSUME People!InitAllowed(r) PROVE AccountTypes'
  <2>1. /\ UNCHANGED <<account, group, parent, member, archived, mode, timer, whitelist, dir, late, served>>
        /\ home' \subseteq home \cup accountReq[r].allowed /\ rows' \subseteq rows \cup accountReq[r].allowed
    BY <1>7 DEF People!InitAllowed, People!config, People!InitializeUser
  <2>2. RequestTypes'
    BY <1>7, SyncSteps DEF Turns
  <2> QED
    BY <1>0, <2>1, <2>2 DEF AccountTypes, People!TypeOK
<1>8. ASSUME People!CreateGroups(r) PROVE AccountTypes'
  <2>1. /\ UNCHANGED <<parent, member, rows, home, archived, mode, timer, whitelist, dir, late, served>>
        /\ group' = People!Grouped(accountReq[r].snap.groups, accountReq[r].mode)
        /\ \E S : People!EnsureExternalUser(S, accountReq[r].mode)
    BY <1>8 DEF People!CreateGroups, People!config
  <2>2. RequestTypes'
    BY <1>8, GroupSteps DEF Turns
  <2>3. account' \in [People!Names -> {"none", "superadmin", "local", "ldap", "oidc"}]
    BY <1>0, <2>1, Ensures
  <2>4. group' \in [Groups -> {"none", "local", "ldap", "oidc"}]
    BY <1>0, <2>1, GroupsAreMade
  <2> QED
    BY <1>0, <2>1, <2>2, <2>3, <2>4 DEF AccountTypes, People!TypeOK
<1>9. ASSUME People!ReplaceGroupMembersBySource(r) PROVE AccountTypes'
  <2>1. /\ UNCHANGED <<account, parent, rows, home, archived, mode, timer, whitelist, dir, late, served>>
        /\ People!Go(r, "clear") /\ group' = People!Grouped(accountReq[r].snap.groups, accountReq[r].mode)
        /\ member' \subseteq member \cup UNION {accountReq[r].snap.members[g] \X {g} : g \in accountReq[r].snap.groups}
    BY <1>9 DEF People!ReplaceGroupMembersBySource, People!config
  <2>2. RequestTypes'
    BY <2>1, AccountGoes DEF AccountPlaces
  <2>3. group' \in [Groups -> {"none", "local", "ldap", "oidc"}]
    BY <1>0, <2>1, GroupsAreMade
  <2>4. UNION {accountReq[r].snap.members[g] \X {g} : g \in accountReq[r].snap.groups} \subseteq People!Names \X Groups
    BY <1>0 DEF Snapshot
  <2> QED
    BY <1>0, <2>1, <2>2, <2>3, <2>4 DEF AccountTypes, People!TypeOK
<1>10. ASSUME People!ClearParents(r) \/ People!SetParents(r) PROVE AccountTypes'
  <2>1. /\ UNCHANGED <<account, group, member, rows, home, archived, mode, timer, whitelist, dir, late, served>>
        /\ People!Go(r, "parents") \/ People!Go(r, "synced")
    BY <1>10 DEF People!ClearParents, People!SetParents, People!config
  <2>2. parent' \in [Groups -> Groups \cup {"top"}]
    BY <1>0, <1>10 DEF People!ClearParents, People!SetParents, People!TypeOK
  <2>3. RequestTypes'
    BY <2>1, AccountGoes DEF AccountPlaces
  <2> QED
    BY <1>0, <2>1, <2>2, <2>3 DEF AccountTypes, People!TypeOK
<1> QED
  BY <1>0, <1>1, <1>2, <1>3, <1>4, <1>5, <1>6, <1>7, <1>8, <1>9, <1>10 DEF People!Sync, SyncKinds, People!Nobody

LEMMA PeopleTypes == AccountTypes /\ People!Next => AccountTypes'
BY LocalTypes, LoginTypes, SyncTypes, ConfigTypes, LateTypes DEF People!Next

-----------------------------------------------------------------------------
(* Accounts: superadmins.                                                     *)

\* Whom a request is about to take away is no superadmin.
Guarded ==
    \A r \in AccountRequests :
        LET q == accountReq[r] IN
        /\ q.kind \in SyncKinds /\ q.at = "stale" => \A u \in q.todo : account[u] # "superadmin"
        /\ q.kind = "create" /\ q.at = "init" => account[q.user] # "superadmin"
        /\ q.kind = "delete" => account[q.user] # "superadmin"

\* What a step may do to the accounts.
Converts == \E S \in SUBSET People!Names, source \in AccountModes :
                /\ \A u \in S : account[u] # "superadmin"
                /\ \A u \in People!Names : account'[u] = IF u \in S THEN source ELSE account[u]
Drops == \E S \in SUBSET People!Names :
                /\ \A u \in S : account[u] # "superadmin"
                /\ \A u \in People!Names : account'[u] = IF u \in S THEN "none" ELSE account[u]
DropsSuperadmin == \E r \in AccountRequests :
                /\ People!At(r, "superadmin_delete", "record")
                /\ \A u \in People!Names : account'[u] \in {"none", account[u]}
                /\ \A u \in People!Names : u # accountReq[r].user => account'[u] = account[u]
Creates == \E by, a \in Admins : People!SuperadminCreate(by, a)

LEMMA DropsAre ==
    ASSUME AccountTypes, NEW S, People!DeleteUsers(S), \A u \in S \cap People!Names : account[u] # "superadmin" PROVE Drops
<1>1. \A u \in People!Names : account'[u] = IF u \in S THEN "none" ELSE account[u]
  BY Deletes DEF AccountTypes
<1> DEFINE R == S \cap People!Names
<1>2. /\ R \in SUBSET People!Names /\ \A u \in R : account[u] # "superadmin"
      /\ \A u \in People!Names : account'[u] = IF u \in R THEN "none" ELSE account[u]
  BY <1>1
<1> HIDE DEF R
<1> QED
  BY <1>2 DEF Drops

LEMMA ConvertsAre ==
    ASSUME AccountTypes, NEW S \in SUBSET People!Names, NEW source \in AccountModes, People!EnsureExternalUser(S, source),
           \A u \in S : account[u] # "superadmin"
    PROVE  Converts
<1>1. \A u \in People!Names : account'[u] = IF u \in S THEN source ELSE account[u]
  BY Ensures DEF AccountTypes
<1> QED
  BY <1>1 DEF Converts

LEMMA AccountsChange ==
    ASSUME AccountTypes, Guarded, People!Next
    PROVE  account' = account \/ Converts \/ Drops \/ DropsSuperadmin \/ Creates
<1> DEFINE G == account' = account \/ Converts \/ Drops \/ DropsSuperadmin \/ Creates
<1>0. /\ People!TypeOK /\ account \in [People!Names -> {"none", "superadmin", "local", "ldap", "oidc"}]
      /\ \A r \in AccountRequests : accountReq[r] \in AccountRequest /\ accountReq[r].mode \in AccountModes
      /\ \A r \in AccountRequests : accountReq[r].kind \in UserKinds => accountReq[r].user \in People!Names
  BY DEF AccountTypes, RequestTypes, People!TypeOK, AccountRequest
<1>1. ASSUME NEW r \in AccountRequests, NEW by \in Admins, People!Local(r, by) PROVE G
  <2>1. CASE People!InsertUser(r)
    <3>1. CASE account[accountReq[r].user] = "none"
      <4>1. accountReq[r].user \in People!Names
        BY <1>0, <2>1 DEF People!InsertUser, People!At, UserKinds
      <4>2. account' = [account EXCEPT ![accountReq[r].user] = "local"]
        BY <2>1, <3>1 DEF People!InsertUser
      <4>3. PICK S : S = {accountReq[r].user}
        OBVIOUS
      <4>4. /\ S \in SUBSET People!Names /\ \A u \in S : account[u] # "superadmin"
            /\ \A u \in People!Names : account'[u] = IF u \in S THEN "local" ELSE account[u]
        BY <1>0, <3>1, <4>1, <4>2, <4>3
      <4>5. "local" \in AccountModes
        BY DEF AccountModes
      <4> QED
        BY <4>4, <4>5 DEF Converts
    <3> QED
      BY <2>1, <3>1 DEF People!InsertUser
  <2>2. CASE People!RollBackUser(r)
    <3>1. People!DeleteUsers({accountReq[r].user}) /\ account[accountReq[r].user] # "superadmin"
      BY <2>2 DEF People!RollBackUser, People!At, Guarded
    <3> QED
      BY <3>1, DropsAre
  <2>3. CASE People!DeleteRecord(r)
    <3>1. /\ account' = account \/ People!DeleteUsers({accountReq[r].user})
          /\ account[accountReq[r].user] # "superadmin"
      BY <2>3 DEF People!DeleteRecord, People!At, Guarded
    <3> QED
      BY <3>1, DropsAre
  <2>4. CASE People!DeleteSuperadmin(r)
    <3>1. /\ People!At(r, "superadmin_delete", "record")
          /\ People!DeleteUsers({accountReq[r].user} \cap {u \in People!Names : account[u] # "none"})
      BY <2>4 DEF People!DeleteSuperadmin
    <3>2. \A u \in People!Names : /\ account'[u] \in {"none", account[u]}
                                  /\ u # accountReq[r].user => account'[u] = account[u]
      BY <1>0, <3>1, Deletes
    <3> QED
      BY <3>1, <3>2 DEF DropsSuperadmin
  <2>5. CASE \E a \in Admins : People!SuperadminCreate(by, a)
    BY <2>5 DEF Creates
  <2>6. CASE \/ \E u \in Users : People!UserCreate(r, by, u)
             \/ \E u \in People!Names : People!UserDelete(r, by, u)
             \/ \E a \in Admins : People!SuperadminDelete(r, by, a)
             \/ People!InitCreated(r) \/ People!DeleteArchives(r) \/ People!ArchiveFails(r)
             \/ \E g \in Groups : \/ \E p \in Groups \cup {"top"} : People!GroupCreate(by, g, p)
                                  \/ People!GroupDelete(by, g)
                                  \/ \E u \in Users : People!GroupMembersAdd(by, g, {u}) \/ People!GroupMembersRemove(by, g, u)
             \/ \E S \in SUBSET Users : People!WhitelistPost(by, S)
    BY <2>6 DEF People!UserCreate, People!UserDelete, People!SuperadminDelete, People!InitCreated, People!DeleteArchives,
                People!ArchiveFails, People!GroupCreate, People!GroupDelete, People!GroupMembersAdd,
                People!GroupMembersRemove, People!WhitelistPost, People!tables
  <2> QED
    BY <1>1, <2>1, <2>2, <2>3, <2>4, <2>5, <2>6 DEF People!Local
<1>2. ASSUME NEW r \in AccountRequests, People!Login(r) PROVE G
  <2>1. CASE People!LoginEnsure(r)
    <3>1. CASE People!CanEnsure(accountReq[r].user)
      <4>1. /\ People!EnsureExternalUser({accountReq[r].user}, accountReq[r].mode) /\ accountReq[r].user \in People!Names
            /\ account[accountReq[r].user] # "superadmin"
        BY <1>0, <2>1, <3>1 DEF People!LoginEnsure, People!At, UserKinds, People!CanEnsure
      <4>2. PICK S : S = {accountReq[r].user}
        OBVIOUS
      <4> QED
        BY <1>0, <4>1, <4>2, ConvertsAre
    <3> QED
      BY <2>1, <3>1 DEF People!LoginEnsure
  <2>2. CASE \/ \E u \in People!Names : People!LoginStart(r, u)
             \/ \E S \in SUBSET Groups : People!LoginClaims(r, S)
             \/ People!LoginInit(r)
    BY <2>2 DEF People!LoginStart, People!LoginClaims, People!LoginInit, People!tables
  <2> QED
    BY <1>2, <2>1, <2>2 DEF People!Login
<1>3. ASSUME NEW r \in AccountRequests, NEW by \in Admins, People!Sync(r, by) PROVE G
  <2>1. ASSUME NEW u \in People!Names, People!EnsureNext(r, u) PROVE G
    <3>1. CASE People!CanEnsure(u)
      <4>1. People!EnsureExternalUser({u}, accountReq[r].mode) /\ account[u] # "superadmin"
        BY <2>1, <3>1 DEF People!EnsureNext, People!CanEnsure
      <4>2. PICK S : S = {u}
        OBVIOUS
      <4> QED
        BY <1>0, <4>1, <4>2, ConvertsAre
    <3> QED
      BY <2>1, <3>1 DEF People!EnsureNext
  <2>2. ASSUME NEW u \in People!Names, People!CleanUp(r, u) PROVE G
    <3>1. People!DeleteUsers({u}) /\ account[u] # "superadmin"
      BY <2>2 DEF People!CleanUp, People!Syncing, SyncKinds, Guarded
    <3> QED
      BY <3>1, DropsAre
  <2>3. CASE People!DropLocals(r)
    <3>1. People!DeleteUsers({u \in People!Names : account[u] = "local"})
      BY <2>3 DEF People!DropLocals
    <3> QED
      BY <3>1, DropsAre
  <2>4. CASE People!CreateGroups(r)
    <3> DEFINE S == {u \in UNION {accountReq[r].snap.members[g] : g \in accountReq[r].snap.groups} : People!CanEnsure(u)}
    <3>1. People!EnsureExternalUser(S, accountReq[r].mode)
      BY <2>4 DEF People!CreateGroups
    <3>2. S \in SUBSET People!Names
      BY <1>0 DEF AccountRequest, Snapshot
    <3>3. \A u \in S : account[u] # "superadmin"
      BY DEF People!CanEnsure
    <3> HIDE DEF S
    <3> QED
      BY <1>0, <3>1, <3>2, <3>3, ConvertsAre
  <2>5. CASE \/ \E k \in SyncKinds : People!SyncStart(r, k, by) \/ People!SyncStart(r, k, "nobody")
             \/ People!FetchUsers(r) \/ People!FetchFails(r) \/ People!Memberships(r) \/ People!InitAllowed(r)
             \/ People!CleanedUp(r) \/ People!FetchGroups(r) \/ People!ReplaceGroupMembersBySource(r)
             \/ People!ClearParents(r) \/ People!SetParents(r) \/ People!Synced(r)
    BY <2>5 DEF People!SyncStart, People!FetchUsers, People!FetchFails, People!Memberships, People!InitAllowed,
                People!CleanedUp, People!FetchGroups, People!ReplaceGroupMembersBySource, People!ClearParents,
                People!SetParents, People!Synced, People!tables
  <2> QED
    BY <1>3, <2>1, <2>2, <2>3, <2>4, <2>5 DEF People!Sync, SyncKinds, People!Nobody
<1>4. ASSUME NEW r \in AccountRequests, NEW by \in Admins, People!Config(r, by) PROVE G
  <2>1. CASE People!Purge(r)
    <3>1. People!DeleteUsers(People!Ordinary)
      BY <2>1 DEF People!Purge
    <3> QED
      BY <3>1, DropsAre DEF People!Ordinary
  <2>2. CASE \/ \E m \in AccountModes : People!ConfigSave(r, by, m)
             \/ People!ClearAllGroups(r) \/ People!RemoveAllUserData(r) \/ People!WipeFails(r) \/ People!RestartSyncTimer(r)
    BY <2>2 DEF People!ConfigSave, People!ClearAllGroups, People!RemoveAllUserData, People!WipeFails,
                People!RestartSyncTimer, People!tables
  <2> QED
    BY <1>4, <2>1, <2>2 DEF People!Config, AccountModes
<1>5. ASSUME People!DirectoryChanges \/ \E u \in People!Names : People!LateGroups(u) PROVE G
  BY <1>5 DEF People!DirectoryChanges, People!LateGroups, People!tables
<1> QED
  BY <1>1, <1>2, <1>3, <1>4, <1>5 DEF People!Next

LEMMA GuardKeeps ==
    ASSUME AccountTypes, Guarded, People!Next
    PROVE  /\ People!SuperadminStays
           /\ ~Creates => \A u \in People!Names : account'[u] = "superadmin" => account[u] = "superadmin"
<1>1. account' = account \/ Converts \/ Drops \/ DropsSuperadmin \/ Creates
  BY AccountsChange
<1>2. People!SuperadminStays
  <2> SUFFICES ASSUME NEW a \in People!Names, account[a] = "superadmin", account'[a] # "superadmin"
               PROVE  \E r \in AccountRequests : People!At(r, "superadmin_delete", "record") /\ accountReq[r].user = a
    BY DEF People!SuperadminStays
  <2>1. ~Creates
    BY DEF Creates, People!SuperadminCreate, AccountTypes, People!TypeOK
  <2>2. ~Converts /\ ~Drops
    BY DEF Converts, Drops
  <2> QED
    BY <1>1, <2>1, <2>2 DEF DropsSuperadmin
<1>3. ASSUME ~Creates, NEW u \in People!Names, account'[u] = "superadmin" PROVE account[u] = "superadmin"
  <2>1. CASE Converts
    BY <1>3, <2>1 DEF Converts, AccountModes
  <2>2. CASE Drops
    BY <1>3, <2>2 DEF Drops
  <2>3. CASE DropsSuperadmin
    BY <1>3, <2>3 DEF DropsSuperadmin
  <2> QED
    BY <1>1, <1>3, <2>1, <2>2, <2>3
<1> QED
  BY <1>2, <1>3

\* What a step may do to the requests: one begins, goes on or ends.
Acts(r) ==
    /\ \A x \in AccountRequests \ {r} : accountReq'[x] = accountReq[x]
    /\ \/ accountReq'[r] = accountReq[r]
       \/ accountReq[r].at = "idle" /\ served' = served + 1 /\ accountReq'[r].at # "stale"
       \/ /\ accountReq'[r].kind \in {accountReq[r].kind, "idle"}
          /\ accountReq'[r].kind \in SyncKinds /\ accountReq'[r].at = "stale" =>
                 \/ account' = account /\ accountReq'[r].todo \subseteq People!Ordinary
                 \/ accountReq[r].at = "stale" /\ accountReq'[r].todo \subseteq accountReq[r].todo

LEMMA GoActs ==
    ASSUME AccountTypes, NEW r \in AccountRequests, NEW a \in AccountPlaces \ {"memberships", "stale"}, People!Go(r, a)
    PROVE  Acts(r)
<1>1. a \in AccountPlaces \ {"memberships"} /\ a # "stale"
  OBVIOUS
<1>2. /\ \A x \in AccountRequests \ {r} : accountReq'[x] = accountReq[x]
      /\ accountReq'[r].at = a /\ accountReq'[r].kind = accountReq[r].kind
  BY <1>1, AccountGoes
<1> QED
  BY <1>1, <1>2 DEF Acts

LEMMA DoneActs == ASSUME AccountTypes, NEW r \in AccountRequests, People!Done(r) PROVE Acts(r)
BY AccountEnds DEF Acts

LEMMA TurnActs ==
    ASSUME NEW r \in AccountRequests, NEW a, NEW u, NEW al, NEW td, NEW sn, Turns(r, a, u, al, td, sn),
           a = "stale" => \/ account' = account /\ td \subseteq People!Ordinary
                          \/ accountReq[r].at = "stale" /\ td \subseteq accountReq[r].todo
    PROVE  Acts(r)
BY DEF Acts, Turns

LEMMA BriefActs == ASSUME NEW r \in AccountRequests, accountReq' = accountReq PROVE Acts(r)
BY DEF Acts

LEMMA LocalActs ==
    ASSUME AccountTypes, NEW r \in AccountRequests, NEW by \in Admins, People!Local(r, by) PROVE Acts(r)
<1>0. by \in People!Names \cup {"nobody"} /\ \A u \in Admins \cup Users : u \in People!Names
  BY DEF People!Names
<1>1. ASSUME NEW u \in People!Names,
             \/ People!UserCreate(r, by, u) \/ People!UserDelete(r, by, u) \/ People!SuperadminDelete(r, by, u)
      PROVE  Acts(r)
  <2>1. PICK k \in {"create", "delete", "superadmin_delete"}, a \in {"insert", "archive", "record"} :
            People!Begin(r, k, by, u, a)
    BY <1>1 DEF People!UserCreate, People!UserDelete, People!SuperadminDelete
  <2>2. k \in AccountKinds /\ a \in AccountPlaces \ {"memberships"} /\ u \in People!Names \cup {"nobody"} /\ a # "stale"
    BY <2>1 DEF AccountKinds, AccountPlaces
  <2> QED
    BY <1>0, <2>1, <2>2, AccountBegins DEF Acts
<1>2. ASSUME People!Go(r, "init") \/ People!Go(r, "record") \/ People!Done(r) PROVE Acts(r)
  <2>1. "init" \in AccountPlaces \ {"memberships", "stale"} /\ "record" \in AccountPlaces \ {"memberships", "stale"}
    BY DEF AccountPlaces
  <2> QED
    BY <1>2, <2>1, GoActs, DoneActs
<1>3. \/ \E u \in People!Names : People!UserCreate(r, by, u) \/ People!UserDelete(r, by, u) \/ People!SuperadminDelete(r, by, u)
      \/ People!Go(r, "init") \/ People!Go(r, "record") \/ People!Done(r)
      \/ accountReq' = accountReq
  <2>1. CASE \/ People!InsertUser(r) \/ People!InitCreated(r) \/ People!RollBackUser(r) \/ People!DeleteArchives(r)
             \/ People!ArchiveFails(r) \/ People!DeleteRecord(r) \/ People!DeleteSuperadmin(r)
    BY <2>1 DEF People!InsertUser, People!InitCreated, People!RollBackUser, People!DeleteArchives,
                People!ArchiveFails, People!DeleteRecord, People!DeleteSuperadmin
  <2>2. CASE \/ \E a \in Admins : People!SuperadminCreate(by, a)
             \/ \E g \in Groups : \/ \E p \in Groups \cup {"top"} : People!GroupCreate(by, g, p)
                                  \/ People!GroupDelete(by, g)
                                  \/ \E u \in Users : People!GroupMembersAdd(by, g, {u}) \/ People!GroupMembersRemove(by, g, u)
             \/ \E S \in SUBSET Users : People!WhitelistPost(by, S)
    BY <2>2 DEF People!SuperadminCreate, People!GroupCreate, People!GroupDelete, People!GroupMembersAdd,
                People!GroupMembersRemove, People!WhitelistPost
  <2> QED
    BY <1>0, <2>1, <2>2 DEF People!Local
<1> QED
  BY <1>1, <1>2, <1>3, BriefActs

LEMMA LoginActs == ASSUME AccountTypes, NEW r \in AccountRequests, People!Login(r) PROVE Acts(r)
<1>1. ASSUME NEW u \in People!Names, People!LoginStart(r, u) PROVE Acts(r)
  <2>1. PICK a \in {"ensure", "init"} : People!Begin(r, "login", "nobody", u, a)
    BY <1>1 DEF People!LoginStart, People!Nobody
  <2>2. /\ "login" \in AccountKinds /\ a \in AccountPlaces \ {"memberships"} /\ "nobody" \in People!Names \cup {"nobody"}
        /\ u \in People!Names \cup {"nobody"} /\ a # "stale"
    BY <2>1 DEF AccountKinds, AccountPlaces
  <2> QED
    BY <2>1, <2>2, AccountBegins DEF Acts
<1>2. ASSUME People!Go(r, "claims") \/ People!Go(r, "init") \/ People!Done(r) PROVE Acts(r)
  <2>1. "init" \in AccountPlaces \ {"memberships", "stale"} /\ "claims" \in AccountPlaces \ {"memberships", "stale"}
    BY DEF AccountPlaces
  <2> QED
    BY <1>2, <2>1, GoActs, DoneActs
<1>3. \/ \E u \in People!Names : People!LoginStart(r, u)
      \/ People!Go(r, "claims") \/ People!Go(r, "init") \/ People!Done(r)
  BY DEF People!Login, People!LoginEnsure, People!LoginClaims, People!LoginInit
<1> QED
  BY <1>1, <1>2, <1>3

LEMMA SyncActs ==
    ASSUME AccountTypes, NEW r \in AccountRequests, NEW by \in Admins, People!Sync(r, by) PROVE Acts(r)
<1>0. by \in People!Names \cup {"nobody"} /\ "nobody" \in People!Names \cup {"nobody"}
  BY DEF People!Names
<1>1. ASSUME NEW k \in SyncKinds, NEW b \in People!Names \cup {"nobody"}, People!SyncStart(r, k, b) PROVE Acts(r)
  BY <1>1, SyncStarts DEF Acts
<1>2. ASSUME People!Go(r, "hierarchy") \/ People!Go(r, "clear") \/ People!Go(r, "parents") \/ People!Go(r, "synced")
             \/ People!Done(r)
      PROVE  Acts(r)
  <2>1. /\ "hierarchy" \in AccountPlaces \ {"memberships", "stale"} /\ "clear" \in AccountPlaces \ {"memberships", "stale"}
        /\ "parents" \in AccountPlaces \ {"memberships", "stale"} /\ "synced" \in AccountPlaces \ {"memberships", "stale"}
    BY DEF AccountPlaces
  <2> QED
    BY <1>2, <2>1, GoActs, DoneActs
<1>3. ASSUME \/ People!CleanedUp(r) \/ People!ReplaceGroupMembersBySource(r) \/ People!ClearParents(r)
             \/ People!SetParents(r) \/ People!Synced(r)
      PROVE  Acts(r)
  BY <1>2, <1>3 DEF People!CleanedUp, People!ReplaceGroupMembersBySource, People!ClearParents, People!SetParents, People!Synced
<1>4. ASSUME People!FetchUsers(r) PROVE Acts(r)
  BY <1>4, SyncSteps, TurnActs
<1>5. ASSUME accountReq[r].kind \in SyncKinds, People!Abandon(r) PROVE Acts(r)
  BY <1>5, SyncSteps, TurnActs, DoneActs
<1>6. ASSUME People!FetchFails(r) PROVE Acts(r)
  BY <1>5, <1>6 DEF People!FetchFails, People!Syncing, SyncKinds
<1>7. ASSUME NEW u \in People!Names, People!EnsureNext(r, u) PROVE Acts(r)
  <2>1. CASE People!CanEnsure(u)
    BY <1>7, <2>1, SyncSteps, TurnActs
  <2>2. CASE ~People!CanEnsure(u)
    BY <1>5, <1>7, <2>2 DEF People!EnsureNext, People!Syncing, SyncKinds
  <2> QED
    BY <2>1, <2>2
<1>8. ASSUME NEW u \in People!Names, People!CleanUp(r, u) PROVE Acts(r)
  <2>1. accountReq[r].at = "stale" /\ accountReq[r].todo \ {u} \subseteq accountReq[r].todo
    BY <1>8 DEF People!CleanUp, People!Syncing
  <2> QED
    BY <1>8, <2>1, SyncSteps, TurnActs
<1>9. ASSUME People!Memberships(r) \/ People!DropLocals(r) PROVE Acts(r)
  BY <1>9, SyncSteps, TurnActs
<1>10. ASSUME People!InitAllowed(r) PROVE Acts(r)
  <2>1. account' = account /\ People!Ordinary \ accountReq[r].allowed \subseteq People!Ordinary
    BY <1>10 DEF People!InitAllowed
  <2> QED
    BY <1>10, <2>1, SyncSteps, TurnActs
<1>11. ASSUME People!FetchGroups(r) \/ People!CreateGroups(r) PROVE Acts(r)
  BY <1>11, GroupSteps, TurnActs, DoneActs
<1> QED
  BY <1>0, <1>1, <1>3, <1>4, <1>6, <1>7, <1>8, <1>9, <1>10, <1>11 DEF People!Sync, SyncKinds, People!Nobody

LEMMA ConfigActs ==
    ASSUME AccountTypes, NEW r \in AccountRequests, NEW by \in Admins, People!Config(r, by) PROVE Acts(r)
<1>1. ASSUME NEW m \in AccountModes, People!ConfigSave(r, by, m) PROVE Acts(r)
  <2>1. PICK a \in {"timer", "purge"} : People!Begin(r, "config", by, "nobody", a)
    BY <1>1 DEF People!ConfigSave, People!Nobody
  <2>2. /\ "config" \in AccountKinds /\ a \in AccountPlaces \ {"memberships"} /\ "nobody" \in People!Names \cup {"nobody"}
        /\ "config" \notin UserKinds /\ by \in People!Names \cup {"nobody"} /\ a # "stale"
    BY <2>1 DEF AccountKinds, AccountPlaces, UserKinds, People!Names
  <2> QED
    BY <2>1, <2>2, AccountBegins DEF Acts
<1>2. ASSUME People!Go(r, "ungroup") \/ People!Go(r, "wipe") \/ People!Go(r, "timer") \/ People!Done(r) PROVE Acts(r)
  <2>1. /\ "ungroup" \in AccountPlaces \ {"memberships", "stale"} /\ "wipe" \in AccountPlaces \ {"memberships", "stale"}
        /\ "timer" \in AccountPlaces \ {"memberships", "stale"}
    BY DEF AccountPlaces
  <2> QED
    BY <1>2, <2>1, GoActs, DoneActs
<1>3. \/ \E m \in AccountModes : People!ConfigSave(r, by, m)
      \/ People!Go(r, "ungroup") \/ People!Go(r, "wipe") \/ People!Go(r, "timer") \/ People!Done(r)
  BY DEF People!Config, People!Purge, People!ClearAllGroups, People!RemoveAllUserData, People!WipeFails,
         People!RestartSyncTimer, AccountModes
<1> QED
  BY <1>1, <1>2, <1>3

LEMMA OneActs == ASSUME AccountTypes, People!Next PROVE accountReq' = accountReq \/ \E r \in AccountRequests : Acts(r)
BY LocalActs, LoginActs, SyncActs, ConfigActs DEF People!Next, People!LateGroups, People!DirectoryChanges

-----------------------------------------------------------------------------
\* A few kinds of requests at once.
FewAtOnce == \A r \in AccountRequests : accountReq[r].kind \in Few \cup {"idle"}
FewInv == AccountTypes /\ Guarded /\ FewAtOnce

LEMMA FewStepped == ASSUME FewInv, part = "superadmins", AccountPart PROVE FewInv' /\ People!SuperadminStays
<1>1. /\ People!Next
      /\ served' # served => \E r \in AccountRequests : accountReq[r].at = "idle" /\ accountReq'[r].kind \in Few
  BY DEF AccountPart
<1>2. /\ AccountTypes /\ Guarded /\ FewAtOnce /\ served \in Nat
      /\ \A r \in AccountRequests : accountReq[r].at = "idle" => accountReq[r].kind = "idle"
  BY IdleRequest DEF FewInv, AccountTypes, RequestTypes
<1>3. served + 1 # served
  BY <1>2
<1>4. "idle" \notin Few /\ "create" \notin Few /\ "delete" \notin Few
  BY DEF Few
<1>5. ~Creates
  <2> SUFFICES ASSUME NEW by \in Admins, NEW a \in Admins, People!SuperadminCreate(by, a) PROVE FALSE
    BY DEF Creates
  <2>1. served' = served + 1 /\ accountReq' = accountReq
    BY DEF People!SuperadminCreate, People!Brief
  <2> QED
    BY <1>1, <1>2, <1>3, <1>4, <2>1
<1>6. AccountTypes' /\ People!SuperadminStays
  BY <1>1, <1>2, PeopleTypes, GuardKeeps
<1>7. \A u \in People!Names : account'[u] = "superadmin" => account[u] = "superadmin"
  BY <1>1, <1>2, <1>5, GuardKeeps
<1>8. FewAtOnce'
  <2>1. CASE accountReq' = accountReq
    BY <1>2, <2>1 DEF FewAtOnce
  <2>2. ASSUME NEW r \in AccountRequests, Acts(r) PROVE FewAtOnce'
    BY <1>1, <1>2, <1>3, <1>4, <2>2 DEF FewAtOnce, Acts
  <2> QED
    BY <1>1, <1>2, <2>1, <2>2, OneActs
<1>9. Guarded'
  <2> SUFFICES ASSUME NEW x \in AccountRequests, accountReq'[x].kind \in SyncKinds, accountReq'[x].at = "stale",
                      NEW u \in accountReq'[x].todo
               PROVE  account'[u] # "superadmin"
    BY <1>4, <1>8 DEF Guarded, FewAtOnce
  <2>1. u \in People!Names
    BY <1>6 DEF AccountTypes, RequestTypes, AccountRequest
  <2>2. CASE accountReq'[x] = accountReq[x]
    BY <1>2, <1>7, <2>1, <2>2 DEF Guarded
  <2>3. CASE accountReq'[x] # accountReq[x]
    <3>1. Acts(x)
      BY <1>1, <1>2, <2>3, OneActs DEF Acts
    <3>2. CASE accountReq[x].at = "idle" /\ accountReq'[x].at # "stale"
      BY <3>2
    <3>3. CASE account' = account /\ accountReq'[x].todo \subseteq People!Ordinary
      BY <3>3 DEF People!Ordinary
    <3>4. CASE accountReq[x].at = "stale" /\ accountReq'[x].todo \subseteq accountReq[x].todo /\ accountReq[x].kind = accountReq'[x].kind
      BY <1>2, <1>7, <2>1, <3>4 DEF Guarded
    <3>5. "idle" \notin SyncKinds
      BY DEF SyncKinds
    <3> QED
      BY <2>3, <3>1, <3>2, <3>3, <3>4, <3>5 DEF Acts
  <2> QED
    BY <2>2, <2>3
<1> QED
  BY <1>6, <1>8, <1>9 DEF FewInv

-----------------------------------------------------------------------------
(* Accounts: one request at a time.                                           *)

Alone == \A r \in AccountRequests \ {TheRequest} : accountReq[r].at = "idle"

\* Groups form a tree of groups there are.
Treed == People!GroupsAreATree /\ \A c \in Groups : parent[c] \in Groups => group[parent[c]] # "none"

\* Accounts and groups are of the source there is, but while those of the one
\* before are removed; and no row is nobody's.
NoOrphans == \A u \in rows : account[u] # "none"
OwnAccounts == \A u \in People!Names : account[u] \in {"none", "superadmin", mode}
OwnGroups == \A g \in Groups : group[g] \in {"none", mode}
Sourced ==
    LET q == accountReq[TheRequest] IN
    /\ NoOrphans
    /\ ~(q.kind = "config" /\ q.at = "purge") => OwnAccounts
    /\ ~(q.kind = "config" /\ q.at \in {"purge", "ungroup"}) => OwnGroups

\* What is so while a user's request is served.
Serving ==
    LET q == accountReq[TheRequest] IN
    /\ q.kind # "config" /\ q.at # "idle" => q.mode = mode
    /\ q.kind = "login" => q.at = "init" \/ q.mode # "local"
    /\ q.kind = "login" /\ q.at # "ensure" => account[q.user] = mode
    /\ q.kind = "create" => mode = "local"
    /\ q.kind = "create" /\ q.at = "init" => account[q.user] = "local"
    /\ q.kind = "delete" => account[q.user] # "superadmin"

\* How far a synchronisation has come with the users ...
SyncedUsers ==
    LET q == accountReq[TheRequest] IN
    q.kind \in SyncKinds =>
        /\ mode = "ldap"
        /\ q.at \in {"ensure", "memberships"} =>
               q.todo \subseteq q.allowed /\ \A u \in q.allowed \ q.todo : account[u] = mode
        /\ q.at = "memberships" => account[q.user] = mode
        /\ q.at = "init" => \A u \in q.allowed : account[u] = mode
        /\ q.at = "stale" => /\ \A u \in People!Names : u \in People!Ordinary <=> u \in q.allowed \/ u \in q.todo
                             /\ \A u \in q.todo : u \notin q.allowed
        /\ q.kind = "timer" /\ q.at \in {"hierarchy", "create"} /\ q.allowed # {} => People!Ordinary = q.allowed
        /\ q.kind = "timer" /\ q.at \in {"replace", "clear", "parents", "synced"} /\ q.allowed # {} =>
               People!Ordinary = q.allowed \cup UNION {q.snap.members[g] : g \in q.snap.groups}

\* ... and with the groups.
SyncedGroups ==
    LET q == accountReq[TheRequest] IN
    q.kind \in SyncKinds =>
        /\ q.quiet => late = {}
        /\ q.at \in {"create", "replace", "clear", "parents"} =>
               \A S \in (SUBSET q.snap.groups) \ {{}} : \E g \in S : \A p \in S : g \notin q.snap.subs[p]
        /\ q.at = "parents" => \A g \in q.snap.groups : parent[g] = "top"
        /\ q.at \in {"clear", "parents", "synced"} /\ q.quiet =>
               {m \in member : group[m[2]] = mode} = UNION {q.snap.members[g] \X {g} : g \in q.snap.groups}

AloneInv == AccountTypes /\ Alone /\ Treed /\ Sourced /\ Serving /\ SyncedUsers /\ SyncedGroups

\* The first request, who is served when anybody is.
LEMMA ThereIsTheRequest == TheRequest \in AccountRequests
BY AdminAssumption DEF TheRequest

LEMMA AloneStart == People!Init /\ served = 0 => AloneInv /\ FewInv
<1> SUFFICES ASSUME People!Init PROVE AloneInv /\ FewInv
  OBVIOUS
<1>1. /\ account = [u \in People!Names |-> IF u \in Admins THEN "superadmin" ELSE "none"]
      /\ group = [g \in Groups |-> "none"] /\ parent = [g \in Groups |-> "top"] /\ member = {}
      /\ rows = {} /\ home = {} /\ archived = {} /\ mode \in AccountModes /\ timer \in {"on", "off"}
      /\ whitelist = {} /\ dir \in Directories /\ accountReq = [r \in AccountRequests |-> People!Idle]
      /\ late = {} /\ served = 0
  BY DEF People!Init, AccountModes
<1>2. \A r \in AccountRequests : accountReq[r] = People!Idle
  BY <1>1
<1>3. RequestTypes
  <2>1. accountReq \in [AccountRequests -> AccountRequest]
    BY <1>1, IdleRequest
  <2>2. "idle" \notin UserKinds
    BY DEF UserKinds
  <2> QED
    BY <1>2, <2>1, <2>2, IdleRequest DEF RequestTypes
<1>4. AccountTypes
  BY <1>1, <1>3 DEF AccountTypes, People!TypeOK, AccountModes
<1>5. \A r \in AccountRequests : accountReq[r].at = "idle" /\ accountReq[r].kind = "idle"
  BY <1>2, IdleRequest
<1>6. accountReq[TheRequest].at = "idle" /\ accountReq[TheRequest].kind = "idle"
  BY <1>5, ThereIsTheRequest
<1>7. Treed
  BY <1>1, AdminAssumption DEF Treed, People!GroupsAreATree
<1>8. Sourced
  BY <1>1 DEF Sourced, NoOrphans, OwnAccounts, OwnGroups
<1>9. Serving /\ SyncedUsers /\ SyncedGroups
  BY <1>6 DEF Serving, SyncedUsers, SyncedGroups, SyncKinds
<1>10. Guarded /\ FewAtOnce
  BY <1>5 DEF Guarded, FewAtOnce, SyncKinds
<1> QED
  BY <1>4, <1>5, <1>7, <1>8, <1>9, <1>10 DEF AloneInv, FewInv, Alone

LEMMA AloneGuards == AloneInv => Guarded
<1> SUFFICES ASSUME AloneInv, NEW r \in AccountRequests
             PROVE  LET q == accountReq[r] IN
                    /\ q.kind \in SyncKinds /\ q.at = "stale" => \A u \in q.todo : account[u] # "superadmin"
                    /\ q.kind = "create" /\ q.at = "init" => account[q.user] # "superadmin"
                    /\ q.kind = "delete" => account[q.user] # "superadmin"
  BY DEF Guarded
<1>1. CASE r # TheRequest
  <2>1. accountReq[r].kind = "idle"
    BY <1>1, IdleRequest DEF AloneInv, Alone, AccountTypes, RequestTypes
  <2> QED
    BY <2>1 DEF SyncKinds
<1>2. CASE r = TheRequest
  <2>1. Serving /\ SyncedUsers /\ accountReq[r] \in AccountRequest
    BY DEF AloneInv, AccountTypes, RequestTypes
  <2>2. accountReq[r].todo \subseteq People!Names
    BY <2>1 DEF AccountRequest
  <2> QED
    BY <1>2, <2>1, <2>2 DEF Serving, SyncedUsers, People!Ordinary
<1> QED
  BY <1>1, <1>2

\* It is this request that goes on.
LEMMA Whose ==
    ASSUME AccountTypes, Alone, NEW r \in AccountRequests, r # TheRequest, accountReq'[r] = accountReq[r]
    PROVE  /\ \A by \in Admins : People!Local(r, by) => People!Local(TheRequest, by)
           /\ ~People!Login(r)
           /\ \A by \in Admins : ~People!Sync(r, by) /\ ~People!Config(r, by)
<1>1. accountReq[r].at = "idle" /\ accountReq'[r].at = "idle"
  BY DEF Alone
<1>2. \A by \in Admins : by \in People!Names \cup {"nobody"}
  BY DEF People!Names
<1>3. "nobody" \in People!Names \cup {"nobody"} /\ \A u \in People!Names : u \in People!Names \cup {"nobody"}
  OBVIOUS
<1>4. ASSUME NEW k, NEW by, NEW u, NEW a, a # "idle", People!Begin(r, k, by, u, a) PROVE FALSE
  <2>1. accountReq' = [accountReq EXCEPT ![r] = [People!Idle EXCEPT !.kind = k, !.by = by, !.user = u, !.at = a,
                                                                   !.mode = mode, !.quiet = (late = {})]]
    BY <1>4 DEF People!Begin
  <2>2. r \in DOMAIN accountReq
    BY DEF AccountTypes, RequestTypes
  <2>3. accountReq'[r].at = a
    BY <2>1, <2>2 DEF People!Idle
  <2> QED
    BY <1>1, <1>4, <2>3
<1>5. ~People!Login(r)
  BY <1>1, <1>4 DEF People!Login, People!LoginStart, People!LoginEnsure, People!LoginClaims, People!LoginInit, People!At
<1>6. ASSUME NEW by \in Admins PROVE ~People!Sync(r, by)
  BY <1>1, <1>4 DEF People!Sync, People!SyncStart, People!FetchUsers, People!FetchFails, People!EnsureNext, People!CleanUp,
     People!Memberships, People!DropLocals, People!InitAllowed, People!CleanedUp, People!FetchGroups, People!CreateGroups,
     People!ReplaceGroupMembersBySource, People!ClearParents, People!SetParents, People!Synced, People!Syncing
<1>7. ASSUME NEW by \in Admins PROVE ~People!Config(r, by)
  BY <1>1, <1>4 DEF People!Config, People!ConfigSave, People!Purge, People!ClearAllGroups, People!RemoveAllUserData,
     People!WipeFails, People!RestartSyncTimer, People!At
<1>8. ASSUME NEW by \in Admins, People!Local(r, by) PROVE People!Local(TheRequest, by)
  <2>1. \A u \in People!Names : ~People!UserCreate(r, by, u) /\ ~People!UserDelete(r, by, u) /\ ~People!SuperadminDelete(r, by, u)
    BY <1>4 DEF People!UserCreate, People!UserDelete, People!SuperadminDelete
  <2>2. ~(\/ People!InsertUser(r) \/ People!InitCreated(r) \/ People!RollBackUser(r) \/ People!DeleteArchives(r)
          \/ People!ArchiveFails(r) \/ People!DeleteRecord(r) \/ People!DeleteSuperadmin(r))
    BY <1>1 DEF People!InsertUser, People!InitCreated, People!RollBackUser, People!DeleteArchives,
                People!ArchiveFails, People!DeleteRecord, People!DeleteSuperadmin, People!At
  <2>3. \A u \in Admins \cup Users : u \in People!Names
    BY DEF People!Names
  <2> QED
    BY <1>8, <2>1, <2>2, <2>3 DEF People!Local
<1> QED
  BY <1>5, <1>6, <1>7, <1>8

-----------------------------------------------------------------------------
\* What keeps the parts of the invariant.
LEMMA TreeShrinks ==
    ASSUME Treed, \A c \in Groups : parent'[c] \in {"top", parent[c]},
           \A c \in Groups : parent'[c] \in Groups => group'[parent'[c]] # "none"
    PROVE  Treed'
<1>1. ASSUME NEW S \in (SUBSET Groups) \ {{}} PROVE \E g \in S : parent'[g] \notin S
  <2>1. PICK g \in S : parent[g] \notin S
    BY DEF Treed, People!GroupsAreATree
  <2> QED
    BY <2>1, AdminAssumption
<1> QED
  BY <1>1 DEF Treed, People!GroupsAreATree

LEMMA TreeStays ==
    ASSUME Treed, parent' = parent, \A g \in Groups : group[g] # "none" => group'[g] # "none" PROVE Treed'
BY DEF Treed, People!GroupsAreATree

LEMMA Owned == ASSUME AloneInv, accountReq[TheRequest].kind # "config" PROVE NoOrphans /\ OwnAccounts /\ OwnGroups
BY DEF AloneInv, Sourced

LEMMA SourcedIf == NoOrphans' /\ OwnAccounts' /\ OwnGroups' => Sourced'
BY DEF Sourced

\* Nothing of the accounts changes.
LEMMA OwnedStays ==
    ASSUME mode' = mode
    PROVE  /\ NoOrphans /\ account' = account /\ rows' \subseteq rows => NoOrphans'
           /\ OwnAccounts /\ account' = account => OwnAccounts'
           /\ OwnGroups /\ (\A g \in Groups : group'[g] \in {"none", mode, group[g]}) => OwnGroups'
BY DEF NoOrphans, OwnAccounts, OwnGroups

\* Some become accounts of the source, or superadmins.
LEMMA OwnedConverts ==
    ASSUME AccountTypes, OwnAccounts, NoOrphans, mode' = mode, rows' = rows,
           \A u \in People!Names : account'[u] \in {mode, "superadmin", account[u]}
    PROVE  OwnAccounts' /\ NoOrphans'
<1>1. mode # "none" /\ rows \subseteq People!Names
  BY DEF AccountTypes, People!TypeOK
<1> QED
  BY <1>1 DEF OwnAccounts, NoOrphans

\* Some go, with their rows.
LEMMA OwnedDrops ==
    ASSUME AccountTypes, NoOrphans, NEW S, People!DeleteUsers(S), mode' = mode
    PROVE  NoOrphans' /\ (OwnAccounts => OwnAccounts')
<1>1. (\A u \in People!Names : account'[u] = IF u \in S THEN "none" ELSE account[u]) /\ rows' = rows \ S
  BY Deletes DEF AccountTypes
<1>2. rows \subseteq People!Names
  BY DEF AccountTypes, People!TypeOK
<1> QED
  BY <1>1, <1>2 DEF NoOrphans, OwnAccounts

\* Nobody is served any more, or no synchronisation.
LEMMA AtRest ==
    ASSUME RequestTypes', accountReq'[TheRequest].at = "idle" PROVE Serving' /\ SyncedUsers' /\ SyncedGroups'
<1>1. accountReq'[TheRequest].kind = "idle"
  BY ThereIsTheRequest, IdleRequest DEF RequestTypes
<1> QED
  BY <1>1 DEF Serving, SyncedUsers, SyncedGroups, SyncKinds

LEMMA NoSync == ASSUME accountReq'[TheRequest].kind \notin SyncKinds PROVE SyncedUsers' /\ SyncedGroups'
BY DEF SyncedUsers, SyncedGroups

LEMMA AloneEnds ==
    ASSUME AccountTypes, People!Done(TheRequest) PROVE Serving' /\ SyncedUsers' /\ SyncedGroups'
BY ThereIsTheRequest, AccountEnds, AtRest

Unharmed == Treed' /\ Sourced' /\ Serving' /\ SyncedUsers' /\ SyncedGroups'

LEMMA AloneLocal ==
    ASSUME AloneInv, NEW by \in Admins, People!Local(TheRequest, by), served' # served => People!Resting
    PROVE  Unharmed
<1> DEFINE q == accountReq[TheRequest]
<1>0. /\ AccountTypes /\ People!TypeOK /\ RequestTypes /\ served \in Nat /\ TheRequest \in AccountRequests
      /\ Treed /\ Sourced /\ Serving /\ SyncedUsers /\ SyncedGroups
      /\ by \in People!Names \cup {"nobody"} /\ (\A a \in Admins \cup Users : a \in People!Names)
      /\ mode \in AccountModes
  BY ThereIsTheRequest DEF AloneInv, AccountTypes, People!Names, People!TypeOK, AccountModes
<1>1. ASSUME NEW u \in People!Names,
             \/ People!UserCreate(TheRequest, by, u) \/ People!UserDelete(TheRequest, by, u)
             \/ People!SuperadminDelete(TheRequest, by, u)
      PROVE  Unharmed
  <2>1. PICK k \in {"create", "delete", "superadmin_delete"}, a \in {"insert", "archive", "record"} :
            /\ People!Begin(TheRequest, k, by, u, a)
            /\ k = "create" => mode = "local" /\ a # "init"
            /\ k = "delete" => account[u] # "superadmin"
    BY <1>1 DEF People!UserCreate, People!UserDelete, People!SuperadminDelete, People!Unified
  <2>2. /\ k \in AccountKinds /\ a \in AccountPlaces \ {"memberships"} /\ u \in People!Names \cup {"nobody"}
        /\ k \notin SyncKinds
    BY <2>1 DEF AccountKinds, AccountPlaces, SyncKinds
  <2>3. /\ q.at = "idle" /\ accountReq'[TheRequest].kind = k /\ accountReq'[TheRequest].user = u
        /\ accountReq'[TheRequest].at = a /\ accountReq'[TheRequest].mode = mode
    BY <1>0, <2>1, <2>2, AccountBegins
  <2>4. UNCHANGED <<account, group, parent, member, rows, mode>>
    BY <1>1 DEF People!UserCreate, People!UserDelete, People!SuperadminDelete, People!tables, People!config
  <2>5. q.kind # "config"
    BY <1>0, <2>3, IdleRequest DEF RequestTypes
  <2>6. Treed' /\ Sourced'
    BY <1>0, <2>4, <2>5, Owned, OwnedStays, SourcedIf, TreeStays
  <2>7. Serving'
    BY <2>1, <2>3, <2>4 DEF Serving
  <2> QED
    BY <2>2, <2>3, <2>6, <2>7, NoSync DEF Unharmed
<1>2. ASSUME q.kind \in UserKinds, UNCHANGED <<account, group, parent, rows, mode>>, People!Done(TheRequest)
      PROVE  Unharmed
  <2>1. q.kind # "config"
    BY <1>2 DEF UserKinds
  <2> QED
    BY <1>0, <1>2, <2>1, Owned, OwnedStays, SourcedIf, TreeStays, AloneEnds DEF Unharmed
<1>3. ASSUME q.kind \in UserKinds, UNCHANGED <<group, parent, mode>>, NEW S, People!DeleteUsers(S), People!Done(TheRequest)
      PROVE  Unharmed
  <2>1. q.kind # "config"
    BY <1>3 DEF UserKinds
  <2> QED
    BY <1>0, <1>3, <2>1, Owned, OwnedDrops, OwnedStays, SourcedIf, TreeStays, AloneEnds DEF Unharmed
<1>4. ASSUME People!InsertUser(TheRequest) PROVE Unharmed
  <2>1. /\ q.kind = "create" /\ q.kind \in UserKinds /\ q.kind # "config" /\ mode = "local" /\ q.user \in People!Names
        /\ q.kind \notin SyncKinds /\ q.at # "idle"
    BY <1>0, <1>4 DEF People!InsertUser, People!At, UserKinds, Serving, RequestTypes, SyncKinds
  <2>2. UNCHANGED <<group, parent, member, rows, mode>>
    BY <1>4 DEF People!InsertUser, People!config
  <2>3. CASE UNCHANGED account /\ People!Done(TheRequest)
    BY <1>2, <2>1, <2>2, <2>3
  <2>4. CASE account' = [account EXCEPT ![q.user] = "local"] /\ People!Go(TheRequest, "init")
    <3>1. /\ accountReq'[TheRequest].at = "init" /\ accountReq'[TheRequest].kind = "create"
          /\ accountReq'[TheRequest].user = q.user /\ accountReq'[TheRequest].mode = q.mode
      BY <1>0, <2>1, <2>4, AccountGoes DEF AccountPlaces
    <3>2. account'[q.user] = "local" /\ \A u \in People!Names : account'[u] \in {mode, "superadmin", account[u]}
      BY <1>0, <2>1, <2>4 DEF People!TypeOK
    <3>3. Treed' /\ Sourced'
      BY <1>0, <2>1, <2>2, <3>2, Owned, OwnedConverts, OwnedStays, SourcedIf, TreeStays
    <3>4. Serving'
      BY <1>0, <2>1, <2>2, <3>1, <3>2 DEF Serving
    <3> QED
      BY <2>1, <3>1, <3>3, <3>4, NoSync DEF Unharmed
  <2> QED
    BY <1>4, <2>3, <2>4 DEF People!InsertUser
<1>5. ASSUME People!InitCreated(TheRequest) PROVE Unharmed
  <2>1. /\ q.kind = "create" /\ q.kind # "config" /\ account[q.user] = "local"
        /\ UNCHANGED <<account, group, parent, member, mode>> /\ rows' = rows \cup {q.user} /\ People!Done(TheRequest)
    BY <1>0, <1>5 DEF People!InitCreated, People!At, Serving, People!config, People!InitializeUser
  <2>2. NoOrphans'
    BY <2>1, Owned DEF NoOrphans
  <2> QED
    BY <1>0, <2>1, <2>2, Owned, OwnedStays, SourcedIf, TreeStays, AloneEnds DEF Unharmed
<1>6. ASSUME People!RollBackUser(TheRequest) PROVE Unharmed
  BY <1>3, <1>6 DEF People!RollBackUser, People!At, UserKinds, People!config
<1>7. ASSUME People!DeleteArchives(TheRequest) PROVE Unharmed
  <2>1. /\ q.kind = "delete" /\ q.kind # "config" /\ q.kind \notin SyncKinds /\ q.at # "idle"
        /\ UNCHANGED <<account, group, parent, member, rows, mode>> /\ People!Go(TheRequest, "record")
    BY <1>7 DEF People!DeleteArchives, People!At, People!config, SyncKinds
  <2>2. /\ accountReq'[TheRequest].kind = q.kind /\ accountReq'[TheRequest].user = q.user
        /\ accountReq'[TheRequest].mode = q.mode
    BY <1>0, <2>1, AccountGoes DEF AccountPlaces
  <2>3. Serving'
    BY <1>0, <2>1, <2>2 DEF Serving
  <2> QED
    BY <1>0, <2>1, <2>2, <2>3, Owned, OwnedStays, SourcedIf, TreeStays, NoSync DEF Unharmed
<1>8. ASSUME People!ArchiveFails(TheRequest) PROVE Unharmed
  BY <1>2, <1>8 DEF People!ArchiveFails, People!At, UserKinds, People!tables, People!config
<1>9. ASSUME People!DeleteRecord(TheRequest) \/ People!DeleteSuperadmin(TheRequest) PROVE Unharmed
  <2>1. /\ UNCHANGED <<group, parent, mode>> /\ People!Done(TheRequest) /\ q.kind \in UserKinds
        /\ UNCHANGED <<account, rows>> \/ \E S : People!DeleteUsers(S)
    BY <1>9 DEF People!DeleteRecord, People!DeleteSuperadmin, People!config, People!At, UserKinds
  <2> QED
    BY <1>2, <1>3, <2>1
\* What one transaction serves comes when nobody is served.
<1>10. ASSUME served' = served + 1, accountReq' = accountReq
       PROVE  /\ Serving' /\ SyncedUsers' /\ SyncedGroups' /\ NoOrphans /\ OwnAccounts /\ OwnGroups
  <2>1. q.at = "idle" /\ accountReq'[TheRequest].at = "idle" /\ RequestTypes'
    BY <1>0, <1>10, AccountStays DEF People!Resting
  <2>2. q.kind # "config"
    BY <1>0, <2>1, IdleRequest DEF RequestTypes
  <2> QED
    BY <2>1, <2>2, AtRest, Owned
<1>11. ASSUME NEW a \in Admins, People!SuperadminCreate(by, a) PROVE Unharmed
  <2>1. /\ UNCHANGED <<group, parent, member, rows, mode, accountReq>>
        /\ served' = served + 1 /\ account' = [account EXCEPT ![a] = "superadmin"]
    BY <1>11 DEF People!SuperadminCreate, People!Brief, People!config
  <2>2. \A u \in People!Names : account'[u] \in {mode, "superadmin", account[u]}
    BY <1>0, <2>1 DEF People!TypeOK
  <2> QED
    BY <1>0, <1>10, <2>1, <2>2, OwnedConverts, OwnedStays, SourcedIf, TreeStays DEF Unharmed
<1>12. ASSUME NEW g \in Groups, NEW p \in Groups \cup {"top"}, People!GroupCreate(by, g, p) PROVE Unharmed
  <2>1. /\ UNCHANGED <<account, rows, mode, accountReq>> /\ served' = served + 1 /\ mode = "local" /\ group[g] = "none"
        /\ p \in Groups => group[p] # "none"
        /\ group' = [group EXCEPT ![g] = "local"] /\ parent' = [parent EXCEPT ![g] = p]
    BY <1>12, AdminAssumption DEF People!GroupCreate, People!Brief, People!config, People!Unified
  <2>2. /\ group'[g] = "local" /\ parent'[g] = p
        /\ \A c \in Groups \ {g} : group'[c] = group[c] /\ parent'[c] = parent[c] /\ parent[c] # g
    BY <1>0, <2>1 DEF People!TypeOK, Treed
  <2>3. ASSUME NEW S \in (SUBSET Groups) \ {{}} PROVE \E c \in S : parent'[c] \notin S
    <3>1. CASE S \subseteq {g}
      BY <2>1, <2>2, <3>1
    <3>2. CASE ~(S \subseteq {g})
      <4>1. PICK c \in S \ {g} : parent[c] \notin S \ {g}
        BY <1>0, <3>2 DEF Treed, People!GroupsAreATree
      <4> QED
        BY <2>2, <4>1
    <3> QED
      BY <3>1, <3>2
  <2>4. \A c \in Groups : parent'[c] \in Groups => group'[parent'[c]] # "none"
    <3> SUFFICES ASSUME NEW c \in Groups, parent'[c] \in Groups PROVE group'[parent'[c]] # "none"
      OBVIOUS
    <3>1. group[parent'[c]] # "none"
      BY <1>0, <2>1, <2>2 DEF Treed
    <3> QED
      BY <2>1, <2>2, <3>1
  <2>5. Treed'
    BY <2>3, <2>4 DEF Treed, People!GroupsAreATree
  <2>6. \A c \in Groups : group'[c] \in {"none", mode, group[c]}
    BY <2>1, <2>2
  <2> QED
    BY <1>10, <2>1, <2>5, <2>6, OwnedStays, SourcedIf DEF Unharmed
<1>13. ASSUME NEW g \in Groups, People!GroupDelete(by, g) PROVE Unharmed
  <2>1. /\ UNCHANGED <<account, rows, mode, accountReq>> /\ served' = served + 1
        /\ group' = [group EXCEPT ![g] = "none"]
        /\ parent' = [c \in Groups |-> IF c = g \/ parent[c] = g THEN "top" ELSE parent[c]]
    BY <1>13 DEF People!GroupDelete, People!Brief, People!config
  <2>2. /\ \A c \in Groups : parent'[c] \in {"top", parent[c]}
        /\ \A c \in Groups : parent'[c] \in Groups => group'[parent'[c]] # "none"
        /\ \A c \in Groups : group'[c] \in {"none", mode, group[c]}
    BY <1>0, <2>1, AdminAssumption DEF People!TypeOK, Treed
  <2> QED
    BY <1>0, <1>10, <2>1, <2>2, TreeShrinks, OwnedStays, SourcedIf DEF Unharmed
<1>14. ASSUME \/ \E g \in Groups, u \in Users : People!GroupMembersAdd(by, g, {u}) \/ People!GroupMembersRemove(by, g, u)
              \/ \E S \in SUBSET Users : People!WhitelistPost(by, S)
       PROVE  Unharmed
  <2>1. UNCHANGED <<account, group, parent, rows, mode, accountReq>> /\ served' = served + 1
    BY <1>14 DEF People!GroupMembersAdd, People!GroupMembersRemove, People!WhitelistPost, People!Brief, People!config, People!tables
  <2> QED
    BY <1>0, <1>10, <2>1, TreeStays, OwnedStays, SourcedIf DEF Unharmed
<1> QED
  BY <1>0, <1>1, <1>4, <1>5, <1>6, <1>7, <1>8, <1>9, <1>11, <1>12, <1>13, <1>14 DEF People!Local

\* Groups that are made are the source's.
LEMMA OwnedGroups ==
    ASSUME AccountTypes, OwnGroups, NEW S, group' = People!Grouped(S, mode), mode' = mode PROVE OwnGroups'
<1>1. \A g \in Groups : group'[g] \in {"none", mode}
  BY GroupsAreMade DEF AccountTypes, People!TypeOK, OwnGroups, AccountModes
<1> QED
  BY <1>1 DEF OwnGroups

LEMMA GroupsGrow ==
    ASSUME AccountTypes, Treed, NEW S, NEW source \in AccountModes, group' = People!Grouped(S, source), parent' = parent
    PROVE  Treed'
<1>1. \A g \in Groups : group[g] # "none" => group'[g] # "none"
  BY GroupsAreMade DEF AccountTypes
<1> QED
  BY <1>1, TreeStays

LEMMA AloneLogin == ASSUME AloneInv, People!Login(TheRequest) PROVE Unharmed
<1> DEFINE q == accountReq[TheRequest]
<1>0. /\ AccountTypes /\ People!TypeOK /\ RequestTypes /\ TheRequest \in AccountRequests
      /\ Treed /\ Sourced /\ Serving /\ mode \in AccountModes /\ "login" \notin SyncKinds
      /\ (q.kind = "login" => q.user \in People!Names) /\ (q.kind = "login" /\ q.at # "idle" => q.mode = mode)
  BY ThereIsTheRequest DEF AloneInv, AccountTypes, RequestTypes, Serving, People!TypeOK, AccountModes, UserKinds, SyncKinds
<1>1. ASSUME NEW u \in People!Names, People!LoginStart(TheRequest, u) PROVE Unharmed
  <2>1. PICK a \in {"ensure", "init"} :
            /\ People!Begin(TheRequest, "login", "nobody", u, a)
            /\ a = "ensure" => mode # "local"
            /\ a = "init" => mode = "local" /\ account[u] = "local"
    BY <1>1 DEF People!LoginStart, People!Nobody, People!Unified, People!Authenticated
  <2>2. /\ "login" \in AccountKinds /\ a \in AccountPlaces \ {"memberships"} /\ "nobody" \in People!Names \cup {"nobody"}
        /\ u \in People!Names \cup {"nobody"}
    BY <2>1 DEF AccountKinds, AccountPlaces
  <2>3. /\ q.at = "idle" /\ accountReq'[TheRequest].kind = "login" /\ accountReq'[TheRequest].user = u
        /\ accountReq'[TheRequest].at = a /\ accountReq'[TheRequest].mode = mode
    BY <1>0, <1>1, <2>1, <2>2, AccountBegins
  <2>4. UNCHANGED <<account, group, parent, member, rows, mode>>
    BY <1>1 DEF People!LoginStart, People!tables, People!config
  <2>5. q.kind # "config"
    BY <1>0, <2>3, IdleRequest DEF RequestTypes
  <2>6. Serving'
    BY <2>1, <2>3, <2>4 DEF Serving
  <2> QED
    BY <1>0, <2>3, <2>4, <2>5, <2>6, Owned, OwnedStays, SourcedIf, TreeStays, NoSync DEF Unharmed
<1>2. ASSUME People!LoginEnsure(TheRequest) PROVE Unharmed
  <2>1. /\ q.kind = "login" /\ q.at = "ensure" /\ UNCHANGED <<group, parent, rows, mode>>
        /\ \/ /\ People!EnsureExternalUser({q.user}, q.mode)
              /\ People!Go(TheRequest, "claims") \/ People!Go(TheRequest, "init")
           \/ account' = account /\ People!Done(TheRequest)
    BY <1>2 DEF People!LoginEnsure, People!At, People!config
  <2>2. q.kind # "config" /\ q.mode = mode /\ q.user \in People!Names /\ mode # "local"
    BY <1>0, <2>1 DEF Serving
  <2>3. CASE account' = account /\ People!Done(TheRequest)
    BY <1>0, <2>1, <2>2, <2>3, Owned, OwnedStays, SourcedIf, TreeStays, AloneEnds DEF Unharmed
  <2>4. CASE /\ People!EnsureExternalUser({q.user}, q.mode)
             /\ People!Go(TheRequest, "claims") \/ People!Go(TheRequest, "init")
    <3>1. /\ accountReq'[TheRequest].at \in {"claims", "init"} /\ accountReq'[TheRequest].kind = "login"
          /\ accountReq'[TheRequest].user = q.user /\ accountReq'[TheRequest].mode = q.mode
      BY <1>0, <2>1, <2>4, AccountGoes DEF AccountPlaces
    <3>2. account'[q.user] = mode /\ \A u \in People!Names : account'[u] \in {mode, "superadmin", account[u]}
      BY <1>0, <2>2, <2>4, Ensures
    <3>3. Treed' /\ Sourced'
      BY <1>0, <2>1, <2>2, <3>2, Owned, OwnedConverts, OwnedStays, SourcedIf, TreeStays
    <3>4. Serving'
      BY <2>1, <2>2, <3>1, <3>2 DEF Serving
    <3> QED
      BY <1>0, <3>1, <3>3, <3>4, NoSync DEF Unharmed
  <2> QED
    BY <2>1, <2>3, <2>4
<1>3. ASSUME NEW S \in SUBSET Groups, People!LoginClaims(TheRequest, S) PROVE Unharmed
  <2>1. /\ q.kind = "login" /\ q.at = "claims" /\ UNCHANGED <<account, parent, rows, mode>> /\ People!Go(TheRequest, "init")
        /\ UNCHANGED <<group, member>> \/ People!SyncUserGroups(q.user, S, q.mode)
    BY <1>3 DEF People!LoginClaims, People!At, People!config
  <2>2. q.kind # "config" /\ q.mode = mode /\ q.user \in People!Names /\ account[q.user] = mode
    BY <1>0, <2>1 DEF Serving
  <2>3. group' = group \/ group' = People!Grouped(S, mode)
    BY <2>1, <2>2 DEF People!SyncUserGroups
  <2>4. Treed' /\ OwnGroups'
    BY <1>0, <2>1, <2>2, <2>3, Owned, OwnedStays, OwnedGroups, TreeStays, GroupsGrow
  <2>5. /\ accountReq'[TheRequest].at = "init" /\ accountReq'[TheRequest].kind = "login"
        /\ accountReq'[TheRequest].user = q.user /\ accountReq'[TheRequest].mode = q.mode
    BY <1>0, <2>1, AccountGoes DEF AccountPlaces
  <2>6. Serving'
    BY <2>1, <2>2, <2>5 DEF Serving
  <2> QED
    BY <1>0, <2>1, <2>2, <2>4, <2>5, <2>6, Owned, OwnedStays, SourcedIf, NoSync DEF Unharmed
<1>4. ASSUME People!LoginInit(TheRequest) PROVE Unharmed
  <2>1. /\ q.kind = "login" /\ q.at = "init" /\ UNCHANGED <<account, group, parent, member, mode>>
        /\ rows' = rows \cup {q.user} /\ People!Done(TheRequest)
    BY <1>4 DEF People!LoginInit, People!At, People!config, People!InitializeUser
  <2>2. q.kind # "config" /\ account[q.user] = mode /\ mode # "none"
    BY <1>0, <2>1 DEF Serving, AccountModes
  <2>3. NoOrphans'
    BY <2>1, <2>2, Owned DEF NoOrphans
  <2> QED
    BY <1>0, <2>1, <2>2, <2>3, Owned, OwnedStays, SourcedIf, TreeStays, AloneEnds DEF Unharmed
<1> QED
  BY <1>1, <1>2, <1>3, <1>4 DEF People!Login

LEMMA AloneConfig == ASSUME AloneInv, NEW by \in Admins, People!Config(TheRequest, by) PROVE Unharmed
<1> DEFINE q == accountReq[TheRequest]
<1>0. /\ AccountTypes /\ People!TypeOK /\ RequestTypes /\ TheRequest \in AccountRequests
      /\ Treed /\ Sourced /\ Serving /\ mode \in AccountModes /\ "config" \notin SyncKinds
      /\ by \in People!Names \cup {"nobody"}
  BY ThereIsTheRequest DEF AloneInv, AccountTypes, People!TypeOK, AccountModes, SyncKinds, People!Names
<1>1. ASSUME accountReq'[TheRequest].kind = "config" PROVE Serving' /\ SyncedUsers' /\ SyncedGroups'
  BY <1>0, <1>1, NoSync DEF Serving
<1>2. ASSUME NEW m \in AccountModes, People!ConfigSave(TheRequest, by, m) PROVE Unharmed
  <2>1. PICK a \in {"timer", "purge"} :
            People!Begin(TheRequest, "config", by, "nobody", a) /\ (a = "timer" => mode' = mode)
    BY <1>2 DEF People!ConfigSave, People!Nobody
  <2>2. /\ "config" \in AccountKinds /\ a \in AccountPlaces \ {"memberships"} /\ "nobody" \in People!Names \cup {"nobody"}
        /\ "config" \notin UserKinds
    BY <2>1 DEF AccountKinds, AccountPlaces, UserKinds
  <2>3. q.at = "idle" /\ accountReq'[TheRequest].kind = "config" /\ accountReq'[TheRequest].at = a
    BY <1>0, <2>1, <2>2, AccountBegins
  <2>4. UNCHANGED <<account, group, parent, member, rows>>
    BY <1>2 DEF People!ConfigSave, People!tables
  <2>5. q.kind # "config"
    BY <1>0, <2>3, IdleRequest DEF RequestTypes
  <2>6. NoOrphans /\ OwnAccounts /\ OwnGroups
    BY <2>5, Owned
  <2>7. Sourced'
    BY <2>1, <2>3, <2>4, <2>6 DEF Sourced, NoOrphans, OwnAccounts, OwnGroups
  <2> QED
    BY <1>0, <1>1, <2>3, <2>4, <2>7, TreeStays DEF Unharmed
<1>3. ASSUME People!Purge(TheRequest) PROVE Unharmed
  <2>1. /\ UNCHANGED <<group, parent, mode>> /\ q.kind = "config" /\ q.at = "purge"
        /\ People!DeleteUsers(People!Ordinary) /\ People!Go(TheRequest, "ungroup")
    BY <1>3 DEF People!Purge, People!At, People!config
  <2>2. accountReq'[TheRequest].kind = "config" /\ accountReq'[TheRequest].at = "ungroup"
    BY <1>0, <2>1, AccountGoes DEF AccountPlaces
  <2>3. NoOrphans'
    BY <1>0, <2>1, OwnedDrops DEF Sourced
  <2>4. \A u \in People!Names : account'[u] = IF u \in People!Ordinary THEN "none" ELSE account[u]
    BY <1>0, <2>1, Deletes
  <2>5. OwnAccounts'
    BY <2>4 DEF OwnAccounts, People!Ordinary
  <2> QED
    BY <1>0, <1>1, <2>1, <2>2, <2>3, <2>5, TreeStays DEF Unharmed, Sourced
<1>4. ASSUME People!ClearAllGroups(TheRequest) PROVE Unharmed
  <2>1. /\ UNCHANGED <<account, rows, mode>> /\ q.kind = "config" /\ q.at = "ungroup" /\ People!Go(TheRequest, "wipe")
        /\ group' = [g \in Groups |-> "none"] /\ parent' = [g \in Groups |-> "top"]
    BY <1>4 DEF People!ClearAllGroups, People!At, People!config
  <2>2. accountReq'[TheRequest].kind = "config"
    BY <1>0, <2>1, AccountGoes DEF AccountPlaces
  <2>3. Treed'
    BY <1>0, <2>1, TreeShrinks, AdminAssumption
  <2>4. NoOrphans' /\ OwnAccounts'
    BY <1>0, <2>1, OwnedStays DEF Sourced
  <2>5. OwnGroups'
    BY <2>1 DEF OwnGroups
  <2> QED
    BY <1>1, <2>2, <2>3, <2>4, <2>5, SourcedIf DEF Unharmed
<1>5. ASSUME People!RemoveAllUserData(TheRequest) \/ People!WipeFails(TheRequest) \/ People!RestartSyncTimer(TheRequest)
      PROVE  Unharmed
  <2>1. /\ UNCHANGED <<account, group, parent, member, rows, mode>> /\ q.kind = "config" /\ q.at \notin {"purge", "ungroup"}
        /\ People!Go(TheRequest, "timer") \/ People!Done(TheRequest)
    BY <1>5 DEF People!RemoveAllUserData, People!WipeFails, People!RestartSyncTimer, People!At, People!tables, People!config
  <2>2. Treed' /\ Sourced'
    BY <1>0, <2>1, TreeStays, OwnedStays, SourcedIf DEF Sourced
  <2>3. Serving' /\ SyncedUsers' /\ SyncedGroups'
    <3>1. CASE People!Done(TheRequest)
      BY <1>0, <3>1, AloneEnds
    <3>2. CASE People!Go(TheRequest, "timer")
      BY <1>0, <1>1, <2>1, <3>2, AccountGoes DEF AccountPlaces
    <3> QED
      BY <2>1, <3>1, <3>2
  <2> QED
    BY <2>2, <2>3 DEF Unharmed
<1> QED
  BY <1>2, <1>3, <1>4, <1>5 DEF People!Config, AccountModes

\* Groups that a login's goroutine stores later, and changes of the directory.
LEMMA AloneLate ==
    ASSUME AloneInv, People!DirectoryChanges \/ \E u \in People!Names : People!LateGroups(u) PROVE Unharmed
<1>0. /\ AccountTypes /\ Treed /\ Sourced /\ Serving /\ SyncedUsers /\ SyncedGroups /\ "ldap" \in AccountModes
  BY DEF AloneInv, AccountModes
<1>1. ASSUME NEW u \in People!Names, People!LateGroups(u) PROVE Unharmed
  <2>1. /\ UNCHANGED <<account, parent, rows, mode, accountReq>> /\ late # {} /\ late' \subseteq late
        /\ group' = group \/ (mode = "ldap" /\ \E S : group' = People!Grouped(S, "ldap"))
    BY <1>1 DEF People!LateGroups, People!config, People!HasDirectory, People!SyncUserGroups
  <2>2. Treed'
    BY <1>0, <2>1, TreeStays, GroupsGrow
  <2>3. OwnGroups => OwnGroups'
    BY <1>0, <2>1, OwnedStays, OwnedGroups
  <2>4. Sourced'
    BY <1>0, <2>1, <2>3, OwnedStays DEF Sourced
  <2>5. Serving' /\ SyncedUsers'
    BY <1>0, <2>1 DEF Serving, SyncedUsers, People!Ordinary
  <2>6. SyncedGroups'
    BY <1>0, <2>1 DEF SyncedGroups
  <2> QED
    BY <2>2, <2>4, <2>5, <2>6 DEF Unharmed
<1>2. ASSUME People!DirectoryChanges PROVE Unharmed
  <2>1. UNCHANGED <<account, group, parent, member, rows, mode, accountReq, late>>
    BY <1>2 DEF People!DirectoryChanges, People!tables, People!config
  <2>2. Treed' /\ Sourced'
    BY <1>0, <2>1, TreeStays, OwnedStays DEF Sourced
  <2>3. Serving' /\ SyncedUsers'
    BY <1>0, <2>1 DEF Serving, SyncedUsers, People!Ordinary
  <2>4. SyncedGroups'
    BY <1>0, <2>1 DEF SyncedGroups
  <2> QED
    BY <2>2, <2>3, <2>4 DEF Unharmed
<1> QED
  BY <1>1, <1>2

\* A synchronisation that goes on serves the source it began with.
LEMMA SyncServes ==
    ASSUME accountReq'[TheRequest].kind \in SyncKinds, accountReq'[TheRequest].mode = mode' PROVE Serving'
BY DEF Serving, SyncKinds

\* The steps of a synchronisation that are about users.
LEMMA AloneUsers ==
    ASSUME AloneInv,
           \/ People!FetchUsers(TheRequest) \/ People!FetchFails(TheRequest)
           \/ \E u \in People!Names : People!EnsureNext(TheRequest, u) \/ People!CleanUp(TheRequest, u)
           \/ People!Memberships(TheRequest) \/ People!DropLocals(TheRequest) \/ People!InitAllowed(TheRequest)
           \/ People!CleanedUp(TheRequest)
    PROVE  Unharmed
<1> DEFINE q == accountReq[TheRequest]
<1>0. /\ AccountTypes /\ People!TypeOK /\ RequestTypes /\ TheRequest \in AccountRequests
      /\ Treed /\ Serving /\ SyncedUsers /\ SyncedGroups /\ mode \in AccountModes
      /\ q \in AccountRequest /\ q.allowed \subseteq People!Names /\ q.todo \subseteq People!Names
  BY ThereIsTheRequest DEF AloneInv, AccountTypes, RequestTypes, People!TypeOK, AccountModes, AccountRequest
<1>1. /\ q.kind \in SyncKinds /\ q.kind # "config" /\ mode = "ldap" /\ q.mode = mode
      /\ NoOrphans /\ OwnAccounts /\ OwnGroups
  <2>1. q.kind \in SyncKinds /\ q.at # "idle"
    BY DEF People!FetchUsers, People!FetchFails, People!EnsureNext, People!CleanUp, People!Memberships,
           People!DropLocals, People!InitAllowed, People!CleanedUp, People!Syncing, SyncKinds
  <2>2. q.kind # "config"
    BY <2>1 DEF SyncKinds
  <2> QED
    BY <1>0, <2>1, <2>2, Owned DEF Serving, SyncedUsers
<1>2. UNCHANGED <<mode, late>>
  BY DEF People!FetchUsers, People!FetchFails, People!EnsureNext, People!CleanUp, People!Memberships,
         People!DropLocals, People!InitAllowed, People!CleanedUp, People!config
\* All of them stay clear of what the groups' steps are about.
<1>3. ASSUME NEW a \in {"ensure", "memberships", "init", "stale", "hierarchy"}, NEW u, NEW al, NEW td, NEW sn,
             Turns(TheRequest, a, u, al, td, sn)
      PROVE  Serving' /\ SyncedGroups'
  <2>1. /\ accountReq'[TheRequest].kind = q.kind /\ accountReq'[TheRequest].mode = q.mode
        /\ accountReq'[TheRequest].quiet = q.quiet /\ accountReq'[TheRequest].at = a
    BY <1>3 DEF Turns
  <2>2. Serving'
    BY <1>1, <1>2, <2>1, SyncServes
  <2>3. SyncedGroups'
    BY <1>0, <1>1, <1>2, <2>1 DEF SyncedGroups
  <2> QED
    BY <2>2, <2>3
<1>4. ASSUME UNCHANGED <<account, group, parent, rows>> PROVE Treed' /\ Sourced'
  BY <1>0, <1>1, <1>2, <1>4, TreeStays, OwnedStays, SourcedIf
<1>5. ASSUME UNCHANGED <<account, group, parent, rows>>, People!Abandon(TheRequest) PROVE Unharmed
  <2>1. CASE People!Done(TheRequest)
    BY <1>0, <1>4, <1>5, <2>1, AloneEnds DEF Unharmed
  <2>2. CASE Turns(TheRequest, "hierarchy", q.user, {}, q.todo, q.snap)
    <3>1. SyncedUsers'
      BY <1>1, <1>2, <2>2 DEF SyncedUsers, Turns
    <3> QED
      BY <1>3, <1>4, <1>5, <2>2, <3>1 DEF Unharmed
  <2> QED
    BY <1>0, <1>1, <1>5, <2>1, <2>2, SyncSteps
<1>6. ASSUME People!FetchUsers(TheRequest) PROVE Unharmed
  <2>1. PICK S : Turns(TheRequest, "ensure", q.user, S, S, q.snap)
    BY <1>0, <1>6, SyncSteps
  <2>2. UNCHANGED <<account, group, parent, rows>>
    BY <1>6 DEF People!FetchUsers, People!tables
  <2>3. SyncedUsers'
    BY <1>1, <1>2, <2>1 DEF SyncedUsers, Turns
  <2> QED
    BY <1>3, <1>4, <2>1, <2>2, <2>3 DEF Unharmed
<1>7. ASSUME People!FetchFails(TheRequest) PROVE Unharmed
  BY <1>5, <1>7 DEF People!FetchFails, People!tables
<1>8. ASSUME NEW u \in People!Names, People!EnsureNext(TheRequest, u) PROVE Unharmed
  <2>1. UNCHANGED <<group, parent, member, rows>> /\ u \in q.todo /\ q.at = "ensure"
    BY <1>8 DEF People!EnsureNext, People!Syncing
  <2>2. CASE People!CanEnsure(u)
    <3>1. Turns(TheRequest, "memberships", u, q.allowed, q.todo, q.snap) /\ People!EnsureExternalUser({u}, mode)
      BY <1>0, <1>1, <1>8, <2>2, SyncSteps DEF People!EnsureNext
    <3>2. \A v \in People!Names : account'[v] = IF v \in {u} THEN mode ELSE account[v]
      BY <1>0, <3>1, Ensures
    <3>3. Treed' /\ Sourced'
      BY <1>0, <1>1, <1>2, <2>1, <3>2, TreeStays, OwnedConverts, OwnedStays, SourcedIf
    <3>4. SyncedUsers'
      <4>1. q.todo \subseteq q.allowed /\ \A v \in q.allowed \ q.todo : account[v] = mode
        BY <1>0, <1>1, <2>1 DEF SyncedUsers
      <4>2. account'[u] = mode /\ \A v \in q.allowed \ q.todo : account'[v] = mode
        BY <1>0, <3>2, <4>1
      <4> QED
        BY <1>1, <1>2, <3>1, <4>1, <4>2 DEF SyncedUsers, Turns
    <3> QED
      BY <1>3, <3>1, <3>3, <3>4 DEF Unharmed
  <2>3. CASE ~People!CanEnsure(u)
    BY <1>5, <1>8, <2>1, <2>3 DEF People!EnsureNext
  <2> QED
    BY <2>2, <2>3
<1>9. ASSUME People!Memberships(TheRequest) PROVE Unharmed
  <2>1. /\ UNCHANGED <<account, parent, rows>> /\ q.at = "memberships" /\ \E S : group' = People!Grouped(S, mode)
        /\ Turns(TheRequest, "ensure", q.user, q.allowed, q.todo \ {q.user}, q.snap)
    BY <1>0, <1>1, <1>9, SyncSteps DEF People!Memberships, People!Syncing, People!SyncUserGroups
  <2>2. Treed' /\ Sourced'
    BY <1>0, <1>1, <1>2, <2>1, GroupsGrow, OwnedGroups, OwnedStays, SourcedIf
  <2>3. /\ q.todo \subseteq q.allowed /\ account[q.user] = mode
        /\ \A v \in q.allowed \ q.todo : account[v] = mode
    BY <1>0, <1>1, <2>1 DEF SyncedUsers
  <2>4. SyncedUsers'
    BY <1>1, <1>2, <2>1, <2>3 DEF SyncedUsers, Turns
  <2> QED
    BY <1>3, <2>1, <2>2, <2>4 DEF Unharmed
<1>10. ASSUME People!DropLocals(TheRequest) PROVE Unharmed
  <2>1. /\ UNCHANGED <<group, parent>> /\ q.at = "ensure" /\ q.todo = {}
        /\ People!DeleteUsers({u \in People!Names : account[u] = "local"})
        /\ Turns(TheRequest, "init", q.user, q.allowed, q.allowed, q.snap)
    BY <1>0, <1>10, SyncSteps DEF People!DropLocals, People!Syncing
  <2>2. Treed' /\ Sourced'
    BY <1>0, <1>1, <1>2, <2>1, TreeStays, OwnedDrops, OwnedStays, SourcedIf
  <2>3. \A v \in q.allowed : account[v] = mode
    BY <1>0, <1>1, <2>1 DEF SyncedUsers
  <2>4. \A v \in People!Names : account'[v] = IF v \in {u \in People!Names : account[u] = "local"} THEN "none" ELSE account[v]
    BY <1>0, <2>1, Deletes
  <2>5. \A v \in q.allowed : account'[v] = mode
    BY <1>0, <1>1, <2>3, <2>4
  <2>6. SyncedUsers'
    BY <1>1, <1>2, <2>1, <2>5 DEF SyncedUsers, Turns
  <2> QED
    BY <1>3, <2>1, <2>2, <2>6 DEF Unharmed
<1>11. ASSUME People!InitAllowed(TheRequest) PROVE Unharmed
  <2>1. PICK a : a = IF q.kind = "groups" THEN "hierarchy" ELSE "stale"
    OBVIOUS
  <2>2. /\ UNCHANGED <<account, group, parent, member>> /\ q.at = "init"
        /\ rows' = rows \cup {u \in q.allowed : account[u] # "none"}
        /\ Turns(TheRequest, a, q.user, q.allowed, People!Ordinary \ q.allowed, q.snap)
    BY <1>0, <1>11, <2>1, SyncSteps DEF People!InitAllowed, People!Syncing, People!InitializeUser
  <2>3. NoOrphans'
    BY <1>1, <2>2 DEF NoOrphans
  <2>4. \A u \in q.allowed : account[u] = mode
    BY <1>0, <1>1, <2>2 DEF SyncedUsers
  <2>5. \A u \in q.allowed : u \in People!Ordinary
    BY <1>0, <1>1, <2>4 DEF People!Ordinary
  <2>6. People!Ordinary' = People!Ordinary /\ \A u \in People!Ordinary : u \in People!Names
    BY <2>2 DEF People!Ordinary
  <2>7. SyncedUsers'
    BY <1>0, <1>1, <1>2, <2>1, <2>2, <2>5, <2>6 DEF SyncedUsers, Turns
  <2> QED
    BY <1>0, <1>1, <1>2, <1>3, <2>1, <2>2, <2>3, <2>7, TreeStays, OwnedStays, SourcedIf DEF Unharmed
<1>12. ASSUME NEW u \in People!Names, People!CleanUp(TheRequest, u) PROVE Unharmed
  <2>1. /\ UNCHANGED <<group, parent>> /\ q.at = "stale" /\ u \in q.todo /\ People!DeleteUsers({u})
        /\ Turns(TheRequest, "stale", q.user, q.allowed, q.todo \ {u}, q.snap)
    BY <1>0, <1>12, SyncSteps DEF People!CleanUp, People!Syncing
  <2>2. Treed' /\ Sourced'
    BY <1>0, <1>1, <1>2, <2>1, TreeStays, OwnedDrops, OwnedStays, SourcedIf
  <2>3. \A v \in People!Names : account'[v] = IF v \in {u} THEN "none" ELSE account[v]
    BY <1>0, <2>1, Deletes
  <2>4. \A v \in People!Names : v \in People!Ordinary' <=> v \in People!Ordinary /\ v # u
    BY <2>3 DEF People!Ordinary
  <2>5. /\ \A v \in People!Names : v \in People!Ordinary <=> v \in q.allowed \/ v \in q.todo
        /\ \A v \in q.todo : v \notin q.allowed
    BY <1>0, <1>1, <2>1 DEF SyncedUsers
  <2>6. SyncedUsers'
    BY <1>1, <1>2, <2>1, <2>4, <2>5 DEF SyncedUsers, Turns
  <2> QED
    BY <1>3, <2>1, <2>2, <2>6 DEF Unharmed
<1>13. ASSUME People!CleanedUp(TheRequest) PROVE Unharmed
  <2>1. /\ UNCHANGED <<account, group, parent, member, rows>> /\ q.at = "stale" /\ q.todo = {}
        /\ People!Done(TheRequest) \/ People!Go(TheRequest, "hierarchy")
    BY <1>13 DEF People!CleanedUp, People!Syncing, People!tables
  <2>2. CASE People!Done(TheRequest)
    BY <1>0, <1>4, <2>1, <2>2, AloneEnds DEF Unharmed
  <2>3. CASE People!Go(TheRequest, "hierarchy")
    <3>1. Turns(TheRequest, "hierarchy", q.user, q.allowed, q.todo, q.snap)
      BY <1>0, <2>3, AccountGoes DEF Turns, AccountPlaces
    <3>2. \A v \in People!Names : v \in People!Ordinary <=> v \in q.allowed
      BY <1>0, <1>1, <2>1 DEF SyncedUsers
    <3>3. People!Ordinary = q.allowed /\ People!Ordinary' = People!Ordinary
      BY <1>0, <2>1, <3>2 DEF People!Ordinary
    <3>4. SyncedUsers'
      BY <1>1, <1>2, <3>1, <3>3 DEF SyncedUsers, Turns
    <3> QED
      BY <1>3, <1>4, <2>1, <3>1, <3>4 DEF Unharmed
  <2> QED
    BY <2>1, <2>2, <2>3
<1> QED
  BY <1>6, <1>7, <1>8, <1>9, <1>10, <1>11, <1>12, <1>13

\* The steps of a synchronisation that are about groups.
LEMMA AloneGroups ==
    ASSUME AloneInv,
           \/ People!FetchGroups(TheRequest) \/ People!CreateGroups(TheRequest)
           \/ People!ReplaceGroupMembersBySource(TheRequest) \/ People!ClearParents(TheRequest)
           \/ People!SetParents(TheRequest) \/ People!Synced(TheRequest)
    PROVE  Unharmed
<1> DEFINE q == accountReq[TheRequest]
<1>0. /\ AccountTypes /\ People!TypeOK /\ RequestTypes /\ TheRequest \in AccountRequests
      /\ Treed /\ Serving /\ SyncedUsers /\ SyncedGroups /\ mode \in AccountModes /\ dir \in Directories
      /\ q \in AccountRequest /\ q.allowed \subseteq People!Names /\ q.snap \in Snapshot
      /\ q.snap.groups \subseteq Groups /\ q.snap.members \in [Groups -> SUBSET People!Names]
      /\ q.snap.subs \in [Groups -> SUBSET Groups]
  BY ThereIsTheRequest DEF AloneInv, AccountTypes, RequestTypes, People!TypeOK, AccountModes, AccountRequest, Snapshot
<1>1. /\ q.kind \in SyncKinds /\ q.kind # "config" /\ mode = "ldap" /\ q.mode = mode
      /\ NoOrphans /\ OwnAccounts /\ OwnGroups
  <2>1. q.kind \in SyncKinds /\ q.at # "idle"
    BY DEF People!FetchGroups, People!CreateGroups, People!ReplaceGroupMembersBySource, People!ClearParents,
           People!SetParents, People!Synced, People!Syncing, SyncKinds
  <2>2. q.kind # "config"
    BY <2>1 DEF SyncKinds
  <2> QED
    BY <1>0, <2>1, <2>2, Owned DEF Serving, SyncedUsers
<1>2. UNCHANGED <<mode, late, rows>>
  BY DEF People!FetchGroups, People!CreateGroups, People!ReplaceGroupMembersBySource, People!ClearParents,
         People!SetParents, People!Synced, People!config, People!tables
<1>3. ASSUME NEW a, NEW u, NEW al, NEW td, NEW sn, Turns(TheRequest, a, u, al, td, sn) PROVE Serving'
  BY <1>1, <1>2, <1>3, SyncServes DEF Turns
<1>4. ASSUME NEW a \in AccountPlaces \ {"memberships"}, People!Go(TheRequest, a)
      PROVE  Turns(TheRequest, a, q.user, q.allowed, q.todo, q.snap)
  BY <1>0, <1>4, AccountGoes DEF Turns
<1>5. "clear" \in AccountPlaces \ {"memberships"} /\ "parents" \in AccountPlaces \ {"memberships"}
      /\ "synced" \in AccountPlaces \ {"memberships"}
  BY DEF AccountPlaces
<1>6. account' = account => People!Ordinary' = People!Ordinary
  BY DEF People!Ordinary
<1>7. ASSUME UNCHANGED <<account, group, parent>> PROVE Treed' /\ Sourced'
  BY <1>0, <1>1, <1>2, <1>7, TreeStays, OwnedStays, SourcedIf
<1>8. ASSUME UNCHANGED <<account, group, parent>>, People!Done(TheRequest) PROVE Unharmed
  BY <1>0, <1>7, <1>8, AloneEnds DEF Unharmed
<1>9. ASSUME People!FetchGroups(TheRequest) PROVE Unharmed
  <2>1. UNCHANGED <<account, group, parent, member>> /\ q.at = "hierarchy"
    BY <1>9 DEF People!FetchGroups, People!Syncing, People!tables
  <2>2. CASE People!Done(TheRequest)
    BY <1>8, <2>1, <2>2
  <2>3. ASSUME NEW sn \in Snapshot, Turns(TheRequest, "create", q.user, q.allowed, q.todo, sn),
               sn.groups = dir.groups, sn.subs = dir.subs
        PROVE  Unharmed
    <3>1. SyncedUsers'
      BY <1>0, <1>1, <1>2, <1>6, <2>1, <2>3 DEF SyncedUsers, Turns
    <3>2. \A S \in (SUBSET sn.groups) \ {{}} : \E g \in S : \A p \in S : g \notin sn.subs[p]
      BY <1>0, <2>3, DirectoryTypes
    <3>3. SyncedGroups'
      BY <1>0, <1>1, <1>2, <2>3, <3>2 DEF SyncedGroups, Turns
    <3> QED
      BY <1>3, <1>7, <2>1, <2>3, <3>1, <3>3 DEF Unharmed
  <2> QED
    BY <1>0, <1>9, <2>2, <2>3, GroupSteps
<1>10. ASSUME People!CreateGroups(TheRequest) PROVE Unharmed
  <2> DEFINE everybody == UNION {q.snap.members[g] : g \in q.snap.groups}
             can == {u \in everybody : People!CanEnsure(u)}
  <2>1. /\ parent' = parent /\ q.at = "create" /\ group' = People!Grouped(q.snap.groups, mode)
        /\ People!EnsureExternalUser(can, mode)
    BY <1>1, <1>10 DEF People!CreateGroups, People!Syncing
  <2>2. PICK sn \in Snapshot :
             /\ Turns(TheRequest, "replace", q.user, q.allowed, q.todo, sn)
             /\ sn.groups = q.snap.groups /\ sn.subs = q.snap.subs
             /\ \A g \in Groups : sn.members[g] = q.snap.members[g] \cap can
    BY <1>0, <1>10, GroupSteps
  <2>3. \A u \in People!Names : account'[u] = IF u \in can THEN mode ELSE account[u]
    BY <1>0, <2>1, Ensures
  <2>4. Treed' /\ Sourced'
    BY <1>0, <1>1, <1>2, <2>1, <2>3, GroupsGrow, OwnedGroups, OwnedConverts, SourcedIf
  <2>5. /\ \A u \in can : u \in People!Names /\ account[u] # "superadmin"
        /\ \A u : u \in can <=> \E g \in sn.groups : u \in sn.members[g]
    <3>1. \A u \in can : u \in People!Names /\ account[u] # "superadmin" /\ \E g \in q.snap.groups : u \in q.snap.members[g]
      BY <1>0 DEF People!CanEnsure
    <3> QED
      BY <1>0, <2>2, <3>1
  <2>6. \A u \in People!Names : u \in People!Ordinary' <=> u \in People!Ordinary \/ u \in can
    BY <1>1, <2>3, <2>5 DEF People!Ordinary
  <2>7. People!Ordinary = q.allowed => People!Ordinary' = q.allowed \cup UNION {sn.members[g] : g \in sn.groups}
    <3> SUFFICES ASSUME People!Ordinary = q.allowed, NEW u
                 PROVE  u \in People!Ordinary' <=> u \in q.allowed \/ \E g \in sn.groups : u \in sn.members[g]
      OBVIOUS
    <3>1. u \in People!Ordinary' => u \in People!Names
      BY DEF People!Ordinary
    <3> HIDE DEF can
    <3> QED
      BY <1>0, <2>5, <2>6, <3>1
  <2>8. SyncedUsers'
    BY <1>0, <1>1, <1>2, <2>1, <2>2, <2>7 DEF SyncedUsers, Turns
  <2>9. SyncedGroups'
    BY <1>0, <1>1, <1>2, <2>1, <2>2 DEF SyncedGroups, Turns
  <2> QED
    BY <1>3, <2>2, <2>4, <2>8, <2>9 DEF Unharmed
<1>11. ASSUME People!ReplaceGroupMembersBySource(TheRequest) PROVE Unharmed
  <2>1. /\ UNCHANGED <<account, parent>> /\ q.at = "replace" /\ group' = People!Grouped(q.snap.groups, mode)
        /\ member' = {m \in member : group'[m[2]] # mode} \cup UNION {q.snap.members[g] \X {g} : g \in q.snap.groups}
        /\ Turns(TheRequest, "clear", q.user, q.allowed, q.todo, q.snap)
    BY <1>1, <1>4, <1>5, <1>11 DEF People!ReplaceGroupMembersBySource, People!Syncing
  <2>2. Treed' /\ Sourced' /\ OwnGroups'
    BY <1>0, <1>1, <1>2, <2>1, GroupsGrow, OwnedGroups, OwnedStays, SourcedIf
  <2>3. \A g \in q.snap.groups : group'[g] = mode
    BY <1>0, <1>2, <2>1, <2>2, GroupsAreMade DEF OwnGroups
  <2>4. {m \in member' : group'[m[2]] = mode} = UNION {q.snap.members[g] \X {g} : g \in q.snap.groups}
    BY <2>1, <2>3
  <2>5. SyncedUsers'
    BY <1>0, <1>1, <1>2, <1>6, <2>1 DEF SyncedUsers, Turns
  <2>6. SyncedGroups'
    BY <1>0, <1>1, <1>2, <2>1, <2>4 DEF SyncedGroups, Turns
  <2> QED
    BY <1>3, <2>1, <2>2, <2>5, <2>6 DEF Unharmed
<1>12. ASSUME People!ClearParents(TheRequest) PROVE Unharmed
  <2>1. /\ UNCHANGED <<account, group, member>> /\ q.at = "clear"
        /\ parent' = [g \in Groups |-> IF g \in q.snap.groups THEN "top" ELSE parent[g]]
        /\ Turns(TheRequest, "parents", q.user, q.allowed, q.todo, q.snap)
    BY <1>4, <1>5, <1>12 DEF People!ClearParents, People!Syncing
  <2>2. /\ \A c \in Groups : parent'[c] \in {"top", parent[c]}
        /\ \A c \in Groups : parent'[c] \in Groups => group'[parent'[c]] # "none"
    BY <1>0, <2>1, AdminAssumption DEF Treed
  <2>3. Treed' /\ Sourced'
    BY <1>0, <1>1, <1>2, <2>1, <2>2, TreeShrinks, OwnedStays, SourcedIf
  <2>4. SyncedUsers'
    BY <1>0, <1>1, <1>2, <1>6, <2>1 DEF SyncedUsers, Turns
  <2>5. \A g \in q.snap.groups : parent'[g] = "top"
    BY <1>0, <2>1
  <2>6. SyncedGroups'
    BY <1>0, <1>1, <1>2, <2>1, <2>5 DEF SyncedGroups, Turns
  <2> QED
    BY <1>3, <2>1, <2>3, <2>4, <2>6 DEF Unharmed
<1>13. ASSUME People!SetParents(TheRequest) PROVE Unharmed
  <2>1. /\ UNCHANGED <<account, group, member>> /\ q.at = "parents"
        /\ \A g \in Groups : IF group[g] # "none" /\ People!Parents(q.snap, g) # {}
                             THEN parent'[g] \in People!Parents(q.snap, g) ELSE parent'[g] = parent[g]
        /\ Turns(TheRequest, "synced", q.user, q.allowed, q.todo, q.snap)
    BY <1>4, <1>5, <1>13 DEF People!SetParents, People!Syncing
  <2>2. ASSUME NEW g \in Groups
        PROVE  \/ parent'[g] = parent[g]
               \/ /\ g \in q.snap.groups /\ parent'[g] \in q.snap.groups /\ g \in q.snap.subs[parent'[g]]
                  /\ group[parent'[g]] # "none"
    BY <2>1 DEF People!Parents
  <2>3. /\ \A g \in q.snap.groups : parent[g] = "top"
        /\ \A S \in (SUBSET q.snap.groups) \ {{}} : \E g \in S : \A p \in S : g \notin q.snap.subs[p]
    BY <1>0, <1>1, <2>1 DEF SyncedGroups
  <2>4. ASSUME NEW S \in (SUBSET Groups) \ {{}} PROVE \E g \in S : parent'[g] \notin S
    <3>1. CASE S \cap q.snap.groups = {}
      <4>1. PICK g \in S : parent[g] \notin S
        BY <1>0 DEF Treed, People!GroupsAreATree
      <4> QED
        BY <2>2, <3>1, <4>1
    <3>2. CASE S \cap q.snap.groups # {}
      <4>1. PICK g \in S \cap q.snap.groups : \A p \in S \cap q.snap.groups : g \notin q.snap.subs[p]
        BY <2>3, <3>2
      <4>2. "top" \notin S
        BY AdminAssumption
      <4> QED
        BY <2>2, <2>3, <4>1, <4>2
    <3> QED
      BY <3>1, <3>2
  <2>5. \A c \in Groups : parent'[c] \in Groups => group'[parent'[c]] # "none"
    BY <1>0, <2>1, <2>2 DEF Treed
  <2>6. Treed' /\ Sourced'
    BY <1>1, <1>2, <2>1, <2>4, <2>5, OwnedStays, SourcedIf DEF Treed, People!GroupsAreATree
  <2>7. SyncedUsers'
    BY <1>0, <1>1, <1>2, <1>6, <2>1 DEF SyncedUsers, Turns
  <2>8. SyncedGroups'
    BY <1>0, <1>1, <1>2, <2>1 DEF SyncedGroups, Turns
  <2> QED
    BY <1>3, <2>1, <2>6, <2>7, <2>8 DEF Unharmed
<1>14. ASSUME People!Synced(TheRequest) PROVE Unharmed
  BY <1>8, <1>14 DEF People!Synced, People!tables
<1> QED
  BY <1>9, <1>10, <1>11, <1>12, <1>13, <1>14

LEMMA AloneSync == ASSUME AloneInv, NEW by \in Admins, People!Sync(TheRequest, by) PROVE Unharmed
<1> DEFINE q == accountReq[TheRequest]
<1>0. /\ AccountTypes /\ RequestTypes /\ TheRequest \in AccountRequests /\ Treed /\ Sourced
      /\ by \in People!Names \cup {"nobody"} /\ "nobody" \in People!Names \cup {"nobody"}
  BY ThereIsTheRequest DEF AloneInv, AccountTypes, People!Names
<1>1. ASSUME NEW k \in SyncKinds, NEW b \in People!Names \cup {"nobody"}, People!SyncStart(TheRequest, k, b) PROVE Unharmed
  <2>1. /\ q.at = "idle" /\ accountReq'[TheRequest].kind = k /\ accountReq'[TheRequest].at = "fetch"
        /\ accountReq'[TheRequest].mode = mode /\ accountReq'[TheRequest].quiet = (late = {}) /\ mode = "ldap"
        /\ UNCHANGED <<account, group, parent, member, rows, mode, late>>
    BY <1>0, <1>1, SyncStarts
  <2>2. q.kind # "config"
    BY <1>0, <2>1, IdleRequest DEF RequestTypes
  <2>3. Treed' /\ Sourced' /\ Serving'
    BY <1>0, <2>1, <2>2, Owned, TreeStays, OwnedStays, SourcedIf, SyncServes
  <2>4. SyncedUsers' /\ SyncedGroups'
    BY <2>1 DEF SyncedUsers, SyncedGroups
  <2> QED
    BY <2>3, <2>4 DEF Unharmed
<1> QED
  BY <1>0, <1>1, AloneUsers, AloneGroups DEF People!Sync, SyncKinds, People!Nobody

LEMMA AloneStepped == ASSUME AloneInv, part = "accounts", AccountPart PROVE AloneInv' /\ People!SuperadminStays
<1>1. /\ People!Next /\ \A r \in AccountRequests \ {TheRequest} : accountReq'[r] = accountReq[r]
      /\ served' # served => People!Resting
  BY DEF AccountPart
<1>2. AccountTypes /\ Alone /\ Guarded
  BY AloneGuards DEF AloneInv
<1>3. AccountTypes' /\ People!SuperadminStays
  BY <1>1, <1>2, PeopleTypes, GuardKeeps
<1>4. Alone'
  BY <1>1, <1>2 DEF Alone
<1>5. \/ People!Login(TheRequest)
      \/ \E by \in Admins : People!Local(TheRequest, by) \/ People!Sync(TheRequest, by) \/ People!Config(TheRequest, by)
      \/ People!DirectoryChanges \/ \E u \in People!Names : People!LateGroups(u)
  <2>1. ASSUME NEW r \in AccountRequests,
               People!Login(r) \/ \E by \in Admins : People!Local(r, by) \/ People!Sync(r, by) \/ People!Config(r, by)
        PROVE  \/ People!Login(TheRequest)
               \/ \E by \in Admins : \/ People!Local(TheRequest, by) \/ People!Sync(TheRequest, by)
                                     \/ People!Config(TheRequest, by)
    <3>1. CASE r = TheRequest
      BY <2>1, <3>1
    <3>2. CASE r # TheRequest
      BY <1>1, <1>2, <2>1, <3>2, Whose
    <3> QED
      BY <3>1, <3>2
  <2> QED
    BY <1>1, <2>1 DEF People!Next
<1>6. Unharmed
  BY <1>1, <1>5, AloneLocal, AloneLogin, AloneSync, AloneConfig, AloneLate
<1> QED
  BY <1>3, <1>4, <1>6 DEF AloneInv, Unharmed

LEMMA AccountStutters ==
    UNCHANGED <<served, accountVars>> => (AloneInv => AloneInv') /\ (FewInv => FewInv') /\ People!SuperadminStays
<1> SUFFICES ASSUME UNCHANGED <<served, accountVars>>
             PROVE  (AloneInv => AloneInv') /\ (FewInv => FewInv') /\ People!SuperadminStays
  OBVIOUS
<1>1. UNCHANGED <<account, group, parent, member, rows, home, archived, mode, timer, whitelist, dir,
                  accountReq, late, changes, served>>
  BY DEF accountVars
<1>2. AccountTypes => AccountTypes'
  BY <1>1 DEF AccountTypes, People!TypeOK, RequestTypes
<1>3. Alone /\ Treed /\ Sourced => Alone' /\ Treed' /\ Sourced'
  BY <1>1 DEF Alone, Treed, People!GroupsAreATree, Sourced, NoOrphans, OwnAccounts, OwnGroups
<1>4. Serving /\ SyncedUsers /\ SyncedGroups => Serving' /\ SyncedUsers' /\ SyncedGroups'
  BY <1>1 DEF Serving, SyncedUsers, SyncedGroups, People!Ordinary
<1>5. Guarded /\ FewAtOnce => Guarded' /\ FewAtOnce'
  BY <1>1 DEF Guarded, FewAtOnce
<1>6. People!SuperadminStays
  BY <1>1 DEF People!SuperadminStays
<1> QED
  BY <1>2, <1>3, <1>4, <1>5, <1>6 DEF AloneInv, FewInv

LEMMA AloneSafe == AloneInv => People!AccountsSafe
<1> SUFFICES ASSUME AloneInv PROVE People!AccountsSafe
  OBVIOUS
<1> DEFINE q == accountReq[TheRequest]
<1>1. /\ People!TypeOK /\ RequestTypes /\ Alone /\ People!GroupsAreATree /\ Sourced /\ SyncedUsers /\ SyncedGroups
      /\ TheRequest \in AccountRequests
  BY ThereIsTheRequest DEF AloneInv, AccountTypes, Treed
<1>2. People!OneSource
  <2> SUFFICES ASSUME People!Resting
               PROVE  /\ \A u \in People!Names : account[u] \in {"none", "superadmin", mode}
                      /\ rows \subseteq {u \in People!Names : account[u] # "none"}
    BY DEF People!OneSource
  <2>1. q.kind # "config"
    BY <1>1, IdleRequest DEF People!Resting, RequestTypes
  <2> QED
    BY <1>1, <2>1, Owned DEF NoOrphans, OwnAccounts, People!TypeOK
<1>3. People!SyncConverges
  <2> SUFFICES ASSUME NEW r \in AccountRequests, People!Syncing(r, "synced"), accountReq[r].kind = "timer"
               PROVE  LET s == accountReq[r].snap IN
                      /\ accountReq[r].allowed # {} =>
                            People!Ordinary = accountReq[r].allowed \cup UNION {s.members[g] : g \in s.groups}
                      /\ accountReq[r].quiet =>
                            {m \in member : group[m[2]] = mode} = UNION {s.members[g] \X {g} : g \in s.groups}
    BY DEF People!SyncConverges
  <2>1. r = TheRequest /\ accountReq[r].at = "synced" /\ accountReq[r].kind \in SyncKinds
    BY <1>1 DEF People!Syncing, Alone, SyncKinds
  <2>2. accountReq[r].allowed # {} =>
            People!Ordinary = accountReq[r].allowed \cup UNION {accountReq[r].snap.members[g] : g \in accountReq[r].snap.groups}
    BY <1>1, <2>1 DEF SyncedUsers
  <2>3. accountReq[r].quiet =>
            {m \in member : group[m[2]] = mode} = UNION {accountReq[r].snap.members[g] \X {g} : g \in accountReq[r].snap.groups}
    BY <1>1, <2>1 DEF SyncedGroups
  <2> QED
    BY <2>2, <2>3
<1> QED
  BY <1>1, <1>2, <1>3 DEF People!AccountsSafe

-----------------------------------------------------------------------------
(* Skills: where a request is, and what that says of the sources and of who   *)
(* is bound.                                                                  *)

SkillKinds == {"idle", "git", "drop", "install", "remove", "choose", "leave"}
SkillPlaces == {"idle", "clone", "rescan", "configure", "unbind", "rmdir", "forget", "download",
                "dir", "bindings", "defaults", "copies", "bind"}
SkillRequest == [kind : SkillKinds, at : SkillPlaces, skill : Skills \cup {"none"},
                 user : Users \cup {"none"}, todo : SUBSET Users, raced : BOOLEAN]

SkillTypes ==
    /\ Centre!TypeOK /\ cloned \in BOOLEAN /\ upstream \subseteq Skills
    /\ skillReq[1] \in SkillRequest /\ DOMAIN skillReq = {1}
    /\ skillReq[1].kind \in {"install", "remove", "choose", "leave"} => skillReq[1].skill \in Skills
    /\ skillReq[1].kind \in {"choose", "leave"} => skillReq[1].user \in Users
    /\ task \in [skill : Skills \cup {"none"}, todo : SUBSET Users]
    /\ task.todo # {} => task.skill \in Skills
    /\ chosen \subseteq Users \X Skills /\ removed \subseteq Skills

\* The Git source is configured when its directory is there, but for the
\* middle of a request that adds or drops it.
Listed ==
    LET q == skillReq[1] IN
    /\ q.kind = "git" /\ q.at = "clone" => ~cloned /\ "team" \notin conf
    /\ q.kind = "git" /\ q.at \in {"rescan", "configure"} => cloned /\ "team" \notin conf
    /\ q.kind = "drop" /\ q.at = "forget" => ~cloned
    /\ ~(q.kind = "git" /\ q.at \in {"clone", "rescan", "configure"}) /\ ~(q.kind = "drop" /\ q.at = "forget")
          => ("team" \in conf <=> cloned)

\* What a user installed is theirs, or has since become a default.
ChosenBound == \A b \in chosen : bound[b] \in {"self", "default"}

RemovedGone == \A s \in removed : s \notin defaults /\ \A u \in Users : bound[<<u, s>>] = "none"

\* A removal has taken what lies behind it, and no deployment gives it back.
Departing ==
    LET q == skillReq[1] IN
    q.kind = "remove" /\ q.at \in {"bindings", "defaults", "copies"} /\ ~q.raced =>
        /\ task.todo = {} \/ task.skill # q.skill
        /\ q.at \in {"defaults", "copies"} => \A u \in Users : bound[<<u, q.skill>>] = "none"
        /\ q.at = "copies" => q.skill \notin defaults

SkillInv == SkillTypes /\ Listed /\ ChosenBound /\ RemovedGone /\ Departing

LEMMA SkillStart == Centre!Init => SkillInv
<1> SUFFICES ASSUME Centre!Init PROVE SkillInv
  OBVIOUS
<1>1. /\ disk = [src \in Centre!Sources |-> {}] /\ cloned = FALSE /\ torn = {} /\ conf = {"hub"}
      /\ bound = [b \in Users \X Skills |-> "none"] /\ defaults = {} /\ copies = {}
      /\ task = Centre!NoTask /\ upstream \in SUBSET Skills
      /\ skillReq = [r \in {1} |-> Centre!Idle] /\ chosen = {} /\ removed = {}
  BY DEF Centre!Init
<1>2. skillReq[1] = Centre!Idle /\ DOMAIN skillReq = {1}
  BY <1>1
<1>3. SkillTypes
  BY <1>1, <1>2 DEF SkillTypes, Centre!TypeOK, Centre!Sources, Centre!NoTask, Centre!Idle, SkillRequest, SkillKinds, SkillPlaces
<1>4. Listed
  BY <1>1, <1>2 DEF Listed, Centre!Idle
<1>5. Departing
  BY <1>2 DEF Departing, Centre!Idle
<1> QED
  BY <1>1, <1>3, <1>4, <1>5 DEF SkillInv, ChosenBound, RemovedGone

\* How the request moves.
LEMMA RequestBegins ==
    ASSUME SkillTypes, NEW k \in SkillKinds, NEW a \in SkillPlaces, NEW s \in Skills \cup {"none"},
           NEW u \in Users \cup {"none"}, Centre!Begin(1, k, a, s, u)
    PROVE  /\ skillReq[1].at = "idle" /\ DOMAIN skillReq' = {1} /\ skillReq'[1] \in SkillRequest
           /\ skillReq'[1] = [kind |-> k, at |-> a, skill |-> s, user |-> u, todo |-> {}, raced |-> FALSE]
           /\ skillReq'[1].kind = k /\ skillReq'[1].at = a /\ skillReq'[1].skill = s /\ skillReq'[1].user = u
<1>1. /\ skillReq' = [skillReq EXCEPT ![1] = [Centre!Idle EXCEPT !.kind = k, !.at = a, !.skill = s, !.user = u]]
      /\ skillReq[1].at = "idle" /\ DOMAIN skillReq = {1}
  BY DEF Centre!Begin, SkillTypes
<1>2. skillReq'[1] = [kind |-> k, at |-> a, skill |-> s, user |-> u, todo |-> {}, raced |-> FALSE]
  BY <1>1 DEF Centre!Idle
<1> QED
  BY <1>1, <1>2 DEF SkillRequest

LEMMA RequestGoes ==
    ASSUME SkillTypes, NEW a \in SkillPlaces, Centre!Go(1, a)
    PROVE  /\ DOMAIN skillReq' = {1} /\ skillReq'[1] \in SkillRequest /\ skillReq'[1] = [skillReq[1] EXCEPT !.at = a]
           /\ skillReq'[1].at = a /\ skillReq'[1].kind = skillReq[1].kind /\ skillReq'[1].skill = skillReq[1].skill
           /\ skillReq'[1].user = skillReq[1].user /\ skillReq'[1].raced = skillReq[1].raced
           /\ skillReq'[1].todo = skillReq[1].todo
<1>1. skillReq' = [skillReq EXCEPT ![1].at = a] /\ DOMAIN skillReq = {1} /\ skillReq[1] \in SkillRequest
  BY DEF Centre!Go, SkillTypes
<1>2. DOMAIN skillReq' = {1} /\ skillReq'[1] = [skillReq[1] EXCEPT !.at = a]
  BY <1>1
<1> QED
  BY <1>1, <1>2 DEF SkillRequest

LEMMA RequestEnds ==
    ASSUME SkillTypes, Centre!Done(1)
    PROVE  /\ DOMAIN skillReq' = {1} /\ skillReq'[1] \in SkillRequest /\ skillReq'[1].at = "idle" /\ skillReq'[1].kind = "idle"
<1>1. skillReq' = [skillReq EXCEPT ![1] = Centre!Idle] /\ DOMAIN skillReq = {1}
  BY DEF Centre!Done, SkillTypes
<1> QED
  BY <1>1 DEF Centre!Idle, SkillRequest, SkillKinds, SkillPlaces

LEMMA RequestIsBrief == ASSUME SkillTypes, Centre!Brief PROVE skillReq[1].at = "idle"
BY DEF Centre!Brief

\* Some users are bound to one skill, for one reason.
LEMMA Binding ==
    ASSUME SkillTypes, NEW U \in SUBSET Users, NEW s \in Skills,
           NEW w \in {"none", "self", "group", "default", "admin"}, Centre!Bind(U, s, w)
    PROVE  /\ bound' \in [Users \X Skills -> {"none", "self", "group", "default", "admin"}]
           /\ \A u \in Users, t \in Skills : bound'[<<u, t>>] = IF u \in U /\ t = s THEN w ELSE bound[<<u, t>>]
<1>1. bound' = [b \in Users \X Skills |-> IF b \in U \X {s} THEN w ELSE bound[b]]
  BY DEF Centre!Bind
<1> QED
  BY <1>1 DEF SkillTypes, Centre!TypeOK

\* What leaves the bindings as they are.
LEMMA PeopleStill ==
    ASSUME ChosenBound, RemovedGone, bound' = bound, defaults' \subseteq defaults, chosen' \subseteq chosen,
           removed' \subseteq removed
    PROVE  ChosenBound' /\ RemovedGone'
BY DEF ChosenBound, RemovedGone

\* Between requests and after them there is nothing to say of the request.
LEMMA NobodyLeaves ==
    ASSUME ~(skillReq'[1].kind = "remove" /\ skillReq'[1].at \in {"bindings", "defaults", "copies"}) PROVE Departing'
BY DEF Departing

LEMMA GitAdded ==
    ASSUME SkillInv,
           Centre!GitAdd(1) \/ Centre!Clone(1) \/ Centre!CloneFails(1) \/ Centre!Rescan(1) \/ Centre!Configure(1)
    PROVE  SkillInv'
<1>0. /\ SkillTypes /\ Listed /\ ChosenBound /\ RemovedGone /\ skillReq[1] \in SkillRequest
      /\ disk \in [Centre!Sources -> SUBSET Skills] /\ "team" \in Centre!Sources /\ "hub" \in Centre!Sources
      /\ "team" # "hub" /\ upstream \subseteq Skills
  BY DEF SkillInv, SkillTypes, Centre!TypeOK, Centre!Sources
<1>1. /\ "none" \in Skills \cup {"none"} /\ "none" \in Users \cup {"none"}
      /\ "git" \in SkillKinds /\ "clone" \in SkillPlaces /\ "rescan" \in SkillPlaces /\ "configure" \in SkillPlaces
  BY DEF SkillKinds, SkillPlaces
<1>2. UNCHANGED <<torn, bound, defaults, copies, task, upstream, chosen, removed>>
  BY DEF Centre!GitAdd, Centre!Clone, Centre!CloneFails, Centre!Rescan, Centre!Configure,
         Centre!sources, Centre!people, Centre!ghosts
<1>3. ChosenBound' /\ RemovedGone'
  BY <1>0, <1>2, PeopleStill
<1>4. /\ DOMAIN skillReq' = {1} /\ skillReq'[1] \in SkillRequest /\ skillReq'[1].kind \in {"idle", "git"}
      /\ disk' \in [Centre!Sources -> SUBSET Skills] /\ disk'["hub"] = disk["hub"] /\ conf' \subseteq Centre!Sources
      /\ cloned' \in BOOLEAN /\ Listed'
  <2>1. CASE Centre!GitAdd(1)
    <3>1. /\ Centre!Begin(1, "git", "clone", "none", "none") /\ ~cloned /\ UNCHANGED <<disk, cloned, conf>>
      BY <2>1 DEF Centre!GitAdd, Centre!sources
    <3>2. /\ skillReq[1].at = "idle" /\ DOMAIN skillReq' = {1} /\ skillReq'[1] \in SkillRequest
          /\ skillReq'[1].kind = "git" /\ skillReq'[1].at = "clone"
      BY <1>0, <1>1, <3>1, RequestBegins
    <3> QED
      BY <1>0, <3>1, <3>2 DEF SkillTypes, Centre!TypeOK, Listed
  <2>2. CASE Centre!Clone(1)
    <3>1. /\ skillReq[1].kind = "git" /\ skillReq[1].at = "clone" /\ ~cloned /\ "team" \notin conf
      BY <1>0, <2>2 DEF Centre!Clone, Centre!At, Listed
    <3>2. cloned' = TRUE /\ disk' = [disk EXCEPT !["team"] = upstream] /\ Centre!Go(1, "rescan") /\ conf' = conf
      BY <2>2, <3>1 DEF Centre!Clone
    <3>3. /\ DOMAIN skillReq' = {1} /\ skillReq'[1] \in SkillRequest
          /\ skillReq'[1].kind = "git" /\ skillReq'[1].at = "rescan"
      BY <1>0, <1>1, <3>1, <3>2, RequestGoes
    <3> QED
      BY <1>0, <3>1, <3>2, <3>3 DEF SkillTypes, Centre!TypeOK, Listed
  <2>3. CASE Centre!CloneFails(1)
    <3>1. /\ skillReq[1].kind = "git" /\ skillReq[1].at = "clone" /\ Centre!Done(1) /\ UNCHANGED <<disk, cloned, conf>>
      BY <2>3 DEF Centre!CloneFails, Centre!At, Centre!sources
    <3> QED
      BY <1>0, <3>1, RequestEnds DEF SkillTypes, Centre!TypeOK, Listed
  <2>4. CASE Centre!Rescan(1)
    <3>1. /\ skillReq[1].kind = "git" /\ skillReq[1].at = "rescan" /\ UNCHANGED <<disk, conf>>
          /\ cloned /\ "team" \notin conf
      BY <1>0, <2>4 DEF Centre!Rescan, Centre!At, Listed
    <3>2. CASE cloned' = FALSE /\ Centre!Done(1)
      BY <1>0, <3>1, <3>2, RequestEnds DEF SkillTypes, Centre!TypeOK, Listed
    <3>3. CASE UNCHANGED cloned /\ Centre!Go(1, "configure")
      <4>1. /\ DOMAIN skillReq' = {1} /\ skillReq'[1] \in SkillRequest
            /\ skillReq'[1].kind = "git" /\ skillReq'[1].at = "configure"
        BY <1>0, <1>1, <3>1, <3>3, RequestGoes
      <4> QED
        BY <1>0, <3>1, <3>3, <4>1 DEF SkillTypes, Centre!TypeOK, Listed
    <3> QED
      BY <2>4, <3>2, <3>3 DEF Centre!Rescan
  <2>5. CASE Centre!Configure(1)
    <3>1. /\ skillReq[1].kind = "git" /\ skillReq[1].at = "configure" /\ UNCHANGED <<disk, cloned>>
          /\ cloned /\ conf' = conf \cup {"team"} /\ Centre!Done(1)
      BY <1>0, <2>5 DEF Centre!Configure, Centre!At, Listed
    <3> QED
      BY <1>0, <3>1, RequestEnds DEF SkillTypes, Centre!TypeOK, Listed
  <2> QED
    BY <2>1, <2>2, <2>3, <2>4, <2>5
<1>5. SkillTypes'
  BY <1>0, <1>2, <1>4 DEF SkillTypes, Centre!TypeOK
<1>6. Departing'
  BY <1>4, NobodyLeaves
<1> QED
  BY <1>3, <1>4, <1>5, <1>6 DEF SkillInv

LEMMA SourceDropped ==
    ASSUME SkillInv,
           Centre!SourceRemove(1) \/ Centre!UnbindSource(1) \/ Centre!RemoveSource(1) \/ Centre!ForgetSource(1)
    PROVE  SkillInv'
<1>0. /\ SkillTypes /\ Listed /\ ChosenBound /\ RemovedGone /\ skillReq[1] \in SkillRequest
      /\ disk \in [Centre!Sources -> SUBSET Skills] /\ "team" \in Centre!Sources /\ "hub" \in Centre!Sources
      /\ "team" # "hub"
  BY DEF SkillInv, SkillTypes, Centre!TypeOK, Centre!Sources
<1>1. /\ "none" \in Skills \cup {"none"} /\ "none" \in Users \cup {"none"}
      /\ "drop" \in SkillKinds /\ "unbind" \in SkillPlaces /\ "rmdir" \in SkillPlaces /\ "forget" \in SkillPlaces
  BY DEF SkillKinds, SkillPlaces
<1>2. UNCHANGED <<torn, defaults, copies, task, upstream, removed>>
  BY DEF Centre!SourceRemove, Centre!UnbindSource, Centre!RemoveSource, Centre!ForgetSource,
         Centre!sources, Centre!people, Centre!ghosts
<1>3. /\ bound' \in [Users \X Skills -> {"none", "self", "group", "default", "admin"}]
      /\ chosen' \subseteq chosen /\ \A b \in chosen' : bound'[b] = bound[b]
      /\ \A b \in Users \X Skills : bound'[b] \in {"none", bound[b]}
  <2>1. CASE Centre!UnbindSource(1)
    <3>1. /\ bound' = [b \in Users \X Skills |-> IF b[2] \in disk["team"] THEN "none" ELSE bound[b]]
          /\ chosen' = {b \in chosen : b[2] \notin disk["team"]}
      BY <2>1 DEF Centre!UnbindSource
    <3>2. chosen \subseteq Users \X Skills
      BY <1>0 DEF SkillTypes
    <3>3. bound \in [Users \X Skills -> {"none", "self", "group", "default", "admin"}]
      BY <1>0 DEF SkillTypes, Centre!TypeOK
    <3> QED
      BY <3>1, <3>2, <3>3
  <2>2. CASE ~Centre!UnbindSource(1)
    <3>1. UNCHANGED <<bound, chosen>>
      BY <2>2 DEF Centre!SourceRemove, Centre!RemoveSource, Centre!ForgetSource, Centre!people, Centre!ghosts
    <3> QED
      BY <1>0, <3>1 DEF SkillTypes, Centre!TypeOK
  <2> QED
    BY <2>1, <2>2
<1>4. ChosenBound' /\ RemovedGone'
  BY <1>0, <1>2, <1>3 DEF ChosenBound, RemovedGone, SkillTypes
<1>5. /\ DOMAIN skillReq' = {1} /\ skillReq'[1] \in SkillRequest /\ skillReq'[1].kind \in {"idle", "drop"}
      /\ disk' \in [Centre!Sources -> SUBSET Skills] /\ disk'["hub"] = disk["hub"] /\ conf' \subseteq Centre!Sources
      /\ cloned' \in BOOLEAN /\ Listed'
  <2>1. CASE Centre!SourceRemove(1)
    <3>1. /\ Centre!Begin(1, "drop", "unbind", "none", "none") /\ UNCHANGED <<disk, cloned, conf>>
      BY <2>1 DEF Centre!SourceRemove, Centre!sources
    <3>2. /\ skillReq[1].at = "idle" /\ DOMAIN skillReq' = {1} /\ skillReq'[1] \in SkillRequest
          /\ skillReq'[1].kind = "drop" /\ skillReq'[1].at = "unbind"
      BY <1>0, <1>1, <3>1, RequestBegins
    <3> QED
      BY <1>0, <3>1, <3>2 DEF SkillTypes, Centre!TypeOK, Listed
  <2>2. CASE Centre!UnbindSource(1)
    <3>1. /\ skillReq[1].kind = "drop" /\ skillReq[1].at = "unbind" /\ Centre!Go(1, "rmdir") /\ UNCHANGED <<disk, cloned, conf>>
      BY <2>2 DEF Centre!UnbindSource, Centre!At, Centre!sources
    <3>2. /\ DOMAIN skillReq' = {1} /\ skillReq'[1] \in SkillRequest
          /\ skillReq'[1].kind = "drop" /\ skillReq'[1].at = "rmdir"
      BY <1>0, <1>1, <3>1, RequestGoes
    <3> QED
      BY <1>0, <3>1, <3>2 DEF SkillTypes, Centre!TypeOK, Listed
  <2>3. CASE Centre!RemoveSource(1)
    <3>1. /\ skillReq[1].kind = "drop" /\ skillReq[1].at = "rmdir" /\ Centre!Go(1, "forget")
          /\ disk' = [disk EXCEPT !["team"] = {}] /\ cloned' = FALSE /\ conf' = conf
      BY <2>3 DEF Centre!RemoveSource, Centre!At
    <3>2. /\ DOMAIN skillReq' = {1} /\ skillReq'[1] \in SkillRequest
          /\ skillReq'[1].kind = "drop" /\ skillReq'[1].at = "forget"
      BY <1>0, <1>1, <3>1, RequestGoes
    <3> QED
      BY <1>0, <3>1, <3>2 DEF SkillTypes, Centre!TypeOK, Listed
  <2>4. CASE Centre!ForgetSource(1)
    <3>1. /\ skillReq[1].kind = "drop" /\ skillReq[1].at = "forget" /\ Centre!Done(1)
          /\ UNCHANGED <<disk, cloned>> /\ conf' = conf \ {"team"} /\ ~cloned
      BY <1>0, <2>4 DEF Centre!ForgetSource, Centre!At, Listed
    <3> QED
      BY <1>0, <3>1, RequestEnds DEF SkillTypes, Centre!TypeOK, Listed
  <2> QED
    BY <2>1, <2>2, <2>3, <2>4
<1>6. SkillTypes'
  BY <1>0, <1>2, <1>3, <1>5 DEF SkillTypes, Centre!TypeOK
<1>7. Departing'
  BY <1>5, NobodyLeaves
<1> QED
  BY <1>4, <1>5, <1>6, <1>7 DEF SkillInv

LEMMA HubInstalled ==
    ASSUME SkillInv,
           \/ \E s \in Skills : Centre!Install(1, s)
           \/ Centre!Download(1) \/ Centre!DownloadFails(1) \/ Centre!UnpackFails(1)
    PROVE  SkillInv'
<1>0. /\ SkillTypes /\ Listed /\ ChosenBound /\ RemovedGone /\ skillReq[1] \in SkillRequest
      /\ disk \in [Centre!Sources -> SUBSET Skills] /\ torn \subseteq disk["hub"]
      /\ "team" \in Centre!Sources /\ "hub" \in Centre!Sources /\ "team" # "hub"
  BY DEF SkillInv, SkillTypes, Centre!TypeOK, Centre!Sources
<1>1. /\ "install" \in SkillKinds /\ "download" \in SkillPlaces /\ "none" \in Users \cup {"none"}
  BY DEF SkillKinds, SkillPlaces
<1>2. UNCHANGED <<cloned, conf, bound, defaults, copies, task, upstream, chosen>> /\ removed' \subseteq removed
  BY DEF Centre!Install, Centre!Download, Centre!DownloadFails, Centre!UnpackFails,
         Centre!sources, Centre!people, Centre!ghosts
<1>3. ChosenBound' /\ RemovedGone'
  BY <1>0, <1>2, PeopleStill
<1>4. /\ DOMAIN skillReq' = {1} /\ skillReq'[1] \in SkillRequest /\ skillReq'[1].kind \in {"idle", "install"}
      /\ skillReq'[1].kind = "install" => skillReq'[1].skill \in Skills
      /\ skillReq[1].at = "idle" \/ skillReq[1].kind = "install"
      /\ disk' \in [Centre!Sources -> SUBSET Skills] /\ torn' \subseteq disk'["hub"]
  <2>1. ASSUME NEW s \in Skills, Centre!Install(1, s)
        PROVE  /\ DOMAIN skillReq' = {1} /\ skillReq'[1] \in SkillRequest /\ skillReq'[1].kind = "install"
               /\ skillReq'[1].skill = s /\ skillReq[1].at = "idle"
               /\ disk' \in [Centre!Sources -> SUBSET Skills] /\ torn' \subseteq disk'["hub"]
    <3>1. /\ Centre!Begin(1, "install", "download", s, "none")
          /\ disk' = [disk EXCEPT !["hub"] = @ \ {s}] /\ torn' = torn \ {s}
      BY <2>1 DEF Centre!Install
    <3>2. /\ skillReq[1].at = "idle" /\ DOMAIN skillReq' = {1} /\ skillReq'[1] \in SkillRequest
          /\ skillReq'[1].kind = "install" /\ skillReq'[1].skill = s
      BY <1>0, <1>1, <3>1, RequestBegins
    <3> QED
      BY <1>0, <3>1, <3>2
  <2>2. ASSUME Centre!Download(1) \/ Centre!DownloadFails(1) \/ Centre!UnpackFails(1)
        PROVE  /\ DOMAIN skillReq' = {1} /\ skillReq'[1] \in SkillRequest /\ skillReq'[1].kind = "idle"
               /\ skillReq[1].kind = "install"
               /\ disk' \in [Centre!Sources -> SUBSET Skills] /\ torn' \subseteq disk'["hub"]
    <3>1. skillReq[1].kind = "install" /\ Centre!Done(1) /\ skillReq[1].skill \in Skills
      BY <1>0, <2>2 DEF Centre!Download, Centre!DownloadFails, Centre!UnpackFails, Centre!At, SkillTypes
    <3>2. /\ disk' = [disk EXCEPT !["hub"] = @ \cup {skillReq[1].skill}] \/ UNCHANGED <<disk, torn>>
          /\ torn' = torn \/ torn' = torn \cup {skillReq[1].skill}
      BY <2>2 DEF Centre!Download, Centre!DownloadFails, Centre!UnpackFails, Centre!sources
    <3>3. disk' \in [Centre!Sources -> SUBSET Skills] /\ torn' \subseteq disk'["hub"]
      BY <1>0, <3>1, <3>2
    <3> QED
      BY <1>0, <3>1, <3>3, RequestEnds
  <2> QED
    BY <2>1, <2>2
<1>5. SkillTypes'
  BY <1>0, <1>2, <1>4 DEF SkillTypes, Centre!TypeOK
<1>6. Listed'
  BY <1>0, <1>2, <1>4 DEF Listed
<1>7. Departing'
  BY <1>4, NobodyLeaves
<1> QED
  BY <1>3, <1>5, <1>6, <1>7 DEF SkillInv

LEMMA SkillRemoved ==
    ASSUME SkillInv,
           \/ \E s \in Skills : Centre!SkillRemove(1, s)
           \/ \E src \in Centre!Sources : Centre!RemoveDir(1, src)
           \/ Centre!RemoveBindings(1) \/ Centre!RemoveDefault(1) \/ Centre!RemoveCopies(1)
    PROVE  SkillInv'
<1>0. /\ SkillTypes /\ Listed /\ ChosenBound /\ RemovedGone /\ Departing /\ skillReq[1] \in SkillRequest
      /\ DOMAIN skillReq = {1}
      /\ disk \in [Centre!Sources -> SUBSET Skills] /\ torn \subseteq disk["hub"]
      /\ "team" \in Centre!Sources /\ "hub" \in Centre!Sources /\ "team" # "hub"
      /\ defaults \subseteq Skills /\ copies \subseteq Users \X Skills
      /\ bound \in [Users \X Skills -> {"none", "self", "group", "default", "admin"}]
      /\ chosen \subseteq Users \X Skills /\ removed \subseteq Skills
  BY DEF SkillInv, SkillTypes, Centre!TypeOK, Centre!Sources
<1>1. /\ "remove" \in SkillKinds /\ "dir" \in SkillPlaces /\ "bindings" \in SkillPlaces
      /\ "defaults" \in SkillPlaces /\ "copies" \in SkillPlaces /\ "none" \in Users \cup {"none"}
  BY DEF SkillKinds, SkillPlaces
<1>2. UNCHANGED <<cloned, conf, task, upstream>>
  BY DEF Centre!SkillRemove, Centre!RemoveDir, Centre!RemoveBindings, Centre!RemoveDefault, Centre!RemoveCopies,
         Centre!sources
<1> DEFINE Kept ==
      /\ DOMAIN skillReq' = {1} /\ skillReq'[1] \in SkillRequest /\ skillReq'[1].kind \in {"idle", "remove"}
      /\ skillReq'[1].kind = "remove" => skillReq'[1].skill \in Skills
      /\ skillReq[1].at = "idle" \/ skillReq[1].kind = "remove"
      /\ disk' \in [Centre!Sources -> SUBSET Skills] /\ torn' \subseteq disk'["hub"]
      /\ bound' \in [Users \X Skills -> {"none", "self", "group", "default", "admin"}]
      /\ defaults' \subseteq Skills /\ copies' \subseteq Users \X Skills
      /\ chosen' \subseteq Users \X Skills /\ removed' \subseteq Skills
      /\ ChosenBound' /\ RemovedGone' /\ Departing'
<1>3. Kept
  <2>1. ASSUME NEW s \in Skills, Centre!SkillRemove(1, s) PROVE Kept
    <3>1. Centre!Begin(1, "remove", "dir", s, "none") /\ UNCHANGED <<disk, torn, bound, defaults, copies, chosen, removed>>
      BY <2>1 DEF Centre!SkillRemove, Centre!sources, Centre!people, Centre!ghosts
    <3>2. /\ skillReq[1].at = "idle" /\ DOMAIN skillReq' = {1} /\ skillReq'[1] \in SkillRequest
          /\ skillReq'[1].kind = "remove" /\ skillReq'[1].at = "dir" /\ skillReq'[1].skill = s
      BY <1>0, <1>1, <3>1, RequestBegins
    <3>3. ChosenBound' /\ RemovedGone'
      BY <1>0, <3>1, PeopleStill
    <3>4. Departing'
      BY <3>2, NobodyLeaves
    <3> QED
      BY <1>0, <3>1, <3>2, <3>3, <3>4
  <2>2. ASSUME NEW src \in Centre!Sources, Centre!RemoveDir(1, src) PROVE Kept
    <3>1. /\ skillReq[1].kind = "remove" /\ skillReq[1].skill \in Skills
          /\ skillReq' = [skillReq EXCEPT ![1].at = "bindings", ![1].todo = Centre!Who(skillReq[1].skill),
                                          ![1].raced = (task.skill = skillReq[1].skill)]
          /\ disk' = [disk EXCEPT ![src] = @ \ {skillReq[1].skill}]
          /\ torn' = IF src = "hub" THEN torn \ {skillReq[1].skill} ELSE torn
          /\ UNCHANGED <<bound, defaults, copies, chosen, removed>>
      BY <1>0, <2>2 DEF Centre!RemoveDir, Centre!At, Centre!people, Centre!ghosts, SkillTypes
    <3>2. Centre!Who(skillReq[1].skill) \in SUBSET Users /\ (task.skill = skillReq[1].skill) \in BOOLEAN
      BY DEF Centre!Who
    <3>3. /\ DOMAIN skillReq' = {1}
          /\ skillReq'[1] = [skillReq[1] EXCEPT !.at = "bindings", !.todo = Centre!Who(skillReq[1].skill),
                                                !.raced = (task.skill = skillReq[1].skill)]
      BY <1>0, <3>1
    <3>4. /\ skillReq'[1] \in SkillRequest /\ skillReq'[1].kind = "remove" /\ skillReq'[1].at = "bindings"
          /\ skillReq'[1].skill = skillReq[1].skill /\ skillReq'[1].raced = (task.skill = skillReq[1].skill)
      BY <1>0, <1>1, <3>1, <3>2, <3>3 DEF SkillRequest
    <3>5. Departing'
      BY <1>2, <3>4 DEF Departing
    <3>6. ChosenBound' /\ RemovedGone'
      BY <1>0, <3>1, PeopleStill
    <3>7. disk' \in [Centre!Sources -> SUBSET Skills] /\ torn' \subseteq disk'["hub"]
      BY <1>0, <3>1
    <3> QED
      BY <1>0, <3>1, <3>3, <3>4, <3>5, <3>6, <3>7
  <2>3. ASSUME Centre!RemoveBindings(1) PROVE Kept
    <3>1. /\ skillReq[1].kind = "remove" /\ skillReq[1].at = "bindings" /\ skillReq[1].skill \in Skills
          /\ Centre!Bind(Users, skillReq[1].skill, "none") /\ Centre!Go(1, "defaults")
          /\ chosen' = {b \in chosen : b[2] # skillReq[1].skill}
          /\ UNCHANGED <<disk, torn, defaults, copies, removed>>
      BY <1>0, <2>3 DEF Centre!RemoveBindings, Centre!At, Centre!sources, Centre!Unbind, SkillTypes
    <3>2. /\ DOMAIN skillReq' = {1} /\ skillReq'[1] \in SkillRequest
          /\ skillReq'[1].kind = "remove" /\ skillReq'[1].at = "defaults"
          /\ skillReq'[1].skill = skillReq[1].skill /\ skillReq'[1].raced = skillReq[1].raced
      BY <1>0, <1>1, <3>1, RequestGoes
    <3>3. /\ bound' \in [Users \X Skills -> {"none", "self", "group", "default", "admin"}]
          /\ \A u \in Users, t \in Skills : bound'[<<u, t>>] = IF t = skillReq[1].skill THEN "none" ELSE bound[<<u, t>>]
      <4>1. bound' = [b \in Users \X Skills |-> IF b \in Users \X {skillReq[1].skill} THEN "none" ELSE bound[b]]
        BY <3>1 DEF Centre!Bind
      <4> QED
        BY <1>0, <3>1, <4>1
    <3>4. Departing'
      BY <1>0, <1>2, <3>1, <3>2, <3>3 DEF Departing
    <3>5. RemovedGone'
      BY <1>0, <3>1, <3>3 DEF RemovedGone
    <3>6. ChosenBound'
      BY <1>0, <3>1, <3>3 DEF ChosenBound
    <3> QED
      BY <1>0, <3>1, <3>2, <3>3, <3>4, <3>5, <3>6
  <2>4. ASSUME Centre!RemoveDefault(1) PROVE Kept
    <3>1. /\ skillReq[1].kind = "remove" /\ skillReq[1].at = "defaults" /\ skillReq[1].skill \in Skills
          /\ Centre!Go(1, "copies") /\ defaults' = defaults \ {skillReq[1].skill}
          /\ UNCHANGED <<disk, torn, bound, copies, chosen, removed>>
      BY <1>0, <2>4 DEF Centre!RemoveDefault, Centre!At, Centre!sources, Centre!ghosts, SkillTypes
    <3>2. /\ DOMAIN skillReq' = {1} /\ skillReq'[1] \in SkillRequest
          /\ skillReq'[1].kind = "remove" /\ skillReq'[1].at = "copies"
          /\ skillReq'[1].skill = skillReq[1].skill /\ skillReq'[1].raced = skillReq[1].raced
      BY <1>0, <1>1, <3>1, RequestGoes
    <3>3. Departing'
      BY <1>0, <1>2, <3>1, <3>2 DEF Departing
    <3>4. ChosenBound' /\ RemovedGone'
      BY <1>0, <3>1, PeopleStill
    <3> QED
      BY <1>0, <3>1, <3>2, <3>3, <3>4
  <2>5. ASSUME Centre!RemoveCopies(1) PROVE Kept
    <3>1. /\ skillReq[1].kind = "remove" /\ skillReq[1].at = "copies" /\ skillReq[1].skill \in Skills
          /\ Centre!Done(1) /\ copies' \subseteq copies
          /\ removed' = IF skillReq[1].raced THEN removed ELSE removed \cup {skillReq[1].skill}
          /\ UNCHANGED <<disk, torn, bound, defaults, chosen>>
      BY <1>0, <2>5 DEF Centre!RemoveCopies, Centre!At, Centre!sources, SkillTypes
    <3>2. /\ DOMAIN skillReq' = {1} /\ skillReq'[1] \in SkillRequest /\ skillReq'[1].kind = "idle"
      BY <1>0, <3>1, RequestEnds
    <3>3. Departing'
      BY <3>2, NobodyLeaves
    <3>4. ChosenBound'
      BY <1>0, <3>1 DEF ChosenBound
    <3>5. RemovedGone'
      BY <1>0, <3>1 DEF RemovedGone, Departing
    <3> QED
      BY <1>0, <3>1, <3>2, <3>3, <3>4, <3>5
  <2> QED
    BY <2>1, <2>2, <2>3, <2>4, <2>5
<1>4. SkillTypes'
  BY <1>0, <1>2, <1>3 DEF SkillTypes, Centre!TypeOK
<1>5. Listed'
  BY <1>0, <1>2, <1>3 DEF Listed
<1> QED
  BY <1>3, <1>4, <1>5 DEF SkillInv

\* Some users are bound to a skill, or no longer: who chose another keeps it,
\* and who chose this one is bound to it, or is not said to have chosen it.
Rebinds(U, s, w) ==
    /\ bound' = [b \in Users \X Skills |-> IF b \in U \X {s} THEN w ELSE bound[b]] /\ defaults' = defaults
    /\ \A b \in chosen' : (b \in U \X {s} /\ w \in {"self", "default"}) \/ (b \in chosen /\ b \notin U \X {s})
    /\ removed' \subseteq removed /\ (w = "none" \/ s \notin removed')

LEMMA Rebound ==
    ASSUME SkillInv, NEW U \in SUBSET Users, NEW s \in Skills, NEW w \in {"none", "self", "group", "default", "admin"},
           Rebinds(U, s, w)
    PROVE  /\ bound' \in [Users \X Skills -> {"none", "self", "group", "default", "admin"}]
           /\ chosen' \subseteq Users \X Skills /\ ChosenBound' /\ RemovedGone'
<1> USE DEF Rebinds
<1>1. /\ bound \in [Users \X Skills -> {"none", "self", "group", "default", "admin"}]
      /\ chosen \subseteq Users \X Skills /\ removed \subseteq Skills /\ ChosenBound /\ RemovedGone
  BY DEF SkillInv, SkillTypes, Centre!TypeOK
<1>2. bound' \in [Users \X Skills -> {"none", "self", "group", "default", "admin"}]
  BY <1>1
<1>3. chosen' \subseteq Users \X Skills
  BY <1>1
<1>4. ChosenBound'
  <2> SUFFICES ASSUME NEW b \in chosen' PROVE bound'[b] \in {"self", "default"}
    BY DEF ChosenBound
  <2>1. b \in Users \X Skills
    BY <1>3
  <2>2. CASE b \in U \X {s} /\ w \in {"self", "default"}
    BY <2>1, <2>2
  <2>3. CASE b \in chosen /\ b \notin U \X {s}
    BY <1>1, <2>1, <2>3 DEF ChosenBound
  <2> QED
    BY <2>2, <2>3
<1>5. RemovedGone'
  <2> SUFFICES ASSUME NEW t \in removed' PROVE t \notin defaults' /\ \A u \in Users : bound'[<<u, t>>] = "none"
    BY DEF RemovedGone
  <2>1. t \in removed /\ t \in Skills /\ t \notin defaults /\ \A u \in Users : bound[<<u, t>>] = "none"
    BY <1>1 DEF RemovedGone
  <2>2. \A u \in Users : bound'[<<u, t>>] = "none"
    BY <2>1
  <2> QED
    BY <2>1, <2>2
<1> QED
  BY <1>2, <1>3, <1>4, <1>5

LEMMA UserChooses ==
    ASSUME SkillInv,
           \/ \E u \in Users, s \in Skills : Centre!UserInstall(1, u, s) \/ Centre!UserUninstall(1, u, s)
           \/ Centre!UserBinds(1) \/ Centre!UserUnbinds(1)
    PROVE  SkillInv'
<1>0. /\ SkillTypes /\ Listed /\ ChosenBound /\ RemovedGone /\ skillReq[1] \in SkillRequest
      /\ bound \in [Users \X Skills -> {"none", "self", "group", "default", "admin"}]
      /\ chosen \subseteq Users \X Skills /\ removed \subseteq Skills /\ copies \subseteq Users \X Skills
  BY DEF SkillInv, SkillTypes, Centre!TypeOK
<1>1. /\ "choose" \in SkillKinds /\ "leave" \in SkillKinds /\ "bind" \in SkillPlaces /\ "unbind" \in SkillPlaces
  BY DEF SkillKinds, SkillPlaces
<1>2. UNCHANGED <<disk, cloned, torn, conf, defaults, task, upstream>>
  BY DEF Centre!UserInstall, Centre!UserUninstall, Centre!UserBinds, Centre!UserUnbinds, Centre!sources, Centre!people
<1> DEFINE Kept ==
      /\ DOMAIN skillReq' = {1} /\ skillReq'[1] \in SkillRequest /\ skillReq'[1].kind \in {"idle", "choose", "leave"}
      /\ skillReq'[1].kind # "idle" => skillReq'[1].skill \in Skills /\ skillReq'[1].user \in Users
      /\ skillReq[1].at = "idle" \/ skillReq[1].kind \in {"choose", "leave"}
      /\ bound' \in [Users \X Skills -> {"none", "self", "group", "default", "admin"}]
      /\ copies' \subseteq Users \X Skills /\ chosen' \subseteq Users \X Skills /\ removed' \subseteq Skills
      /\ ChosenBound' /\ RemovedGone'
<1>3. Kept
  <2>1. ASSUME NEW u \in Users, NEW s \in Skills, Centre!UserInstall(1, u, s) \/ Centre!UserUninstall(1, u, s) PROVE Kept
    <3>1. /\ Centre!Begin(1, "choose", "bind", s, u) \/ Centre!Begin(1, "leave", "unbind", s, u)
          /\ UNCHANGED <<bound, copies, chosen, removed>>
      BY <2>1 DEF Centre!UserInstall, Centre!UserUninstall, Centre!people, Centre!ghosts
    <3>2. /\ skillReq[1].at = "idle" /\ DOMAIN skillReq' = {1} /\ skillReq'[1] \in SkillRequest
          /\ skillReq'[1].kind \in {"choose", "leave"} /\ skillReq'[1].skill = s /\ skillReq'[1].user = u
      <4>0. s \in Skills \cup {"none"} /\ u \in Users \cup {"none"}
        OBVIOUS
      <4>1. PICK k \in {"choose", "leave"}, a \in {"bind", "unbind"} : Centre!Begin(1, k, a, s, u)
        BY <3>1
      <4>2. k \in SkillKinds /\ a \in SkillPlaces
        BY <1>1
      <4>3. /\ skillReq[1].at = "idle" /\ DOMAIN skillReq' = {1} /\ skillReq'[1] \in SkillRequest
            /\ skillReq'[1].kind = k /\ skillReq'[1].skill = s /\ skillReq'[1].user = u
        BY <1>0, <4>0, <4>1, <4>2, RequestBegins
      <4> QED
        BY <4>3
    <3>3. ChosenBound' /\ RemovedGone'
      BY <1>0, <1>2, <3>1, PeopleStill
    <3> QED
      BY <1>0, <3>1, <3>2, <3>3
  <2>2. ASSUME Centre!UserBinds(1) PROVE Kept
    <3>1. PICK u \in Users, s \in Skills : u = skillReq[1].user /\ s = skillReq[1].skill /\ skillReq[1].kind = "choose"
      BY <1>0, <2>2 DEF Centre!UserBinds, Centre!At, SkillTypes
    <3>2. /\ bound' = [b \in Users \X Skills |-> IF b \in {u} \X {s} THEN "self" ELSE bound[b]] /\ Centre!Done(1)
          /\ chosen' = chosen \cup {<<u, s>>} /\ removed' = removed \ {s} /\ copies' = copies
      BY <2>2, <3>1 DEF Centre!UserBinds, Centre!Bind
    <3>3. \A b \in chosen' : (b \in {u} \X {s} /\ "self" \in {"self", "default"}) \/ (b \in chosen /\ b \notin {u} \X {s})
      BY <3>2
    <3>4. /\ bound' \in [Users \X Skills -> {"none", "self", "group", "default", "admin"}]
          /\ chosen' \subseteq Users \X Skills /\ ChosenBound' /\ RemovedGone'
      <4>1. Rebinds({u}, s, "self")
        BY <1>2, <3>2, <3>3 DEF Rebinds
      <4>2. {u} \in SUBSET Users /\ "self" \in {"none", "self", "group", "default", "admin"}
        OBVIOUS
      <4> HIDE DEF Kept
      <4> QED
        BY <4>1, <4>2, Rebound
    <3> QED
      BY <1>0, <3>1, <3>2, <3>4, RequestEnds
  <2>3. ASSUME Centre!UserUnbinds(1) PROVE Kept
    <3>1. PICK u \in Users, s \in Skills : u = skillReq[1].user /\ s = skillReq[1].skill /\ skillReq[1].kind = "leave"
      BY <1>0, <2>3 DEF Centre!UserUnbinds, Centre!At, SkillTypes
    <3>2. /\ bound' = [b \in Users \X Skills |-> IF b \in {u} \X {s} THEN "none" ELSE bound[b]] /\ Centre!Done(1)
          /\ chosen' = chosen \ {<<u, s>>} /\ removed' = removed /\ copies' \subseteq copies
      BY <2>3, <3>1 DEF Centre!UserUnbinds, Centre!Unbind, Centre!Bind
    <3>3. \A b \in chosen' : b \in chosen /\ b \notin {u} \X {s}
      BY <3>2
    <3>4. /\ bound' \in [Users \X Skills -> {"none", "self", "group", "default", "admin"}]
          /\ chosen' \subseteq Users \X Skills /\ ChosenBound' /\ RemovedGone'
      <4>1. Rebinds({u}, s, "none")
        BY <1>2, <3>2, <3>3 DEF Rebinds
      <4>2. {u} \in SUBSET Users /\ "none" \in {"none", "self", "group", "default", "admin"}
        OBVIOUS
      <4> HIDE DEF Kept
      <4> QED
        BY <4>1, <4>2, Rebound
    <3> QED
      BY <1>0, <3>1, <3>2, <3>4, RequestEnds
  <2> QED
    BY <2>1, <2>2, <2>3
<1>4. SkillTypes'
  BY <1>0, <1>2, <1>3 DEF SkillTypes, Centre!TypeOK
<1>5. Listed'
  BY <1>0, <1>2, <1>3 DEF Listed
<1>6. Departing'
  BY <1>3, NobodyLeaves
<1> QED
  BY <1>3, <1>4, <1>5, <1>6 DEF SkillInv

\* What is done in one go happens between the steps of no request.
LEMMA BriefIsQuiet ==
    ASSUME SkillInv, Centre!Brief, skillReq' = skillReq, UNCHANGED <<cloned, conf>>
    PROVE  Listed' /\ Departing'
<1>1. skillReq[1].at = "idle" /\ skillReq'[1].at = "idle"
  BY RequestIsBrief DEF SkillInv
<1> QED
  BY <1>1 DEF SkillInv, Listed, Departing

LEMMA SourcesChange ==
    ASSUME SkillInv, \/ Centre!Pull \/ Centre!Upstream
                     \/ \E s \in Skills, U \in (SUBSET Users) \ {{}} : Centre!Deploy(s, U)
    PROVE  SkillInv'
<1>0. /\ SkillTypes /\ ChosenBound /\ RemovedGone /\ disk \in [Centre!Sources -> SUBSET Skills]
      /\ "team" \in Centre!Sources /\ "hub" \in Centre!Sources /\ "team" # "hub" /\ upstream \subseteq Skills
  BY DEF SkillInv, SkillTypes, Centre!TypeOK, Centre!Sources
<1>1. /\ Centre!Brief /\ skillReq' = skillReq /\ removed' \subseteq removed
      /\ UNCHANGED <<cloned, torn, conf, bound, defaults, copies, chosen>>
  BY DEF Centre!Pull, Centre!Upstream, Centre!Deploy, Centre!sources, Centre!people, Centre!ghosts
<1>2. Listed' /\ Departing'
  BY <1>1, BriefIsQuiet
<1>3. ChosenBound' /\ RemovedGone'
  BY <1>0, <1>1, PeopleStill
<1>4. /\ disk' \in [Centre!Sources -> SUBSET Skills] /\ disk'["hub"] = disk["hub"] /\ upstream' \subseteq Skills
      /\ task' \in [skill : Skills \cup {"none"}, todo : SUBSET Users] /\ (task'.todo # {} => task'.skill \in Skills)
  <2>1. CASE Centre!Pull
    <3>1. disk' = [disk EXCEPT !["team"] = upstream] /\ UNCHANGED <<task, upstream>>
      BY <2>1 DEF Centre!Pull
    <3> QED
      BY <1>0, <3>1 DEF SkillTypes
  <2>2. CASE Centre!Upstream
    BY <1>0, <2>2 DEF Centre!Upstream, Centre!sources, SkillTypes
  <2>3. ASSUME NEW s \in Skills, NEW U \in (SUBSET Users) \ {{}}, Centre!Deploy(s, U)
        PROVE  /\ UNCHANGED <<disk, upstream>> /\ task' = [skill |-> s, todo |-> U]
    BY <2>3 DEF Centre!Deploy, Centre!sources
  <2>4. CASE \E s \in Skills, U \in (SUBSET Users) \ {{}} : Centre!Deploy(s, U)
    BY <1>0, <2>3, <2>4
  <2> QED
    BY <2>1, <2>2, <2>4
<1>5. SkillTypes'
  BY <1>0, <1>1, <1>4 DEF SkillTypes, Centre!TypeOK
<1> QED
  BY <1>2, <1>3, <1>5 DEF SkillInv

LEMMA BindingsChange ==
    ASSUME SkillInv,
           \/ \E s \in Skills, U \in (SUBSET Users) \ {{}} : Centre!GroupBind(s, U) \/ Centre!GroupUnbind(s, U)
           \/ \E s \in Skills, u \in Users : Centre!AdminBind(u, s) \/ Centre!AdminUnbind(u, s)
    PROVE  SkillInv'
<1>0. /\ SkillTypes /\ ChosenBound /\ copies \subseteq Users \X Skills /\ chosen \subseteq Users \X Skills
      /\ removed \subseteq Skills
  BY DEF SkillInv, SkillTypes, Centre!TypeOK
<1>1. /\ Centre!Brief /\ skillReq' = skillReq
      /\ UNCHANGED <<disk, cloned, torn, conf, defaults, task, upstream>>
  BY DEF Centre!GroupBind, Centre!GroupUnbind, Centre!AdminBind, Centre!AdminUnbind, Centre!sources, Centre!ghosts
<1>2. Listed' /\ Departing'
  BY <1>1, BriefIsQuiet
<1>3. PICK U \in SUBSET Users, s \in Skills, w \in {"none", "group", "admin"} :
          /\ bound' = [b \in Users \X Skills |-> IF b \in U \X {s} THEN w ELSE bound[b]]
          /\ chosen' \subseteq chosen /\ \A b \in chosen' : b \notin U \X {s}
          /\ removed' \subseteq removed /\ (w = "none" \/ s \notin removed') /\ copies' \subseteq copies
  <2>1. ASSUME NEW s \in Skills, NEW U \in (SUBSET Users) \ {{}}, Centre!GroupBind(s, U)
        PROVE  /\ U \subseteq Users /\ bound' = [b \in Users \X Skills |-> IF b \in U \X {s} THEN "group" ELSE bound[b]]
               /\ chosen' \subseteq chosen /\ \A b \in chosen' : b \notin U \X {s}
               /\ removed' \subseteq removed /\ s \notin removed' /\ copies' \subseteq copies
    BY <2>1 DEF Centre!GroupBind, Centre!Bind
  <2>2. ASSUME NEW s \in Skills, NEW U \in (SUBSET Users) \ {{}}, Centre!GroupUnbind(s, U)
        PROVE  LET mine == {u \in U : bound[<<u, s>>] = "group"} IN
               /\ mine \subseteq Users /\ bound' = [b \in Users \X Skills |-> IF b \in mine \X {s} THEN "none" ELSE bound[b]]
               /\ chosen' \subseteq chosen /\ \A b \in chosen' : b \notin mine \X {s}
               /\ removed' \subseteq removed /\ copies' \subseteq copies
    <3>1. /\ bound' = [b \in Users \X Skills |-> IF b \in {u \in U : bound[<<u, s>>] = "group"} \X {s} THEN "none" ELSE bound[b]]
          /\ copies' = copies \ ({u \in U : bound[<<u, s>>] = "group"} \X {s}) /\ UNCHANGED <<chosen, removed>>
      BY <2>2 DEF Centre!GroupUnbind, Centre!Unbind, Centre!Bind, Centre!ghosts
    <3>2. \A b \in chosen : b \notin {u \in U : bound[<<u, s>>] = "group"} \X {s}
      BY <1>0 DEF ChosenBound
    <3> QED
      BY <3>1, <3>2
  <2>3. ASSUME NEW s \in Skills, NEW u \in Users, Centre!AdminBind(u, s)
        PROVE  /\ bound' = [b \in Users \X Skills |-> IF b \in {u} \X {s} THEN "admin" ELSE bound[b]]
               /\ chosen' \subseteq chosen /\ \A b \in chosen' : b \notin {u} \X {s}
               /\ removed' \subseteq removed /\ s \notin removed' /\ copies' \subseteq copies
    BY <2>3 DEF Centre!AdminBind, Centre!Bind
  <2>4. ASSUME NEW s \in Skills, NEW u \in Users, Centre!AdminUnbind(u, s)
        PROVE  /\ bound' = [b \in Users \X Skills |-> IF b \in {u} \X {s} THEN "none" ELSE bound[b]]
               /\ chosen' \subseteq chosen /\ \A b \in chosen' : b \notin {u} \X {s}
               /\ removed' \subseteq removed /\ copies' \subseteq copies
    BY <2>4 DEF Centre!AdminUnbind, Centre!Unbind, Centre!Bind
  <2> DEFINE Does(U, s, w) ==
          /\ bound' = [b \in Users \X Skills |-> IF b \in U \X {s} THEN w ELSE bound[b]]
          /\ chosen' \subseteq chosen /\ \A b \in chosen' : b \notin U \X {s}
          /\ removed' \subseteq removed /\ (w = "none" \/ s \notin removed') /\ copies' \subseteq copies
  <2>5. ASSUME NEW s \in Skills, NEW U \in (SUBSET Users) \ {{}}, Centre!GroupBind(s, U) PROVE Does(U, s, "group")
    BY <2>1, <2>5
  <2>6. ASSUME NEW s \in Skills, NEW U \in (SUBSET Users) \ {{}}, Centre!GroupUnbind(s, U)
        PROVE  Does({u \in U : bound[<<u, s>>] = "group"}, s, "none")
    BY <2>2, <2>6
  <2>7. ASSUME NEW s \in Skills, NEW u \in Users, Centre!AdminBind(u, s) PROVE Does({u}, s, "admin")
    BY <2>3, <2>7
  <2>8. ASSUME NEW s \in Skills, NEW u \in Users, Centre!AdminUnbind(u, s) PROVE Does({u}, s, "none")
    BY <2>4, <2>8
  <2> HIDE DEF Does
  <2> DEFINE Done == \E U \in SUBSET Users, s \in Skills, w \in {"none", "group", "admin"} : Does(U, s, w)
  <2>9. ASSUME NEW s \in Skills, NEW U \in (SUBSET Users) \ {{}}, Centre!GroupBind(s, U) PROVE Done
    BY <2>5, <2>9
  <2>10. ASSUME NEW s \in Skills, NEW U \in (SUBSET Users) \ {{}}, Centre!GroupUnbind(s, U) PROVE Done
    <3>1. {u \in U : bound[<<u, s>>] = "group"} \in SUBSET Users
      OBVIOUS
    <3> QED
      BY <2>6, <2>10, <3>1
  <2>11. ASSUME NEW s \in Skills, NEW u \in Users, Centre!AdminBind(u, s) \/ Centre!AdminUnbind(u, s) PROVE Done
    <3>1. {u} \in SUBSET Users
      OBVIOUS
    <3> QED
      BY <2>7, <2>8, <2>11, <3>1
  <2>12. Done
    BY <2>9, <2>10, <2>11
  <2> QED
    BY <2>12 DEF Does
<1>4. /\ bound' \in [Users \X Skills -> {"none", "self", "group", "default", "admin"}]
      /\ chosen' \subseteq Users \X Skills /\ ChosenBound' /\ RemovedGone'
  <2>1. w \in {"none", "self", "group", "default", "admin"} /\ U \subseteq Users
    BY <1>3
  <2>2. Rebinds(U, s, w)
    BY <1>1, <1>3 DEF Rebinds
  <2> QED
    BY <2>1, <2>2, Rebound
<1>5. SkillTypes'
  BY <1>0, <1>1, <1>3, <1>4 DEF SkillTypes, Centre!TypeOK
<1> QED
  BY <1>2, <1>4, <1>5 DEF SkillInv

LEMMA DefaultsChange ==
    ASSUME SkillInv,
           \/ \E s \in Skills : Centre!DefaultsToggle(s)
           \/ \E u \in Users : Centre!ApplyDefaults(u)
           \/ \E u \in Users, s \in Skills : Centre!OwnSkill(u, s)
    PROVE  SkillInv'
<1>0. /\ SkillTypes /\ ChosenBound /\ RemovedGone /\ copies \subseteq Users \X Skills /\ chosen \subseteq Users \X Skills
      /\ removed \subseteq Skills /\ defaults \subseteq Skills
      /\ bound \in [Users \X Skills -> {"none", "self", "group", "default", "admin"}]
  BY DEF SkillInv, SkillTypes, Centre!TypeOK
<1>1. /\ Centre!Brief /\ skillReq' = skillReq /\ chosen' = chosen /\ removed' \subseteq removed
      /\ UNCHANGED <<disk, cloned, torn, conf, task, upstream>>
  BY DEF Centre!DefaultsToggle, Centre!ApplyDefaults, Centre!OwnSkill, Centre!sources, Centre!ghosts
<1>2. Listed' /\ Departing'
  BY <1>1, BriefIsQuiet
<1>3. /\ bound' \in [Users \X Skills -> {"none", "self", "group", "default", "admin"}]
      /\ defaults' \subseteq Skills /\ copies' \subseteq Users \X Skills /\ ChosenBound' /\ RemovedGone'
  <2>1. ASSUME NEW s \in Skills, Centre!DefaultsToggle(s)
        PROVE  /\ UNCHANGED <<bound, copies>> /\ defaults' \subseteq Skills /\ ChosenBound' /\ RemovedGone'
    <3>1. /\ UNCHANGED <<bound, copies>> /\ removed' = removed \ {s}
          /\ defaults' = IF s \in defaults THEN defaults \ {s} ELSE defaults \cup {s}
      BY <2>1 DEF Centre!DefaultsToggle
    <3> QED
      BY <1>0, <1>1, <3>1 DEF ChosenBound, RemovedGone
  <2>2. ASSUME NEW u \in Users, Centre!ApplyDefaults(u)
        PROVE  /\ bound' \in [Users \X Skills -> {"none", "self", "group", "default", "admin"}]
               /\ defaults' \subseteq Skills /\ copies' = copies /\ ChosenBound' /\ RemovedGone'
    <3>1. PICK valid \in SUBSET defaults :
              /\ defaults' = valid /\ UNCHANGED <<copies, chosen, removed>>
              /\ bound' = [b \in Users \X Skills |-> IF b \in {u} \X valid THEN "default" ELSE bound[b]]
      <4> DEFINE valid == {s \in defaults : Centre!Found(s)}
      <4>1. /\ defaults' = valid /\ UNCHANGED <<copies, chosen, removed>> /\ valid \in SUBSET defaults
            /\ bound' = [b \in Users \X Skills |-> IF b \in {u} \X valid THEN "default" ELSE bound[b]]
        BY <2>2 DEF Centre!ApplyDefaults, Centre!ghosts
      <4> HIDE DEF valid
      <4> QED
        BY <4>1
    <3>2. ChosenBound'
      BY <1>0, <3>1 DEF ChosenBound
    <3>3. RemovedGone'
      BY <1>0, <3>1 DEF RemovedGone
    <3>4. bound' \in [Users \X Skills -> {"none", "self", "group", "default", "admin"}]
      BY <1>0, <3>1
    <3> QED
      BY <1>0, <3>1, <3>2, <3>3, <3>4
  <2>3. ASSUME NEW u \in Users, NEW s \in Skills, Centre!OwnSkill(u, s)
        PROVE  /\ UNCHANGED <<bound, defaults>> /\ copies' \subseteq Users \X Skills /\ ChosenBound' /\ RemovedGone'
    BY <1>0, <1>1, <2>3, PeopleStill DEF Centre!OwnSkill
  <2> QED
    BY <1>0, <2>1, <2>2, <2>3
<1>4. SkillTypes'
  BY <1>0, <1>1, <1>3 DEF SkillTypes, Centre!TypeOK
<1> QED
  BY <1>2, <1>3, <1>4 DEF SkillInv

\* The deployment does not touch the skill that a request takes away.
LEMMA Deployed == ASSUME SkillInv, NEW u \in Users, Centre!DeployNext(u) PROVE SkillInv'
<1>0. /\ SkillTypes /\ ChosenBound /\ RemovedGone /\ Departing /\ chosen \subseteq Users \X Skills
      /\ removed \subseteq Skills /\ task \in [skill : Skills \cup {"none"}, todo : SUBSET Users] /\ skillReq[1] \in SkillRequest
      /\ bound \in [Users \X Skills -> {"none", "self", "group", "default", "admin"}]
  BY DEF SkillInv, SkillTypes, Centre!TypeOK
<1>1. PICK s \in Skills : s = task.skill
  BY <1>0 DEF Centre!DeployNext, SkillTypes
<1>2. /\ UNCHANGED <<disk, cloned, torn, conf, defaults, copies, upstream, skillReq>>
      /\ bound' = [b \in Users \X Skills |-> IF b \in {u} \X {s} THEN "admin" ELSE bound[b]]
      /\ chosen' = chosen \ {<<u, s>>} /\ removed' = removed \ {s} /\ task.todo # {}
      /\ task' = IF task.todo = {u} THEN Centre!NoTask ELSE [task EXCEPT !.todo = @ \ {u}]
  BY <1>1 DEF Centre!DeployNext, Centre!Bind, Centre!sources
<1>3. /\ bound' \in [Users \X Skills -> {"none", "self", "group", "default", "admin"}]
      /\ chosen' \subseteq Users \X Skills /\ ChosenBound' /\ RemovedGone'
  <2>1. Rebinds({u}, s, "admin")
    BY <1>2 DEF Rebinds
  <2>2. {u} \in SUBSET Users /\ "admin" \in {"none", "self", "group", "default", "admin"}
    OBVIOUS
  <2> QED
    BY <2>1, <2>2, Rebound
<1>4. /\ task' \in [skill : Skills \cup {"none"}, todo : SUBSET Users] /\ (task'.todo # {} => task'.skill = s)
  BY <1>0, <1>1, <1>2 DEF Centre!NoTask
<1>5. SkillTypes'
  BY <1>0, <1>2, <1>3, <1>4 DEF SkillTypes, Centre!TypeOK
<1>6. Listed'
  BY <1>2 DEF SkillInv, Listed
<1>7. Departing'
  <2>1. skillReq[1].kind = "remove" => skillReq[1].skill \in Skills
    BY <1>0 DEF SkillTypes
  <2>2. \A v \in Users, t \in Skills : t # s => bound'[<<v, t>>] = bound[<<v, t>>]
    BY <1>0, <1>2
  <2> QED
    BY <1>0, <1>1, <1>2, <1>4, <2>1, <2>2 DEF Departing
<1> QED
  BY <1>3, <1>5, <1>6, <1>7 DEF SkillInv

LEMMA SkillStutters == SkillInv /\ UNCHANGED skillVars => SkillInv'
<1> SUFFICES ASSUME SkillInv, UNCHANGED skillVars PROVE SkillInv'
  OBVIOUS
<1>1. UNCHANGED <<disk, cloned, torn, conf, bound, defaults, copies, task, upstream, skillReq, chosen, removed>>
  BY DEF skillVars
<1> QED
  BY <1>1 DEF SkillInv, SkillTypes, Centre!TypeOK, Listed, ChosenBound, RemovedGone, Departing

LEMMA SkillStepped == SkillInv /\ SkillPart => SkillInv'
<1> SUFFICES ASSUME SkillInv, Centre!Next PROVE SkillInv'
  BY DEF SkillPart
<1>1. \/ Centre!GitAdd(1) \/ Centre!Clone(1) \/ Centre!CloneFails(1) \/ Centre!Rescan(1) \/ Centre!Configure(1)
      \/ Centre!SourceRemove(1) \/ Centre!UnbindSource(1) \/ Centre!RemoveSource(1) \/ Centre!ForgetSource(1)
      \/ Centre!Download(1) \/ Centre!DownloadFails(1) \/ Centre!UnpackFails(1)
      \/ (\E s \in Skills : Centre!Install(1, s)) \/ (\E s \in Skills : Centre!SkillRemove(1, s))
      \/ (\E src \in Centre!Sources : Centre!RemoveDir(1, src))
      \/ Centre!RemoveBindings(1) \/ Centre!RemoveDefault(1) \/ Centre!RemoveCopies(1)
      \/ (\E u \in Users, s \in Skills : Centre!UserInstall(1, u, s) \/ Centre!UserUninstall(1, u, s))
      \/ Centre!UserBinds(1) \/ Centre!UserUnbinds(1)
      \/ Centre!Pull \/ Centre!Upstream
      \/ (\E s \in Skills : Centre!DefaultsToggle(s))
      \/ (\E s \in Skills, U \in (SUBSET Users) \ {{}} : Centre!Deploy(s, U))
      \/ (\E s \in Skills, U \in (SUBSET Users) \ {{}} : Centre!GroupBind(s, U) \/ Centre!GroupUnbind(s, U))
      \/ (\E u \in Users : Centre!ApplyDefaults(u)) \/ (\E u \in Users : Centre!DeployNext(u))
      \/ (\E s \in Skills, u \in Users : Centre!AdminBind(u, s) \/ Centre!AdminUnbind(u, s))
      \/ (\E u \in Users, s \in Skills : Centre!OwnSkill(u, s))
  BY Zenon DEF Centre!Next
<1> QED
  BY <1>1, GitAdded, SourceDropped, HubInstalled, SkillRemoved, UserChooses, SourcesChange, BindingsChange,
     DefaultsChange, Deployed

LEMMA SkillSafe == SkillInv => Centre!SkillsSafe
<1> SUFFICES ASSUME SkillInv PROVE Centre!SkillsSafe
  OBVIOUS
<1>1. Centre!TypeOK /\ SkillTypes
  BY DEF SkillInv, SkillTypes
<1>2. Centre!SourcesListed
  <2> SUFFICES ASSUME skillReq[1].at = "idle" PROVE ("team" \in conf) = cloned
    BY DEF Centre!SourcesListed, Centre!Resting
  <2>1. "team" \in conf <=> cloned
    BY DEF SkillInv, Listed
  <2>2. cloned \in BOOLEAN
    BY <1>1 DEF SkillTypes
  <2> QED
    BY <2>1, <2>2
<1>3. Centre!ChosenKept
  BY DEF SkillInv, ChosenBound, Centre!ChosenKept
<1>4. Centre!RemovedIsGone
  BY DEF SkillInv, RemovedGone, Centre!RemovedIsGone, Centre!Who
<1> QED
  BY <1>1, <1>2, <1>3, <1>4 DEF Centre!SkillsSafe

-----------------------------------------------------------------------------
(* SharedFolders: where the directory of a folder is while a request is       *)
(* served, and whose files it holds.                                          *)

FolderIds == 1..MaxFolders
Existing == Folders!Live
FolderRequest == folderReq[1]
FolderRequests == [kind : {"idle", "create", "update", "delete"},
                   at : {"idle", "insert", "groups", "move", "record", "archive"},
                   id : 0..MaxFolders, name : FolderNames \cup {"none"}, old : FolderNames \cup {"none"},
                   public : BOOLEAN, groups : SUBSET StaffGroups]

FolderTypes ==
    /\ folder \in [FolderIds -> [name : FolderNames, public : BOOLEAN] \cup {Folders!NoFolder}]
    /\ granted \in [FolderIds -> SUBSET StaffGroups]
    /\ dirs \subseteq FolderNames /\ files \in [FolderNames -> SUBSET FolderFiles]
    /\ putIn \in [FolderFiles -> 0..MaxFolders] /\ created \in 0..MaxFolders /\ faults \in Nat
    /\ folderReq \in [{1} -> FolderRequests]

\* A name is one folder's, and what is recorded is of folders there are.
FolderRecords ==
    /\ \A i, j \in Existing : folder[i].name = folder[j].name => i = j
    /\ \A i \in FolderIds : i > created => i \notin Existing
    /\ \A i \in FolderIds \ Existing : granted[i] = {} /\ \A m \in mounts : m.id # i

\* A request to create has made its directory; the others are about a folder
\* that there is as long as they are served.
FolderServed ==
    LET q == FolderRequest IN
    /\ q.kind = "create" /\ q.at = "insert" => q.name \in dirs /\ Folders!Named(q.name) = {}
    /\ q.kind = "create" /\ q.at = "groups" => q.id \in FolderIds
    /\ q.kind = "update" => q.id \in Existing /\ folder[q.id].name = q.old /\ q.name \in FolderNames
    /\ q.kind = "delete" => q.id \in Existing /\ folder[q.id].name = q.old

\* The directory of a folder, which a request to rename it moves first and one
\* to delete it archives first.
Renaming(i) == FolderRequest.kind = "update" /\ FolderRequest.at = "record" /\ FolderRequest.id = i
Leaving(i) == FolderRequest.kind = "delete" /\ FolderRequest.at = "record" /\ FolderRequest.id = i
Place(i) == IF Renaming(i) THEN FolderRequest.name ELSE folder[i].name

Orderly ==
    /\ \A i \in Existing : ~Leaving(i) => Place(i) \in dirs
    /\ \A i, j \in Existing : Place(i) = Place(j) => i = j
    /\ \A n \in FolderNames : \A f \in files[n] :
          putIn[f] \in Existing /\ ~Leaving(putIn[f]) /\ Place(putIn[f]) = n
    /\ \A i \in FolderIds : Renaming(i) /\ FolderRequest.name # FolderRequest.old => FolderRequest.old \notin dirs

\* Nothing has failed that leaves a directory where none belongs.
Unspoilt == part = "folders" \/ faults = 0

\* What fails in either part of the run.
FewFailures == /\ UNCHANGED part /\ part \in {"folders", "failing"}
               /\ part = "folders" /\ faults' # faults => FolderRequest.kind # "delete"
               /\ part = "failing" => faults' <= 1

FolderInv == /\ FolderTypes /\ FolderRecords /\ FolderServed /\ Folders!FilesKept
             /\ Unspoilt => Orderly

\* A file that has a place keeps it when a directory is renamed.
LEMMA RenameKeeps ==
    ASSUME FolderTypes, Folders!FilesKept, NEW from \in FolderNames, NEW to \in FolderNames,
           Folders!CanRename(from, to), Folders!RenameDir(from, to), UNCHANGED <<archive, putIn>>
    PROVE  /\ Folders!FilesKept' /\ dirs' \subseteq FolderNames /\ files' \in [FolderNames -> SUBSET FolderFiles]
           /\ from # to /\ dirs' = (dirs \ {from}) \cup {to}
           /\ files'[to] = files[from] /\ files'[from] = {}
           /\ \A n \in FolderNames \ {from, to} : files'[n] = files[n]
<1>1. from \in dirs /\ to \notin dirs /\ from # to
  BY DEF Folders!CanRename
<1>2. dirs' = (dirs \ {from}) \cup {to} /\ files' = [files EXCEPT ![to] = files[from], ![from] = {}]
  BY DEF Folders!RenameDir
<1>3. /\ files'[to] = files[from] /\ files'[from] = {}
      /\ \A n \in FolderNames \ {from, to} : files'[n] = files[n]
  BY <1>1, <1>2 DEF FolderTypes
<1>4. ASSUME NEW f \in FolderFiles, putIn'[f] # 0
      PROVE  f \in archive' \cup UNION {files'[n] : n \in dirs'}
  <2>1. f \in archive \cup UNION {files[n] : n \in dirs}
    BY <1>4 DEF Folders!FilesKept
  <2>2. CASE f \in archive
    BY <2>2
  <2>3. CASE f \in UNION {files[n] : n \in dirs}
    <3>1. PICK n \in dirs : f \in files[n]
      BY <2>3
    <3>2. PICK m \in dirs' : f \in files'[m]
      <4>1. CASE n = from
        BY <1>2, <1>3, <3>1, <4>1
      <4>2. CASE n # from
        BY <1>1, <1>2, <1>3, <3>1, <4>2 DEF FolderTypes
      <4> QED
        BY <4>1, <4>2
    <3> QED
      BY <3>2
  <2> QED
    BY <2>1, <2>2, <2>3
<1> QED
  BY <1>1, <1>2, <1>3, <1>4 DEF Folders!FilesKept, FolderTypes

\* At the start there are no folders.
LEMMA FolderStart == Folders!Init /\ faults = 0 => FolderInv
<1> SUFFICES ASSUME Folders!Init PROVE FolderInv
  OBVIOUS
<1>1. /\ folder = [i \in FolderIds |-> Folders!NoFolder] /\ granted = [i \in FolderIds |-> {}] /\ mounts = {}
      /\ dirs = {} /\ files = [n \in FolderNames |-> {}] /\ archive = {} /\ created = 0 /\ faults = 0
      /\ folderReq = [r \in {1} |-> Folders!Idle] /\ putIn = [f \in FolderFiles |-> 0]
  BY DEF Folders!Init, FolderIds, Folders!Ids
<1>2. MaxFolders \in Nat
  BY AdminAssumption
<1>3. Existing = {}
  BY <1>1 DEF Existing, Folders!Live, FolderIds, Folders!Ids
<1>4. FolderTypes
  BY <1>1, <1>2 DEF FolderTypes, FolderRequests, Folders!Idle
<1>5. FolderRequest.kind = "idle" /\ FolderRequest.at = "idle"
  BY <1>1 DEF FolderRequest, Folders!Idle
<1>6. FolderRecords /\ FolderServed /\ Orderly
  BY <1>1, <1>3, <1>5 DEF FolderRecords, FolderServed, Orderly, Renaming, Leaving
<1>7. Folders!FilesKept
  BY <1>1 DEF Folders!FilesKept
<1> QED
  BY <1>4, <1>6, <1>7 DEF FolderInv

\* A request begins.
LEMMA FolderBegins ==
    ASSUME FolderTypes, NEW q \in FolderRequests, Folders!Begin(1, q),
           UNCHANGED <<folder, granted, files, putIn, created, faults>>, dirs' \subseteq FolderNames
    PROVE  FolderTypes' /\ FolderRequest.at = "idle" /\ FolderRequest' = q
<1>1. folderReq' = [folderReq EXCEPT ![1] = q] /\ folderReq[1].at = "idle"
  BY DEF Folders!Begin
<1>2. folderReq'[1] = q
  BY <1>1 DEF FolderTypes
<1> QED
  BY <1>1, <1>2 DEF FolderTypes, FolderRequest

\* A request ends, or goes on.
LEMMA FolderEnds ==
    ASSUME FolderTypes, Folders!Done(1)
    PROVE  /\ folderReq' \in [{1} -> FolderRequests]
           /\ FolderRequest'.kind = "idle" /\ FolderRequest'.at = "idle"
<1>1. folderReq' = [folderReq EXCEPT ![1] = Folders!Idle]
  BY DEF Folders!Done
<1>2. MaxFolders \in Nat
  BY AdminAssumption
<1> QED
  BY <1>1, <1>2 DEF FolderTypes, FolderRequest, FolderRequests, Folders!Idle

LEMMA FolderGoes ==
    ASSUME FolderTypes, NEW a \in {"groups", "record"}, NEW i \in 0..MaxFolders,
           folderReq' = [folderReq EXCEPT ![1] = [folderReq[1] EXCEPT !.at = a, !.id = i]]
    PROVE  /\ folderReq' \in [{1} -> FolderRequests]
           /\ FolderRequest'.at = a /\ FolderRequest'.id = i
           /\ FolderRequest'.kind = FolderRequest.kind /\ FolderRequest'.name = FolderRequest.name
           /\ FolderRequest'.old = FolderRequest.old
<1>1. folderReq[1] \in FolderRequests
  BY DEF FolderTypes
<1>2. [folderReq[1] EXCEPT !.at = a, !.id = i] \in FolderRequests
  BY <1>1 DEF FolderRequests
<1>3. folderReq'[1] = [folderReq[1] EXCEPT !.at = a, !.id = i]
  BY DEF FolderTypes
<1> QED
  BY <1>1, <1>2, <1>3 DEF FolderTypes, FolderRequest, FolderRequests

\* What stands between requests, where nothing is renamed and no folder leaves.
LEMMA FolderIdle ==
    ASSUME FolderRequest.kind # "update", FolderRequest.kind # "delete"
    PROVE  \A i : Place(i) = folder[i].name /\ ~Renaming(i) /\ ~Leaving(i)
BY DEF Place, Renaming, Leaving

\* A folder is created: first its directory.
LEMMA FolderCreateStep ==
    ASSUME FolderInv, UNCHANGED part, NEW n \in FolderNames, NEW p \in BOOLEAN, NEW G \in SUBSET StaffGroups,
           Folders!FolderCreate(1, n, p, G)
    PROVE  FolderInv'
<1>0. FolderTypes /\ FolderRecords /\ FolderServed /\ Folders!FilesKept
  BY DEF FolderInv
<1> DEFINE q == [Folders!Idle EXCEPT !.kind = "create", !.at = "insert", !.name = n, !.public = p, !.groups = G]
<1>1. /\ Folders!Begin(1, q) /\ Folders!Named(n) = {} /\ dirs' = dirs \cup {n}
      /\ UNCHANGED <<folder, granted, mounts, files, archive, created, faults, putIn>>
  BY DEF Folders!FolderCreate, Folders!records
<1>2. MaxFolders \in Nat /\ dirs' \subseteq FolderNames
  BY <1>0, <1>1, AdminAssumption DEF FolderTypes
<1>q. q \in FolderRequests /\ q.kind = "create" /\ q.at = "insert" /\ q.name = n
  <2>1. Folders!Idle \in FolderRequests
    BY <1>2 DEF FolderRequests, Folders!Idle
  <2> QED
    BY <2>1 DEF FolderRequests
<1> HIDE DEF q
<1>3. /\ FolderTypes' /\ FolderRequest.at = "idle"
      /\ FolderRequest'.kind = "create" /\ FolderRequest'.at = "insert" /\ FolderRequest'.name = n
  BY <1>0, <1>1, <1>2, <1>q, FolderBegins
<1>4. Existing' = Existing /\ Folders!Named(n)' = Folders!Named(n)
  BY <1>1 DEF Existing, Folders!Live, Folders!Named
<1>5. FolderRecords' /\ FolderServed'
  BY <1>0, <1>1, <1>3, <1>4 DEF FolderRecords, FolderServed, Folders!Named, Existing, Folders!Live
<1>6. Folders!FilesKept'
  BY <1>0, <1>1 DEF Folders!FilesKept
<1>7. ASSUME Orderly PROVE Orderly'
  BY <1>0, <1>1, <1>3, <1>4, <1>7 DEF Orderly, Place, Renaming, Leaving
<1> QED
  BY <1>1, <1>3, <1>5, <1>6, <1>7 DEF FolderInv, Unspoilt

\* It is recorded.
LEMMA InsertFolderStep ==
    ASSUME FolderInv, UNCHANGED part, Folders!InsertFolder(1)
    PROVE  FolderInv'
<1>0. FolderTypes /\ FolderRecords /\ FolderServed /\ Folders!FilesKept
  BY DEF FolderInv
<1> DEFINE n == FolderRequest.name
<1> DEFINE k == created + 1
<1>1. /\ FolderRequest.kind = "create" /\ FolderRequest.at = "insert"
      /\ created < MaxFolders /\ created' = k
      /\ folder' = [folder EXCEPT ![k] = [name |-> n, public |-> FolderRequest.public]]
      /\ \/ Folders!Done(1)
         \/ folderReq' = [folderReq EXCEPT ![1].at = "groups", ![1].id = k]
      /\ UNCHANGED <<granted, mounts, dirs, files, archive, faults, putIn>>
  BY DEF Folders!InsertFolder, FolderRequest, Folders!At, Folders!host
<1>2. /\ MaxFolders \in Nat /\ k \in FolderIds /\ k \in 0..MaxFolders
  BY <1>0, <1>1, AdminAssumption DEF FolderTypes, FolderIds
<1>3. n \in dirs /\ Folders!Named(n) = {} /\ n \in FolderNames /\ n # "none"
  BY <1>0, <1>1, AdminAssumption DEF FolderServed, FolderTypes
<1>4. /\ folderReq' \in [{1} -> FolderRequests]
      /\ \/ FolderRequest'.kind = "idle" /\ FolderRequest'.at = "idle"
         \/ FolderRequest'.kind = "create" /\ FolderRequest'.at = "groups" /\ FolderRequest'.id = k
  <2>1. CASE Folders!Done(1)
    BY <1>0, <2>1, FolderEnds
  <2>2. CASE folderReq' = [folderReq EXCEPT ![1].at = "groups", ![1].id = k]
    <3>1. folderReq' = [folderReq EXCEPT ![1] = [folderReq[1] EXCEPT !.at = "groups", !.id = k]]
      BY <1>0, <2>2 DEF FolderTypes
    <3> QED
      BY <1>0, <1>1, <1>2, <3>1, FolderGoes
  <2> QED
    BY <1>1, <2>1, <2>2
<1> HIDE DEF n, k
<1>5. FolderRequest.public \in BOOLEAN
  BY <1>0 DEF FolderTypes, FolderRequest, FolderRequests
<1>6. /\ folder'[k] = [name |-> n, public |-> FolderRequest.public] /\ folder'[k] # Folders!NoFolder
      /\ folder'[k].name = n
      /\ \A i \in FolderIds \ {k} : folder'[i] = folder[i]
  BY <1>0, <1>1, <1>2, <1>3, <1>5 DEF FolderTypes, Folders!NoFolder
<1>7. FolderTypes'
  BY <1>0, <1>1, <1>2, <1>3, <1>4, <1>5 DEF FolderTypes, k
<1>8. k \notin Existing /\ Existing' = Existing \cup {k}
  BY <1>0, <1>1, <1>2, <1>6 DEF FolderRecords, FolderTypes, Existing, Folders!Live, Folders!Ids, FolderIds, k
<1>9. \A i \in Existing : folder[i].name # n /\ folder'[i] = folder[i] /\ i \in FolderIds /\ i # k
  BY <1>3, <1>6, <1>8 DEF Folders!Named, Existing, Folders!Live, Folders!Ids, FolderIds
<1>10. FolderRecords'
  <2>1. \A i, j \in Existing' : folder'[i].name = folder'[j].name => i = j
    BY <1>0, <1>6, <1>8, <1>9 DEF FolderRecords
  <2>2. \A i \in FolderIds : i > created' => i \notin Existing'
    BY <1>0, <1>1, <1>2, <1>8 DEF FolderRecords, FolderTypes, FolderIds, k
  <2> QED
    BY <1>0, <1>1, <1>8, <2>1, <2>2 DEF FolderRecords
<1>11. FolderServed'
  BY <1>2, <1>4 DEF FolderServed
<1>12. Folders!FilesKept'
  BY <1>0, <1>1 DEF Folders!FilesKept
<1>13. ASSUME Orderly PROVE Orderly'
  <2>1. \A i : Place(i) = folder[i].name /\ ~Renaming(i) /\ ~Leaving(i)
    BY <1>1, FolderIdle
  <2>2. \A i : Place(i)' = folder'[i].name /\ ~Renaming(i)' /\ ~Leaving(i)'
    BY <1>4 DEF Place, Renaming, Leaving
  <2>3. \A i \in Existing' : Place(i)' \in dirs'
    BY <1>1, <1>3, <1>6, <1>8, <1>9, <1>13, <2>1, <2>2 DEF Orderly
  <2>4. \A i, j \in Existing' : Place(i)' = Place(j)' => i = j
    BY <1>10, <2>2 DEF FolderRecords
  <2>5. \A m \in FolderNames : \A f \in files'[m] : putIn'[f] \in Existing' /\ folder'[putIn'[f]].name = m
    <3> SUFFICES ASSUME NEW m \in FolderNames, NEW f \in files[m]
                 PROVE  putIn[f] \in Existing' /\ folder'[putIn[f]].name = m
      BY <1>1
    <3>1. putIn[f] \in Existing /\ folder[putIn[f]].name = m
      BY <1>13, <2>1 DEF Orderly
    <3> QED
      BY <1>8, <1>9, <3>1
  <2> QED
    BY <2>2, <2>3, <2>4, <2>5 DEF Orderly
<1> QED
  BY <1>1, <1>7, <1>10, <1>11, <1>12, <1>13 DEF FolderInv, Unspoilt

\* It is not recorded: its directory, which holds nothing, goes.
LEMMA RollBackDirStep ==
    ASSUME FolderInv, FewFailures, Folders!RollBackDir(1)
    PROVE  FolderInv'
<1>0. FolderTypes /\ FolderRecords /\ FolderServed /\ Folders!FilesKept
  BY DEF FolderInv
<1> DEFINE n == FolderRequest.name
<1>1. /\ FolderRequest.kind = "create" /\ FolderRequest.at = "insert" /\ Folders!Done(1)
      /\ Folders!Named(n) = {} => faults' = faults + 1
      /\ dirs' = dirs \ {n} /\ files' = [files EXCEPT ![n] = {}]
      /\ UNCHANGED <<folder, granted, mounts, archive, created, putIn>>
  BY DEF Folders!RollBackDir, FolderRequest, Folders!At, Folders!records, Folders!Fails, Folders!RemoveDir
<1>2. n \in dirs /\ Folders!Named(n) = {} /\ n \in FolderNames
  BY <1>0, <1>1 DEF FolderServed, FolderTypes
<1> HIDE DEF n
<1>3. FolderRequest'.kind = "idle" /\ FolderRequest'.at = "idle" /\ folderReq' \in [{1} -> FolderRequests]
  BY <1>0, <1>1, FolderEnds
<1>4. FolderTypes'
  BY <1>0, <1>1, <1>2, <1>3 DEF FolderTypes
<1>5. Existing' = Existing
  BY <1>1 DEF Existing, Folders!Live
<1>6. FolderRecords' /\ FolderServed'
  BY <1>0, <1>1, <1>3, <1>5 DEF FolderRecords, FolderServed
<1>7. Orderly
  BY <1>0, <1>1, <1>2 DEF FolderInv, FewFailures, Unspoilt, FolderTypes
<1>8. \A i : Place(i) = folder[i].name /\ ~Renaming(i) /\ ~Leaving(i)
  BY <1>1, FolderIdle
<1>9. \A i : Place(i)' = folder'[i].name /\ ~Renaming(i)' /\ ~Leaving(i)'
  BY <1>3 DEF Place, Renaming, Leaving
<1>10. \A i \in Existing : folder[i].name # n
  BY <1>2 DEF Folders!Named, Existing
<1>11. files[n] = {}
  BY <1>2, <1>7, <1>8, <1>10 DEF Orderly
<1>12. files' = files
  BY <1>0, <1>1, <1>11 DEF FolderTypes
<1>13. Folders!FilesKept'
  <2> SUFFICES ASSUME NEW f \in FolderFiles, putIn[f] # 0
               PROVE  f \in archive \cup UNION {files[m] : m \in dirs \ {n}}
    BY <1>1, <1>12 DEF Folders!FilesKept
  <2>1. f \in archive \cup UNION {files[m] : m \in dirs}
    BY <1>0 DEF Folders!FilesKept
  <2> QED
    BY <1>11, <2>1
<1>14. Orderly'
  BY <1>1, <1>5, <1>7, <1>8, <1>9, <1>10, <1>12 DEF Orderly
<1> QED
  BY <1>4, <1>6, <1>13, <1>14 DEF FolderInv

\* Groups are recorded for a folder there is.
LEMMA FolderGroupsStep ==
    ASSUME FolderInv, FewFailures, Folders!FolderGroups(1)
    PROVE  FolderInv'
<1>0. FolderTypes /\ FolderRecords /\ FolderServed /\ Folders!FilesKept
  BY DEF FolderInv
<1>1. /\ FolderRequest.kind = "create" /\ FolderRequest.at = "groups" /\ Folders!Done(1)
      /\ granted' = IF FolderRequest.id \in Existing THEN [granted EXCEPT ![FolderRequest.id] = FolderRequest.groups]
                                                   ELSE granted
      /\ UNCHANGED <<folder, mounts, dirs, files, archive, created, faults, putIn>>
  BY DEF Folders!FolderGroups, FolderRequest, Folders!At, Folders!host, Folders!GrantGroups, Existing
<1>2. FolderRequest.id \in FolderIds /\ FolderRequest.groups \in SUBSET StaffGroups
  BY <1>0, <1>1 DEF FolderServed, FolderTypes, FolderRequest, FolderRequests
<1>3. FolderRequest'.kind = "idle" /\ FolderRequest'.at = "idle" /\ folderReq' \in [{1} -> FolderRequests]
  BY <1>0, <1>1, FolderEnds
<1>4. FolderTypes'
  BY <1>0, <1>1, <1>2, <1>3 DEF FolderTypes
<1>5. Existing' = Existing
  BY <1>1 DEF Existing, Folders!Live
<1>6. FolderRecords' /\ FolderServed'
  BY <1>0, <1>1, <1>3, <1>5 DEF FolderRecords, FolderServed, FolderTypes
<1>7. \A i : Place(i) = folder[i].name /\ ~Renaming(i) /\ ~Leaving(i)
  BY <1>1, FolderIdle
<1>8. \A i : Place(i)' = folder'[i].name /\ ~Renaming(i)' /\ ~Leaving(i)'
  BY <1>3 DEF Place, Renaming, Leaving
<1>9. Orderly => Orderly'
  BY <1>1, <1>5, <1>7, <1>8 DEF Orderly
<1> QED
  BY <1>0, <1>1, <1>4, <1>6, <1>9 DEF FolderInv, Folders!FilesKept, FewFailures, Unspoilt

\* What one transaction does between requests, and what happens outside.
LEMMA BriefFolderSteps ==
    ASSUME FolderInv, FewFailures,
           \/ \E i \in FolderIds : \/ \E G \in SUBSET StaffGroups : Folders!SetGroups(i, G)
                                 \/ \E u \in StaffUsers : Folders!TestMount(i, u)
           \/ \E u \in StaffUsers, n \in FolderNames : Folders!OpenShare(u, n)
           \/ \E g \in StaffGroups, U \in SUBSET StaffUsers : Folders!StaffChanges(g, U)
    PROVE  FolderInv'
<1>0. FolderTypes /\ FolderRecords /\ FolderServed /\ Folders!FilesKept
  BY DEF FolderInv
<1>1. /\ FolderRequest.at = "idle"
      /\ UNCHANGED <<folder, files, archive, created, faults, folderReq, putIn>>
      /\ dirs' = dirs \/ \E n \in FolderNames : dirs' = dirs \cup {n}
      /\ \/ UNCHANGED <<granted, mounts>>
         \/ UNCHANGED mounts /\ \E i \in Existing, G \in SUBSET StaffGroups : granted' = [granted EXCEPT ![i] = G]
         \/ UNCHANGED granted /\ \E i \in Existing : \A m \in mounts' : m \in mounts \/ m.id = i
  BY DEF Folders!Brief, FolderRequest, Folders!SetGroups, Folders!TestMount, Folders!OpenShare,
         Folders!StaffChanges, Folders!records, Folders!host, Folders!GrantGroups, Existing
<1>2. Existing' = Existing /\ FolderRequest' = FolderRequest /\ Existing \subseteq FolderIds
  BY <1>1 DEF Existing, Folders!Live, FolderRequest, Folders!Ids, FolderIds
<1>3. dirs \subseteq dirs' /\ dirs' \subseteq FolderNames
  BY <1>0, <1>1 DEF FolderTypes
<1>4. granted' \in [FolderIds -> SUBSET StaffGroups]
  BY <1>0, <1>1, <1>2 DEF FolderTypes
<1>5. FolderTypes'
  BY <1>0, <1>1, <1>3, <1>4 DEF FolderTypes
<1>6. \A i \in FolderIds \ Existing : granted'[i] = {} /\ \A m \in mounts' : m.id # i
  BY <1>0, <1>1, <1>2 DEF FolderRecords, FolderTypes
<1>7. FolderRecords'
  BY <1>0, <1>1, <1>2, <1>6 DEF FolderRecords
<1>8. FolderServed'
  BY <1>0, <1>1, <1>2, <1>3 DEF FolderServed, Folders!Named, Existing
<1>9. Folders!FilesKept'
  BY <1>0, <1>1, <1>3 DEF Folders!FilesKept
<1>10. \A i : Place(i) = folder[i].name /\ ~Renaming(i) /\ ~Leaving(i)
  BY <1>1 DEF Place, Renaming, Leaving
<1>11. \A i : Place(i)' = folder'[i].name /\ ~Renaming(i)' /\ ~Leaving(i)'
  BY <1>1, <1>2 DEF Place, Renaming, Leaving
<1>12. Orderly => Orderly'
  BY <1>1, <1>2, <1>3, <1>10, <1>11 DEF Orderly
<1> QED
  BY <1>1, <1>5, <1>7, <1>8, <1>9, <1>12 DEF FolderInv, FewFailures, Unspoilt

\* The host's administrator puts a file into a folder.
LEMMA PutStep ==
    ASSUME FolderInv, FewFailures, NEW f \in FolderFiles, NEW i \in FolderIds, Folders!Put(f, i)
    PROVE  FolderInv'
<1>0. FolderTypes /\ FolderRecords /\ FolderServed /\ Folders!FilesKept
  BY DEF FolderInv
<1> DEFINE n == folder[i].name
<1>1. /\ FolderRequest.at = "idle" /\ i \in Existing /\ n \in dirs /\ putIn[f] = 0
      /\ files' = [files EXCEPT ![n] = files[n] \cup {f}] /\ putIn' = [putIn EXCEPT ![f] = i]
      /\ UNCHANGED <<folder, granted, mounts, dirs, archive, created, faults, folderReq>>
  BY <1>0 DEF Folders!Put, FolderRequest, Folders!records, Existing, FolderTypes
<1>2. Existing' = Existing /\ FolderRequest' = FolderRequest /\ i # 0 /\ 0 \notin Existing
  BY <1>1 DEF Existing, Folders!Live, FolderRequest, Folders!Ids, FolderIds
<1> HIDE DEF n
<1>3. n \in FolderNames /\ i \in 0..MaxFolders
  BY <1>0, <1>1, AdminAssumption DEF FolderTypes, FolderIds
<1>4. FolderTypes'
  BY <1>0, <1>1, <1>3 DEF FolderTypes
<1>5. FolderRecords' /\ FolderServed'
  BY <1>0, <1>1, <1>2 DEF FolderRecords, FolderServed, Folders!Named, Existing
<1>6. \A m \in FolderNames : files[m] \subseteq files'[m] /\ \A g \in files'[m] : g \in files[m] \/ (g = f /\ m = n)
  BY <1>0, <1>1, <1>3 DEF FolderTypes
<1>7. Folders!FilesKept'
  <2> SUFFICES ASSUME NEW g \in FolderFiles, putIn'[g] # 0
               PROVE  g \in archive \cup UNION {files'[m] : m \in dirs}
    BY <1>1 DEF Folders!FilesKept
  <2>1. CASE g = f
    BY <1>0, <1>1, <1>3, <2>1 DEF FolderTypes
  <2>2. CASE g # f
    <3>1. g \in archive \cup UNION {files[m] : m \in dirs}
      BY <1>0, <1>1, <2>2 DEF Folders!FilesKept, FolderTypes
    <3> QED
      BY <1>0, <1>6, <3>1 DEF FolderTypes
  <2> QED
    BY <2>1, <2>2
<1>8. \A j : Place(j) = folder[j].name /\ ~Renaming(j) /\ ~Leaving(j)
  BY <1>1 DEF Place, Renaming, Leaving
<1>9. \A j : Place(j)' = folder[j].name /\ ~Renaming(j)' /\ ~Leaving(j)'
  BY <1>1, <1>2 DEF Place, Renaming, Leaving
<1>10. ASSUME Orderly PROVE Orderly'
  <2>1. \A m \in FolderNames : \A g \in files'[m] : putIn'[g] \in Existing /\ folder[putIn'[g]].name = m
    <3> SUFFICES ASSUME NEW m \in FolderNames, NEW g \in files'[m]
                 PROVE  putIn'[g] \in Existing /\ folder[putIn'[g]].name = m
      OBVIOUS
    <3>1. CASE g \in files[m]
      <4>1. putIn[g] \in Existing /\ folder[putIn[g]].name = m
        BY <1>8, <1>10, <3>1 DEF Orderly
      <4>2. g # f
        BY <1>1, <1>2, <4>1
      <4>3. g \in FolderFiles
        BY <1>0, <3>1 DEF FolderTypes
      <4> QED
        BY <1>0, <1>1, <4>1, <4>2, <4>3 DEF FolderTypes
    <3>2. CASE g = f /\ m = n
      BY <1>0, <1>1, <3>2 DEF FolderTypes, n
    <3> QED
      BY <1>6, <3>1, <3>2
  <2> QED
    BY <1>1, <1>2, <1>8, <1>9, <1>10, <2>1 DEF Orderly
<1> QED
  BY <1>1, <1>4, <1>5, <1>7, <1>10 DEF FolderInv, FewFailures, Unspoilt

\* A folder is to be renamed.
LEMMA FolderUpdateStep ==
    ASSUME FolderInv, FewFailures, NEW i \in FolderIds, NEW n \in FolderNames, NEW p \in BOOLEAN,
           Folders!FolderUpdate(1, i, n, p)
    PROVE  FolderInv'
<1>0. FolderTypes /\ FolderRecords /\ FolderServed /\ Folders!FilesKept
  BY DEF FolderInv
<1> DEFINE o == folder[i].name
<1> DEFINE q == [Folders!Idle EXCEPT !.kind = "update", !.at = IF o = n THEN "record" ELSE "move",
                                     !.id = i, !.name = n, !.old = o, !.public = p]
<1>1. /\ i \in Existing /\ Folders!Begin(1, q)
      /\ UNCHANGED <<folder, granted, mounts, dirs, files, archive, created, faults, putIn>>
  BY DEF Folders!FolderUpdate, Folders!records, Folders!host, Existing
<1>2. /\ o \in FolderNames /\ i \in 0..MaxFolders /\ dirs' \subseteq FolderNames
  BY <1>0, <1>1, AdminAssumption DEF FolderTypes, FolderIds, Existing, Folders!Live
<1>3. /\ q \in FolderRequests /\ q.kind = "update" /\ q.at \in {"record", "move"} /\ q.id = i
      /\ q.name = n /\ q.old = o /\ (q.at = "record" => o = n)
  <2>1. Folders!Idle \in FolderRequests
    BY <1>2, AdminAssumption DEF FolderRequests, Folders!Idle
  <2> QED
    BY <1>2, <2>1 DEF FolderRequests
<1> HIDE DEF q
<1>4. /\ FolderTypes' /\ FolderRequest.at = "idle" /\ FolderRequest' = q
  BY <1>0, <1>1, <1>2, <1>3, FolderBegins
<1>5. Existing' = Existing
  BY <1>1 DEF Existing, Folders!Live
<1>6. FolderRecords' /\ FolderServed'
  BY <1>0, <1>1, <1>3, <1>4, <1>5 DEF FolderRecords, FolderServed
<1>7. \A j : Place(j) = folder[j].name /\ ~Renaming(j) /\ ~Leaving(j)
  BY <1>4 DEF Place, Renaming, Leaving
<1>8. \A j : Place(j)' = folder[j].name /\ ~Leaving(j)'
  BY <1>1, <1>3, <1>4 DEF Place, Renaming, Leaving
<1>9. \A j : Renaming(j)' => n = o
  BY <1>3, <1>4 DEF Renaming
<1>10. Orderly => Orderly'
  BY <1>1, <1>3, <1>4, <1>5, <1>7, <1>8, <1>9 DEF Orderly
<1> QED
  BY <1>0, <1>1, <1>4, <1>6, <1>10 DEF FolderInv, Folders!FilesKept, FewFailures, Unspoilt

\* The directory moves first, when there is one and its new name is free.
LEMMA MoveDirStep ==
    ASSUME FolderInv, FewFailures, Folders!MoveDir(1)
    PROVE  FolderInv'
<1>0. FolderTypes /\ FolderRecords /\ FolderServed /\ Folders!FilesKept
  BY DEF FolderInv
<1> DEFINE o == FolderRequest.old
<1> DEFINE n == FolderRequest.name
<1> DEFINE k == FolderRequest.id
<1>1. /\ FolderRequest.kind = "update" /\ FolderRequest.at = "move"
      /\ \/ o \notin dirs /\ Folders!Go(1, "record") /\ UNCHANGED <<dirs, files>>
         \/ Folders!CanRename(o, n) /\ Folders!Go(1, "record") /\ Folders!RenameDir(o, n)
         \/ o \in dirs /\ Folders!Done(1) /\ UNCHANGED <<dirs, files>>
      /\ UNCHANGED <<folder, granted, mounts, archive, created, faults, putIn>>
  BY DEF Folders!MoveDir, FolderRequest, Folders!At, Folders!records
<1>2. k \in Existing /\ folder[k].name = o /\ n \in FolderNames /\ k \in FolderIds /\ k \in 0..MaxFolders
  BY <1>0, <1>1 DEF FolderServed, Existing, Folders!Live, Folders!Ids, FolderIds, FolderTypes,
                    FolderRequest, FolderRequests
<1>3. o \in FolderNames
  BY <1>0, <1>2 DEF FolderTypes, Existing, Folders!Live
<1> HIDE DEF o, n, k
<1>4. Existing' = Existing
  BY <1>1 DEF Existing, Folders!Live
<1>5. \A i : Place(i) = folder[i].name /\ ~Renaming(i) /\ ~Leaving(i)
  BY <1>1 DEF Place, Renaming, Leaving
<1>6. ASSUME Folders!Go(1, "record")
      PROVE  /\ folderReq' \in [{1} -> FolderRequests]
             /\ FolderRequest'.at = "record" /\ FolderRequest'.id = k
             /\ FolderRequest'.kind = "update" /\ FolderRequest'.name = n /\ FolderRequest'.old = o
             /\ \A i : Place(i)' = (IF i = k THEN n ELSE folder[i].name) /\ ~Leaving(i)'
             /\ \A i : Renaming(i)' => i = k
  <2>1. folderReq[1] \in FolderRequests
    BY <1>0 DEF FolderTypes
  <2>2. folderReq' = [folderReq EXCEPT ![1] = [folderReq[1] EXCEPT !.at = "record", !.id = k]]
    BY <1>0, <1>6, <2>1 DEF Folders!Go, FolderTypes, FolderRequest, FolderRequests, k
  <2>3. /\ folderReq' \in [{1} -> FolderRequests]
        /\ FolderRequest'.at = "record" /\ FolderRequest'.id = k
        /\ FolderRequest'.kind = "update" /\ FolderRequest'.name = n /\ FolderRequest'.old = o
    BY <1>0, <1>1, <1>2, <2>2, FolderGoes DEF n, o
  <2> QED
    BY <1>1, <2>3 DEF Place, Renaming, Leaving
<1>7. CASE o \notin dirs /\ Folders!Go(1, "record") /\ UNCHANGED <<dirs, files>>
  <2>1. FolderTypes' /\ FolderRecords' /\ FolderServed' /\ Folders!FilesKept'
    BY <1>0, <1>1, <1>2, <1>4, <1>6, <1>7 DEF FolderTypes, FolderRecords, FolderServed, Folders!FilesKept
  <2>2. ~Orderly
    BY <1>2, <1>5, <1>7 DEF Orderly
  <2>3. ~Unspoilt'
    BY <1>1, <2>2 DEF FolderInv, Unspoilt, FewFailures
  <2> QED
    BY <2>1, <2>3 DEF FolderInv
<1>8. CASE Folders!CanRename(o, n) /\ Folders!Go(1, "record") /\ Folders!RenameDir(o, n)
  <2>1. /\ Folders!FilesKept' /\ dirs' \subseteq FolderNames /\ files' \in [FolderNames -> SUBSET FolderFiles]
        /\ o # n /\ dirs' = (dirs \ {o}) \cup {n} /\ files'[n] = files[o] /\ files'[o] = {}
        /\ \A m \in FolderNames \ {o, n} : files'[m] = files[m]
    BY <1>0, <1>1, <1>2, <1>3, <1>8, RenameKeeps
  <2>2. n \notin dirs
    BY <1>8 DEF Folders!CanRename
  <2>3. FolderTypes' /\ FolderRecords' /\ FolderServed'
    BY <1>0, <1>1, <1>2, <1>4, <1>6, <1>8, <2>1 DEF FolderTypes, FolderRecords, FolderServed
  <2>4. ASSUME Orderly PROVE Orderly'
    <3>1. \A i \in Existing \ {k} : folder[i].name # o /\ folder[i].name # n /\ folder[i].name \in dirs
      BY <1>0, <1>2, <1>5, <2>2, <2>4 DEF Orderly, FolderRecords
    <3>2. \A i \in Existing : Place(i)' \in dirs'
      BY <1>6, <1>8, <2>1, <3>1
    <3>3. \A i, j \in Existing : Place(i)' = Place(j)' => i = j
      BY <1>0, <1>6, <1>8, <3>1 DEF FolderRecords
    <3>4. ASSUME NEW m \in FolderNames, NEW f \in files'[m]
          PROVE  putIn[f] \in Existing /\ (IF putIn[f] = k THEN n ELSE folder[putIn[f]].name) = m
      <4>1. CASE m = n
        <5>1. putIn[f] \in Existing /\ folder[putIn[f]].name = o
          BY <1>3, <1>5, <2>1, <2>4, <3>4, <4>1 DEF Orderly
        <5>2. putIn[f] = k
          BY <3>1, <5>1
        <5> QED
          BY <4>1, <5>1, <5>2
      <4>2. CASE m # n
        <5>1. m # o /\ f \in files[m]
          BY <2>1, <3>4, <4>2
        <5>2. putIn[f] \in Existing /\ folder[putIn[f]].name = m
          BY <1>5, <2>4, <5>1 DEF Orderly
        <5>3. putIn[f] # k
          BY <1>2, <5>1, <5>2
        <5> QED
          BY <5>2, <5>3
      <4> QED
        BY <4>1, <4>2
    <3>5. o \notin dirs'
      BY <2>1
    <3> QED
      BY <1>1, <1>4, <1>6, <1>8, <3>2, <3>3, <3>4, <3>5 DEF Orderly
  <2> QED
    BY <1>1, <2>1, <2>3, <2>4 DEF FolderInv, Unspoilt, FewFailures
<1>9. CASE o \in dirs /\ Folders!Done(1) /\ UNCHANGED <<dirs, files>>
  <2>1. FolderRequest'.kind = "idle" /\ FolderRequest'.at = "idle" /\ folderReq' \in [{1} -> FolderRequests]
    BY <1>0, <1>9, FolderEnds
  <2>2. FolderTypes' /\ FolderRecords' /\ FolderServed' /\ Folders!FilesKept'
    BY <1>0, <1>1, <1>4, <1>9, <2>1 DEF FolderTypes, FolderRecords, FolderServed, Folders!FilesKept
  <2>3. \A i : Place(i)' = folder[i].name /\ ~Renaming(i)' /\ ~Leaving(i)'
    BY <1>1, <2>1 DEF Place, Renaming, Leaving
  <2>4. Orderly => Orderly'
    BY <1>1, <1>4, <1>5, <1>9, <2>3 DEF Orderly
  <2> QED
    BY <1>1, <2>2, <2>4 DEF FolderInv, Unspoilt, FewFailures
<1> QED
  BY <1>1, <1>7, <1>8, <1>9

\* The new name is recorded.
LEMMA UpdateFolderStep ==
    ASSUME FolderInv, FewFailures, Folders!UpdateFolder(1)
    PROVE  FolderInv'
<1>0. FolderTypes /\ FolderRecords /\ FolderServed /\ Folders!FilesKept
  BY DEF FolderInv
<1> DEFINE n == FolderRequest.name
<1> DEFINE k == FolderRequest.id
<1>1. /\ FolderRequest.kind = "update" /\ FolderRequest.at = "record" /\ Folders!Named(n) \subseteq {k}
      /\ Folders!Done(1)
      /\ folder' = [folder EXCEPT ![k] = [name |-> n, public |-> FolderRequest.public]]
      /\ UNCHANGED <<granted, mounts, dirs, files, archive, created, faults, putIn>>
  BY DEF Folders!UpdateFolder, FolderRequest, Folders!At, Folders!host, Folders!Free
<1>2. k \in Existing /\ n \in FolderNames /\ k \in FolderIds /\ FolderRequest.public \in BOOLEAN /\ n # "none"
  BY <1>0, <1>1, AdminAssumption DEF FolderServed, Existing, Folders!Live, Folders!Ids, FolderIds, FolderTypes,
                    FolderRequest, FolderRequests
<1> HIDE DEF n, k
<1>3. /\ folder'[k] = [name |-> n, public |-> FolderRequest.public] /\ folder'[k] # Folders!NoFolder
      /\ folder'[k].name = n
      /\ \A i \in FolderIds \ {k} : folder'[i] = folder[i]
  BY <1>0, <1>1, <1>2 DEF FolderTypes, Folders!NoFolder
<1>4. Existing' = Existing /\ Existing \subseteq FolderIds
  BY <1>2, <1>3 DEF Existing, Folders!Live, Folders!Ids, FolderIds
<1>5. \A i \in Existing \ {k} : folder[i].name # n /\ folder'[i] = folder[i]
  BY <1>1, <1>3, <1>4 DEF Folders!Named, Existing
<1>6. FolderRequest'.kind = "idle" /\ FolderRequest'.at = "idle" /\ folderReq' \in [{1} -> FolderRequests]
  BY <1>0, <1>1, FolderEnds
<1>7. FolderTypes'
  BY <1>0, <1>1, <1>2, <1>6 DEF FolderTypes
<1>8. FolderRecords'
  BY <1>0, <1>1, <1>3, <1>4, <1>5 DEF FolderRecords
<1>9. FolderServed' /\ Folders!FilesKept'
  BY <1>0, <1>1, <1>6 DEF FolderServed, Folders!FilesKept
<1>10. \A i \in Existing : Place(i) = folder'[i].name /\ ~Leaving(i)
  BY <1>1, <1>3, <1>5 DEF Place, Renaming, Leaving, n, k
<1>11. \A i : Place(i)' = folder'[i].name /\ ~Renaming(i)' /\ ~Leaving(i)'
  BY <1>6 DEF Place, Renaming, Leaving
<1>12. Orderly => Orderly'
  BY <1>1, <1>4, <1>10, <1>11 DEF Orderly
<1> QED
  BY <1>1, <1>7, <1>8, <1>9, <1>12 DEF FolderInv, Unspoilt, FewFailures

\* It is not: the directory moves back, if it moved.
LEMMA MoveBackStep ==
    ASSUME FolderInv, FewFailures, Folders!MoveBack(1)
    PROVE  FolderInv'
<1>0. FolderTypes /\ FolderRecords /\ FolderServed /\ Folders!FilesKept
  BY DEF FolderInv
<1> DEFINE o == FolderRequest.old
<1> DEFINE n == FolderRequest.name
<1> DEFINE k == FolderRequest.id
<1>1. /\ FolderRequest.kind = "update" /\ FolderRequest.at = "record" /\ Folders!Done(1)
      /\ faults' = faults \/ faults' = faults + 1
      /\ IF n # o /\ Folders!CanRename(n, o) THEN Folders!RenameDir(n, o) ELSE UNCHANGED <<dirs, files>>
      /\ UNCHANGED <<folder, granted, mounts, archive, created, putIn>>
  BY DEF Folders!MoveBack, FolderRequest, Folders!At, Folders!records, Folders!Fails
<1>2. k \in Existing /\ folder[k].name = o /\ n \in FolderNames /\ k \in FolderIds
  BY <1>0, <1>1 DEF FolderServed, Existing, Folders!Live, Folders!Ids, FolderIds
<1>3. o \in FolderNames
  BY <1>0, <1>2 DEF FolderTypes, Existing, Folders!Live
<1> HIDE DEF o, n, k
<1>4. Existing' = Existing
  BY <1>1 DEF Existing, Folders!Live
<1>5. \A i : Place(i) = (IF i = k THEN n ELSE folder[i].name) /\ ~Leaving(i) /\ (Renaming(i) <=> i = k)
  BY <1>1 DEF Place, Renaming, Leaving, n, k
<1>6. FolderRequest'.kind = "idle" /\ FolderRequest'.at = "idle" /\ folderReq' \in [{1} -> FolderRequests]
  BY <1>0, <1>1, FolderEnds
<1>7. \A i : Place(i)' = folder[i].name /\ ~Renaming(i)' /\ ~Leaving(i)'
  BY <1>1, <1>6 DEF Place, Renaming, Leaving
<1>8. Unspoilt' => Unspoilt
  BY <1>0, <1>1 DEF Unspoilt, FewFailures, FolderTypes
<1>9. faults' \in Nat
  BY <1>0, <1>1 DEF FolderTypes
<1>10. CASE n # o /\ Folders!CanRename(n, o)
  <2>1. /\ Folders!FilesKept' /\ dirs' \subseteq FolderNames /\ files' \in [FolderNames -> SUBSET FolderFiles]
        /\ o # n /\ dirs' = (dirs \ {n}) \cup {o} /\ files'[o] = files[n] /\ files'[n] = {}
        /\ \A m \in FolderNames \ {o, n} : files'[m] = files[m]
    BY <1>0, <1>1, <1>2, <1>3, <1>10, RenameKeeps
  <2>2. FolderTypes' /\ FolderRecords' /\ FolderServed'
    BY <1>0, <1>1, <1>4, <1>6, <1>9, <2>1 DEF FolderTypes, FolderRecords, FolderServed
  <2>3. ASSUME Orderly PROVE Orderly'
    <3>1. \A i \in Existing \ {k} : folder[i].name # o /\ folder[i].name # n /\ folder[i].name \in dirs
      BY <1>0, <1>2, <1>5, <2>3 DEF Orderly, FolderRecords
    <3>2. \A i \in Existing : folder[i].name \in dirs'
      BY <1>2, <2>1, <3>1
    <3>3. ASSUME NEW m \in FolderNames, NEW f \in files'[m]
          PROVE  putIn[f] \in Existing /\ folder[putIn[f]].name = m
      <4>1. CASE m = o
        <5>1. putIn[f] \in Existing /\ Place(putIn[f]) = n
          BY <1>2, <2>1, <2>3, <3>3, <4>1 DEF Orderly
        <5>2. putIn[f] = k
          BY <1>5, <3>1, <5>1
        <5> QED
          BY <1>2, <4>1, <5>2
      <4>2. CASE m # o
        <5>1. m # n /\ f \in files[m]
          BY <2>1, <3>3, <4>2
        <5>2. putIn[f] \in Existing /\ Place(putIn[f]) = m
          BY <2>3, <5>1 DEF Orderly
        <5> QED
          BY <1>5, <5>1, <5>2
      <4> QED
        BY <4>1, <4>2
    <3> QED
      BY <1>0, <1>1, <1>4, <1>7, <3>2, <3>3 DEF Orderly, FolderRecords
  <2> QED
    BY <1>8, <2>1, <2>2, <2>3 DEF FolderInv
<1>11. CASE ~(n # o /\ Folders!CanRename(n, o))
  <2>1. UNCHANGED <<dirs, files>>
    BY <1>1, <1>11
  <2>2. FolderTypes' /\ FolderRecords' /\ FolderServed' /\ Folders!FilesKept'
    BY <1>0, <1>1, <1>4, <1>6, <1>9, <2>1 DEF FolderTypes, FolderRecords, FolderServed, Folders!FilesKept
  <2>3. ASSUME Orderly PROVE Orderly'
    <3>1. n = o
      <4>1. n \in dirs /\ (n # o => o \notin dirs)
        BY <1>2, <1>5, <2>3 DEF Orderly, n, o
      <4> QED
        BY <1>11, <4>1 DEF Folders!CanRename
    <3>2. \A i : Place(i) = folder[i].name
      BY <1>2, <1>5, <3>1
    <3> QED
      BY <1>1, <1>4, <1>5, <1>7, <2>1, <2>3, <3>2 DEF Orderly
  <2> QED
    BY <1>8, <2>2, <2>3 DEF FolderInv
<1> QED
  BY <1>10, <1>11

\* A folder is to be deleted.
LEMMA FolderDeleteStep ==
    ASSUME FolderInv, FewFailures, NEW i \in FolderIds, Folders!FolderDelete(1, i)
    PROVE  FolderInv'
<1>0. FolderTypes /\ FolderRecords /\ FolderServed /\ Folders!FilesKept
  BY DEF FolderInv
<1> DEFINE o == folder[i].name
<1> DEFINE q == [Folders!Idle EXCEPT !.kind = "delete", !.at = "archive", !.id = i, !.old = o]
<1>1. /\ i \in Existing /\ Folders!Begin(1, q)
      /\ UNCHANGED <<folder, granted, mounts, dirs, files, archive, created, faults, putIn>>
  BY DEF Folders!FolderDelete, Folders!records, Folders!host, Existing
<1>2. /\ o \in FolderNames /\ i \in 0..MaxFolders /\ dirs' \subseteq FolderNames
  BY <1>0, <1>1, AdminAssumption DEF FolderTypes, FolderIds, Existing, Folders!Live
<1>3. q \in FolderRequests /\ q.kind = "delete" /\ q.at = "archive" /\ q.id = i /\ q.old = o
  <2>1. Folders!Idle \in FolderRequests
    BY <1>2, AdminAssumption DEF FolderRequests, Folders!Idle
  <2> QED
    BY <1>2, <2>1 DEF FolderRequests
<1> HIDE DEF q
<1>4. /\ FolderTypes' /\ FolderRequest.at = "idle" /\ FolderRequest' = q
  BY <1>0, <1>1, <1>2, <1>3, FolderBegins
<1>5. Existing' = Existing
  BY <1>1 DEF Existing, Folders!Live
<1>6. FolderRecords' /\ FolderServed'
  BY <1>0, <1>1, <1>3, <1>4, <1>5 DEF FolderRecords, FolderServed
<1>7. \A j : Place(j) = folder[j].name /\ ~Renaming(j) /\ ~Leaving(j)
  BY <1>4 DEF Place, Renaming, Leaving
<1>8. \A j : Place(j)' = folder[j].name /\ ~Leaving(j)' /\ ~Renaming(j)'
  BY <1>1, <1>3, <1>4 DEF Place, Renaming, Leaving
<1>9. Orderly => Orderly'
  BY <1>1, <1>5, <1>7, <1>8 DEF Orderly
<1> QED
  BY <1>0, <1>1, <1>4, <1>6, <1>9 DEF FolderInv, Folders!FilesKept, FewFailures, Unspoilt

\* Its files go to the archive.
LEMMA ArchiveDirStep ==
    ASSUME FolderInv, FewFailures, Folders!ArchiveDir(1)
    PROVE  FolderInv'
<1>0. FolderTypes /\ FolderRecords /\ FolderServed /\ Folders!FilesKept
  BY DEF FolderInv
<1> DEFINE o == FolderRequest.old
<1> DEFINE k == FolderRequest.id
<1>1. /\ FolderRequest.kind = "delete" /\ FolderRequest.at = "archive" /\ Folders!Go(1, "record")
      /\ archive' = archive \cup files[o] /\ dirs' = dirs \ {o} /\ files' = [files EXCEPT ![o] = {}]
      /\ UNCHANGED <<folder, granted, mounts, created, faults, putIn>>
  BY DEF Folders!ArchiveDir, FolderRequest, Folders!At, Folders!records, Folders!RemoveDir
<1>2. k \in Existing /\ folder[k].name = o /\ o \in FolderNames /\ k \in 0..MaxFolders
  <2>1. k \in Existing /\ folder[k].name = o /\ k \in FolderIds /\ folder[k] # Folders!NoFolder
    BY <1>0, <1>1 DEF FolderServed, Existing, Folders!Live, Folders!Ids, FolderIds
  <2>2. o \in FolderNames
    BY <1>0, <2>1 DEF FolderTypes
  <2> QED
    BY <1>0, <2>1, <2>2, AdminAssumption DEF FolderIds
<1> HIDE DEF o, k
<1>3. /\ folderReq' \in [{1} -> FolderRequests]
      /\ FolderRequest'.at = "record" /\ FolderRequest'.id = k
      /\ FolderRequest'.kind = "delete" /\ FolderRequest'.old = o
  <2>1. folderReq[1] \in FolderRequests
    BY <1>0 DEF FolderTypes
  <2>2. folderReq' = [folderReq EXCEPT ![1] = [folderReq[1] EXCEPT !.at = "record", !.id = k]]
    BY <1>0, <1>1, <2>1 DEF Folders!Go, FolderTypes, FolderRequest, FolderRequests, k
  <2> QED
    BY <1>0, <1>1, <1>2, <2>2, FolderGoes DEF o
<1>4. /\ \A m \in FolderNames \ {o} : files'[m] = files[m]
      /\ files'[o] = {}
  BY <1>0, <1>1, <1>2 DEF FolderTypes
<1>5. Existing' = Existing
  BY <1>1 DEF Existing, Folders!Live
<1>6. FolderTypes' /\ FolderRecords' /\ FolderServed'
  BY <1>0, <1>1, <1>2, <1>3, <1>5 DEF FolderTypes, FolderRecords, FolderServed
<1>7. ASSUME NEW f \in FolderFiles, putIn[f] # 0
      PROVE  f \in archive' \cup UNION {files'[m] : m \in dirs'}
  <2>1. f \in archive \cup UNION {files[m] : m \in dirs}
    BY <1>0, <1>7 DEF Folders!FilesKept
  <2>2. ASSUME NEW m \in dirs, f \in files[m] PROVE f \in archive' \/ \E p \in dirs' : f \in files'[p]
    <3>1. CASE m = o
      BY <1>1, <2>2, <3>1
    <3>2. CASE m # o
      BY <1>0, <1>1, <1>4, <2>2, <3>2 DEF FolderTypes
    <3> QED
      BY <3>1, <3>2
  <2> QED
    BY <1>1, <2>1, <2>2
<1>8. Folders!FilesKept'
  BY <1>1, <1>7 DEF Folders!FilesKept
<1>9. \A i : Place(i) = folder[i].name /\ ~Renaming(i) /\ ~Leaving(i)
  BY <1>1 DEF Place, Renaming, Leaving
<1>10. \A i : Place(i)' = folder[i].name /\ ~Renaming(i)' /\ (Leaving(i)' <=> i = k)
  BY <1>1, <1>3 DEF Place, Renaming, Leaving
<1>11. ASSUME Orderly PROVE Orderly'
  <2>1. \A i \in Existing \ {k} : folder[i].name # o /\ folder[i].name \in dirs'
    BY <1>0, <1>1, <1>2, <1>9, <1>11 DEF Orderly, FolderRecords
  <2>2. ASSUME NEW m \in FolderNames, NEW f \in files'[m]
        PROVE  putIn[f] \in Existing /\ putIn[f] # k /\ folder[putIn[f]].name = m
    <3>1. m # o /\ f \in files[m]
      BY <1>4, <2>2
    <3> QED
      BY <1>2, <1>9, <1>11, <3>1 DEF Orderly
  <2> QED
    BY <1>0, <1>1, <1>5, <1>10, <2>1, <2>2 DEF Orderly, FolderRecords
<1> QED
  BY <1>1, <1>6, <1>8, <1>11 DEF FolderInv, Unspoilt, FewFailures

\* They cannot be archived, and the folder goes without them.
LEMMA NotArchivedStep ==
    ASSUME FolderInv, FewFailures, Folders!NotArchived(1)
    PROVE  FolderInv'
<1>0. FolderTypes /\ FolderRecords /\ FolderServed /\ Folders!FilesKept
  BY DEF FolderInv
<1> DEFINE k == FolderRequest.id
<1>1. /\ FolderRequest.kind = "delete" /\ FolderRequest.at = "archive" /\ Folders!Go(1, "record")
      /\ faults' = faults + 1
      /\ UNCHANGED <<folder, granted, mounts, dirs, files, archive, created, putIn>>
  BY DEF Folders!NotArchived, FolderRequest, Folders!At, Folders!records, Folders!host, Folders!Fails
<1>2. faults \in Nat /\ k \in 0..MaxFolders
  BY <1>0 DEF FolderTypes, FolderRequest, FolderRequests
<1>3. ~Unspoilt'
  BY <1>1, <1>2 DEF Unspoilt, FewFailures
<1>4. /\ folderReq' \in [{1} -> FolderRequests]
      /\ FolderRequest'.at = "record" /\ FolderRequest'.id = k
      /\ FolderRequest'.kind = "delete" /\ FolderRequest'.old = FolderRequest.old
  <2>1. folderReq[1] \in FolderRequests
    BY <1>0 DEF FolderTypes
  <2>2. folderReq' = [folderReq EXCEPT ![1] = [folderReq[1] EXCEPT !.at = "record", !.id = k]]
    BY <1>0, <1>1, <2>1 DEF Folders!Go, FolderTypes, FolderRequest, FolderRequests
  <2> QED
    BY <1>0, <1>1, <1>2, <2>2, FolderGoes
<1>5. Existing' = Existing
  BY <1>1 DEF Existing, Folders!Live
<1>6. FolderTypes' /\ FolderRecords' /\ FolderServed' /\ Folders!FilesKept'
  BY <1>0, <1>1, <1>2, <1>4, <1>5 DEF FolderTypes, FolderRecords, FolderServed, Folders!FilesKept
<1> QED
  BY <1>3, <1>6 DEF FolderInv

\* Its record goes, with its groups and mounts.
LEMMA DeleteFolderStep ==
    ASSUME FolderInv, FewFailures, Folders!DeleteFolder(1)
    PROVE  FolderInv'
<1>0. FolderTypes /\ FolderRecords /\ FolderServed /\ Folders!FilesKept
  BY DEF FolderInv
<1> DEFINE k == FolderRequest.id
<1>1. /\ FolderRequest.kind = "delete" /\ FolderRequest.at = "record" /\ Folders!Done(1)
      /\ folder' = [folder EXCEPT ![k] = Folders!NoFolder] /\ granted' = [granted EXCEPT ![k] = {}]
      /\ mounts' = {m \in mounts : m.id # k}
      /\ UNCHANGED <<dirs, files, archive, created, faults, putIn>>
  BY DEF Folders!DeleteFolder, FolderRequest, Folders!At, Folders!host
<1>2. k \in Existing /\ k \in FolderIds
  BY <1>0, <1>1 DEF FolderServed, Existing, Folders!Live, Folders!Ids, FolderIds
<1>3. \A i : Place(i) = folder[i].name /\ ~Renaming(i) /\ (Leaving(i) <=> i = k)
  BY <1>1 DEF Place, Renaming, Leaving
<1> HIDE DEF k
<1>4. FolderRequest'.kind = "idle" /\ FolderRequest'.at = "idle" /\ folderReq' \in [{1} -> FolderRequests]
  BY <1>0, <1>1, FolderEnds
<1>5. folder'[k] = Folders!NoFolder /\ \A i \in FolderIds \ {k} : folder'[i] = folder[i]
  BY <1>0, <1>1, <1>2 DEF FolderTypes
<1>6. Existing' = Existing \ {k} /\ Existing \subseteq FolderIds
  BY <1>5 DEF Existing, Folders!Live, Folders!Ids, FolderIds
<1>7. FolderTypes'
  BY <1>0, <1>1, <1>2, <1>4 DEF FolderTypes
<1>8. \A i \in FolderIds \ Existing' : granted'[i] = {} /\ \A m \in mounts' : m.id # i
  BY <1>0, <1>1, <1>2, <1>6 DEF FolderRecords, FolderTypes
<1>9. FolderRecords'
  BY <1>0, <1>1, <1>5, <1>6, <1>8 DEF FolderRecords
<1>10. FolderServed' /\ Folders!FilesKept'
  BY <1>0, <1>1, <1>4 DEF FolderServed, Folders!FilesKept
<1>11. \A i : Place(i)' = folder'[i].name /\ ~Renaming(i)' /\ ~Leaving(i)'
  BY <1>4 DEF Place, Renaming, Leaving
<1>12. \A i \in Existing' : i \in Existing /\ folder'[i] = folder[i] /\ ~Leaving(i)
  BY <1>3, <1>5, <1>6
<1>13. ASSUME Orderly PROVE Orderly'
  <2>1. ASSUME NEW m \in FolderNames, NEW f \in files[m]
        PROVE  putIn[f] \in Existing' /\ folder'[putIn[f]].name = m
    <3>1. putIn[f] \in Existing /\ ~Leaving(putIn[f]) /\ folder[putIn[f]].name = m
      BY <1>3, <1>13, <2>1 DEF Orderly
    <3>2. putIn[f] \in Existing'
      BY <1>3, <1>6, <3>1
    <3> QED
      BY <1>12, <3>1, <3>2
  <2>2. \A i \in Existing' : folder'[i].name \in dirs
    BY <1>3, <1>12, <1>13 DEF Orderly
  <2> QED
    BY <1>1, <1>9, <1>11, <2>1, <2>2 DEF Orderly, FolderRecords
<1> QED
  BY <1>1, <1>7, <1>9, <1>10, <1>13 DEF FolderInv, Unspoilt, FewFailures

\* It does not: the folder is there, its files in the archive.
LEMMA NotDeletedStep ==
    ASSUME FolderInv, FewFailures, Folders!NotDeleted(1)
    PROVE  FolderInv'
<1>0. FolderTypes /\ FolderRecords /\ FolderServed /\ Folders!FilesKept
  BY DEF FolderInv
<1>1. /\ FolderRequest.kind = "delete" /\ FolderRequest.at = "record" /\ Folders!Done(1)
      /\ faults' = faults + 1
      /\ UNCHANGED <<folder, granted, mounts, dirs, files, archive, created, putIn>>
  BY DEF Folders!NotDeleted, FolderRequest, Folders!At, Folders!records, Folders!host, Folders!Fails
<1>2. faults \in Nat
  BY <1>0 DEF FolderTypes
<1>3. ~Unspoilt'
  BY <1>1, <1>2 DEF Unspoilt, FewFailures
<1>4. FolderRequest'.kind = "idle" /\ FolderRequest'.at = "idle" /\ folderReq' \in [{1} -> FolderRequests]
  BY <1>0, <1>1, FolderEnds
<1>5. Existing' = Existing
  BY <1>1 DEF Existing, Folders!Live
<1>6. FolderTypes' /\ FolderRecords' /\ FolderServed' /\ Folders!FilesKept'
  BY <1>0, <1>1, <1>2, <1>4, <1>5 DEF FolderTypes, FolderRecords, FolderServed, Folders!FilesKept
<1> QED
  BY <1>3, <1>6 DEF FolderInv

\* A step of the shared folders.
LEMMA FolderStepped ==
    ASSUME FolderInv, FolderPart
    PROVE  FolderInv'
<1>1. FewFailures /\ Folders!Next
  BY DEF FolderPart, FewFailures, FolderRequest
<1>2. CASE \/ \E n \in FolderNames, p \in BOOLEAN, G \in SUBSET StaffGroups : Folders!FolderCreate(1, n, p, G)
           \/ \E i \in FolderIds, n \in FolderNames, p \in BOOLEAN : Folders!FolderUpdate(1, i, n, p)
           \/ \E i \in FolderIds : Folders!FolderDelete(1, i)
           \/ \E i \in FolderIds, f \in FolderFiles : Folders!Put(f, i)
  BY <1>1, <1>2, FolderCreateStep, FolderUpdateStep, FolderDeleteStep, PutStep DEF FewFailures
<1>3. CASE Folders!InsertFolder(1) \/ Folders!RollBackDir(1) \/ Folders!FolderGroups(1)
  BY <1>1, <1>3, InsertFolderStep, RollBackDirStep, FolderGroupsStep DEF FewFailures
<1>4. CASE Folders!MoveDir(1) \/ Folders!UpdateFolder(1) \/ Folders!MoveBack(1)
  BY <1>1, <1>4, MoveDirStep, UpdateFolderStep, MoveBackStep
<1>5. CASE Folders!ArchiveDir(1) \/ Folders!NotArchived(1) \/ Folders!DeleteFolder(1) \/ Folders!NotDeleted(1)
  BY <1>1, <1>5, ArchiveDirStep, NotArchivedStep, DeleteFolderStep, NotDeletedStep
<1>6. CASE \/ \E i \in FolderIds : \/ \E G \in SUBSET StaffGroups : Folders!SetGroups(i, G)
                                 \/ \E u \in StaffUsers : Folders!TestMount(i, u)
           \/ \E u \in StaffUsers, n \in FolderNames : Folders!OpenShare(u, n)
           \/ \E g \in StaffGroups, U \in SUBSET StaffUsers : Folders!StaffChanges(g, U)
  BY <1>1, <1>6, BriefFolderSteps
<1> QED
  BY <1>1, <1>2, <1>3, <1>4, <1>5, <1>6 DEF Folders!Next, Folders!Ids, FolderIds

LEMMA FolderStutters ==
    ASSUME FolderInv, UNCHANGED all
    PROVE  FolderInv'
<1>1. UNCHANGED <<folder, granted, mounts, dirs, files, archive, created, folderReq, putIn, part, faults>>
  BY DEF all, folderVars
<1>2. Existing' = Existing
  BY <1>1 DEF Existing, Folders!Live
<1>3. FolderTypes' /\ FolderRecords' /\ FolderServed' /\ Folders!FilesKept'
  BY <1>1, <1>2 DEF FolderInv, FolderTypes, FolderRecords, FolderServed, Folders!FilesKept, FolderRequest,
                    Folders!Named, Existing
<1>4. \A i : Place(i)' = Place(i) /\ (Renaming(i)' <=> Renaming(i)) /\ (Leaving(i)' <=> Leaving(i))
  BY <1>1 DEF Place, Renaming, Leaving, FolderRequest
<1>5. Orderly => Orderly'
  BY <1>1, <1>2, <1>4 DEF Orderly, FolderRequest
<1> QED
  BY <1>1, <1>3, <1>5 DEF FolderInv, Unspoilt

LEMMA FoldersCardinality == \A S : Folders!Cardinality(S) = Cardinality(S)
  BY DEF Folders!Cardinality, Cardinality

\* At most one folder has a name.
LEMMA OneOfAName ==
    ASSUME FolderInv, NEW n
    PROVE  Cardinality(Folders!Named(n)) <= 1
<1> DEFINE S == Folders!Named(n)
<1>1. \A i, j \in S : i = j
  BY DEF FolderInv, FolderRecords, Folders!Named, Existing
<1>2. CASE S = {}
  BY <1>2, FS_EmptySet
<1>3. CASE S # {}
  <2>1. PICK i : i \in S
    BY <1>3
  <2>2. S = {i}
    BY <1>1, <2>1
  <2>3. Cardinality({i}) = 1
    BY FS_Singleton
  <2> QED
    BY <2>2, <2>3
<1> QED
  BY <1>2, <1>3

LEMMA FolderSafe ==
    ASSUME FolderInv, part \in {"folders", "failing"}
    PROVE  /\ Folders!FilesKept /\ Folders!RecordsAgree
           /\ part = "folders" => Folders!OwnFiles
<1>1. Folders!FilesKept
  BY DEF FolderInv
<1>2. Folders!RecordsAgree
  <2>1. \A n \in FolderNames : Cardinality(Folders!Named(n)) <= 1
    BY OneOfAName
  <2>2. \A i \in Folders!Ids \ Folders!Live : granted[i] = {} /\ \A m \in mounts : m.id # i
    BY DEF FolderInv, FolderRecords, Existing, Folders!Ids, FolderIds
  <2> QED
    BY <2>1, <2>2, FoldersCardinality DEF Folders!RecordsAgree
<1>3. ASSUME part = "folders", Folders!Resting, NEW i \in Folders!Live, NEW f \in files[folder[i].name]
      PROVE  putIn[f] = i
  <2>1. Orderly /\ FolderRequest.at = "idle"
    BY <1>3 DEF FolderInv, Unspoilt, Folders!Resting, FolderRequest
  <2>2. \A j : Place(j) = folder[j].name /\ ~Renaming(j) /\ ~Leaving(j)
    BY <2>1 DEF Place, Renaming, Leaving
  <2>3. folder[i].name \in FolderNames
    BY DEF FolderInv, FolderTypes, Folders!Live, Folders!Ids, FolderIds
  <2> QED
    BY <1>3, <2>1, <2>2, <2>3 DEF Orderly, Existing
<1> QED
  BY <1>1, <1>2, <1>3 DEF Folders!OwnFiles

-----------------------------------------------------------------------------
(* WorkspaceFiles: who writes a file that is not spoilt, and how far.         *)

PathNames == {"skills", "note", "SKILL.md"} \cup WorkspaceSkills

FileTypes ==
    /\ tree \subseteq Workspace!Dirs \cup Workspace!Files
    /\ content \in [Workspace!Files -> Seq(Tabs \cup {"hole"})]
    /\ why \in [WorkspaceSkills -> {"none", "self", "admin"}]
    /\ op \in [Tabs -> [at : {"idle", "open", "write", "lost"}, path : Workspace!Files, size : 0..2, done : 0..2]]
    /\ spoilt \subseteq Workspace!Files

\* A request that writes has its file, and has written so much of it.
Progressing ==
    \A t \in Tabs : /\ op[t].at = "open" => op[t].size \in {1, 2} /\ op[t].done = 0
                    /\ op[t].at = "write" => /\ op[t].path \in tree /\ op[t].size \in {1, 2}
                                             /\ op[t].done <= op[t].size

\* A file that is not spoilt has one writer at most, and is what that one has
\* written, or what one wrote.
OneWriter(p) ==
    /\ \A t, u \in Workspace!Writers(p) : t = u
    /\ \A t \in Workspace!Writers(p) : content[p] = Workspace!Whole(t, op[t].done)
    /\ Workspace!Writers(p) = {} => \E t \in Tabs, n \in {1, 2} : content[p] = Workspace!Whole(t, n)

FileInv == /\ FileTypes /\ Progressing /\ Workspace!TreeIsOne
           /\ \A p \in (Workspace!Files \cap tree) \ spoilt : OneWriter(p)

\* The paths there are.
LEMMA PathsAreNames == Workspace!Dirs \cup Workspace!Files \subseteq Seq(PathNames)
<1>1. <<>> \in Seq(PathNames) /\ <<"skills">> \in Seq(PathNames) /\ <<"note">> \in Seq(PathNames)
  BY DEF PathNames
<1>2. \A s \in WorkspaceSkills : <<"skills", s>> \in Seq(PathNames) /\ <<"skills", s, "SKILL.md">> \in Seq(PathNames)
  BY DEF PathNames
<1> QED
  BY <1>1, <1>2 DEF Workspace!Dirs, Workspace!Files, Workspace!Note, Workspace!SkillDir, Workspace!SkillFile

\* What is under a path is so with everything it has under itself.
LEMMA UnderParent ==
    ASSUME NEW S, NEW p \in Seq(S), NEW q \in Seq(S), q # <<>>, Workspace!Under(p, Workspace!Parent(q))
    PROVE  Workspace!Under(p, q)
<1> DEFINE r == SubSeq(q, 1, Len(q) - 1)
<1>1. Len(q) \in Nat /\ Len(q) > 0 /\ Len(p) \in Nat
  OBVIOUS
<1>2. r \in Seq(S) /\ Len(r) = Len(q) - 1 /\ \A i \in 1..(Len(q) - 1) : r[i] = q[i]
  <2>1. \A i \in 1..(Len(q) - 1) : q[i] \in S
    BY <1>1
  <2> DEFINE n == Len(q) - 1
  <2>2. n \in Int /\ 1 \in Int /\ n >= 0
    BY <1>1
  <2>3. \A i \in 1..n : q[i] \in S
    BY <2>1
  <2> HIDE DEF n
  <2>4. /\ SubSeq(q, 1, n) \in Seq(S) /\ Len(SubSeq(q, 1, n)) = IF 1 <= n THEN n - 1 + 1 ELSE 0
        /\ \A i \in 1..(n - 1 + 1) : SubSeq(q, 1, n)[i] = q[1 + i - 1]
    BY <2>2, <2>3, SubSeqProperties
  <2>5. n - 1 + 1 = n /\ (~(1 <= n) => n = 0) /\ \A i \in 1..n : 1 + i - 1 = i
    BY <2>2
  <2>6. Len(SubSeq(q, 1, n)) = n /\ \A i \in 1..n : SubSeq(q, 1, n)[i] = q[i]
    BY <2>4, <2>5
  <2> QED
    BY <2>4, <2>6 DEF n
<1>3. Len(r) >= Len(p) /\ SubSeq(r, 1, Len(p)) = p
  BY DEF Workspace!Under, Workspace!Parent
<1> HIDE DEF r
<1>4. Len(q) >= Len(p) /\ Len(p) <= Len(q) - 1
  BY <1>1, <1>2, <1>3
<1>5. \A i \in 1..Len(p) : p[i] = r[i]
  BY <1>1, <1>2, <1>3, <1>4
<1>6. \A i \in 1..Len(p) : q[i] = p[i]
  BY <1>1, <1>2, <1>4, <1>5
<1>7. SubSeq(q, 1, Len(p)) = p
  BY <1>1, <1>4, <1>6
<1> QED
  BY <1>4, <1>7 DEF Workspace!Under

LEMMA FileStart == Workspace!Init => FileInv
<1> SUFFICES ASSUME Workspace!Init PROVE FileInv
  OBVIOUS
<1>1. /\ tree = {<<>>, <<"skills">>} /\ content = [p \in Workspace!Files |-> <<>>]
      /\ why = [s \in WorkspaceSkills |-> "none"] /\ op = [t \in Tabs |-> Workspace!NoOp] /\ spoilt = {}
  BY DEF Workspace!Init
<1>2. Workspace!Note \in Workspace!Files
  BY DEF Workspace!Files
<1>3. \A t \in Tabs : op[t] = Workspace!NoOp /\ op[t].at = "idle"
  BY <1>1 DEF Workspace!NoOp
<1>4. FileTypes
  BY <1>1, <1>2 DEF FileTypes, Workspace!NoOp, Workspace!Dirs
<1>5. Progressing
  BY <1>3 DEF Progressing
<1>6. Workspace!TreeIsOne
  <2>1. \A p \in tree : p # <<>> => p = <<"skills">>
    BY <1>1
  <2>2. Workspace!Parent(<<"skills">>) = <<>>
    BY DEF Workspace!Parent
  <2> QED
    BY <1>1, <2>1, <2>2 DEF Workspace!TreeIsOne
<1>7. Workspace!Files \cap tree = {}
  BY <1>1 DEF Workspace!Files, Workspace!Note, Workspace!SkillFile
<1> QED
  BY <1>4, <1>5, <1>6, <1>7 DEF FileInv

\* A request is sent: nobody writes yet that did not.
LEMMA WriteBegins ==
    ASSUME FileInv, NEW t \in Tabs, NEW p \in Workspace!Files, NEW n \in {1, 2}, op[t] = Workspace!NoOp,
           op' = [op EXCEPT ![t] = [at |-> "open", path |-> p, size |-> n, done |-> 0]],
           UNCHANGED <<tree, content, why, center, fileFaults, spoilt>>
    PROVE  FileInv'
<1>0. FileTypes /\ Progressing /\ Workspace!TreeIsOne
  BY DEF FileInv
<1>1. op'[t] = [at |-> "open", path |-> p, size |-> n, done |-> 0] /\ \A u \in Tabs \ {t} : op'[u] = op[u]
  BY <1>0 DEF FileTypes
<1>2. FileTypes'
  BY <1>0, <1>1 DEF FileTypes
<1>3. Progressing'
  BY <1>0, <1>1 DEF Progressing
<1>4. op[t].at # "write" /\ op'[t].at # "write"
  BY <1>1 DEF Workspace!NoOp
<1>5. \A q : Workspace!Writers(q)' = Workspace!Writers(q)
  BY <1>1, <1>4 DEF Workspace!Writers, Workspace!Writing
<1>6. \A q : t \notin Workspace!Writers(q)
  BY <1>4 DEF Workspace!Writers, Workspace!Writing
<1>7. ASSUME NEW q, OneWriter(q) PROVE OneWriter(q)'
  <2>1. \A u \in Workspace!Writers(q) : u \in Tabs \ {t} /\ op'[u] = op[u]
    BY <1>1, <1>6 DEF Workspace!Writers
  <2> QED
    BY <1>5, <1>7, <2>1 DEF OneWriter
<1> QED
  BY <1>0, <1>2, <1>3, <1>7 DEF FileInv, Workspace!TreeIsOne

\* A directory is no file.
LEMMA DirsAreNotFiles == Workspace!Dirs \cap Workspace!Files = {}
<1>1. "skills" # "note"
  OBVIOUS
<1>2. \A s \in WorkspaceSkills : /\ <<"skills", s>> # <<"note">> /\ <<"skills", s, "SKILL.md">> # <<>>
                                /\ <<"skills", s, "SKILL.md">> # <<"skills">> /\ <<"skills", s>> # <<"note">>
  OBVIOUS
<1>3. \A s, r \in WorkspaceSkills : <<"skills", s>> # <<"skills", r, "SKILL.md">>
  OBVIOUS
<1>4. <<>> # <<"note">> /\ <<"skills">> # <<"note">>
  BY <1>1
<1> QED
  BY <1>2, <1>3, <1>4 DEF Workspace!Dirs, Workspace!Files, Workspace!Note, Workspace!SkillDir, Workspace!SkillFile

\* What touches one file leaves the others as they are.
LEMMA OtherFiles ==
    ASSUME FileInv, NEW p \in Workspace!Files, tree \subseteq tree', tree' \subseteq tree \cup {p},
           content' \in [Workspace!Files -> Seq(Tabs \cup {"hole"})],
           \A q \in Workspace!Files \ {p} : content'[q] = content[q],
           \A t \in Tabs : (op'[t] = op[t] \/ (op[t].at \in {"idle", "open", "lost"} \/ op[t].path = p))
                          /\ (op'[t] = op[t] \/ (op'[t].at \in {"idle", "open", "lost"} \/ op'[t].path = p)),
           \A q \in Workspace!Files \ {p} : q \in spoilt => q \in spoilt'
    PROVE  \A q \in (Workspace!Files \cap tree') \ spoilt' : q # p => OneWriter(q)'
<1> SUFFICES ASSUME NEW q \in (Workspace!Files \cap tree') \ spoilt', q # p PROVE OneWriter(q)'
  OBVIOUS
<1>1. q \in (Workspace!Files \cap tree) \ spoilt
  OBVIOUS
<1>2. OneWriter(q)
  BY <1>1 DEF FileInv
<1>3. \A t \in Tabs : t \in Workspace!Writers(q)' => t \in Workspace!Writers(q) /\ op'[t] = op[t]
  BY DEF Workspace!Writers, Workspace!Writing
<1>4. \A t \in Tabs : t \in Workspace!Writers(q) => t \in Workspace!Writers(q)'
  BY DEF Workspace!Writers, Workspace!Writing
<1>5. Workspace!Writers(q)' = Workspace!Writers(q)
  BY <1>3, <1>4 DEF Workspace!Writers
<1>6. content'[q] = content[q]
  BY <1>1
<1> QED
  BY <1>2, <1>3, <1>5, <1>6 DEF OneWriter, Workspace!Writers

\* The file is opened, and empty: this request is its only writer, unless
\* another has it open.
LEMMA FileOpens == ASSUME FileInv, NEW t \in Tabs, Workspace!OpenFile(t) PROVE FileInv'
<1>0. FileTypes /\ Progressing /\ Workspace!TreeIsOne
  BY DEF FileInv
<1>p. PICK p \in Workspace!Files : p = op[t].path
  BY <1>0 DEF FileTypes
<1>1. /\ p \in Workspace!Files /\ op[t].path = p /\ op[t].at = "open" /\ op[t].size \in {1, 2} /\ op[t].done = 0
      /\ Workspace!Parent(p) \in tree
      /\ tree' = tree \cup {p} /\ content' = [content EXCEPT ![p] = <<>>]
      /\ op' = [op EXCEPT ![t].at = "write"] /\ why' = why
      /\ spoilt' = IF Workspace!Writers(p) = {} THEN spoilt \ {p} ELSE spoilt \cup {p}
  BY <1>0, <1>p DEF Workspace!OpenFile, FileTypes, Progressing
<1>2. op'[t] = [at |-> "write", path |-> p, size |-> op[t].size, done |-> 0] /\ \A u \in Tabs \ {t} : op'[u] = op[u]
  BY <1>0, <1>1 DEF FileTypes
<1>3. content'[p] = <<>> /\ \A q \in Workspace!Files \ {p} : content'[q] = content[q]
  BY <1>0, <1>1 DEF FileTypes
<1>4. content' \in [Workspace!Files -> Seq(Tabs \cup {"hole"})]
  BY <1>0, <1>1 DEF FileTypes
<1>5. FileTypes'
  <2>1. op' \in [Tabs -> [at : {"idle", "open", "write", "lost"}, path : Workspace!Files, size : 0..2, done : 0..2]]
    <3>1. op'[t] \in [at : {"idle", "open", "write", "lost"}, path : Workspace!Files, size : 0..2, done : 0..2]
      BY <1>0, <1>1, <1>2 DEF FileTypes
    <3> QED
      BY <1>0, <1>1, <1>2, <3>1 DEF FileTypes
  <2> QED
    BY <1>0, <1>1, <1>4, <2>1 DEF FileTypes
<1>6. Progressing'
  BY <1>0, <1>1, <1>2 DEF Progressing, FileTypes
<1>7. Workspace!TreeIsOne'
  BY <1>0, <1>1 DEF Workspace!TreeIsOne
<1>8. \A q \in (Workspace!Files \cap tree') \ spoilt' : q # p => OneWriter(q)'
  BY <1>1, <1>2, <1>3, <1>4, OtherFiles
<1>9. p \notin spoilt' => OneWriter(p)'
  <2> SUFFICES ASSUME p \notin spoilt' PROVE OneWriter(p)'
    OBVIOUS
  <2>1. Workspace!Writers(p) = {}
    BY <1>1
  <2>2. Workspace!Writers(p)' = {t}
    BY <1>2, <2>1 DEF Workspace!Writers, Workspace!Writing
  <2>3. Workspace!Whole(t, 0) = <<>>
    BY DEF Workspace!Whole
  <2>4. op'[t].done = 0
    BY <1>2
  <2> QED
    BY <1>3, <2>2, <2>3, <2>4 DEF OneWriter
<1> QED
  BY <1>5, <1>6, <1>7, <1>8, <1>9 DEF FileInv

\* A request ends that writes no more, or that has written it all.
LEMMA WriteEnds ==
    ASSUME FileInv, NEW t \in Tabs, Workspace!Quit(t), UNCHANGED <<tree, content, why>>,
           spoilt' \in {spoilt, spoilt \cup {op[t].path}},
           op[t].at = "write" => op[t].done = op[t].size \/ op[t].path \in spoilt'
    PROVE  FileInv'
<1>0. FileTypes /\ Progressing /\ Workspace!TreeIsOne
  BY DEF FileInv
<1>p. PICK p \in Workspace!Files : p = op[t].path
  BY <1>0 DEF FileTypes
<1>1. Workspace!Note \in Workspace!Files /\ p \in Workspace!Files /\ op' = [op EXCEPT ![t] = Workspace!NoOp]
  BY <1>0, <1>p DEF Workspace!Files, FileTypes, Workspace!Quit
<1>2. op'[t] = Workspace!NoOp /\ op'[t].at = "idle" /\ \A u \in Tabs \ {t} : op'[u] = op[u]
  BY <1>0, <1>1 DEF FileTypes, Workspace!NoOp
<1>3. op' \in [Tabs -> [at : {"idle", "open", "write", "lost"}, path : Workspace!Files, size : 0..2, done : 0..2]]
  <2>1. Workspace!NoOp \in [at : {"idle", "open", "write", "lost"}, path : Workspace!Files, size : 0..2, done : 0..2]
    BY <1>1 DEF Workspace!NoOp
  <2> QED
    BY <1>0, <1>1, <2>1 DEF FileTypes
<1>4. FileTypes'
  BY <1>0, <1>1, <1>3 DEF FileTypes
<1>5. Progressing'
  BY <1>0, <1>2 DEF Progressing
<1>6. Workspace!TreeIsOne'
  BY <1>0 DEF Workspace!TreeIsOne
<1>7. \A q \in (Workspace!Files \cap tree') \ spoilt' : q # p => OneWriter(q)'
  <2>1. content' \in [Workspace!Files -> Seq(Tabs \cup {"hole"})]
    BY <1>4 DEF FileTypes
  <2>2. \A u \in Tabs : (op'[u] = op[u] \/ (op[u].at \in {"idle", "open", "lost"} \/ op[u].path = p))
                      /\ (op'[u] = op[u] \/ (op'[u].at \in {"idle", "open", "lost"} \/ op'[u].path = p))
    BY <1>p, <1>2
  <2> QED
    BY <1>p, <2>1, <2>2, OtherFiles
<1>8. p \in (Workspace!Files \cap tree') \ spoilt' => OneWriter(p)'
  <2> SUFFICES ASSUME p \in (Workspace!Files \cap tree) \ spoilt, p \notin spoilt' PROVE OneWriter(p)'
    OBVIOUS
  <2>1. OneWriter(p)
    BY <1>1 DEF FileInv
  <2>2. CASE op[t].at = "write"
    <3>1. op[t].done = op[t].size /\ op[t].size \in {1, 2}
      BY <1>0, <1>p, <2>2 DEF Progressing
    <3>2. t \in Workspace!Writers(p)
      BY <1>p, <2>2 DEF Workspace!Writers, Workspace!Writing
    <3>3. content[p] = Workspace!Whole(t, op[t].size)
      BY <2>1, <3>1, <3>2 DEF OneWriter
    <3>4. Workspace!Writers(p)' = {}
      BY <1>2, <2>1, <3>2 DEF OneWriter, Workspace!Writers, Workspace!Writing
    <3> QED
      BY <3>1, <3>3, <3>4 DEF OneWriter
  <2>3. CASE op[t].at # "write"
    <3>1. Workspace!Writers(p)' = Workspace!Writers(p) /\ \A u \in Workspace!Writers(p) : u \in Tabs /\ op'[u] = op[u]
      BY <1>2, <2>3 DEF Workspace!Writers, Workspace!Writing
    <3> QED
      BY <2>1, <3>1 DEF OneWriter
  <2> QED
    BY <2>2, <2>3
<1> QED
  BY <1>4, <1>5, <1>6, <1>7, <1>8 DEF FileInv

\* One more block: the file grows by the block of its only writer.
LEMMA BlockIsWritten == ASSUME FileInv, NEW t \in Tabs, Workspace!WriteBlock(t) PROVE FileInv'
<1>0. FileTypes /\ Progressing /\ Workspace!TreeIsOne
  BY DEF FileInv
<1>p. PICK p \in Workspace!Files : p = op[t].path
  BY <1>0 DEF FileTypes
<1>k. PICK k \in 1..2 : k = op[t].done + 1 /\ k <= op[t].size
  <2>1. op[t].done + 1 <= op[t].size
    BY DEF Workspace!WriteBlock
  <2>2. op[t].done \in 0..2 /\ op[t].size \in 0..2
    BY <1>0 DEF FileTypes
  <2> QED
    BY <2>1, <2>2
<1>o. PICK old \in Seq(Tabs \cup {"hole"}) : old = content[p]
  BY <1>0 DEF FileTypes
<1> DEFINE new == [i \in 1..(IF Len(old) > k THEN Len(old) ELSE k) |->
                      IF i = k THEN t ELSE IF i <= Len(old) THEN old[i] ELSE "hole"]
<1>1. /\ op[t].at = "write" /\ op[t].size \in {1, 2} /\ p \in tree
      /\ op' = [op EXCEPT ![t].done = k] /\ content' = [content EXCEPT ![p] = new]
      /\ UNCHANGED <<tree, why, spoilt>>
  BY <1>0, <1>p, <1>k, <1>o DEF Workspace!WriteBlock, Workspace!Writing, Progressing
<1>2. op'[t] = [op[t] EXCEPT !.done = k] /\ \A u \in Tabs \ {t} : op'[u] = op[u]
  BY <1>0, <1>1 DEF FileTypes
<1>3. /\ op'[t].at = "write" /\ op'[t].path = p /\ op'[t].size = op[t].size /\ op'[t].done = k
  BY <1>0, <1>p, <1>1, <1>2 DEF FileTypes
<1>4. new \in Seq(Tabs \cup {"hole"})
  <2>1. Len(old) \in Nat /\ \A i \in 1..Len(old) : old[i] \in Tabs \cup {"hole"}
    OBVIOUS
  <2> DEFINE m == IF Len(old) > k THEN Len(old) ELSE k
  <2>2. m \in Nat
    BY <2>1
  <2>3. \A i \in 1..m : (IF i = k THEN t ELSE IF i <= Len(old) THEN old[i] ELSE "hole") \in Tabs \cup {"hole"}
    BY <2>1, <2>2
  <2> HIDE DEF m
  <2>4. [i \in 1..m |-> IF i = k THEN t ELSE IF i <= Len(old) THEN old[i] ELSE "hole"] \in Seq(Tabs \cup {"hole"})
    BY <2>2, <2>3
  <2> QED
    BY <2>4 DEF m
<1>5. content'[p] = new /\ \A q \in Workspace!Files \ {p} : content'[q] = content[q]
  <2> HIDE DEF new
  <2> QED
    BY <1>0, <1>1 DEF FileTypes
<1>6. content' \in [Workspace!Files -> Seq(Tabs \cup {"hole"})]
  <2> HIDE DEF new
  <2> QED
    BY <1>0, <1>1, <1>4 DEF FileTypes
<1>7. op' \in [Tabs -> [at : {"idle", "open", "write", "lost"}, path : Workspace!Files, size : 0..2, done : 0..2]]
  <2>1. op[t] \in [at : {"idle", "open", "write", "lost"}, path : Workspace!Files, size : 0..2, done : 0..2] /\ k \in 0..2
    BY <1>0 DEF FileTypes
  <2>2. op'[t] \in [at : {"idle", "open", "write", "lost"}, path : Workspace!Files, size : 0..2, done : 0..2]
    BY <1>2, <2>1
  <2> QED
    BY <1>0, <1>1, <2>2 DEF FileTypes
<1>8. FileTypes'
  BY <1>0, <1>1, <1>6, <1>7 DEF FileTypes
<1>9. Progressing'
  BY <1>0, <1>k, <1>1, <1>2, <1>3 DEF Progressing
<1>10. Workspace!TreeIsOne'
  BY <1>0, <1>1 DEF Workspace!TreeIsOne
<1>11. \A q \in (Workspace!Files \cap tree') \ spoilt' : q # p => OneWriter(q)'
  <2>1. \A u \in Tabs : (op'[u] = op[u] \/ (op[u].at \in {"idle", "open", "lost"} \/ op[u].path = p))
                      /\ (op'[u] = op[u] \/ (op'[u].at \in {"idle", "open", "lost"} \/ op'[u].path = p))
    BY <1>p, <1>2, <1>3
  <2> HIDE DEF new
  <2> QED
    BY <1>1, <1>5, <1>6, <2>1, OtherFiles
<1>12. p \notin spoilt => OneWriter(p)'
  <2> SUFFICES ASSUME p \notin spoilt PROVE OneWriter(p)'
    OBVIOUS
  <2>1. OneWriter(p)
    BY <1>1 DEF FileInv
  <2>2. t \in Workspace!Writers(p)
    BY <1>p, <1>1 DEF Workspace!Writers, Workspace!Writing
  <2>3. Workspace!Writers(p)' = Workspace!Writers(p)
    BY <1>p, <1>1, <1>2, <1>3 DEF Workspace!Writers, Workspace!Writing
  <2>4. old = [i \in 1..(k - 1) |-> t]
    <3>1. old = Workspace!Whole(t, op[t].done) /\ op[t].done \in 0..2
      BY <1>0, <1>o, <2>1, <2>2 DEF OneWriter, FileTypes
    <3>2. op[t].done = k - 1
      BY <1>k, <3>1
    <3> QED
      BY <3>1, <3>2 DEF Workspace!Whole
  <2>5. Len(old) = k - 1
    BY <2>4
  <2>6. new = [i \in 1..k |-> t]
    <3>1. (IF Len(old) > k THEN Len(old) ELSE k) = k
      BY <2>5
    <3>2. \A i \in 1..k : (IF i = k THEN t ELSE IF i <= Len(old) THEN old[i] ELSE "hole") = t
      BY <2>4, <2>5
    <3> QED
      BY <3>1, <3>2
  <2>7. content'[p] = Workspace!Whole(t, op'[t].done)
    BY <1>3, <1>5, <2>6 DEF Workspace!Whole
  <2> HIDE DEF new
  <2>8. \A u \in Workspace!Writers(p)' : u = t
    BY <2>1, <2>2, <2>3 DEF OneWriter
  <2> QED
    BY <2>2, <2>3, <2>7, <2>8 DEF OneWriter
<1> HIDE DEF new
<1> QED
  BY <1>1, <1>8, <1>9, <1>10, <1>11, <1>12 DEF FileInv

\* A directory is made.
LEMMA DirIsMade == ASSUME FileInv, NEW d \in Workspace!Dirs \ {<<>>}, Workspace!Mkdir(d) PROVE FileInv'
<1>0. FileTypes /\ Progressing /\ Workspace!TreeIsOne
  BY DEF FileInv
<1>1. tree' = tree \cup {d} /\ UNCHANGED <<content, why, op, spoilt>> /\ Workspace!Parent(d) \in tree
  BY DEF Workspace!Mkdir
<1>2. d \notin Workspace!Files
  BY DirsAreNotFiles
<1>3. FileTypes'
  BY <1>0, <1>1 DEF FileTypes
<1>4. Progressing'
  BY <1>0, <1>1 DEF Progressing
<1>5. Workspace!TreeIsOne'
  BY <1>0, <1>1 DEF Workspace!TreeIsOne
<1>6. \A q \in Workspace!Files : OneWriter(q) => OneWriter(q)'
  BY <1>1 DEF OneWriter, Workspace!Writers, Workspace!Writing
<1> QED
  BY <1>1, <1>2, <1>3, <1>4, <1>5, <1>6 DEF FileInv

\* Something is deleted, with all that is under it; the others keep theirs.
LEMMA PathIsDeleted == ASSUME FileInv, NEW p \in Workspace!Dirs \cup Workspace!Files, Workspace!Delete(p) PROVE FileInv'
<1>0. FileTypes /\ Progressing /\ Workspace!TreeIsOne
  BY DEF FileInv
<1>1. /\ p \in tree \ {<<>>} /\ tree' = {q \in tree : ~Workspace!Under(p, q)}
      /\ content' = [q \in Workspace!Files |-> IF Workspace!Under(p, q) THEN <<>> ELSE content[q]]
      /\ op' = [t \in Tabs |-> IF Workspace!Writing(t) /\ Workspace!Under(p, op[t].path)
                                 THEN [op[t] EXCEPT !.at = "lost"] ELSE op[t]]
      /\ UNCHANGED <<why, spoilt>>
  BY DEF Workspace!Delete
<1>2. \A t \in Tabs : op'[t] \in [at : {"idle", "open", "write", "lost"}, path : Workspace!Files, size : 0..2, done : 0..2]
  <2> SUFFICES ASSUME NEW t \in Tabs
               PROVE  op'[t] \in [at : {"idle", "open", "write", "lost"}, path : Workspace!Files, size : 0..2, done : 0..2]
    OBVIOUS
  <2>1. op[t] \in [at : {"idle", "open", "write", "lost"}, path : Workspace!Files, size : 0..2, done : 0..2]
    BY <1>0 DEF FileTypes
  <2>2. op'[t] = [op[t] EXCEPT !.at = "lost"] \/ op'[t] = op[t]
    BY <1>1
  <2> QED
    BY <2>1, <2>2
<1>3. FileTypes'
  <2>1. content' \in [Workspace!Files -> Seq(Tabs \cup {"hole"})]
    BY <1>0, <1>1 DEF FileTypes
  <2>2. op' \in [Tabs -> [at : {"idle", "open", "write", "lost"}, path : Workspace!Files, size : 0..2, done : 0..2]]
    BY <1>1, <1>2
  <2> QED
    BY <1>0, <1>1, <2>1, <2>2 DEF FileTypes
<1>4. \A t \in Tabs : \/ op'[t] = op[t] /\ ~(op[t].at = "write" /\ Workspace!Under(p, op[t].path))
                      \/ op'[t].at = "lost" /\ op[t].at = "write" /\ Workspace!Under(p, op[t].path)
  <2> SUFFICES ASSUME NEW t \in Tabs
               PROVE  \/ op'[t] = op[t] /\ ~(op[t].at = "write" /\ Workspace!Under(p, op[t].path))
                      \/ op'[t].at = "lost" /\ op[t].at = "write" /\ Workspace!Under(p, op[t].path)
    OBVIOUS
  <2>1. op[t] \in [at : {"idle", "open", "write", "lost"}, path : Workspace!Files, size : 0..2, done : 0..2]
    BY <1>0 DEF FileTypes
  <2> QED
    BY <1>1, <2>1 DEF Workspace!Writing
<1>5. Progressing'
  BY <1>0, <1>1, <1>4 DEF Progressing
<1>6. Workspace!TreeIsOne'
  <2> SUFFICES ASSUME NEW q \in tree', q # <<>> PROVE Workspace!Parent(q) \in tree'
    BY DEF Workspace!TreeIsOne
  <2>1. q \in tree /\ ~Workspace!Under(p, q) /\ Workspace!Parent(q) \in tree
    BY <1>0, <1>1 DEF Workspace!TreeIsOne
  <2>2. p \in Seq(PathNames) /\ q \in Seq(PathNames)
    BY <1>0, <2>1, PathsAreNames DEF FileTypes
  <2>3. ~Workspace!Under(p, Workspace!Parent(q))
    BY <2>1, <2>2, UnderParent
  <2> QED
    BY <1>1, <2>1, <2>3
<1>7. ASSUME NEW q \in (Workspace!Files \cap tree') \ spoilt' PROVE OneWriter(q)'
  <2>1. q \in (Workspace!Files \cap tree) \ spoilt /\ ~Workspace!Under(p, q)
    BY <1>1
  <2>2. OneWriter(q) /\ content'[q] = content[q]
    BY <1>1, <2>1 DEF FileInv
  <2>3. \A t \in Tabs : /\ t \in Workspace!Writers(q)' => t \in Workspace!Writers(q) /\ op'[t] = op[t]
                        /\ t \in Workspace!Writers(q) => t \in Workspace!Writers(q)'
    BY <1>4, <2>1 DEF Workspace!Writers, Workspace!Writing
  <2>4. Workspace!Writers(q)' = Workspace!Writers(q)
    BY <2>3 DEF Workspace!Writers
  <2> QED
    BY <2>2, <2>3, <2>4 DEF OneWriter, Workspace!Writers
<1> QED
  BY <1>3, <1>5, <1>6, <1>7 DEF FileInv

LEMMA FileStutters == FileInv /\ UNCHANGED fileVars => FileInv'
<1> SUFFICES ASSUME FileInv, UNCHANGED fileVars PROVE FileInv'
  OBVIOUS
<1>1. UNCHANGED <<tree, content, why, op, spoilt>>
  BY DEF fileVars
<1>2. \A q : OneWriter(q) => OneWriter(q)'
  BY <1>1 DEF OneWriter, Workspace!Writers, Workspace!Writing
<1> QED
  BY <1>1, <1>2 DEF FileInv, FileTypes, Progressing, Workspace!TreeIsOne

\* Bindings and sources are nothing a file depends on.
LEMMA BindingChanges ==
    ASSUME FileInv, UNCHANGED <<tree, content, op, spoilt>>, why' \in [WorkspaceSkills -> {"none", "self", "admin"}]
    PROVE  FileInv'
<1>1. \A q : OneWriter(q) => OneWriter(q)'
  BY DEF OneWriter, Workspace!Writers, Workspace!Writing
<1> QED
  BY <1>1 DEF FileInv, FileTypes, Progressing, Workspace!TreeIsOne

LEMMA FileStepped == FileInv /\ FilePart => FileInv'
<1> SUFFICES ASSUME FileInv, Workspace!Next PROVE FileInv'
  BY DEF FilePart
<1>0. FileTypes /\ Progressing
  BY DEF FileInv
<1>1. ASSUME NEW t \in Tabs, NEW p \in Workspace!Files, NEW n \in {1, 2},
             Workspace!Upload(t, p, n) \/ Workspace!EditSave(t, p, n) PROVE FileInv'
  BY <1>1, WriteBegins DEF Workspace!Upload, Workspace!EditSave
<1>2. ASSUME NEW t \in Tabs, Workspace!OpenFails(t) PROVE FileInv'
  BY <1>2, WriteEnds DEF Workspace!OpenFails
<1>3. ASSUME NEW t \in Tabs, Workspace!Saved(t) PROVE FileInv'
  BY <1>3, WriteEnds DEF Workspace!Saved
<1>4. ASSUME NEW t \in Tabs, Workspace!WriteFails(t) PROVE FileInv'
  BY <1>4, WriteEnds DEF Workspace!WriteFails
<1>5. ASSUME NEW t \in Tabs, Workspace!Lost(t) PROVE FileInv'
  BY <1>5, WriteEnds DEF Workspace!Lost
<1>6. ASSUME NEW s \in WorkspaceSkills, Workspace!Resource(s) \/ \E w \in {"none", "self", "admin"} : Workspace!Rebind(s, w)
      PROVE FileInv'
  <2>1. UNCHANGED <<tree, content, op, spoilt>>
    BY <1>6 DEF Workspace!Resource, Workspace!Rebind
  <2>2. why' \in [WorkspaceSkills -> {"none", "self", "admin"}]
    BY <1>0, <1>6 DEF Workspace!Resource, Workspace!Rebind, FileTypes
  <2> QED
    BY <2>1, <2>2, BindingChanges
<1> QED
  BY <1>1, <1>2, <1>3, <1>4, <1>5, <1>6, FileOpens, BlockIsWritten, DirIsMade, PathIsDeleted DEF Workspace!Next

\* What the page shows as read-only is what the requests refuse.
LEMMA ListingSound == Workspace!ListingAgrees
<1> SUFFICES ASSUME NEW s \in WorkspaceSkills
             PROVE  /\ \A e \in Workspace!Listing(<<"skills">>) : e.name = s => e.readonly = Workspace!Installed(Workspace!SkillDir(s))
                    /\ Workspace!Installed(Workspace!SkillFile(s)) => Workspace!Listing(Workspace!SkillDir(s)) = {}
  BY DEF Workspace!ListingAgrees
<1>1. /\ Len(<<"skills", s>>) = 2 /\ <<"skills", s>>[1] = "skills" /\ <<"skills", s>>[2] = s
      /\ Len(<<"skills", s, "SKILL.md">>) = 3 /\ <<"skills", s, "SKILL.md">>[1] = "skills"
      /\ <<"skills", s, "SKILL.md">>[2] = s /\ <<"skills", s>> # <<"skills">>
  OBVIOUS
<1>2. /\ Workspace!Installed(Workspace!SkillDir(s)) <=> Workspace!Taken(s) \/ Workspace!Given(s)
      /\ Workspace!Installed(Workspace!SkillFile(s)) <=> Workspace!Taken(s) \/ Workspace!Given(s)
  BY <1>1 DEF Workspace!Installed, Workspace!SkillDir, Workspace!SkillFile, Workspace!Taken, Workspace!Given
<1>3. Workspace!Installed(Workspace!SkillDir(s)) = (Workspace!Taken(s) \/ Workspace!Given(s))
  <2>1. Workspace!Installed(Workspace!SkillDir(s)) \in BOOLEAN
    BY DEF Workspace!Installed
  <2> QED
    BY <1>2, <2>1
<1>4. ASSUME NEW e \in Workspace!Listing(<<"skills">>), e.name = s
      PROVE  e.readonly = (Workspace!Taken(s) \/ Workspace!Given(s))
  <2>1. PICK r : e = [name |-> r, readonly |-> Workspace!Taken(r) \/ Workspace!Given(r)]
    BY <1>4 DEF Workspace!Listing
  <2>2. r = s
    BY <1>4, <2>1
  <2> QED
    BY <2>1, <2>2
<1>5. Workspace!Taken(s) \/ Workspace!Given(s) => Workspace!Listing(Workspace!SkillDir(s)) = {}
  BY <1>1 DEF Workspace!Listing, Workspace!SkillDir
<1> QED
  BY <1>2, <1>3, <1>4, <1>5

LEMMA FileSafe == FileInv => Workspace!FilesSafe
<1> SUFFICES ASSUME FileInv PROVE Workspace!FilesSafe
  OBVIOUS
<1>1. Workspace!WholeFiles
  BY DEF FileInv, OneWriter, Workspace!WholeFiles
<1>2. Workspace!TreeIsOne
  BY DEF FileInv
<1> QED
  BY <1>1, <1>2, ListingSound DEF Workspace!FilesSafe

-----------------------------------------------------------------------------
(* Settings: what the configuration is made of, and that its history leads to *)
(* what is stored.                                                            *)

Setting == [mode : Modes, secret : Secrets, policy : {"on", "off"}, skills : SUBSET SkillSources]
Values == Modes \cup Secrets \cup {"on", "off"}
Asked == [kind : {"idle", "save", "policy", "skills"},
          at : {"idle", "write", "load", "store", "lock", "swap", "persist"},
          raw : Setting \cup {Configuration!Blank}, source : SkillSources \cup {"none"}]

SettingTypes ==
    /\ db \in Setting /\ memory \in Setting /\ meant \in Setting /\ saves \in Nat
    /\ history \in [Configuration!Scalars -> Seq(Values \X Values)]
    /\ page \in [Operators -> Setting \cup {Configuration!Blank}]
    /\ ask \in [Operators -> Asked]
    /\ \A a \in Operators : /\ ask[a].at \in {"write", "store", "swap"} => ask[a].raw \in Setting
                            /\ ask[a].kind = "skills" => ask[a].source \in SkillSources

Chained == SettingTypes /\ Configuration!HistoryChains

\* A source is added where it was not, and removed where it was.
Toggled(S, s) == IF s \in S THEN S \ {s} ELSE S \cup {s}

\* A page posts what it was filled with, but for the setting edited.
Edited(c, k, v) ==
    [c EXCEPT ![k] = v, !.secret = IF k = "secret" THEN v ELSE Configuration!Posted(c.secret)]

LEMMA PageIsPosted ==
    ASSUME NEW c \in Setting, NEW k, NEW v,
           (k = "mode" /\ v \in Modes) \/ (k = "secret" /\ v \in Secrets)
    PROVE  Edited(c, k, v) \in Setting /\ Edited(c, k, v) = [c EXCEPT ![k] = v]
<1>1. c = [mode |-> c.mode, secret |-> c.secret, policy |-> c.policy, skills |-> c.skills]
      /\ c.mode \in Modes /\ c.secret \in Secrets /\ c.policy \in {"on", "off"} /\ c.skills \in SUBSET SkillSources
  BY DEF Setting
<1>2. Configuration!Posted(c.secret) = c.secret
  BY <1>1, AdminAssumption DEF Configuration!Posted
<1>3. CASE k = "mode" /\ v \in Modes
  BY <1>1, <1>2, <1>3 DEF Edited, Setting
<1>4. CASE k = "secret" /\ v \in Secrets
  BY <1>1, <1>2, <1>4 DEF Edited, Setting
<1> QED
  BY <1>3, <1>4

\* At the start there is no history.
LEMMA SettingStart == Configuration!Init => Chained
<1> SUFFICES ASSUME Configuration!Init PROVE Chained
  OBVIOUS
<1>1. PICK m \in Modes, s \in Secrets :
        /\ db = [mode |-> m, secret |-> s, policy |-> "on", skills |-> {}]
        /\ history = [k \in Configuration!Scalars |-> <<>>] /\ memory = db /\ meant = db
        /\ page = [a \in Operators |-> Configuration!Blank] /\ ask = [a \in Operators |-> Configuration!NoAsk]
        /\ mutex = "nobody" /\ saves = 0
  BY DEF Configuration!Init
<1>2. db \in Setting
  BY <1>1 DEF Setting
<1>3. ask \in [Operators -> Asked] /\ \A a \in Operators : ask[a].at = "idle" /\ ask[a].kind = "idle"
  BY <1>1 DEF Asked, Configuration!NoAsk
<1>4. history \in [Configuration!Scalars -> Seq(Values \X Values)]
  BY <1>1
<1>5. SettingTypes
  BY <1>1, <1>2, <1>3, <1>4 DEF SettingTypes
<1>6. Configuration!HistoryChains
  BY <1>1 DEF Configuration!HistoryChains
<1> QED
  BY <1>5, <1>6 DEF Chained

\* A request begins: no action but Begin adds to saves.
LEMMA AskBegins ==
    ASSUME SettingTypes, NEW a \in Operators, NEW k \in {"save", "policy", "skills"},
           NEW s \in {"write", "lock"}, NEW raw \in Setting \cup {Configuration!Blank},
           NEW src \in SkillSources \cup {"none"}, Configuration!Begin(a, k, s, raw, src),
           s = "write" => raw \in Setting, k = "skills" => src \in SkillSources
    PROVE  /\ ask' \in [Operators -> Asked] /\ saves' \in Nat
           /\ \A b \in Operators : /\ ask'[b].at \in {"write", "store", "swap"} => ask'[b].raw \in Setting
                                   /\ ask'[b].kind = "skills" => ask'[b].source \in SkillSources
BY DEF SettingTypes, Configuration!Begin, Asked

\* A request takes its next step, with what it read.
LEMMA AskGoes ==
    ASSUME SettingTypes, NEW a \in Operators, NEW s \in {"load", "store", "swap", "persist"},
           NEW raw \in Setting \cup {Configuration!Blank}, s \in {"store", "swap"} => raw \in Setting,
           ask' = [ask EXCEPT ![a] = [ask[a] EXCEPT !.at = s, !.raw = raw]]
    PROVE  /\ ask' \in [Operators -> Asked]
           /\ \A b \in Operators : /\ ask'[b].at \in {"write", "store", "swap"} => ask'[b].raw \in Setting
                                   /\ ask'[b].kind = "skills" => ask'[b].source \in SkillSources
<1>1. ask[a] \in Asked
  BY DEF SettingTypes
<1>2. ask' = [ask EXCEPT ![a] = [ask[a] EXCEPT !.at = s, !.raw = raw]]
  OBVIOUS
<1>3. [ask[a] EXCEPT !.at = s, !.raw = raw] \in Asked
  BY <1>1 DEF Asked
<1>4. \A b \in Operators \ {a} : ask'[b] = ask[b]
  BY <1>2 DEF SettingTypes
<1>5. ask'[a].at = s /\ ask'[a].raw = raw /\ ask'[a].kind = ask[a].kind /\ ask'[a].source = ask[a].source
  BY <1>1, <1>2 DEF SettingTypes, Asked
<1>6. ask' \in [Operators -> Asked]
  BY <1>2, <1>3 DEF SettingTypes
<1> QED
  BY <1>4, <1>5, <1>6 DEF SettingTypes

LEMMA AskEnds ==
    ASSUME SettingTypes, NEW a \in Operators, Configuration!Quit(a)
    PROVE  /\ ask' \in [Operators -> Asked]
           /\ \A b \in Operators : /\ ask'[b].at \in {"write", "store", "swap"} => ask'[b].raw \in Setting
                                   /\ ask'[b].kind = "skills" => ask'[b].source \in SkillSources
<1>1. ask' = [ask EXCEPT ![a] = Configuration!NoAsk]
  BY DEF Configuration!Quit
<1>2. Configuration!NoAsk \in Asked /\ Configuration!NoAsk.at = "idle" /\ Configuration!NoAsk.kind = "idle"
  BY DEF Configuration!NoAsk, Asked
<1> QED
  BY <1>1, <1>2 DEF SettingTypes

\* Settings are replaced in one transaction, which records what differs.
LEMMA HistoryGrows ==
    ASSUME Chained, NEW raw \in Setting, Configuration!SaveRawToDB(raw)
    PROVE  /\ db' \in Setting /\ history' \in [Configuration!Scalars -> Seq(Values \X Values)]
           /\ Configuration!HistoryChains'
<1>1. db' = raw /\ history' = [k \in Configuration!Scalars |-> IF raw[k] = db[k] THEN history[k]
                                              ELSE Append(history[k], <<db[k], raw[k]>>)]
  BY DEF Configuration!SaveRawToDB
<1>2. \A c \in Setting, k \in Configuration!Scalars : c[k] \in Values
  BY DEF Setting, Configuration!Scalars, Values
<1>3. db \in Setting /\ \A k \in Configuration!Scalars : history[k] \in Seq(Values \X Values)
  BY DEF Chained, SettingTypes
<1>4. ASSUME NEW k \in Configuration!Scalars
      PROVE  /\ history'[k] \in Seq(Values \X Values)
             /\ history'[k] # <<>> => history'[k][Len(history'[k])][2] = db'[k]
             /\ \A i \in 1..Len(history'[k]) - 1 : history'[k][i][2] = history'[k][i + 1][1]
  <2> DEFINE h == history[k]
  <2>1. h \in Seq(Values \X Values)
    BY <1>3
  <2>2. h # <<>> => h[Len(h)][2] = db[k]
    BY DEF Chained, Configuration!HistoryChains
  <2>3. \A i \in 1..Len(h) - 1 : h[i][2] = h[i + 1][1]
    BY DEF Chained, Configuration!HistoryChains
  <2>4. CASE raw[k] = db[k]
    BY <1>1, <2>1, <2>2, <2>3, <2>4
  <2>5. CASE raw[k] # db[k]
    <3> DEFINE e == <<db[k], raw[k]>>
    <3>1. e \in Values \X Values /\ e[1] = db[k] /\ e[2] = raw[k]
      BY <1>2, <1>3
    <3>2. history'[k] = Append(h, e)
      BY <1>1, <2>5
    <3> HIDE DEF h, e
    <3>3. /\ Append(h, e) \in Seq(Values \X Values) /\ Len(Append(h, e)) = Len(h) + 1 /\ Len(h) \in Nat
          /\ Append(h, e)[Len(h) + 1] = e
          /\ \A i \in 1..Len(h) : Append(h, e)[i] = h[i]
      BY <2>1, <3>1
    <3>4. ASSUME NEW i \in 1..Len(h) PROVE Append(h, e)[i][2] = Append(h, e)[i + 1][1]
      <4>1. CASE i = Len(h)
        <5>1. h # <<>>
          BY <2>1, <4>1
        <5> QED
          BY <2>2, <3>1, <3>3, <4>1, <5>1
      <4>2. CASE i # Len(h)
        <5>1. i \in 1..Len(h) - 1 /\ i + 1 \in 1..Len(h)
          BY <3>3, <4>2
        <5> QED
          BY <2>3, <3>3, <5>1
      <4> QED
        BY <4>1, <4>2
    <3>5. Len(Append(h, e)) - 1 = Len(h)
      BY <3>3
    <3> QED
      BY <1>1, <3>1, <3>2, <3>3, <3>4, <3>5
  <2> QED
    BY <2>4, <2>5
<1>5. history' \in [Configuration!Scalars -> Seq(Values \X Values)]
  BY <1>1, <1>4
<1> QED
  BY <1>1, <1>4, <1>5 DEF Configuration!HistoryChains

\* A step of any request keeps the history.
LEMMA SettingSteps ==
    ASSUME Chained, Configuration!Next
    PROVE  Chained'
<1>0. SettingTypes /\ Configuration!HistoryChains
  BY DEF Chained
<1>1. \A c \in Setting : c = [mode |-> c.mode, secret |-> c.secret, policy |-> c.policy, skills |-> c.skills]
                       /\ c.mode \in Modes /\ c.secret \in Secrets /\ c.policy \in {"on", "off"}
                       /\ c.skills \in SUBSET SkillSources
  BY DEF Setting
<1>2. PICK a \in Operators :
        \/ Configuration!OpenPage(a) \/ Configuration!Write(a)
        \/ Configuration!LoadFromDB(a) \/ Configuration!Store(a)
        \/ \E v \in Modes : Configuration!ConfigSave(a, "mode", v)
        \/ \E v \in Secrets : Configuration!ConfigSave(a, "secret", v)
        \/ \E v \in {"on", "off"} : Configuration!PolicySet(a, v)
        \/ \E s \in SkillSources : Configuration!UpdateSkills(a, s)
        \/ Configuration!LockSkills(a) \/ Configuration!SwapSkills(a) \/ Configuration!PersistSkills(a)
  BY DEF Configuration!Next
<1>3. ask[a] \in Asked /\ ask[a].at # "idle" => ask[a] \in Asked
  BY <1>0 DEF SettingTypes
<1>4. (db' = db /\ history' = history) => Configuration!HistoryChains'
  BY <1>0 DEF Configuration!HistoryChains
<1>5. CASE Configuration!OpenPage(a)
  BY <1>0, <1>4, <1>5 DEF Configuration!OpenPage, SettingTypes, Chained
<1>6. CASE Configuration!Write(a)
  <2>1. /\ ask[a].at = "write" /\ Configuration!SaveRawToDB(ask[a].raw)
        /\ ask' = [ask EXCEPT ![a].at = "load"] /\ UNCHANGED <<memory, page, mutex, saves, meant>>
    BY <1>6 DEF Configuration!Write, Configuration!Go
  <2>2. ask[a].raw \in Setting
    BY <1>0, <2>1 DEF SettingTypes
  <2>3. ask' = [ask EXCEPT ![a] = [ask[a] EXCEPT !.at = "load", !.raw = ask[a].raw]]
    BY <1>0, <2>1 DEF SettingTypes, Asked
  <2>4. /\ db' \in Setting /\ history' \in [Configuration!Scalars -> Seq(Values \X Values)]
        /\ Configuration!HistoryChains'
    BY <2>1, <2>2, HistoryGrows
  <2> QED
    BY <1>0, <2>1, <2>2, <2>3, <2>4, AskGoes DEF SettingTypes, Chained
<1>7. CASE Configuration!LoadFromDB(a)
  <2>1. /\ ask' = [ask EXCEPT ![a].at = "store", ![a].raw = db]
        /\ UNCHANGED <<db, history, memory, page, mutex, saves, meant>>
    BY <1>7 DEF Configuration!LoadFromDB
  <2>2. ask' = [ask EXCEPT ![a] = [ask[a] EXCEPT !.at = "store", !.raw = db]] /\ db \in Setting
    BY <1>0, <2>1 DEF SettingTypes, Asked
  <2> QED
    BY <1>0, <1>4, <2>1, <2>2, AskGoes DEF SettingTypes, Chained
<1>8. CASE Configuration!Store(a)
  <2>1. /\ ask[a].at = "store" /\ memory' = ask[a].raw /\ Configuration!Quit(a)
        /\ UNCHANGED <<db, history, page, mutex, saves, meant>>
    BY <1>8 DEF Configuration!Store
  <2> QED
    BY <1>0, <1>4, <2>1, AskEnds DEF SettingTypes, Chained
<1>9. ASSUME NEW k, NEW v, (k = "mode" /\ v \in Modes) \/ (k = "secret" /\ v \in Secrets),
             Configuration!ConfigSave(a, k, v)
      PROVE  Chained'
  <2>1. /\ page[a] # Configuration!Blank
        /\ Configuration!Begin(a, "save", "write", Edited(page[a], k, v), "none")
        /\ page' = [page EXCEPT ![a] = [page[a] EXCEPT ![k] = v]] /\ meant' = [meant EXCEPT ![k] = v]
        /\ UNCHANGED <<db, history, memory, mutex>>
    BY <1>9 DEF Configuration!ConfigSave, Edited
  <2>2. page[a] \in Setting /\ meant \in Setting
    BY <1>0, <2>1 DEF SettingTypes
  <2>3. Edited(page[a], k, v) \in Setting /\ [page[a] EXCEPT ![k] = v] \in Setting
        /\ [meant EXCEPT ![k] = v] \in Setting
    BY <1>9, <2>2, PageIsPosted
  <2>4. /\ ask' \in [Operators -> Asked] /\ saves' \in Nat
        /\ \A b \in Operators : /\ ask'[b].at \in {"write", "store", "swap"} => ask'[b].raw \in Setting
                                /\ ask'[b].kind = "skills" => ask'[b].source \in SkillSources
    BY <1>0, <2>1, <2>3, AskBegins
  <2> QED
    BY <1>0, <1>4, <2>1, <2>3, <2>4 DEF SettingTypes, Chained
<1>10. ASSUME NEW v \in {"on", "off"}, Configuration!PolicySet(a, v) PROVE Chained'
  <2>1. /\ Configuration!Begin(a, "policy", "write", [db EXCEPT !.policy = v], "none")
        /\ meant' = [meant EXCEPT !.policy = v] /\ UNCHANGED <<db, history, memory, page, mutex>>
    BY <1>10 DEF Configuration!PolicySet
  <2>2. [db EXCEPT !.policy = v] \in Setting /\ [meant EXCEPT !.policy = v] \in Setting
    BY <1>0 DEF SettingTypes, Setting
  <2>3. /\ ask' \in [Operators -> Asked] /\ saves' \in Nat
        /\ \A b \in Operators : /\ ask'[b].at \in {"write", "store", "swap"} => ask'[b].raw \in Setting
                                /\ ask'[b].kind = "skills" => ask'[b].source \in SkillSources
    BY <1>0, <2>1, <2>2, AskBegins
  <2> QED
    BY <1>0, <1>4, <2>1, <2>2, <2>3 DEF SettingTypes, Chained
<1>11. ASSUME NEW s \in SkillSources, Configuration!UpdateSkills(a, s) PROVE Chained'
  <2>1. /\ Configuration!Begin(a, "skills", "lock", Configuration!Blank, s)
        /\ meant' = [meant EXCEPT !.skills = Toggled(meant.skills, s)]
        /\ UNCHANGED <<db, history, memory, page, mutex>>
    BY <1>0, <1>11 DEF Configuration!UpdateSkills, Toggled, SettingTypes, Setting
  <2>2. [meant EXCEPT !.skills = Toggled(meant.skills, s)] \in Setting
    BY <1>0 DEF SettingTypes, Setting, Toggled
  <2>3. /\ ask' \in [Operators -> Asked] /\ saves' \in Nat
        /\ \A b \in Operators : /\ ask'[b].at \in {"write", "store", "swap"} => ask'[b].raw \in Setting
                                /\ ask'[b].kind = "skills" => ask'[b].source \in SkillSources
    BY <1>0, <2>1, AskBegins
  <2> QED
    BY <1>0, <1>4, <2>1, <2>2, <2>3 DEF SettingTypes, Chained
<1>12. CASE Configuration!LockSkills(a)
  <2>1. /\ ask' = [ask EXCEPT ![a].at = "swap", ![a].raw = memory]
        /\ UNCHANGED <<db, history, memory, page, saves, meant>>
    BY <1>12 DEF Configuration!LockSkills
  <2>2. ask' = [ask EXCEPT ![a] = [ask[a] EXCEPT !.at = "swap", !.raw = memory]] /\ memory \in Setting
    BY <1>0, <2>1 DEF SettingTypes, Asked
  <2> QED
    BY <1>0, <1>4, <2>1, <2>2, AskGoes DEF SettingTypes, Chained
<1>13. CASE Configuration!SwapSkills(a)
  <2>1. /\ ask[a].kind = "skills" /\ ask[a].at = "swap" /\ ask' = [ask EXCEPT ![a].at = "persist"]
        /\ UNCHANGED <<db, history, page, mutex, saves, meant>>
    BY <1>13 DEF Configuration!SwapSkills, Configuration!At, Configuration!Go
  <2>2. ask[a].raw \in Setting /\ ask[a].source \in SkillSources
    BY <1>0, <2>1 DEF SettingTypes
  <2>3. memory' = [ask[a].raw EXCEPT !.skills = Toggled(ask[a].raw.skills, ask[a].source)]
    BY <1>13, <2>2 DEF Configuration!SwapSkills, Toggled, Setting
  <2>4. memory' \in Setting
    BY <2>2, <2>3 DEF Setting, Toggled
  <2>5. ask' = [ask EXCEPT ![a] = [ask[a] EXCEPT !.at = "persist", !.raw = ask[a].raw]]
    BY <1>0, <2>1 DEF SettingTypes, Asked
  <2> QED
    BY <1>0, <1>4, <2>1, <2>2, <2>4, <2>5, AskGoes DEF SettingTypes, Chained
<1>14. CASE Configuration!PersistSkills(a)
  <2>1. /\ db' = [db EXCEPT !.skills = memory.skills] /\ Configuration!Quit(a)
        /\ UNCHANGED <<history, memory, page, saves, meant>>
    BY <1>14 DEF Configuration!PersistSkills
  <2>2. db' \in Setting /\ \A k \in Configuration!Scalars : db'[k] = db[k]
    BY <1>0, <2>1 DEF SettingTypes, Setting, Configuration!Scalars
  <2>3. Configuration!HistoryChains'
    BY <1>0, <2>1, <2>2 DEF Configuration!HistoryChains
  <2> QED
    BY <1>0, <2>1, <2>2, <2>3, AskEnds DEF SettingTypes, Chained
<1> QED
  BY <1>2, <1>5, <1>6, <1>7, <1>8, <1>9, <1>10, <1>11, <1>12, <1>13, <1>14

\* One request at a time, from a page that shows what there is: what remains
\* for it to do makes memory and database what was meant.
Remains(a) ==
    LET q == ask[a] IN
    /\ q.at = "write" => memory = db /\ q.raw = meant
    /\ q.at = "load" => db = meant
    /\ q.at = "store" => db = meant /\ q.raw = db
    /\ q.at \in {"lock", "swap"} => memory = db /\ meant = [db EXCEPT !.skills = Toggled(db.skills, q.source)]
    /\ q.at = "swap" => q.raw = memory
    /\ q.at = "persist" => memory = meant /\ meant = [db EXCEPT !.skills = meant.skills]

Asking(a) == ask[a] # Configuration!NoAsk

Settled ==
    /\ \A a, b \in Operators : Asking(a) /\ Asking(b) => a = b
    /\ \A a \in Operators : Remains(a)
    /\ Configuration!Resting => memory = db /\ db = meant

LEMMA SettledStart == Configuration!Init => Settled
<1> SUFFICES ASSUME Configuration!Init PROVE Settled
  OBVIOUS
<1>1. memory = db /\ meant = db /\ \A a \in Operators : ask[a] = Configuration!NoAsk
  BY DEF Configuration!Init
<1>2. Configuration!NoAsk.at = "idle"
  BY DEF Configuration!NoAsk
<1> QED
  BY <1>1, <1>2 DEF Settled, Asking, Remains

\* While one request is served there is no other.
LEMMA OneAsking ==
    ASSUME Settled, NEW a \in Operators, ask[a].at # "idle"
    PROVE  /\ Asking(a) /\ \A b \in Operators \ {a} : ~Asking(b) /\ ask[b].at = "idle"
BY DEF Settled, Asking, Configuration!NoAsk

\* The state a step by a leads to is settled if a's part of it is.
LEMMA SettledNext ==
    ASSUME NEW a \in Operators, \A b \in Operators \ {a} : ~Asking(b), SettingTypes,
           \A b \in Operators \ {a} : ask'[b] = ask[b],
           ask'[a].at # "idle" \/ (memory' = db' /\ db' = meant'), Remains(a)'
    PROVE  Settled'
<1>1. \A b \in Operators \ {a} : ask'[b] = Configuration!NoAsk /\ ask'[b].at = "idle"
  BY DEF Asking, Configuration!NoAsk
<1>2. \A b \in Operators : Remains(b)'
  BY <1>1 DEF Remains
<1>3. (\A b, c \in Operators : Asking(b) /\ Asking(c) => b = c)'
  BY <1>1 DEF Asking
<1>4. Configuration!Resting' => memory' = db' /\ db' = meant'
  BY DEF Configuration!Resting, Configuration!NoAsk
<1> QED
  BY <1>2, <1>3, <1>4 DEF Settled

\* A request begins when there is none.
LEMMA SettledBegins ==
    ASSUME SettingTypes, Settled, Configuration!Resting, NEW a \in Operators,
           NEW k, NEW s \in {"write", "lock"}, NEW raw, NEW src, Configuration!Begin(a, k, s, raw, src)
    PROVE  /\ memory = db /\ db = meant /\ \A b \in Operators \ {a} : ~Asking(b) /\ ask'[b] = ask[b]
           /\ ask'[a] = [kind |-> k, at |-> s, raw |-> raw, source |-> src]
BY DEF SettingTypes, Settled, Configuration!Begin, Configuration!Resting, Asking

LEMMA SettledSteps ==
    ASSUME Chained, Settled, Configuration!Next,
           saves' # saves => /\ Configuration!Resting
                             /\ \A a \in Operators : ask'[a].kind = "save" => page[a] = db
    PROVE  Settled'
<1>0. SettingTypes
  BY DEF Chained
<1>1. PICK a \in Operators :
        \/ Configuration!OpenPage(a) \/ Configuration!Write(a)
        \/ Configuration!LoadFromDB(a) \/ Configuration!Store(a)
        \/ \E v \in Modes : Configuration!ConfigSave(a, "mode", v)
        \/ \E v \in Secrets : Configuration!ConfigSave(a, "secret", v)
        \/ \E v \in {"on", "off"} : Configuration!PolicySet(a, v)
        \/ \E s \in SkillSources : Configuration!UpdateSkills(a, s)
        \/ Configuration!LockSkills(a) \/ Configuration!SwapSkills(a) \/ Configuration!PersistSkills(a)
  BY DEF Configuration!Next
<1>2. saves' = saves + 1 => Configuration!Resting /\ \A b \in Operators : ask'[b].kind = "save" => page[b] = db
  BY <1>0 DEF SettingTypes
<1>3. ask[a] \in Asked /\ db \in Setting /\ meant \in Setting /\ memory \in Setting
  BY <1>0 DEF SettingTypes
<1>4. Remains(a)
  BY DEF Settled
<1>5. CASE Configuration!OpenPage(a)
  BY <1>5 DEF Configuration!OpenPage, Settled, Asking, Remains, Configuration!Resting
<1>6. CASE Configuration!Write(a)
  <2>1. /\ ask[a].at = "write" /\ db' = ask[a].raw
        /\ ask' = [ask EXCEPT ![a].at = "load"] /\ UNCHANGED <<memory, page, mutex, saves, meant>>
    BY <1>6 DEF Configuration!Write, Configuration!Go, Configuration!SaveRawToDB
  <2>2. ask'[a].at = "load" /\ \A b \in Operators \ {a} : ask'[b] = ask[b]
    BY <1>0, <1>3, <2>1 DEF SettingTypes, Asked
  <2>3. Remains(a)'
    BY <1>4, <2>1, <2>2 DEF Remains
  <2> QED
    BY <1>0, <2>1, <2>2, <2>3, OneAsking, SettledNext
<1>7. CASE Configuration!LoadFromDB(a)
  <2>1. /\ ask[a].at = "load" /\ ask' = [ask EXCEPT ![a].at = "store", ![a].raw = db]
        /\ UNCHANGED <<db, history, memory, page, mutex, saves, meant>>
    BY <1>7 DEF Configuration!LoadFromDB
  <2>2. ask'[a].at = "store" /\ ask'[a].raw = db /\ \A b \in Operators \ {a} : ask'[b] = ask[b]
    BY <1>0, <1>3, <2>1 DEF SettingTypes, Asked
  <2>3. Remains(a)'
    BY <1>4, <2>1, <2>2 DEF Remains
  <2> QED
    BY <1>0, <2>1, <2>2, <2>3, OneAsking, SettledNext
<1>8. CASE Configuration!Store(a)
  <2>1. /\ ask[a].at = "store" /\ memory' = ask[a].raw /\ ask' = [ask EXCEPT ![a] = Configuration!NoAsk]
        /\ UNCHANGED <<db, history, page, mutex, saves, meant>>
    BY <1>8 DEF Configuration!Store, Configuration!Quit
  <2>2. ask'[a].at = "idle" /\ \A b \in Operators \ {a} : ask'[b] = ask[b]
    BY <1>0, <2>1 DEF SettingTypes, Configuration!NoAsk
  <2>3. Remains(a)' /\ memory' = db' /\ db' = meant'
    BY <1>4, <2>1, <2>2 DEF Remains
  <2> QED
    BY <1>0, <2>1, <2>2, <2>3, OneAsking, SettledNext
<1>9. ASSUME NEW k, NEW v, (k = "mode" /\ v \in Modes) \/ (k = "secret" /\ v \in Secrets),
             Configuration!ConfigSave(a, k, v)
      PROVE  Settled'
  <2>1. /\ Configuration!Begin(a, "save", "write", Edited(page[a], k, v), "none") /\ saves' = saves + 1
        /\ meant' = [meant EXCEPT ![k] = v] /\ UNCHANGED <<db, memory>>
    BY <1>9 DEF Configuration!ConfigSave, Edited, Configuration!Begin
  <2>2. /\ memory = db /\ db = meant /\ \A b \in Operators \ {a} : ~Asking(b) /\ ask'[b] = ask[b]
        /\ ask'[a] = [kind |-> "save", at |-> "write", raw |-> Edited(page[a], k, v), source |-> "none"]
    BY <1>0, <1>2, <2>1, SettledBegins
  <2>3. ask'[a].kind = "save" /\ ask'[a].at = "write" /\ ask'[a].raw = Edited(page[a], k, v)
    BY <2>2
  <2>4. ask'[a].raw = meant'
    <3>1. page[a] = db /\ Edited(db, k, v) = [db EXCEPT ![k] = v]
      BY <1>2, <1>3, <1>9, <2>1, <2>3, PageIsPosted
    <3>2. meant' = [db EXCEPT ![k] = v]
      BY <2>1, <2>2
    <3> QED
      BY <2>3, <3>1, <3>2
  <2>5. Remains(a)'
    BY <2>1, <2>2, <2>3, <2>4 DEF Remains
  <2> QED
    BY <1>0, <2>2, <2>3, <2>5, SettledNext
<1>10. ASSUME NEW v \in {"on", "off"}, Configuration!PolicySet(a, v) PROVE Settled'
  <2>1. /\ Configuration!Begin(a, "policy", "write", [db EXCEPT !.policy = v], "none") /\ saves' = saves + 1
        /\ meant' = [meant EXCEPT !.policy = v] /\ UNCHANGED <<db, memory>>
    BY <1>10 DEF Configuration!PolicySet, Configuration!Begin
  <2>2. /\ memory = db /\ db = meant /\ \A b \in Operators \ {a} : ~Asking(b) /\ ask'[b] = ask[b]
        /\ ask'[a] = [kind |-> "policy", at |-> "write", raw |-> [db EXCEPT !.policy = v], source |-> "none"]
    BY <1>0, <1>2, <2>1, SettledBegins
  <2>3. ask'[a].at = "write" /\ ask'[a].raw = [db EXCEPT !.policy = v]
    BY <2>2
  <2>4. Remains(a)'
    BY <2>1, <2>2, <2>3 DEF Remains
  <2> QED
    BY <1>0, <2>2, <2>3, <2>4, SettledNext
<1>11. ASSUME NEW s \in SkillSources, Configuration!UpdateSkills(a, s) PROVE Settled'
  <2>1. /\ Configuration!Begin(a, "skills", "lock", Configuration!Blank, s) /\ saves' = saves + 1
        /\ meant' = [meant EXCEPT !.skills = Toggled(meant.skills, s)] /\ UNCHANGED <<db, memory>>
    BY <1>3, <1>11 DEF Configuration!UpdateSkills, Configuration!Begin, Toggled, Setting
  <2>2. /\ memory = db /\ db = meant /\ \A b \in Operators \ {a} : ~Asking(b) /\ ask'[b] = ask[b]
        /\ ask'[a] = [kind |-> "skills", at |-> "lock", raw |-> Configuration!Blank, source |-> s]
    BY <1>0, <1>2, <2>1, SettledBegins
  <2>3. ask'[a].at = "lock" /\ ask'[a].source = s
    BY <2>2
  <2>4. Remains(a)'
    BY <2>1, <2>2, <2>3 DEF Remains
  <2> QED
    BY <1>0, <2>2, <2>3, <2>4, SettledNext
<1>12. CASE Configuration!LockSkills(a)
  <2>1. /\ ask[a].at = "lock" /\ ask' = [ask EXCEPT ![a].at = "swap", ![a].raw = memory]
        /\ UNCHANGED <<db, history, memory, page, saves, meant>>
    BY <1>12 DEF Configuration!LockSkills, Configuration!At
  <2>2. /\ ask'[a].at = "swap" /\ ask'[a].raw = memory /\ ask'[a].source = ask[a].source
        /\ \A b \in Operators \ {a} : ask'[b] = ask[b]
    BY <1>0, <1>3, <2>1 DEF SettingTypes, Asked
  <2>3. Remains(a)'
    BY <1>4, <2>1, <2>2 DEF Remains
  <2> QED
    BY <1>0, <2>1, <2>2, <2>3, OneAsking, SettledNext
<1>13. CASE Configuration!SwapSkills(a)
  <2>1. /\ ask[a].kind = "skills" /\ ask[a].at = "swap" /\ ask' = [ask EXCEPT ![a].at = "persist"]
        /\ UNCHANGED <<db, history, page, mutex, saves, meant>>
    BY <1>13 DEF Configuration!SwapSkills, Configuration!At, Configuration!Go
  <2>2. memory' = [ask[a].raw EXCEPT !.skills = Toggled(ask[a].raw.skills, ask[a].source)]
    BY <1>0, <1>13, <2>1 DEF Configuration!SwapSkills, Toggled, Setting, SettingTypes
  <2>3. ask[a].raw = db /\ meant = [db EXCEPT !.skills = Toggled(db.skills, ask[a].source)]
    BY <1>4, <2>1 DEF Remains
  <2>4. memory' = meant /\ meant = [db EXCEPT !.skills = meant.skills]
    BY <1>3, <2>2, <2>3 DEF Setting
  <2>5. ask'[a].at = "persist" /\ \A b \in Operators \ {a} : ask'[b] = ask[b]
    BY <1>0, <1>3, <2>1 DEF SettingTypes, Asked
  <2>6. Remains(a)'
    BY <2>1, <2>4, <2>5 DEF Remains
  <2> QED
    BY <1>0, <2>1, <2>5, <2>6, OneAsking, SettledNext
<1>14. CASE Configuration!PersistSkills(a)
  <2>1. /\ ask[a].at = "persist" /\ db' = [db EXCEPT !.skills = memory.skills]
        /\ ask' = [ask EXCEPT ![a] = Configuration!NoAsk]
        /\ UNCHANGED <<history, memory, page, saves, meant>>
    BY <1>14 DEF Configuration!PersistSkills, Configuration!Quit, Configuration!At
  <2>2. ask'[a].at = "idle" /\ \A b \in Operators \ {a} : ask'[b] = ask[b]
    BY <1>0, <2>1 DEF SettingTypes, Configuration!NoAsk
  <2>3. memory' = db' /\ db' = meant'
    BY <1>4, <2>1 DEF Remains
  <2>4. Remains(a)'
    BY <2>2 DEF Remains
  <2> QED
    BY <1>0, <2>1, <2>2, <2>3, <2>4, OneAsking, SettledNext
<1> QED
  BY <1>1, <1>5, <1>6, <1>7, <1>8, <1>9, <1>10, <1>11, <1>12, <1>13, <1>14

SettingInv == Chained /\ (part = "settings" => Settled)

\* A step of the configuration's.
LEMMA SettingStepped ==
    ASSUME SettingInv, SettingPart
    PROVE  SettingInv'
<1>1. /\ Configuration!Next /\ UNCHANGED part
      /\ part = "settings" /\ saves' # saves =>
           /\ Configuration!Resting
           /\ \A a \in Operators : ask'[a].kind = "save" => page[a] = db
  BY DEF SettingPart
<1>2. Chained'
  BY <1>1, SettingSteps DEF SettingInv
<1>3. part = "settings" => Settled'
  BY <1>1, SettledSteps DEF SettingInv
<1> QED
  BY <1>1, <1>2, <1>3 DEF SettingInv

LEMMA SettingStutters ==
    ASSUME SettingInv, UNCHANGED all
    PROVE  SettingInv'
<1>1. UNCHANGED <<db, history, memory, page, ask, mutex, saves, meant, part>>
  BY DEF all, settingVars
<1>2. Chained'
  BY <1>1 DEF SettingInv, Chained, SettingTypes, Configuration!HistoryChains
<1>3. Settled => Settled'
  BY <1>1 DEF Settled, Asking, Remains, Configuration!Resting
<1> QED
  BY <1>1, <1>2, <1>3 DEF SettingInv

-----------------------------------------------------------------------------
(* The five together: what holds of the part a behaviour is about.            *)

LEMMA SettingSafe ==
    ASSUME SettingInv
    PROVE  Configuration!HistoryChains /\ (part = "settings" => Configuration!SettingsSafe)
BY DEF SettingInv, Chained, Settled, Configuration!SettingsSafe, Configuration!MemoryIsDatabase, Configuration!NothingUndone

AdminInv ==
    /\ part = "accounts" => AloneInv
    /\ part = "superadmins" => FewInv
    /\ part = "skills" => SkillInv
    /\ part \in {"folders", "failing"} => FolderInv
    /\ part = "files" => FileInv
    /\ part \in {"settings", "busy"} => SettingInv

LEMMA AdminStart == AdminInit => AdminInv
<1> SUFFICES ASSUME AdminInit PROVE AdminInv
  OBVIOUS
<1>1. People!Init /\ Centre!Init /\ Folders!Init /\ Workspace!Init /\ Configuration!Init
  BY DEF AdminInit
<1>2. served = 0 /\ faults = 0
  BY <1>1 DEF People!Init
<1>3. SettingInv
  BY <1>1, SettingStart, SettledStart DEF SettingInv
<1> QED
  BY <1>1, <1>2, <1>3, AloneStart, SkillStart, FolderStart, FileStart DEF AdminInv

LEMMA AdminStutters ==
    ASSUME AdminInv, UNCHANGED all
    PROVE  AdminInv' /\ (part \in {"accounts", "superadmins"} => People!SuperadminStays)
<1>1. UNCHANGED part /\ UNCHANGED <<served, accountVars>> /\ UNCHANGED skillVars /\ UNCHANGED fileVars
  BY DEF all
<1>2. (AloneInv => AloneInv') /\ (FewInv => FewInv') /\ People!SuperadminStays
  BY <1>1, AccountStutters
<1>3. (SkillInv => SkillInv') /\ (FileInv => FileInv')
  BY <1>1, SkillStutters, FileStutters
<1>4. (FolderInv => FolderInv') /\ (SettingInv => SettingInv')
  BY FolderStutters, SettingStutters
<1> QED
  BY <1>1, <1>2, <1>3, <1>4 DEF AdminInv

LEMMA AdminStepped ==
    ASSUME AdminInv, AdminNext
    PROVE  AdminInv' /\ (part \in {"accounts", "superadmins"} => People!SuperadminStays)
<1>1. CASE AccountPart
  <2>1. part' = part /\ part \in {"accounts", "superadmins"}
    BY <1>1 DEF AccountPart
  <2>2. CASE part = "accounts"
    BY <1>1, <2>1, <2>2, AloneStepped DEF AdminInv
  <2>3. CASE part = "superadmins"
    BY <1>1, <2>1, <2>3, FewStepped DEF AdminInv
  <2> QED
    BY <2>1, <2>2, <2>3
<1>2. CASE SkillPart
  <2>1. part' = part /\ part = "skills"
    BY <1>2 DEF SkillPart
  <2> QED
    BY <1>2, <2>1, SkillStepped DEF AdminInv
<1>3. CASE FolderPart
  <2>1. part' = part /\ part \in {"folders", "failing"}
    BY <1>3 DEF FolderPart
  <2> QED
    BY <1>3, <2>1, FolderStepped DEF AdminInv
<1>4. CASE FilePart
  <2>1. part' = part /\ part = "files"
    BY <1>4 DEF FilePart
  <2> QED
    BY <1>4, <2>1, FileStepped DEF AdminInv
<1>5. CASE SettingPart
  <2>1. part' = part /\ part \in {"settings", "busy"}
    BY <1>5 DEF SettingPart
  <2> QED
    BY <1>5, <2>1, SettingStepped DEF AdminInv
<1> QED
  BY <1>1, <1>2, <1>3, <1>4, <1>5 DEF AdminNext

LEMMA AdminKept == AdminSpec => []AdminInv
<1>1. AdminInv /\ [AdminNext]_all => AdminInv'
  BY AdminStepped, AdminStutters
<1> QED
  BY <1>1, AdminStart, PTL DEF AdminSpec

-----------------------------------------------------------------------------
(* Accounts (web/admin_users.go, admin_groups.go, authsource/sync.go): with   *)
(* requests one after another, a directory that changes between any two of    *)
(* their steps and steps that fail, groups never form a cycle, a change of    *)
(* source leaves nothing of the old one, and a timed synchronisation leaves   *)
(* what the directory has.                                                    *)
THEOREM AdminAccounts == AdminSpec => []AccountsSafe
<1>1. AdminInv => AccountsSafe
  BY AloneSafe DEF AdminInv, AccountsSafe
<1> QED
  BY <1>1, AdminKept, PTL

(* Superadmins (web/admin_superadmins.go, store/users.go): a superadmin's     *)
(* account goes only by a request to delete it, whichever logins,             *)
(* synchronisations and changes of source are served at the same time.        *)
THEOREM AdminSuperadmins == AdminSpec => SuperadminsKept
<1>1. AdminInv /\ [AdminNext]_all => (part \in {"accounts", "superadmins"} => People!SuperadminStays)
  BY AdminStepped, AdminStutters
<1> QED
  BY <1>1, AdminKept, PTL DEF AdminSpec, SuperadminsKept

(* Skills (store/skills.go, web/admin_skills.go): the sources and their       *)
(* directories agree between requests, no group or default takes a skill from *)
(* the user who installed it, and a skill removed is nobody's, whatever fails *)
(* on the way.                                                                *)
THEOREM AdminSkills == AdminSpec => []SkillsSafe
<1>1. AdminInv => SkillsSafe
  BY SkillSafe DEF AdminInv, SkillsSafe
<1> QED
  BY <1>1, AdminKept, PTL

(* Shared folders and workspaces (web/admin_shared_folders.go, files.go): no  *)
(* file is lost with its folder and records agree after any one failure, and  *)
(* unless a deletion fails none is shown in another folder; a file of a       *)
(* workspace is one request's, whole.                                         *)
THEOREM AdminFolders == AdminSpec => []FoldersSafe
<1>1. AdminInv => FoldersSafe
  <2> SUFFICES ASSUME AdminInv PROVE FoldersSafe
    OBVIOUS
  <2>1. part \in {"folders", "failing"} =>
            Folders!FilesKept /\ Folders!RecordsAgree /\ (part = "folders" => Folders!OwnFiles)
    BY FolderSafe DEF AdminInv
  <2>2. part = "files" => Workspace!FilesSafe
    BY FileSafe DEF AdminInv
  <2> QED
    BY <2>1, <2>2 DEF FoldersSafe, Folders!FoldersSafe
<1> QED
  BY <1>1, AdminKept, PTL

(* Settings (config/dbconfig.go, web/handlers.go): the history of a setting   *)
(* leads to its value, for any number of operators at once; and while         *)
(* requests come one at a time from fresh pages, the server works with what   *)
(* is stored and no save undoes another.                                      *)
THEOREM AdminSettings == AdminSpec => []SettingsSafe
<1>1. AdminInv => SettingsSafe
  BY SettingSafe DEF AdminInv, SettingsSafe
<1> QED
  BY <1>1, AdminKept, PTL
=============================================================================
