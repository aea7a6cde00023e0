------------------------------ MODULE Accounts ------------------------------
(* The accounts, groups and user directories of the server: the requests of   *)
(* superadmins and users that change them (web/admin_users.go,                *)
(* admin_superadmins.go, admin_groups.go, admin_auth.go, handlers.go), the    *)
(* timed synchronisation with a directory (web/server.go, admin_handlers.go,  *)
(* authsource/sync.go) and the switch from one authentication source to       *)
(* another, over the tables of store/users.go and store/groups.go.  A step is *)
(* one transaction or one file operation; requests interleave between them.   *)
EXTENDS Naturals, FiniteSets

CONSTANTS Users, Admins,   \* names: of ordinary users and of superadmins
          Groups,
          Directories,     \* what LDAP may hold: see NoDirectory
          Requests,        \* how many requests are served at once
          Kinds,           \* which of them occur
          Modes,           \* the authentication sources an administrator selects
          MaxRequests, MaxChanges, MaxFaults

VARIABLES
  account,    \* local_users: role and source of each name, or "none"
  group,      \* groups: source of each group, or "none"
  parent,     \* groups.parent_id: a group, or "top"
  member,     \* user_groups
  rows,       \* names with a row in mcp_tokens, user_skills, ...
  home,       \* names with a directory under users/
  archived,   \* names with one under archive/
  mode,       \* the configuration: web.auth_mode
  timer,      \* "on" when the timed synchronisation runs
  whitelist,
  dir,        \* external: the directory
  req,        \* the requests being served
  late,       \* logins whose goroutine has not stored the groups yet
  served, changes, faults

vars == <<account, group, parent, member, rows, home, archived, mode, timer, whitelist, dir,
          req, late, served, changes, faults>>
tables == <<account, group, parent, member, rows, home, archived>>
config == <<mode, timer, whitelist>>

Names == Users \cup Admins
Nobody == "nobody"
NoGroups == [groups |-> {}, members |-> [g \in Groups |-> {}], subs |-> [g \in Groups |-> {}]]
Idle == [kind |-> "idle", by |-> Nobody, user |-> Nobody, at |-> "idle", mode |-> "local",
         todo |-> {}, allowed |-> {}, snap |-> NoGroups, quiet |-> TRUE]

Superadmins == {a \in Names : account[a] = "superadmin"}
Ordinary == {u \in Names : account[u] \notin {"none", "superadmin"}}
Unified == mode # "local"
HasDirectory == mode = "ldap"

\* An empty whitelist allows everyone; only unified sources have one.
Whitelisted(u) == whitelist = {} \/ u \in whitelist

\* The groups of one user, and all of them, as the directory answers.
GroupsOf(d, u) == {g \in d.groups : u \in d.members[g]}

TypeOK ==
    /\ account \in [Names -> {"none", "superadmin", "local", "ldap", "oidc"}]
    /\ group \in [Groups -> {"none", "local", "ldap", "oidc"}]
    /\ parent \in [Groups -> Groups \cup {"top"}]
    /\ member \subseteq Names \X Groups
    /\ \A s \in {rows, home, archived, whitelist} : s \subseteq Names
    /\ mode \in {"local", "ldap", "oidc"} /\ timer \in {"on", "off"} /\ dir \in Directories

Init ==
    /\ account = [u \in Names |-> IF u \in Admins THEN "superadmin" ELSE "none"]
    /\ group = [g \in Groups |-> "none"] /\ parent = [g \in Groups |-> "top"] /\ member = {}
    /\ rows = {} /\ home = {} /\ archived = {}
    /\ mode \in Modes /\ timer = (IF HasDirectory THEN "on" ELSE "off")
    /\ whitelist = {} /\ dir \in Directories
    /\ req = [r \in Requests |-> Idle] /\ late = {}
    /\ served = 0 /\ changes = 0 /\ faults = 0

-----------------------------------------------------------------------------
(* The store's transactions.                                                  *)

EnsureExternalUser(S, source) == account' = [u \in Names |-> IF u \in S THEN source ELSE account[u]]
\* Mutant: any account becomes an external one.
CanEnsure_anyone(u) == TRUE

CanEnsure(u) == account[u] # "superadmin"

\* Skills, groups, token, cookies, channels, mounts and grants go with the account.
DeleteUsers(S) ==
    /\ account' = [u \in Names |-> IF u \in S THEN "none" ELSE account[u]]
    /\ member' = {m \in member : m[1] \notin S}
    /\ rows' = rows \ S

\* INSERT OR IGNORE INTO groups: an existing group keeps its source.
Grouped(S, source) == [g \in Groups |-> IF g \in S /\ group[g] = "none" THEN source ELSE group[g]]

SyncUserGroups(u, S, source) ==
    /\ group' = Grouped(S, source)
    /\ member' = {m \in member : m[1] # u} \cup {<<u, g>> : g \in S}

\* Directory, workspace, MCP token, address and default skills.  Nothing here
\* asks whether the account still exists.
InitializeUser(S) == home' = home \cup S /\ rows' = rows \cup S

\* os.Rename of the user's directory, when there is one.
ArchiveUser(u) == IF u \in home THEN home' = home \ {u} /\ archived' = archived \cup {u}
                                ELSE UNCHANGED <<home, archived>>

-----------------------------------------------------------------------------
(* Requests.                                                                  *)

At(r, k, a) == req[r].kind = k /\ req[r].at = a
Go(r, a) == req' = [req EXCEPT ![r].at = a]
Done(r) == req' = [req EXCEPT ![r] = Idle]

\* requireSuperadmin: the session's user is a superadmin now.
Begin(r, k, by, u, a) ==
    /\ k \in Kinds /\ req[r].at = "idle" /\ served < MaxRequests /\ served' = served + 1
    /\ by = Nobody \/ by \in Superadmins
    /\ req' = [req EXCEPT ![r] = [Idle EXCEPT !.kind = k, !.by = by, !.user = u, !.at = a, !.mode = mode,
                                               !.quiet = (late = {})]]

\* A request that one transaction serves.
Brief(k, by) == /\ k \in Kinds /\ by \in Superadmins /\ served < MaxRequests
                /\ served' = served + 1 /\ \E r \in Requests : req[r].at = "idle"

\* A step of the file system or the database fails.
Fault == faults < MaxFaults /\ faults' = faults + 1

\* handleAdminUserCreate, and each name of handleAdminUserBatchCreate.
UserCreate(r, by, u) ==
    /\ Begin(r, "create", by, u, "insert") /\ ~Unified /\ account[u] = "none"
    /\ UNCHANGED <<tables, config, dir, late, changes, faults>>
InsertUser(r) ==
    LET u == req[r].user IN
    /\ At(r, "create", "insert")
    /\ IF account[u] = "none"
       THEN account' = [account EXCEPT ![u] = "local"] /\ Go(r, "init")
       ELSE UNCHANGED account /\ Done(r)
    /\ UNCHANGED <<group, parent, member, rows, home, archived, config, dir, late, served, changes, faults>>
InitCreated(r) ==
    /\ At(r, "create", "init") /\ InitializeUser({req[r].user}) /\ Done(r)
    /\ UNCHANGED <<account, group, parent, member, archived, config, dir, late, served, changes, faults>>

\* The initialisation fails: the account is taken back, its directory stays.
RollBackUser(r) ==
    /\ At(r, "create", "init") /\ Fault
    /\ DeleteUsers({req[r].user}) /\ home' = home \cup {req[r].user} /\ Done(r)
    /\ UNCHANGED <<group, parent, archived, config, dir, late, served, changes>>

\* handleAdminUserDelete: no superadmin, then the directory, then the record.
UserDelete(r, by, u) ==
    /\ Begin(r, "delete", by, u, "archive") /\ ~Unified /\ account[u] # "superadmin"
    /\ UNCHANGED <<tables, config, dir, late, changes, faults>>
DeleteArchives(r) ==
    /\ At(r, "delete", "archive") /\ ArchiveUser(req[r].user) /\ Go(r, "record")
    /\ UNCHANGED <<account, group, parent, member, rows, config, dir, late, served, changes, faults>>
ArchiveFails(r) ==
    /\ At(r, "delete", "archive") /\ Fault /\ Done(r)
    /\ UNCHANGED <<tables, config, dir, late, served, changes>>
DeleteRecord(r) ==
    /\ At(r, "delete", "record") /\ Done(r)
    /\ IF account[req[r].user] = "none" THEN UNCHANGED <<account, member, rows>> ELSE DeleteUsers({req[r].user})
    /\ UNCHANGED <<group, parent, home, archived, config, dir, late, served, changes, faults>>

\* handleAdminSuperadminCreate: UserExists and the UNIQUE name agree.
SuperadminCreate(by, a) ==
    /\ Brief("superadmin_create", by) /\ account[a] = "none"
    /\ account' = [account EXCEPT ![a] = "superadmin"]
    /\ UNCHANGED <<group, parent, member, rows, home, archived, config, dir, req, late, changes, faults>>

\* handleAdminSuperadminDelete: not oneself, and not the last one ...
SuperadminDelete(r, by, a) ==
    /\ Begin(r, "superadmin_delete", by, a, "record")
    /\ a # by /\ account[a] = "superadmin" /\ Cardinality(Superadmins) > 1
    /\ UNCHANGED <<tables, config, dir, late, changes, faults>>

\* ... when one was counted.
DeleteSuperadmin(r) ==
    /\ At(r, "superadmin_delete", "record") /\ Done(r)
    /\ DeleteUsers({req[r].user} \cap {u \in Names : account[u] # "none"})
    /\ UNCHANGED <<group, parent, home, archived, config, dir, late, served, changes, faults>>

\* handleAdminWhitelistPost: the list is replaced, or names are added and removed.
WhitelistPost(by, S) ==
    /\ Brief("whitelist", by) /\ whitelist' = S
    /\ UNCHANGED <<tables, mode, timer, dir, req, late, changes, faults>>

-----------------------------------------------------------------------------
(* Groups, while they are local ones.                                         *)

GroupCreate(by, g, p) ==
    /\ Brief("groups", by) /\ ~Unified /\ group[g] = "none"
    /\ p = "top" \/ (p \in Groups /\ group[p] # "none")
    /\ group' = [group EXCEPT ![g] = "local"] /\ parent' = [parent EXCEPT ![g] = p]
    /\ UNCHANGED <<account, member, rows, home, archived, config, dir, req, late, changes, faults>>

\* Its sub-groups become top groups.
GroupDelete(by, g) ==
    /\ Brief("groups", by) /\ ~Unified /\ group[g] # "none"
    /\ group' = [group EXCEPT ![g] = "none"]
    /\ parent' = [c \in Groups |-> IF c = g \/ parent[c] = g THEN "top" ELSE parent[c]]
    /\ member' = {m \in member : m[2] # g}
    /\ UNCHANGED <<account, rows, home, archived, config, dir, req, late, changes, faults>>

\* validateLocalGroupMembers: local ordinary users only.
GroupMembersAdd(by, g, S) ==
    /\ Brief("groups", by) /\ ~Unified /\ group[g] # "none" /\ S # {} /\ \A u \in S : account[u] = "local"
    /\ member' = member \cup (S \X {g})
    /\ UNCHANGED <<account, group, parent, rows, home, archived, config, dir, req, late, changes, faults>>
GroupMembersRemove(by, g, u) ==
    /\ Brief("groups", by) /\ ~Unified /\ group[g] # "none"
    /\ member' = member \ {<<u, g>>}
    /\ UNCHANGED <<account, group, parent, rows, home, archived, config, dir, req, late, changes, faults>>

-----------------------------------------------------------------------------
(* Logins.  A superadmin's changes nothing.                                   *)

\* The password is right: the account's own, or the directory's (whose filter
\* of users ldap.Authenticate does not apply).
Authenticated(u) == \/ mode = "local" /\ account[u] = "local"
                    \/ mode = "ldap" /\ u \in dir.people
                    \/ mode = "oidc"
LoginStart(r, u) ==
    /\ Begin(r, "login", Nobody, u, IF Unified THEN "ensure" ELSE "init")
    /\ Authenticated(u) /\ account[u] # "superadmin" /\ (Unified => Whitelisted(u))
    /\ UNCHANGED <<tables, config, dir, late, changes, faults>>
LoginEnsure(r) ==
    LET u == req[r].user IN
    /\ At(r, "login", "ensure")
    /\ IF CanEnsure(u)
       THEN EnsureExternalUser({u}, req[r].mode) /\ Go(r, IF req[r].mode = "oidc" THEN "claims" ELSE "init")
       ELSE UNCHANGED account /\ Done(r)
    /\ UNCHANGED <<group, parent, member, rows, home, archived, config, dir, late, served, changes, faults>>

\* handleAuthCallback: the groups of the identity, unless it has none.
LoginClaims(r, S) ==
    /\ At(r, "login", "claims") /\ Go(r, "init")
    /\ IF S = {} THEN UNCHANGED <<group, member>> ELSE SyncUserGroups(req[r].user, S, req[r].mode)
    /\ UNCHANGED <<account, parent, rows, home, archived, config, dir, late, served, changes, faults>>

\* handleLogin: the groups of a directory's user are stored by a goroutine.
LoginInit(r) ==
    /\ At(r, "login", "init") /\ InitializeUser({req[r].user}) /\ Done(r)
    /\ late' = IF HasDirectory /\ req[r].mode = "ldap" THEN late \cup {req[r].user} ELSE late
    /\ UNCHANGED <<account, group, parent, member, archived, config, dir, served, changes, faults>>
LateGroups(u) ==
    /\ u \in late /\ late' = late \ {u}
    /\ IF HasDirectory /\ GroupsOf(dir, u) # {}
       THEN SyncUserGroups(u, GroupsOf(dir, u), "ldap") ELSE UNCHANGED <<group, member>>
    /\ UNCHANGED <<account, parent, rows, home, archived, config, dir, req, served, changes, faults>>

-----------------------------------------------------------------------------
(* Synchronisation: "timer" (syncAuto), "users" (handleAdminAuthSyncUsers)    *)
(* and "groups" (handleAdminAuthSyncGroups).                                  *)

SyncStart(r, k, by) ==
    /\ Begin(r, k, by, Nobody, "fetch") /\ HasDirectory
    /\ IF by = Nobody THEN k = "timer" /\ timer = "on" ELSE k \in {"users", "groups"}
    /\ UNCHANGED <<tables, config, dir, late, changes, faults>>
Syncing(r, a) == req[r].kind \in {"timer", "users", "groups"} /\ req[r].at = a

\* After an error of the users, only the timer goes on, with the groups.
Abandon(r) == IF req[r].kind = "timer"
              THEN req' = [req EXCEPT ![r].at = "hierarchy", ![r].allowed = {}] ELSE Done(r)
FetchUsers(r) ==
    LET S == {u \in dir.users : Whitelisted(u)} IN
    /\ Syncing(r, "fetch")
    /\ req' = [req EXCEPT ![r].at = "ensure", ![r].allowed = S, ![r].todo = S]
    /\ UNCHANGED <<tables, config, dir, late, served, changes, faults>>
FetchFails(r) ==
    /\ Syncing(r, "fetch") /\ Fault /\ Abandon(r)
    /\ UNCHANGED <<tables, config, dir, late, served, changes>>

\* The first superadmin among the directory's users ends it.
EnsureNext(r, u) ==
    /\ Syncing(r, "ensure") /\ u \in req[r].todo
    /\ IF CanEnsure(u)
       THEN /\ EnsureExternalUser({u}, req[r].mode)
            /\ req' = [req EXCEPT ![r].user = u, ![r].at = "memberships"]
       ELSE UNCHANGED account /\ Abandon(r)
    /\ UNCHANGED <<group, parent, member, rows, home, archived, config, dir, late, served, changes, faults>>
Memberships(r) ==
    LET u == req[r].user IN
    /\ Syncing(r, "memberships") /\ SyncUserGroups(u, GroupsOf(dir, u), req[r].mode)
    /\ req' = [req EXCEPT ![r].at = "ensure", ![r].todo = @ \ {u}]
    /\ UNCHANGED <<account, parent, rows, home, archived, config, dir, late, served, changes, faults>>

\* Local users have no place beside the directory's.
DropLocals(r) ==
    /\ Syncing(r, "ensure") /\ req[r].todo = {}
    /\ DeleteUsers({u \in Names : account[u] = "local"})
    /\ req' = [req EXCEPT ![r].at = "init", ![r].todo = req[r].allowed]
    /\ UNCHANGED <<group, parent, home, archived, config, dir, late, served, changes, faults>>
InitAllowed(r) ==
    /\ Syncing(r, "init") /\ InitializeUser({u \in req[r].allowed : account[u] # "none"})
    /\ req' = [req EXCEPT ![r].at = IF req[r].kind = "groups" THEN "hierarchy" ELSE "stale",
                          ![r].todo = Ordinary \ req[r].allowed]
    /\ UNCHANGED <<account, group, parent, member, archived, config, dir, late, served, changes, faults>>

\* Users the directory no longer has: archived, then deleted in any case.
CleanUp(r, u) ==
    /\ Syncing(r, "stale") /\ u \in req[r].todo /\ req' = [req EXCEPT ![r].todo = @ \ {u}]
    /\ ArchiveUser(u) /\ DeleteUsers({u})
    /\ UNCHANGED <<group, parent, config, dir, late, served, changes, faults>>
CleanedUp(r) ==
    /\ Syncing(r, "stale") /\ req[r].todo = {}
    /\ IF req[r].kind = "timer" THEN Go(r, "hierarchy") ELSE Done(r)
    /\ UNCHANGED <<tables, config, dir, late, served, changes, faults>>

\* SyncGroups; no groups at all leave everything as it is.
FetchGroups(r) ==
    LET ok(S) == {u \in S : Whitelisted(u)} IN
    /\ Syncing(r, "hierarchy")
    /\ IF HasDirectory /\ dir.groups # {}
       THEN req' = [req EXCEPT ![r].at = "create", ![r].snap =
                       [groups |-> dir.groups, members |-> [g \in Groups |-> ok(dir.members[g])], subs |-> dir.subs]]
       ELSE Done(r)
    /\ UNCHANGED <<tables, config, dir, late, served, changes, faults>>
CreateGroups(r) ==
    LET all == UNION {req[r].snap.members[g] : g \in req[r].snap.groups}
        can == {u \in all : CanEnsure(u)} IN
    /\ Syncing(r, "create")
    /\ group' = Grouped(req[r].snap.groups, req[r].mode) /\ EnsureExternalUser(can, req[r].mode)
    /\ req' = [req EXCEPT ![r].at = "replace", ![r].snap.members = [g \in Groups |-> @[g] \cap can]]
    /\ UNCHANGED <<parent, member, rows, home, archived, config, dir, late, served, changes, faults>>
ReplaceGroupMembersBySource(r) ==
    LET s == req[r].snap IN
    /\ Syncing(r, "replace") /\ Go(r, "clear")
    /\ group' = Grouped(s.groups, req[r].mode)
    /\ member' = {m \in member : group'[m[2]] # req[r].mode}
                 \cup UNION {s.members[g] \X {g} : g \in s.groups}
    /\ UNCHANGED <<account, parent, rows, home, archived, config, dir, late, served, changes, faults>>

\* Mutant: the parents of before stay until others are set.
ClearParents_keeps(r) ==
    /\ Syncing(r, "clear") /\ Go(r, "parents")
    /\ UNCHANGED <<tables, config, dir, late, served, changes, faults>>

\* syncGroupParents: all cleared, then set; of two parents the later one counts.
ClearParents(r) ==
    /\ Syncing(r, "clear") /\ Go(r, "parents")
    /\ parent' = [g \in Groups |-> IF g \in req[r].snap.groups THEN "top" ELSE parent[g]]
    /\ UNCHANGED <<account, group, member, rows, home, archived, config, dir, late, served, changes, faults>>
Parents(s, g) == {p \in s.groups : g \in s.groups \cap s.subs[p] /\ group[p] # "none"}
SetParents(r) ==
    LET s == req[r].snap IN
    /\ Syncing(r, "parents") /\ Go(r, "synced")
    /\ \E f \in [Groups -> Groups \cup {"top"}] :
          /\ parent' = f
          /\ \A g \in Groups : IF group[g] # "none" /\ Parents(s, g) # {}
                               THEN f[g] \in Parents(s, g) ELSE f[g] = parent[g]
    /\ UNCHANGED <<account, group, member, rows, home, archived, config, dir, late, served, changes, faults>>
Synced(r) ==
    /\ Syncing(r, "synced") /\ Done(r)
    /\ UNCHANGED <<tables, config, dir, late, served, changes, faults>>

-----------------------------------------------------------------------------
(* handleConfigSave: the new source is stored and live, then everything of    *)
(* the old one goes, then the timer starts anew.                              *)

ConfigSave(r, by, m) ==
    /\ Begin(r, "config", by, Nobody, IF m = mode THEN "timer" ELSE "purge") /\ mode' = m
    /\ UNCHANGED <<tables, timer, whitelist, dir, late, changes, faults>>
Purge(r) ==
    /\ At(r, "config", "purge") /\ DeleteUsers(Ordinary) /\ Go(r, "ungroup")
    /\ UNCHANGED <<group, parent, home, archived, config, dir, late, served, changes, faults>>
ClearAllGroups(r) ==
    /\ At(r, "config", "ungroup") /\ Go(r, "wipe")
    /\ member' = {} /\ group' = [g \in Groups |-> "none"] /\ parent' = [g \in Groups |-> "top"]
    /\ UNCHANGED <<account, rows, home, archived, config, dir, late, served, changes, faults>>
RemoveAllUserData(r) ==
    /\ At(r, "config", "wipe") /\ home' = {} /\ archived' = {} /\ Go(r, "timer")
    /\ UNCHANGED <<account, group, parent, member, rows, config, dir, late, served, changes, faults>>

\* An error is answered at once: the timer stays as it was.
WipeFails(r) ==
    /\ At(r, "config", "wipe") /\ Fault /\ Done(r)
    /\ UNCHANGED <<tables, config, dir, late, served, changes>>
RestartSyncTimer(r) ==
    /\ At(r, "config", "timer") /\ Done(r) /\ timer' = IF HasDirectory THEN "on" ELSE "off"
    /\ UNCHANGED <<tables, mode, whitelist, dir, late, served, changes, faults>>

\* External: people and groups come and go.
DirectoryChanges ==
    /\ changes < MaxChanges /\ changes' = changes + 1 /\ dir' \in Directories \ {dir}
    /\ UNCHANGED <<tables, config, req, late, served, faults>>

-----------------------------------------------------------------------------
Local(r, by) ==
    \/ \E u \in Users : UserCreate(r, by, u)
    \/ InsertUser(r) \/ InitCreated(r) \/ RollBackUser(r)
    \/ \E u \in Names : UserDelete(r, by, u)
    \/ DeleteArchives(r) \/ ArchiveFails(r) \/ DeleteRecord(r)
    \/ \E a \in Admins : SuperadminCreate(by, a) \/ SuperadminDelete(r, by, a)
    \/ DeleteSuperadmin(r)
    \/ \E g \in Groups : \/ \E p \in Groups \cup {"top"} : GroupCreate(by, g, p)
                         \/ GroupDelete(by, g)
                         \/ \E u \in Users : GroupMembersAdd(by, g, {u}) \/ GroupMembersRemove(by, g, u)
    \/ \E S \in SUBSET Users : WhitelistPost(by, S)
Login(r) ==
    \/ \E u \in Names : LoginStart(r, u)
    \/ LoginEnsure(r) \/ (\E S \in SUBSET Groups : LoginClaims(r, S)) \/ LoginInit(r)
Sync(r, by) ==
    \/ \E k \in {"timer", "users", "groups"} : SyncStart(r, k, by) \/ (k = "timer" /\ SyncStart(r, k, Nobody))
    \/ FetchUsers(r) \/ FetchFails(r) \/ (\E u \in Names : EnsureNext(r, u) \/ CleanUp(r, u))
    \/ Memberships(r) \/ DropLocals(r) \/ InitAllowed(r) \/ CleanedUp(r) \/ FetchGroups(r)
    \/ CreateGroups(r) \/ ReplaceGroupMembersBySource(r) \/ ClearParents(r) \/ SetParents(r) \/ Synced(r)
Config(r, by) ==
    \/ \E m \in Modes : ConfigSave(r, by, m)
    \/ Purge(r) \/ ClearAllGroups(r) \/ RemoveAllUserData(r) \/ WipeFails(r) \/ RestartSyncTimer(r)
Next ==
    \/ \E r \in Requests : Login(r) \/ \E by \in Admins : Local(r, by) \/ Sync(r, by) \/ Config(r, by)
    \/ \E u \in Names : LateGroups(u)
    \/ DirectoryChanges
Spec == Init /\ [][Next]_vars

-----------------------------------------------------------------------------
(* Properties.                                                                *)

\* No chain of parents returns to where it began, which is to say that of any
\* groups one has its parent elsewhere: GetSubGroupIDs, which walks down
\* without looking back, ends.
GroupsAreATree == \A S \in (SUBSET Groups) \ {{}} : \E g \in S : parent[g] \notin S

\* Between requests, nothing is left of another authentication source, and no
\* row belongs to nobody.
Resting == \A r \in Requests : req[r].at = "idle"
OneSource == Resting => /\ \A u \in Names : account[u] \in {"none", "superadmin", mode}
                        /\ rows \subseteq {u \in Names : account[u] # "none"}

\* A timed synchronisation leaves the directory's users and group members,
\* and the directory's memberships: nobody else, and nobody twice.
SyncConverges ==
    \A r \in Requests : Syncing(r, "synced") /\ req[r].kind = "timer" =>
        LET s == req[r].snap IN
        /\ req[r].allowed # {} =>
              Ordinary = req[r].allowed \cup UNION {s.members[g] : g \in s.groups}
        /\ req[r].quiet => {m \in member : group[m[2]] = mode} = UNION {s.members[g] \X {g} : g \in s.groups}

\* A superadmin is never converted, removed or purged by anything but a
\* request to delete it.
SuperadminStays == \A a \in Names : account[a] = "superadmin" /\ account'[a] # "superadmin" =>
                       \E r \in Requests : At(r, "superadmin_delete", "record") /\ req[r].user = a
SuperadminsKept == [][SuperadminStays]_vars

AccountsSafe == TypeOK /\ GroupsAreATree /\ OneSource /\ SyncConverges

\* handleAdminSuperadminDelete keeps at least one.
OneSuperadmin == Superadmins # {}
=============================================================================
