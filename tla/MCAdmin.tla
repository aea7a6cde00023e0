------------------------------- MODULE MCAdmin -------------------------------
(* What superadmins and users change through the server's pages, for TLC:     *)
(* accounts and groups (Accounts), skills (Skills), shared folders            *)
(* (SharedFolders), workspaces (WorkspaceFiles) and the configuration         *)
(* (Settings).  As in MCAgent, part says which of them a behaviour is about,  *)
(* and of what kind; served and faults count for whichever it is.             *)
EXTENDS Naturals, Sequences, FiniteSets

CONSTANTS
  \* Accounts
  Users, Admins, Groups, Directories, AccountRequests, MaxRequests, FewRequests, MaxChanges,
  \* Skills; MaxFaults: also of the others
  Skills, MaxSkillRequests, MaxFaults,
  \* SharedFolders
  StaffUsers, StaffGroups, FolderNames, FolderFiles, MaxFolders, MaxFolderRequests, FewFolderRequests,
  \* WorkspaceFiles
  WorkspaceSkills, Tabs, MaxOps,
  \* Settings
  Modes, Secrets, SkillSources, Operators, AtOnce, MaxSaves, FewSaves

\* What a directory holds is about the accounts and groups there are, and no
\* group of it contains itself, through others or not.  "none" and "top" name
\* nothing; "long" stands for a secret that a page does not give back.
ASSUME AdminAssumption ==
    /\ AccountRequests # {} /\ "top" \notin Groups
    /\ \A d \in Directories :
           /\ d.users \cup d.people \subseteq Users \cup Admins
           /\ d.groups \subseteq Groups
           /\ d.members \in [Groups -> SUBSET (Users \cup Admins)]
           /\ d.subs \in [Groups -> SUBSET Groups]
           /\ \A S \in (SUBSET d.groups) \ {{}} : \E g \in S : \A p \in S : g \notin d.subs[p]
    /\ MaxFolders \in Nat /\ "none" \notin FolderNames
    /\ "long" \notin Secrets

VARIABLES part, served, faults,
  \* Accounts
  account, group, parent, member, rows, home, archived, mode, timer, whitelist, dir, accountReq, late, changes,
  \* Skills
  disk, cloned, torn, conf, bound, defaults, copies, task, upstream, skillReq, chosen, removed,
  \* SharedFolders
  folder, granted, mounts, dirs, files, archive, staff, created, folderReq, putIn,
  \* WorkspaceFiles
  tree, content, why, center, op, ops, fileFaults, spoilt,
  \* Settings
  db, history, memory, page, ask, mutex, saves, meant

accountVars == <<account, group, parent, member, rows, home, archived, mode, timer, whitelist, dir,
                 accountReq, late, changes>>
skillVars == <<disk, cloned, torn, conf, bound, defaults, copies, task, upstream, skillReq, chosen, removed>>
folderVars == <<folder, granted, mounts, dirs, files, archive, staff, created, folderReq, putIn>>
fileVars == <<tree, content, why, center, op, ops, fileFaults, spoilt>>
settingVars == <<db, history, memory, page, ask, mutex, saves, meant>>
all == <<part, served, faults, accountVars, skillVars, folderVars, fileVars, settingVars>>

\* Two users, two groups, and a directory that drops a user, turns a group
\* and its sub-group around, or names a superadmin.
Nobody == [g \in Groups |-> {}]
SomeDirectories ==
    { [users |-> {"ann"}, people |-> {"ann", "bob"}, groups |-> {"dev", "ops"},
       members |-> [Nobody EXCEPT !["dev"] = {"ann", "root"}], subs |-> [Nobody EXCEPT !["dev"] = {"ops"}]],
      [users |-> {"ann", "bob"}, people |-> {"ann", "bob"}, groups |-> {"dev", "ops"},
       members |-> [Nobody EXCEPT !["ops"] = {"ann"}], subs |-> [Nobody EXCEPT !["ops"] = {"dev"}]],
      [users |-> {"bob", "root"}, people |-> {"ann", "bob", "root"}, groups |-> {"ops"},
       members |-> [Nobody EXCEPT !["ops"] = {"bob"}], subs |-> Nobody] }
Few == {"superadmin_delete", "login", "timer", "config"}
TheRequest == CHOOSE r \in AccountRequests : TRUE

People == INSTANCE Accounts WITH
    req <- accountReq, Requests <- AccountRequests, Modes <- {"local", "ldap", "oidc"},
    Kinds <- Few \cup {"create", "delete", "superadmin_create", "whitelist", "groups", "users"}
Centre == INSTANCE Skills WITH
    req <- skillReq, dirs <- copies, Git <- "team", Hub <- "hub",
    Requests <- {1}, MaxRequests <- MaxSkillRequests
Folders == INSTANCE SharedFolders WITH
    home <- putIn, Users <- StaffUsers, Groups <- StaffGroups, Names <- FolderNames, Files <- FolderFiles,
    Requests <- {1}, Reuse <- {"update"}, Failing <- {"insert", "update", "delete", "archive"},
    MaxRequests <- MaxFolderRequests
Workspace == INSTANCE WorkspaceFiles WITH Skills <- WorkspaceSkills
Configuration == INSTANCE Settings WITH Sources <- SkillSources

-----------------------------------------------------------------------------
\* What stands still starts in one state.
AdminInit ==
    /\ part \in {"accounts", "superadmins", "skills", "folders", "failing", "files", "settings", "busy"}
    /\ People!Init
    /\ part \notin {"accounts", "superadmins"} =>
          mode = "local" /\ dir = CHOOSE d \in Directories : TRUE
    /\ Centre!Init /\ (part # "skills" => upstream = {})
    /\ Folders!Init /\ (part \notin {"folders", "failing"} => \A g \in DOMAIN staff : staff[g] = {})
    /\ Workspace!Init /\ (part # "files" => center = {})
    /\ Configuration!Init
    /\ part \notin {"settings", "busy"} =>
          db.mode = (CHOOSE m \in Modes : TRUE) /\ db.secret = (CHOOSE s \in Secrets : TRUE)

\* accounts: one request at a time; superadmins: a few kinds at once.
AccountPart ==
    /\ part \in {"accounts", "superadmins"} /\ People!Next
    /\ part = "accounts" => /\ \A r \in AccountRequests \ {TheRequest} : accountReq'[r] = accountReq[r]
                            /\ served' # served => People!Resting
    /\ part = "superadmins" /\ served' # served =>
          /\ served' <= FewRequests
          /\ \E r \in AccountRequests : accountReq[r].at = "idle" /\ accountReq'[r].kind \in Few
    /\ UNCHANGED <<part, skillVars, folderVars, fileVars, settingVars>>

SkillPart == /\ part = "skills" /\ Centre!Next
             /\ UNCHANGED <<part, accountVars, folderVars, fileVars, settingVars>>

\* folders: everything but a deletion may fail; failing: one thing does.
FolderPart ==
    /\ part \in {"folders", "failing"} /\ Folders!Next
    /\ part = "folders" /\ faults' # faults => folderReq[1].kind # "delete"
    /\ part = "failing" => faults' <= 1 /\ served' <= FewFolderRequests
    /\ UNCHANGED <<part, accountVars, skillVars, fileVars, settingVars>>

FilePart == /\ part = "files" /\ Workspace!Next
            /\ UNCHANGED <<part, served, faults, accountVars, skillVars, folderVars, settingVars>>

\* settings: one request at a time, from a page that shows what there is.
SettingPart ==
    /\ part \in {"settings", "busy"} /\ Configuration!Next
    /\ part = "settings" /\ saves' # saves =>
          /\ Configuration!Resting
          /\ \A a \in Operators : ask'[a].kind = "save" => page[a] = db
    /\ part = "busy" => saves' <= FewSaves
    /\ UNCHANGED <<part, served, faults, accountVars, skillVars, folderVars, fileVars>>

AdminNext == AccountPart \/ SkillPart \/ FolderPart \/ FilePart \/ SettingPart
AdminSpec == AdminInit /\ [][AdminNext]_all

-----------------------------------------------------------------------------
(* Accounts: groups never form a cycle, a change of source leaves nothing of  *)
(* the old one, a synchronisation leaves what the directory has.              *)
AccountsSafe == part = "accounts" => People!AccountsSafe

(* Accounts: only a request to delete a superadmin takes one away, whatever   *)
(* logins, synchronisations and changes of source do meanwhile.               *)
SuperadminsKept == [][(part \in {"accounts", "superadmins"}) => People!SuperadminStays]_all

(* Skills: sources and their directories agree, nobody's choice is lost, a    *)
(* removed skill is nobody's.                                                 *)
SkillsSafe == part = "skills" => Centre!SkillsSafe

(* SharedFolders and WorkspaceFiles: no file is lost with its folder or shown *)
(* in another; a file is one request's, whole.                                *)
FoldersSafe == /\ part = "folders" => Folders!FoldersSafe
               /\ part = "failing" => Folders!FilesKept /\ Folders!RecordsAgree
               /\ part = "files" => Workspace!FilesSafe

(* Settings: the history explains every value; while requests come one at a   *)
(* time with fresh pages, memory and database agree and no save undoes        *)
(* another.                                                                   *)
SettingsSafe == /\ part = "settings" => Configuration!SettingsSafe
                /\ part = "busy" => Configuration!HistoryChains
=============================================================================
