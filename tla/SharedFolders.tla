--------------------------- MODULE SharedFolders ---------------------------
(* The shared folders: a record of each (store/shared_folders.go), a          *)
(* directory shared/<name> on the host, and the requests that keep the two    *)
(* together (web/admin_shared_folders.go).  Files are put into the            *)
(* directories by the host's administrator; users read them through the file  *)
(* manager (web/files.go, resolveFileRoot).                                   *)
EXTENDS Naturals, FiniteSets

CONSTANTS Users, Groups, Names, Files,
          Requests,
          Reuse,      \* the requests that also name a folder there is: "create", "update"
          Failing,    \* the operations that may fail: "insert", "update", "delete", "archive"
          MaxFolders, MaxRequests, MaxFaults

VARIABLES
  folder,    \* shared_folders: what is known of each id, NoFolder for none
  granted,   \* shared_folder_groups
  mounts,    \* shared_folder_mounts: who was tested, and found mounted
  dirs,      \* the directories shared/<name>
  files,     \* what each of them holds
  archive,   \* the files under archive/
  staff,     \* external: the members of each group, sub-groups included
  created, served, faults, folderReq,
  home       \* ghost: the folder each file was put into, 0 for none

vars == <<folder, granted, mounts, dirs, files, archive, staff, created, served, faults, folderReq, home>>
records == <<folder, granted, mounts>>
host == <<dirs, files, archive>>

Ids == 1..MaxFolders
NoFolder == [name |-> "none", public |-> FALSE]
Idle == [kind |-> "idle", at |-> "idle", id |-> 0, name |-> "none", old |-> "none",
         public |-> FALSE, groups |-> {}]

Live == {i \in Ids : folder[i] # NoFolder}
Named(n) == {i \in Live : folder[i].name = n}

\* IsUserInSharedFolder, with GetGroupMembersForDeploy's closure in staff:
\* a group that is gone has no members.
InFolder(i, u) == folder[i].public \/ \E g \in granted[i] : u \in staff[g]

\* GetSharedFolderMembers.
Members(i) == {u \in Users : InFolder(i, u)}

Init ==
    /\ folder = [i \in Ids |-> NoFolder] /\ granted = [i \in Ids |-> {}] /\ mounts = {}
    /\ dirs = {} /\ files = [n \in Names |-> {}] /\ archive = {}
    /\ staff \in [Groups -> SUBSET Users]
    /\ created = 0 /\ served = 0 /\ faults = 0 /\ folderReq = [r \in Requests |-> Idle]
    /\ home = [f \in Files |-> 0]

At(r, k, a) == folderReq[r].kind = k /\ folderReq[r].at = a
Go(r, a) == folderReq' = [folderReq EXCEPT ![r].at = a]
Done(r) == folderReq' = [folderReq EXCEPT ![r] = Idle]
Begin(r, q) == /\ folderReq[r].at = "idle" /\ served < MaxRequests /\ served' = served + 1
               /\ folderReq' = [folderReq EXCEPT ![r] = q]
Brief == /\ served < MaxRequests /\ served' = served + 1
         /\ \E r \in Requests : folderReq[r].at = "idle"
Fails(what) == what \in Failing /\ faults < MaxFaults /\ faults' = faults + 1

\* os.Rename, which refuses an existing directory.
CanRename(from, to) == from \in dirs /\ to \notin dirs
RenameDir(from, to) ==
    /\ dirs' = (dirs \ {from}) \cup {to}
    /\ files' = [files EXCEPT ![to] = files[from], ![from] = {}]
RemoveDir(n) == dirs' = dirs \ {n} /\ files' = [files EXCEPT ![n] = {}]

-----------------------------------------------------------------------------
\* handleAdminSharedFoldersCreate: the directory, the record, the groups.
FolderCreate(r, n, p, G) ==
    /\ Begin(r, [Idle EXCEPT !.kind = "create", !.at = "insert", !.name = n, !.public = p, !.groups = G])
    /\ "create" \in Reuse \/ Named(n) = {}
    /\ dirs' = dirs \cup {n}
    /\ UNCHANGED <<records, files, archive, staff, created, faults, home>>
InsertFolder(r) ==
    LET q == folderReq[r] IN
    /\ At(r, "create", "insert") /\ Named(q.name) = {} /\ created < MaxFolders
    /\ created' = created + 1
    /\ folder' = [folder EXCEPT ![created + 1] = [name |-> q.name, public |-> q.public]]
    /\ IF q.groups = {} THEN Done(r) ELSE folderReq' = [folderReq EXCEPT ![r].at = "groups", ![r].id = created + 1]
    /\ UNCHANGED <<granted, mounts, host, staff, served, faults, home>>

\* Not inserted: the directory goes, with whatever it holds.
RollBackDir(r) ==
    /\ At(r, "create", "insert") /\ Done(r)
    /\ IF Named(folderReq[r].name) = {} THEN Fails("insert") ELSE UNCHANGED faults
    /\ RemoveDir(folderReq[r].name)
    /\ UNCHANGED <<records, archive, staff, created, served, home>>

\* SetSharedFolderGroups, for a folder there still is.
GrantGroups(i, G) == granted' = IF i \in Live THEN [granted EXCEPT ![i] = G] ELSE granted
FolderGroups(r) ==
    /\ At(r, "create", "groups") /\ GrantGroups(folderReq[r].id, folderReq[r].groups) /\ Done(r)
    /\ UNCHANGED <<folder, mounts, host, staff, created, served, faults, home>>
SetGroups(i, G) ==
    /\ Brief /\ i \in Live /\ GrantGroups(i, G)
    /\ UNCHANGED <<folder, mounts, host, staff, created, faults, folderReq, home>>

\* handleAdminSharedFoldersUpdate: the directory first, when there is one.
FolderUpdate(r, i, n, p) ==
    /\ i \in Live /\ ("update" \in Reuse \/ Named(n) \subseteq {i})
    /\ Begin(r, [Idle EXCEPT !.kind = "update", !.at = IF folder[i].name = n THEN "record" ELSE "move",
                             !.id = i, !.name = n, !.old = folder[i].name, !.public = p])
    /\ UNCHANGED <<records, host, staff, created, faults, home>>
MoveDir(r) ==
    LET q == folderReq[r] IN
    /\ At(r, "update", "move")
    /\ \/ q.old \notin dirs /\ Go(r, "record") /\ UNCHANGED <<dirs, files>>
       \/ CanRename(q.old, q.name) /\ Go(r, "record") /\ RenameDir(q.old, q.name)
       \/ q.old \in dirs /\ ~CanRename(q.old, q.name) /\ Done(r) /\ UNCHANGED <<dirs, files>>
    /\ UNCHANGED <<records, archive, staff, created, served, faults, home>>
Free(q) == q.id \in Live /\ Named(q.name) \subseteq {q.id}
UpdateFolder(r) ==
    LET q == folderReq[r] IN
    /\ At(r, "update", "record") /\ Free(q) /\ Done(r)
    /\ folder' = [folder EXCEPT ![q.id] = [name |-> q.name, public |-> q.public]]
    /\ UNCHANGED <<granted, mounts, host, staff, created, served, faults, home>>

\* Mutant: the directory keeps the new name.
MoveBack_forgets(r) ==
    LET q == folderReq[r] IN
    /\ At(r, "update", "record") /\ Done(r)
    /\ IF Free(q) THEN Fails("update") ELSE UNCHANGED faults
    /\ UNCHANGED <<records, host, staff, created, served, home>>

\* The name is another's, or the database fails: the directory moves back, if
\* it can; when it was not there, another one that bears the name moves.
MoveBack(r) ==
    LET q == folderReq[r] IN
    /\ At(r, "update", "record") /\ Done(r)
    /\ IF Free(q) THEN Fails("update") ELSE UNCHANGED faults
    /\ IF q.name # q.old /\ CanRename(q.name, q.old) THEN RenameDir(q.name, q.old) ELSE UNCHANGED <<dirs, files>>
    /\ UNCHANGED <<records, archive, staff, created, served, home>>

\* handleAdminSharedFoldersDelete: a directory that cannot be archived stays.
FolderDelete(r, i) ==
    /\ i \in Live
    /\ Begin(r, [Idle EXCEPT !.kind = "delete", !.at = "archive", !.id = i, !.old = folder[i].name])
    /\ UNCHANGED <<records, host, staff, created, faults, home>>
ArchiveDir(r) ==
    LET n == folderReq[r].old IN
    /\ At(r, "delete", "archive") /\ Go(r, "record")
    /\ archive' = archive \cup files[n] /\ RemoveDir(n)
    /\ UNCHANGED <<records, staff, created, served, faults, home>>
NotArchived(r) ==
    /\ At(r, "delete", "archive") /\ Fails("archive") /\ Go(r, "record")
    /\ UNCHANGED <<records, host, staff, created, served, home>>
DeleteFolder(r) ==
    LET i == folderReq[r].id IN
    /\ At(r, "delete", "record") /\ Done(r)
    /\ folder' = [folder EXCEPT ![i] = NoFolder] /\ granted' = [granted EXCEPT ![i] = {}]
    /\ mounts' = {m \in mounts : m.id # i}
    /\ UNCHANGED <<host, staff, created, served, faults, home>>
NotDeleted(r) ==
    /\ At(r, "delete", "record") /\ Fails("delete") /\ Done(r)
    /\ UNCHANGED <<records, host, staff, created, served, home>>

\* handleAdminSharedFoldersTest records whether users/<u>/share/<name> is
\* there: nothing in the program makes one.  The page's "mount" does nothing.
TestMount(i, u) ==
    /\ Brief /\ i \in Live
    /\ mounts' = mounts \cup {[id |-> i, user |-> u, mounted |-> FALSE]}
    /\ UNCHANGED <<folder, granted, host, staff, created, faults, folderReq, home>>

\* A user opens share/<name>: resolveFileRoot makes the directory if need be.
\* Everything that writes refuses a share.
OpenShare(u, n) ==
    /\ Brief /\ \E i \in Named(n) : InFolder(i, u)
    /\ dirs' = dirs \cup {n}
    /\ UNCHANGED <<records, files, archive, staff, created, faults, folderReq, home>>

\* External: the host's administrator puts a file into a folder, and people
\* join and leave groups.
Put(f, i) ==
    /\ i \in Live /\ folder[i].name \in dirs /\ home[f] = 0
    /\ \A r \in Requests : folderReq[r].at = "idle"
    /\ files' = [files EXCEPT ![folder[i].name] = @ \cup {f}] /\ home' = [home EXCEPT ![f] = i]
    /\ UNCHANGED <<records, dirs, archive, staff, created, served, faults, folderReq>>
StaffChanges(g, U) ==
    /\ Brief /\ staff' = [staff EXCEPT ![g] = U]
    /\ UNCHANGED <<records, host, created, faults, folderReq, home>>

Next ==
    \/ \E r \in Requests :
          \/ \E n \in Names, p \in BOOLEAN, G \in SUBSET Groups : FolderCreate(r, n, p, G)
          \/ \E i \in Ids, n \in Names, p \in BOOLEAN : FolderUpdate(r, i, n, p)
          \/ \E i \in Ids : FolderDelete(r, i)
          \/ InsertFolder(r) \/ RollBackDir(r) \/ FolderGroups(r)
          \/ MoveDir(r) \/ UpdateFolder(r) \/ MoveBack(r)
          \/ ArchiveDir(r) \/ NotArchived(r) \/ DeleteFolder(r) \/ NotDeleted(r)
    \/ \E i \in Ids : \/ \E G \in SUBSET Groups : SetGroups(i, G)
                      \/ \E u \in Users : TestMount(i, u)
                      \/ \E f \in Files : Put(f, i)
    \/ \E u \in Users, n \in Names : OpenShare(u, n)
    \/ \E g \in Groups, U \in SUBSET Users : StaffChanges(g, U)
Spec == Init /\ [][Next]_vars

-----------------------------------------------------------------------------
Resting == \A r \in Requests : folderReq[r].at = "idle"

\* What was put into a folder is there, or in the archive once it is deleted.
FilesKept == \A f \in Files : home[f] # 0 => f \in archive \cup UNION {files[n] : n \in dirs}

\* Nobody finds the files of one folder in another.
OwnFiles == Resting => \A i \in Live : \A f \in files[folder[i].name] : home[f] = i

\* A name is one folder's; groups and mounts belong to folders there are.
RecordsAgree == /\ \A n \in Names : Cardinality(Named(n)) <= 1
                /\ \A i \in Ids \ Live : granted[i] = {} /\ \A m \in mounts : m.id # i

FoldersSafe == FilesKept /\ OwnFiles /\ RecordsAgree
=============================================================================
