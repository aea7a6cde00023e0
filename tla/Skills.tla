------------------------------- MODULE Skills -------------------------------
(* The skills: the sources they come from on disk and in the configuration    *)
(* (web/admin_skills_sources.go, skill/), who is bound to which and why        *)
(* (store/skills.go), and the requests that change either                     *)
(* (web/admin_skills.go, admin_groups.go, user_skills.go), among them the     *)
(* deployment to many users, a background task.  A skill's directory has its  *)
(* name.                                                                      *)
EXTENDS Naturals, FiniteSets

CONSTANTS Users, Skills,
          Git, Hub,          \* names of a source cloned from a repository and of the registry
          Requests, MaxRequests, MaxFaults

VARIABLES
  disk,      \* skills/<source>/<skill>/SKILL.md
  cloned,    \* the directory of the Git source exists
  torn,      \* skills of the registry unpacked in part
  conf,      \* sources in the configuration
  bound,     \* user_skills: the reason of each binding, or "none"
  defaults,  \* settings: internal.default_skills
  dirs,      \* users' own copies under their skills/
  task,      \* the deployment in the background
  upstream,  \* external: the skills of the repository
  req, served, faults,
  chosen,    \* ghost: what users installed and nobody took from them
  removed    \* ghost: a skill removed, and not touched since

vars == <<disk, cloned, torn, conf, bound, defaults, dirs, task, upstream, req, served, faults, chosen, removed>>
sources == <<disk, cloned, torn, conf>>
people == <<bound, defaults, dirs>>
ghosts == <<chosen, removed>>

Sources == {Git, Hub}
Idle == [kind |-> "idle", at |-> "idle", skill |-> "none", user |-> "none", todo |-> {}, raced |-> FALSE]
NoTask == [skill |-> "none", todo |-> {}]

\* findSkillSource, skillExistsOnDisk.
Found(s) == \E src \in Sources : s \in disk[src]

Init ==
    /\ disk = [src \in Sources |-> {}] /\ cloned = FALSE /\ torn = {} /\ conf = {Hub}
    /\ bound = [b \in Users \X Skills |-> "none"] /\ defaults = {} /\ dirs = {}
    /\ task = NoTask /\ upstream \in SUBSET Skills
    /\ req = [r \in Requests |-> Idle] /\ served = 0 /\ faults = 0 /\ chosen = {} /\ removed = {}

At(r, k, a) == req[r].kind = k /\ req[r].at = a
Go(r, a) == req' = [req EXCEPT ![r].at = a]
Done(r) == req' = [req EXCEPT ![r] = Idle]
Begin(r, k, a, s, u) ==
    /\ req[r].at = "idle" /\ served < MaxRequests /\ served' = served + 1
    /\ req' = [req EXCEPT ![r] = [Idle EXCEPT !.kind = k, !.at = a, !.skill = s, !.user = u]]
Brief == /\ served < MaxRequests /\ served' = served + 1
         /\ \E r \in Requests : req[r].at = "idle"
Fault == faults < MaxFaults /\ faults' = faults + 1

\* BindSkillToUser: one row for each user and skill, the last reason stays.
Bind(U, s, why) == bound' = [b \in Users \X Skills |-> IF b \in U \X {s} THEN why ELSE bound[b]]
Unbind(U, s) == Bind(U, s, "none")
Who(s) == {u \in Users : bound[<<u, s>>] # "none"}

-----------------------------------------------------------------------------
(* Sources.                                                                   *)

\* handleAdminSkillsSourcesGitAdd: not there, cloned, with skills, configured.
GitAdd(r) ==
    /\ Begin(r, "git", "clone", "none", "none") /\ ~cloned
    /\ UNCHANGED <<sources, people, task, upstream, faults, ghosts>>
Clone(r) ==
    /\ At(r, "git", "clone")
    /\ IF cloned THEN Done(r) /\ UNCHANGED <<disk, cloned>>
       ELSE /\ cloned' = TRUE /\ disk' = [disk EXCEPT ![Git] = upstream] /\ Go(r, "rescan")
    /\ UNCHANGED <<torn, conf, people, task, upstream, served, faults, ghosts>>
CloneFails(r) ==
    /\ At(r, "git", "clone") /\ Fault /\ Done(r)
    /\ UNCHANGED <<sources, people, task, upstream, served, ghosts>>
Rescan(r) ==
    /\ At(r, "git", "rescan")
    /\ IF disk[Git] = {} THEN cloned' = FALSE /\ Done(r) ELSE UNCHANGED cloned /\ Go(r, "configure")
    /\ UNCHANGED <<disk, torn, conf, people, task, upstream, served, faults, ghosts>>
Configure(r) ==
    /\ At(r, "git", "configure") /\ conf' = conf \cup {Git} /\ Done(r)
    /\ UNCHANGED <<disk, cloned, torn, people, task, upstream, served, faults, ghosts>>

\* handleAdminSkillsSourcesRemove: each skill's bindings first, so that nobody
\* is left whose directory could be cleaned.
SourceRemove(r) ==
    /\ Begin(r, "drop", "unbind", "none", "none")
    /\ UNCHANGED <<sources, people, task, upstream, faults, ghosts>>
UnbindSource(r) ==
    /\ At(r, "drop", "unbind") /\ Go(r, "rmdir")
    /\ bound' = [b \in Users \X Skills |-> IF b[2] \in disk[Git] THEN "none" ELSE bound[b]]
    /\ chosen' = {b \in chosen : b[2] \notin disk[Git]}
    /\ UNCHANGED <<sources, defaults, dirs, task, upstream, served, faults, removed>>
RemoveSource(r) ==
    /\ At(r, "drop", "rmdir") /\ disk' = [disk EXCEPT ![Git] = {}] /\ cloned' = FALSE /\ Go(r, "forget")
    /\ UNCHANGED <<torn, conf, people, task, upstream, served, faults, ghosts>>
ForgetSource(r) ==
    /\ At(r, "drop", "forget") /\ conf' = conf \ {Git} /\ Done(r)
    /\ UNCHANGED <<disk, cloned, torn, people, task, upstream, served, faults, ghosts>>

\* handleAdminSkillsSourcesPull: what the repository dropped disappears from
\* disk; bindings stay.
Pull ==
    /\ Brief /\ Git \in conf /\ cloned /\ disk' = [disk EXCEPT ![Git] = upstream]
    /\ removed' = removed \ upstream
    /\ UNCHANGED <<cloned, torn, conf, people, task, upstream, req, faults, chosen>>

\* handleAdminSkillsRegistryInstall: the old version goes before the new one
\* is downloaded.
Install(r, s) ==
    /\ Begin(r, "install", "download", s, "none") /\ Hub \in conf
    /\ disk' = [disk EXCEPT ![Hub] = @ \ {s}] /\ torn' = torn \ {s}
    /\ UNCHANGED <<cloned, conf, people, task, upstream, faults, ghosts>>
Download(r) ==
    /\ At(r, "install", "download") /\ Done(r)
    /\ disk' = [disk EXCEPT ![Hub] = @ \cup {req[r].skill}] /\ removed' = removed \ {req[r].skill}
    /\ UNCHANGED <<cloned, torn, conf, people, task, upstream, served, faults, chosen>>

\* No download, no SKILL.md, a form that is not valid: nothing remains.
DownloadFails(r) ==
    /\ At(r, "install", "download") /\ Fault /\ Done(r)
    /\ UNCHANGED <<sources, people, task, upstream, served, ghosts>>

\* Unpacking fails half way: the half remains, and is a skill from now on.
UnpackFails(r) ==
    /\ At(r, "install", "download") /\ Fault /\ Done(r)
    /\ disk' = [disk EXCEPT ![Hub] = @ \cup {req[r].skill}] /\ torn' = torn \cup {req[r].skill}
    /\ removed' = removed \ {req[r].skill}
    /\ UNCHANGED <<cloned, conf, people, task, upstream, served, chosen>>

\* handleAdminSkillsRemove, in its order.
SkillRemove(r, s) ==
    /\ Begin(r, "remove", "dir", s, "none") /\ Found(s)
    /\ UNCHANGED <<sources, people, task, upstream, faults, ghosts>>
RemoveDir(r, src) ==
    /\ At(r, "remove", "dir") /\ req[r].skill \in disk[src]
    /\ req' = [req EXCEPT ![r].at = "bindings", ![r].todo = Who(req[r].skill), ![r].raced = (task.skill = req[r].skill)]
    /\ disk' = [disk EXCEPT ![src] = @ \ {req[r].skill}]
    /\ torn' = IF src = Hub THEN torn \ {req[r].skill} ELSE torn
    /\ UNCHANGED <<cloned, conf, people, task, upstream, served, faults, ghosts>>
RemoveBindings(r) ==
    /\ At(r, "remove", "bindings") /\ Unbind(Users, req[r].skill) /\ Go(r, "defaults")
    /\ chosen' = {b \in chosen : b[2] # req[r].skill}
    /\ UNCHANGED <<sources, defaults, dirs, task, upstream, served, faults, removed>>
RemoveDefault(r) ==
    /\ At(r, "remove", "defaults") /\ defaults' = defaults \ {req[r].skill} /\ Go(r, "copies")
    /\ UNCHANGED <<sources, bound, dirs, task, upstream, served, faults, ghosts>>
RemoveCopies(r) ==
    /\ At(r, "remove", "copies") /\ dirs' = dirs \ (req[r].todo \X {req[r].skill}) /\ Done(r)
    /\ removed' = IF req[r].raced THEN removed ELSE removed \cup {req[r].skill}
    /\ UNCHANGED <<sources, bound, defaults, task, upstream, served, faults, chosen>>

-----------------------------------------------------------------------------
(* Bindings.  The administrator's carry whatever source the page names.       *)

\* handleAdminSkillsUserBind asks for no such skill; handleAdminSkillsDeploy
\* to one user does.
AdminBind(u, s) ==
    /\ Brief /\ Bind({u}, s, "admin") /\ chosen' = chosen \ {<<u, s>>} /\ removed' = removed \ {s}
    /\ UNCHANGED <<sources, defaults, dirs, task, upstream, req, faults>>
AdminUnbind(u, s) ==
    /\ Brief /\ Unbind({u}, s) /\ chosen' = chosen \ {<<u, s>>}
    /\ UNCHANGED <<sources, defaults, dirs, task, upstream, req, faults, removed>>

\* To a group's members or to everyone: the task binds one after another and
\* does not look at the disk again.
Deploy(s, U) ==
    /\ Brief /\ Found(s) /\ task = NoTask /\ task' = [skill |-> s, todo |-> U]
    /\ UNCHANGED <<sources, people, upstream, req, faults, ghosts>>
DeployNext(u) ==
    /\ u \in task.todo /\ Bind({u}, task.skill, "admin") /\ chosen' = chosen \ {<<u, task.skill>>}
    /\ task' = IF task.todo = {u} THEN NoTask ELSE [task EXCEPT !.todo = @ \ {u}]
    /\ removed' = removed \ {task.skill}
    /\ UNCHANGED <<sources, defaults, dirs, upstream, req, served, faults>>

\* handleAdminGroupSkillsBind and Unbind: the second only what the first did.
GroupBind(s, U) ==
    /\ Brief /\ Bind(U, s, "group") /\ chosen' = chosen \ (U \X {s}) /\ removed' = removed \ {s}
    /\ UNCHANGED <<sources, defaults, dirs, task, upstream, req, faults>>
\* Mutant: whoever gave it, the group's unbinding takes it.
GroupUnbind_all(s, U) ==
    /\ Brief /\ Unbind(U, s) /\ dirs' = dirs \ (U \X {s})
    /\ UNCHANGED <<sources, defaults, task, upstream, req, faults, ghosts>>

GroupUnbind(s, U) ==
    LET mine == {u \in U : bound[<<u, s>>] = "group"} IN
    /\ Brief /\ Unbind(mine, s) /\ dirs' = dirs \ (mine \X {s})
    /\ UNCHANGED <<sources, defaults, task, upstream, req, faults, ghosts>>

\* handleUserSkillsInstall: a skill there is, and not had yet.
UserInstall(r, u, s) ==
    /\ Begin(r, "choose", "bind", s, u) /\ Found(s) /\ bound[<<u, s>>] = "none"
    /\ UNCHANGED <<sources, people, task, upstream, faults, ghosts>>
UserBinds(r) ==
    /\ At(r, "choose", "bind") /\ Bind({req[r].user}, req[r].skill, "self") /\ Done(r)
    /\ chosen' = chosen \cup {<<req[r].user, req[r].skill>>} /\ removed' = removed \ {req[r].skill}
    /\ UNCHANGED <<sources, defaults, dirs, task, upstream, served, faults>>

\* handleUserSkillsUninstall: only what they installed themselves.
UserUninstall(r, u, s) ==
    /\ Begin(r, "leave", "unbind", s, u) /\ bound[<<u, s>>] = "self"
    /\ UNCHANGED <<sources, people, task, upstream, faults, ghosts>>
UserUnbinds(r) ==
    LET b == <<req[r].user, req[r].skill>> IN
    /\ At(r, "leave", "unbind") /\ Unbind({b[1]}, b[2]) /\ dirs' = dirs \ {b} /\ Done(r)
    /\ chosen' = chosen \ {b}
    /\ UNCHANGED <<sources, defaults, task, upstream, served, faults, removed>>

\* ToggleDefaultSkill; LoadDefaultSkills drops what is not on disk, and
\* applyDefaultSkillsToUser binds the rest at each login.
DefaultsToggle(s) ==
    /\ Brief /\ defaults' = IF s \in defaults THEN defaults \ {s} ELSE defaults \cup {s}
    /\ removed' = removed \ {s}
    /\ UNCHANGED <<sources, bound, dirs, task, upstream, req, faults, chosen>>
ApplyDefaults(u) ==
    LET valid == {s \in defaults : Found(s)} IN
    /\ Brief /\ defaults' = valid
    /\ bound' = [b \in Users \X Skills |-> IF b \in {u} \X valid THEN "default" ELSE bound[b]]
    /\ UNCHANGED <<sources, dirs, task, upstream, req, faults, ghosts>>

\* The agent or its user makes a skill of their own in the workspace, where
\* the file manager does not hold it for an installed one.
OwnSkill(u, s) ==
    /\ Brief /\ bound[<<u, s>>] = "none" /\ dirs' = dirs \cup {<<u, s>>}
    /\ UNCHANGED <<sources, bound, defaults, task, upstream, req, faults, ghosts>>

\* External: the repository gets other skills.
Upstream == /\ Brief /\ upstream' \in SUBSET Skills
            /\ UNCHANGED <<sources, people, task, req, faults, ghosts>>

Next ==
    \/ \E r \in Requests :
          \/ GitAdd(r) \/ Clone(r) \/ CloneFails(r) \/ Rescan(r) \/ Configure(r)
          \/ SourceRemove(r) \/ UnbindSource(r) \/ RemoveSource(r) \/ ForgetSource(r)
          \/ Download(r) \/ DownloadFails(r) \/ UnpackFails(r)
          \/ \E s \in Skills : Install(r, s) \/ SkillRemove(r, s)
          \/ (\E src \in Sources : RemoveDir(r, src)) \/ RemoveBindings(r) \/ RemoveDefault(r) \/ RemoveCopies(r)
          \/ \E u \in Users, s \in Skills : UserInstall(r, u, s) \/ UserUninstall(r, u, s)
          \/ UserBinds(r) \/ UserUnbinds(r)
    \/ Pull \/ Upstream
    \/ \E s \in Skills : \/ DefaultsToggle(s)
                         \/ \E U \in (SUBSET Users) \ {{}} : Deploy(s, U) \/ GroupBind(s, U) \/ GroupUnbind(s, U)
    \/ \E u \in Users : \/ ApplyDefaults(u) \/ DeployNext(u)
                        \/ \E s \in Skills : AdminBind(u, s) \/ AdminUnbind(u, s) \/ OwnSkill(u, s)
Spec == Init /\ [][Next]_vars

-----------------------------------------------------------------------------
TypeOK ==
    /\ disk \in [Sources -> SUBSET Skills] /\ conf \subseteq Sources /\ torn \subseteq disk[Hub]
    /\ bound \in [Users \X Skills -> {"none", "self", "group", "default", "admin"}]
    /\ defaults \subseteq Skills /\ dirs \subseteq Users \X Skills

\* Between requests, the Git source is configured when and only when its
\* directory is there.
Resting == \A r \in Requests : req[r].at = "idle"
SourcesListed == Resting => (Git \in conf) = cloned

\* What a user installed stays theirs to use until they or a superadmin
\* unbind it or remove the skill: neither a group's nor a default's change
\* takes it.
ChosenKept == \A b \in chosen : bound[b] # "none"

\* A skill removed is nobody's, unless it is given again or a deployment of
\* it was under way.
RemovedIsGone == \A s \in removed : Who(s) = {} /\ s \notin defaults

SkillsSafe == TypeOK /\ SourcesListed /\ ChosenKept /\ RemovedIsGone
=============================================================================
