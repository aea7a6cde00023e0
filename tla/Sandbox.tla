------------------------------- MODULE Sandbox -------------------------------
(***************************************************************************)
(* internal/sandbox/manager.go: prepareSandbox, its localCleanup, Run with *)
(* its goroutines, and killOnCancel, for the calls of Run that one Manager *)
(* serves.  The per-user lock is UserMutex's (see UserLock).  Every mount, *)
(* unmount and directory removal is a step of its own, because the Manager *)
(* has one .sandbox-merge and one .sandbox-upper directory for all users   *)
(* while the lock is per user.                                             *)
(*                                                                         *)
(* merge and upper are what the server's mount namespace shows there: the  *)
(* stack of mounts, the plain directory first.  A started picoagent has a  *)
(* mount namespace of its own: its view is what it found when it started.  *)
(***************************************************************************)
EXTENDS Naturals, Sequences, FiniteSets

CONSTANTS Requests, Users,
          UserOf,        \* the username of each call of Run
          Nobody

ASSUME SandboxAssumption == /\ UserOf \in [Requests -> Users]
                            /\ Nobody \notin Requests \union Users

VARIABLES pc,            \* the next step of the goroutine that serves the call
          cancelled,     \* calls whose ctx is done
          holder,        \* who has each user's lock
          merge,         \* mounts on .sandbox-merge, top last
          upper,         \* whose tmpfs are mounted on .sandbox-upper, top last
          activeInputs,  \* Manager.activeInputs
          veth,          \* who set up the user's network link
          alive,         \* calls whose picoagent process lives
          view,          \* what the call's process found when it started
          wiped          \* history: users whose workspace RemoveAll descended into

vars == <<pc, cancelled, holder, merge, upper, activeInputs, veth, alive, view, wiped>>
disk == <<merge, upper, wiped>>
agents == <<activeInputs, veth, alive, view>>

Labels == {"idle", "stat", "umMerge", "rmMerge", "umUpper", "rmUpper", "tmpfs",
           "overlay", "bind", "start", "net", "run", "unplug", "unlink",
           "offWorkspace", "offMerge", "offUpper", "delUpper", "delMerge",
           "release", "done"}

\* A mount on merge: whose overlay, over whose tmpfs, with which workspaces on it.
Plain == [of |-> Nobody, upper |-> Nobody, ws |-> <<>>]

Init == /\ pc = [r \in Requests |-> "idle"]
        /\ cancelled = {}
        /\ holder = [u \in Users |-> Nobody]
        /\ merge = <<Plain>>
        /\ upper = <<Nobody>>
        /\ activeInputs = [u \in Users |-> Nobody]
        /\ veth = [u \in Users |-> Nobody]
        /\ alive = {}
        /\ view = [r \in Requests |-> Plain]
        /\ wiped = {}

At(r, label) == pc[r] = label
Goto(r, label) == pc' = [pc EXCEPT ![r] = label]
Top(stack) == stack[Len(stack)]

\* umount2(MNT_DETACH): the topmost mount, with what is mounted on it.  On the
\* plain directory it fails, and the error is ignored.
Popped(stack) == IF Len(stack) > 1 THEN SubSeq(stack, 1, Len(stack) - 1) ELSE stack

\* The top of merge with its workspace binds changed to ws.
WithWorkspaces(ws) == [merge EXCEPT ![Len(merge)].ws = ws]
Unbound(ws) == IF ws = <<>> THEN ws ELSE SubSeq(ws, 1, Len(ws) - 1)

\* os.RemoveAll(mergeDir) walks into a workspace that is bound there.
Exposed == LET ws == Top(merge).ws IN IF ws = <<>> THEN {} ELSE {Top(ws)}

-----------------------------------------------------------------------------
(* The caller                                                              *)

\* handleChatStop, or a newer message of the user.
Cancel(r) == /\ ~At(r, "done") /\ r \notin cancelled
             /\ cancelled' = cancelled \union {r}
             /\ UNCHANGED <<pc, holder, disk, agents>>

-----------------------------------------------------------------------------
(* prepareSandbox                                                          *)

\* A call that does not wait for its turn.
AcquireUser_barges(r) == /\ At(r, "idle")
                         /\ holder' = [holder EXCEPT ![UserOf[r]] = r]
                         /\ Goto(r, "stat")
                         /\ UNCHANGED <<cancelled, disk, agents>>

AcquireUser(r) == /\ At(r, "idle") /\ holder[UserOf[r]] = Nobody
                  /\ holder' = [holder EXCEPT ![UserOf[r]] = r]
                  /\ Goto(r, "stat")
                  /\ UNCHANGED <<cancelled, disk, agents>>

\* startupCtx: cancelled, or 30 seconds spent waiting.
GiveUp(r) == /\ At(r, "idle")
             /\ Goto(r, "done")
             /\ UNCHANGED <<cancelled, holder, disk, agents>>

\* A missing rootfs releases the lock at once, as do the two failed mounts.
StatRootfs(r) == /\ At(r, "stat")
                 /\ \/ Goto(r, "umMerge")
                    \/ Goto(r, "release")
                 /\ UNCHANGED <<cancelled, holder, disk, agents>>

ClearMerge(r) == /\ At(r, "umMerge")
                 /\ merge' = Popped(merge)
                 /\ Goto(r, "rmMerge")
                 /\ UNCHANGED <<cancelled, holder, upper, wiped, agents>>

RemoveMerge(r) == /\ At(r, "rmMerge") \/ At(r, "delMerge")
                  /\ wiped' = wiped \union Exposed
                  /\ Goto(r, IF At(r, "rmMerge") THEN "umUpper" ELSE "release")
                  /\ UNCHANGED <<cancelled, holder, merge, upper, agents>>

\* The second directory of the loop; the MkdirAll of both follow.
ClearUpper(r) == /\ At(r, "umUpper")
                 /\ upper' = Popped(upper)
                 /\ Goto(r, "rmUpper")
                 /\ UNCHANGED <<cancelled, holder, merge, wiped, agents>>

\* What is on the tmpfs is gone; the mount itself stays (EBUSY).
RemoveUpper(r) == /\ At(r, "rmUpper") \/ At(r, "delUpper")
                  /\ Goto(r, IF At(r, "rmUpper") THEN "tmpfs" ELSE "delMerge")
                  /\ UNCHANGED <<cancelled, holder, disk, agents>>

MountTmpfs(r) == /\ At(r, "tmpfs")
                 /\ \/ upper' = Append(upper, r) /\ Goto(r, "overlay")
                    \/ Goto(r, "release") /\ UNCHANGED upper
                 /\ UNCHANGED <<cancelled, holder, merge, wiped, agents>>

\* An overlay that fails to mount and leaves its tmpfs behind.
MountOverlay_leak(r) ==
    /\ At(r, "overlay")
    /\ \/ /\ merge' = Append(merge, [of |-> r, upper |-> Top(upper), ws |-> <<>>])
          /\ Goto(r, "bind")
          /\ UNCHANGED upper
       \/ /\ Goto(r, "release")
          /\ UNCHANGED <<merge, upper>>
    /\ UNCHANGED <<cancelled, holder, wiped, agents>>

MountOverlay(r) ==
    /\ At(r, "overlay")
    /\ \/ /\ merge' = Append(merge, [of |-> r, upper |-> Top(upper), ws |-> <<>>])
          /\ Goto(r, "bind")
          /\ UNCHANGED upper
       \/ /\ upper' = Popped(upper)
          /\ Goto(r, "release")
          /\ UNCHANGED merge
    /\ UNCHANGED <<cancelled, holder, wiped, agents>>

\* A stale bind is taken off first; then the user's workspace goes on whatever
\* is mounted on merge at that time.
BindWorkspace(r) ==
    LET ws == Unbound(Top(merge).ws) IN
    /\ At(r, "bind")
    /\ \/ merge' = WithWorkspaces(Append(ws, UserOf[r])) /\ Goto(r, "start")
       \/ merge' = WithWorkspaces(ws) /\ Goto(r, "unplug")
    /\ UNCHANGED <<cancelled, holder, upper, wiped, agents>>

\* Chroot into merge: without an overlay there is no /bin/picoagent.
StartAgent(r) ==
    /\ At(r, "start")
    /\ \/ /\ Top(merge).of # Nobody
          /\ view' = [view EXCEPT ![r] = Top(merge)]
          /\ alive' = alive \union {r}
          /\ Goto(r, "net")
       \/ /\ Goto(r, "unplug")
          /\ UNCHANGED <<view, alive>>
    /\ UNCHANGED <<cancelled, holder, disk, activeInputs, veth>>

\* setupNetNS replaces a link left behind; when it fails the agent runs
\* without network and there is nothing to tear down.  Then stdin is published.
SetupNet(r) ==
    LET u == UserOf[r] IN
    /\ At(r, "net")
    /\ \E link \in {r, Nobody} : veth' = [veth EXCEPT ![u] = link]
    /\ activeInputs' = [activeInputs EXCEPT ![u] = r]
    /\ Goto(r, "run")
    /\ UNCHANGED <<cancelled, holder, disk, alive, view>>

-----------------------------------------------------------------------------
(* The process, and the goroutines of Run                                  *)

\* picoagent exits: by itself, or killed by killOnCancel.
Exit(r) == /\ r \in alive
           /\ alive' = alive \ {r}
           /\ UNCHANGED <<pc, cancelled, holder, disk, activeInputs, veth, view>>

\* A scanner that cleans up at the end of stdout without waiting for the process.
ScannerEnds_early(r) == /\ At(r, "run")
                        /\ Goto(r, "unplug")
                        /\ UNCHANGED <<cancelled, holder, disk, agents>>

\* The scanner reads to the end of stdout and waits for the process.
ScannerEnds(r) == /\ At(r, "run") /\ r \notin alive
                  /\ Goto(r, "unplug")
                  /\ UNCHANGED <<cancelled, holder, disk, agents>>

\* The select of the scanner takes ctx.Done, also when the other arm is ready:
\* nobody waits for the process, which has up to five seconds to end.
ScannerCancelled(r) == /\ At(r, "run") /\ r \in cancelled
                       /\ Goto(r, "unplug")
                       /\ UNCHANGED <<cancelled, holder, disk, agents>>

-----------------------------------------------------------------------------
(* localCleanup                                                            *)

\* activeInputs.LoadAndDelete; closing stdin asks the agent to stop.
Unplug(r) == /\ At(r, "unplug")
             /\ activeInputs' = [activeInputs EXCEPT ![UserOf[r]] = Nobody]
             /\ Goto(r, "unlink")
             /\ UNCHANGED <<cancelled, holder, disk, alive, view, veth>>

\* netCleanup, set only where setupNetNS succeeded.
Unlink(r) == /\ At(r, "unlink")
             /\ veth' = [veth EXCEPT ![UserOf[r]] = IF @ = r THEN Nobody ELSE @]
             /\ Goto(r, "offWorkspace")
             /\ UNCHANGED <<cancelled, holder, disk, activeInputs, alive, view>>

OffWorkspace(r) == /\ At(r, "offWorkspace")
                   /\ merge' = WithWorkspaces(Unbound(Top(merge).ws))
                   /\ Goto(r, "offMerge")
                   /\ UNCHANGED <<cancelled, holder, upper, wiped, agents>>

OffMerge(r) == /\ At(r, "offMerge")
               /\ merge' = Popped(merge)
               /\ Goto(r, "offUpper")
               /\ UNCHANGED <<cancelled, holder, upper, wiped, agents>>

\* A cleanup that wakes the user's next call before it removes the directories.
OffUpper_releases(r) == /\ At(r, "offUpper")
                        /\ upper' = Popped(upper)
                        /\ holder' = [holder EXCEPT ![UserOf[r]] = Nobody]
                        /\ Goto(r, "delUpper")
                        /\ UNCHANGED <<cancelled, merge, wiped, agents>>

OffUpper(r) == /\ At(r, "offUpper")
               /\ upper' = Popped(upper)
               /\ Goto(r, "delUpper")
               /\ UNCHANGED <<cancelled, holder, merge, wiped, agents>>

\* A release that is skipped.
ReleaseUser_forgotten(r) == /\ At(r, "release")
                            /\ Goto(r, "done")
                            /\ UNCHANGED <<cancelled, holder, disk, agents>>

ReleaseUser(r) == /\ At(r, "release")
                  /\ holder' = [holder EXCEPT ![UserOf[r]] = Nobody]
                  /\ Goto(r, "done")
                  /\ UNCHANGED <<cancelled, disk, agents>>

-----------------------------------------------------------------------------
Prepare(r) == \/ StatRootfs(r) \/ ClearMerge(r) \/ RemoveMerge(r) \/ ClearUpper(r)
              \/ RemoveUpper(r) \/ MountTmpfs(r) \/ MountOverlay(r) \/ BindWorkspace(r)
              \/ StartAgent(r) \/ SetupNet(r)
Cleanup(r) == \/ Unplug(r) \/ Unlink(r) \/ OffWorkspace(r) \/ OffMerge(r)
              \/ OffUpper(r) \/ ReleaseUser(r)
Step(r) == \/ AcquireUser(r) \/ Prepare(r) \/ ScannerEnds(r) \/ Cleanup(r)

Next == \E r \in Requests :
            Step(r) \/ GiveUp(r) \/ Cancel(r) \/ Exit(r) \/ ScannerCancelled(r)

\* Goroutines run, and a process ends: picoagent leaves when idle, and a
\* cancelled or twelve hours old one is killed.
Fairness == \A r \in Requests : WF_vars(Step(r)) /\ WF_vars(Exit(r))

Spec == Init /\ [][Next]_vars
LiveSpec == Spec /\ Fairness

-----------------------------------------------------------------------------
(* Properties                                                              *)

TypeOK == /\ pc \in [Requests -> Labels]
          /\ cancelled \subseteq Requests /\ alive \subseteq Requests
          /\ holder \in [Users -> Requests \union {Nobody}]
          /\ activeInputs \in [Users -> Requests \union {Nobody}]
          /\ veth \in [Users -> Requests \union {Nobody}]
          /\ merge # <<>> /\ merge[1].of = Nobody
          /\ upper # <<>> /\ upper[1] = Nobody
          /\ \A i \in 2..Len(upper) : upper[i] \in Requests
          /\ wiped \subseteq Users

\* A sandbox starts on its own fresh snapshot: its overlay, over its own empty
\* tmpfs, with its own user's workspace and no other ("every sandbox starts
\* from a clean snapshot", comment at manager.go:25-29).
OwnSnapshot == \A r \in alive :
    view[r] = [of |-> r, upper |-> r, ws |-> <<UserOf[r]>>]

\* Clearing the merge directory never descends into a user's workspace, the
\* only thing of a sandbox that persists.
WorkspaceKept == wiped = {}

\* Once nobody holds a lock, nothing is left mounted, no stdin is published
\* and no link is up, whichever step of whichever call failed.
NoLeftovers ==
    (\A u \in Users : holder[u] = Nobody) =>
        /\ merge = <<Plain>> /\ upper = <<Nobody>>
        /\ \A u \in Users : activeInputs[u] = Nobody /\ veth[u] = Nobody

\* Two agents work on a user's workspace together only while the older one,
\* cancelled, is being killed ("requests of one user run one after another",
\* manager.go:37): when the lock passes on, nobody else is left to run free.
\* The same for what is appended with SendInput: it reaches the holder's agent.
OneFreeAgent ==
    /\ \A r, s \in alive \ cancelled : UserOf[r] = UserOf[s] => r = s
    /\ \A u \in Users : activeInputs[u] # Nobody => holder[u] = activeInputs[u]

\* Every call of Run, those that wait for the lock included, comes to its end
\* and gives the user back.
EveryCallEnds == \A r \in Requests : <>At(r, "done")
=============================================================================
