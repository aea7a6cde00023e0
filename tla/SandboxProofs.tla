---------------------------- MODULE SandboxProofs ----------------------------
(***************************************************************************)
(* Proofs about Sandbox, for any calls of Run.                             *)
(*                                                                         *)
(* For any users: a call between its turn and its end is the holder of its *)
(* user's lock (LockInv), and what a call sets up for its user (stdin, the *)
(* link, an agent nobody has cancelled) it takes away before the lock goes *)
(* on (AgentsInv).                                                         *)
(*                                                                         *)
(* For calls of one user: the label of the call that holds the lock says   *)
(* exactly what is mounted on the two shared directories (MountsInv).      *)
(***************************************************************************)
EXTENDS Sandbox, SequenceTheorems, TLAPS

Busy(r) == pc[r] \notin {"idle", "done"}

LockInv == /\ pc \in [Requests -> Labels]
           /\ cancelled \subseteq Requests
           /\ holder \in [Users -> Requests \union {Nobody}]
           /\ \A r \in Requests : Busy(r) => holder[UserOf[r]] = r
           /\ \A u \in Users : holder[u] # Nobody => UserOf[holder[u]] = u /\ Busy(holder[u])

AgentsInv ==
    /\ activeInputs \in [Users -> Requests \union {Nobody}]
    /\ veth \in [Users -> Requests \union {Nobody}]
    /\ alive \subseteq Requests
    /\ \A r \in alive : r \in cancelled \/ pc[r] \in {"net", "run"}
    /\ \A u \in Users : activeInputs[u] # Nobody =>
          holder[u] = activeInputs[u] /\ pc[holder[u]] \in {"run", "unplug"}
    /\ \A u \in Users : veth[u] # Nobody =>
          holder[u] = veth[u] /\ pc[holder[u]] \in {"run", "unplug", "unlink"}

RunInv == LockInv /\ AgentsInv

\* All calls are for one user.
SameUser == \A r, s \in Requests : UserOf[r] = UserOf[s]

\* What is mounted.
Overlay(r, ws) == [of |-> r, upper |-> r, ws |-> ws]
Bare == merge = <<Plain>> /\ upper = <<Nobody>>
TmpfsOnly(r) == merge = <<Plain>> /\ upper = <<Nobody, r>>
Mounted(r, ws) == merge = <<Plain, Overlay(r, ws)>> /\ upper = <<Nobody, r>>
Own(r) == <<UserOf[r]>>

MountsOf(r) ==
    /\ pc[r] \in {"stat", "umMerge", "rmMerge", "umUpper", "rmUpper", "tmpfs",
                  "delUpper", "delMerge", "release"} => Bare
    /\ pc[r] \in {"overlay", "offUpper"} => TmpfsOnly(r)
    /\ pc[r] \in {"bind", "offMerge"} => Mounted(r, <<>>)
    /\ pc[r] \in {"start", "net", "run"} => Mounted(r, Own(r))
    /\ pc[r] \in {"unplug", "unlink", "offWorkspace"} => Mounted(r, <<>>) \/ Mounted(r, Own(r))

MountsInv == /\ \A r \in Requests : MountsOf(r)
             /\ (\A r \in Requests : ~Busy(r)) => Bare
             /\ DOMAIN view = Requests
             /\ \A r \in alive : view[r] = Overlay(r, Own(r))
             /\ wiped = {}

IInv == RunInv /\ MountsInv

-----------------------------------------------------------------------------
(* Stacks of one and two mounts.                                           *)

LEMMA OneMount ==
    ASSUME NEW a
    PROVE  Top(<<a>>) = a /\ Popped(<<a>>) = <<a>>
BY DEF Top, Popped

LEMMA TwoMounts ==
    ASSUME NEW a, NEW b
    PROVE  Top(<<a, b>>) = b /\ Popped(<<a, b>>) = <<a>> /\ Append(<<a>>, b) = <<a, b>>
<1> DEFINE S == {a, b}
<1>0. <<a>> \in Seq(S) /\ <<a, b>> \in Seq(S)
  OBVIOUS
<1>1. SubSeq(<<a, b>>, 1, 1) = <<a>>
  <2>1. /\ SubSeq(<<a, b>>, 1, 1) \in Seq(S) /\ Len(SubSeq(<<a, b>>, 1, 1)) = 1
        /\ SubSeq(<<a, b>>, 1, 1)[1] = a
    BY SubSeqProperties
  <2>2. \A i \in 1..Len(SubSeq(<<a, b>>, 1, 1)) : SubSeq(<<a, b>>, 1, 1)[i] = <<a>>[i]
    BY <2>1
  <2>3. Len(<<a>>) = 1
    OBVIOUS
  <2> HIDE DEF S
  <2> QED
    BY <1>0, <2>1, <2>2, <2>3, SeqEqual
<1>2. Popped(<<a, b>>) = <<a>>
  BY <1>1 DEF Popped
<1>3. Append(<<a>>, b) = <<a, b>>
  <2>1. /\ Append(<<a>>, b) \in Seq(S) /\ Len(Append(<<a>>, b)) = 2
        /\ Append(<<a>>, b)[1] = a /\ Append(<<a>>, b)[2] = b
    BY <1>0, AppendProperties
  <2>2. \A i \in 1..Len(Append(<<a>>, b)) : Append(<<a>>, b)[i] = <<a, b>>[i]
    BY <2>1
  <2>3. Len(<<a, b>>) = 2
    OBVIOUS
  <2> HIDE DEF S
  <2> QED
    BY <1>0, <2>1, <2>2, <2>3, SeqEqual
<1> QED
  BY <1>2, <1>3 DEF Top

LEMMA Binds ==
    ASSUME NEW u
    PROVE  Unbound(<<>>) = <<>> /\ Unbound(<<u>>) = <<>> /\ Append(<<>>, u) = <<u>>
BY DEF Unbound

LEMMA Rebound ==
    ASSUME NEW r, NEW ws, NEW w, merge = <<Plain, Overlay(r, ws)>>
    PROVE  Top(merge).ws = ws /\ WithWorkspaces(w) = <<Plain, Overlay(r, w)>>
BY TwoMounts DEF WithWorkspaces, Overlay, Top

LEMMA Grown ==
    ASSUME NEW r
    PROVE  Append(<<Plain>>, Overlay(r, <<>>)) = <<Plain, Overlay(r, <<>>)>>
BY TwoMounts

-----------------------------------------------------------------------------
(* The lock and the agents, for any users.                                 *)

LEMMA InitRun == Init => RunInv
BY SandboxAssumption DEF Init, RunInv, LockInv, AgentsInv, Busy, Labels

LEMMA StepRun ==
    ASSUME RunInv, [Next]_vars
    PROVE  RunInv'
<1> USE SandboxAssumption DEF RunInv, LockInv, AgentsInv, Busy, Labels, At, Goto, disk, agents
<1>1. ASSUME NEW r \in Requests, AcquireUser(r) \/ GiveUp(r) \/ Cancel(r) PROVE RunInv'
  BY <1>1 DEF AcquireUser, GiveUp, Cancel
<1>2. ASSUME NEW r \in Requests,
             \/ StatRootfs(r) \/ ClearMerge(r) \/ RemoveMerge(r) \/ ClearUpper(r)
             \/ RemoveUpper(r) \/ MountTmpfs(r) \/ MountOverlay(r)
      PROVE  RunInv'
  BY <1>2 DEF StatRootfs, ClearMerge, RemoveMerge, ClearUpper, RemoveUpper, MountTmpfs, MountOverlay
<1>3. ASSUME NEW r \in Requests, BindWorkspace(r) PROVE RunInv'
  BY <1>3 DEF BindWorkspace
<1>4. ASSUME NEW r \in Requests, StartAgent(r) PROVE RunInv'
  BY <1>4 DEF StartAgent
<1>5. ASSUME NEW r \in Requests, SetupNet(r) PROVE RunInv'
  BY <1>5 DEF SetupNet
<1>6. ASSUME NEW r \in Requests, Exit(r) \/ ScannerEnds(r) \/ ScannerCancelled(r) PROVE RunInv'
  BY <1>6 DEF Exit, ScannerEnds, ScannerCancelled
<1>7. ASSUME NEW r \in Requests, Unplug(r) \/ Unlink(r) PROVE RunInv'
  BY <1>7 DEF Unplug, Unlink
<1>8. ASSUME NEW r \in Requests, OffWorkspace(r) \/ OffMerge(r) \/ OffUpper(r) PROVE RunInv'
  BY <1>8 DEF OffWorkspace, OffMerge, OffUpper
<1>9. ASSUME NEW r \in Requests, ReleaseUser(r) PROVE RunInv'
  BY <1>9 DEF ReleaseUser
<1>10. CASE UNCHANGED vars
  BY <1>10 DEF vars
<1> QED
  BY <1>1, <1>2, <1>3, <1>4, <1>5, <1>6, <1>7, <1>8, <1>9, <1>10 DEF Next, Step, Prepare, Cleanup

-----------------------------------------------------------------------------
(* The mounts, for calls of one user.                                      *)

\* One call at a time is between its turn and its end.
LEMMA OneBusy ==
    ASSUME SameUser, RunInv
    PROVE  \A r, s \in Requests : Busy(r) /\ Busy(s) => r = s
BY DEF SameUser, RunInv, LockInv

LEMMA InitMounts == Init => MountsInv
BY SandboxAssumption DEF Init, MountsInv, MountsOf, Busy, Bare

\* What a step of the call r keeps, and what it must show.
LEMMA Alone ==
    ASSUME SameUser, IInv, NEW r \in Requests, Busy(r),
           NEW label \in Labels, Goto(r, label),
           label # "idle", label = "done" => Bare',
           MountsOf(r)', wiped' = {}, DOMAIN view' = Requests,
           \A s \in alive' : view'[s] = Overlay(s, Own(s))
    PROVE  MountsInv'
<1>1. \A s \in Requests \ {r} : ~Busy(s) /\ pc'[s] = pc[s]
  BY OneBusy DEF IInv, RunInv, LockInv, Goto
<1>2. \A s \in Requests \ {r} : MountsOf(s)'
  BY <1>1 DEF MountsOf, Busy
<1>3. (\A s \in Requests : ~Busy(s)') => Bare'
  BY DEF Goto, Busy, IInv, RunInv, LockInv, MountsOf
<1> QED
  BY <1>2, <1>3 DEF MountsInv

\* prepareSandbox, as far as the directories are bare.
LEMMA PrepareMounts ==
    ASSUME SameUser, IInv, NEW r \in Requests,
           \/ StatRootfs(r) \/ ClearMerge(r) \/ RemoveMerge(r) \/ ClearUpper(r)
           \/ RemoveUpper(r) \/ ReleaseUser(r)
    PROVE  MountsInv'
<1> USE DEF At, Goto, disk, agents
<1>1. Busy(r) /\ Bare
  BY DEF StatRootfs, ClearMerge, RemoveMerge, ClearUpper, RemoveUpper, ReleaseUser, Busy,
         IInv, MountsInv, MountsOf
<1>2. Popped(merge) = merge /\ Popped(upper) = upper /\ Exposed = {}
  BY <1>1, OneMount DEF Bare, Exposed, Plain
<1>3. Bare' /\ wiped' = {} /\ UNCHANGED <<view, alive>>
  BY <1>1, <1>2 DEF StatRootfs, ClearMerge, RemoveMerge, ClearUpper, RemoveUpper, ReleaseUser,
         Bare, IInv, MountsInv
<1>4. PICK label \in {"umMerge", "rmMerge", "umUpper", "rmUpper", "tmpfs", "delMerge", "release", "done"} :
          Goto(r, label)
  BY DEF StatRootfs, ClearMerge, RemoveMerge, ClearUpper, RemoveUpper, ReleaseUser
<1>5. MountsOf(r)'
  BY <1>3, <1>4 DEF MountsOf, IInv, RunInv, LockInv
<1> QED
  BY <1>1, <1>3, <1>4, <1>5, Alone DEF Labels, IInv, MountsInv

\* The three mounts, each with its failure.
LEMMA MountMounts ==
    ASSUME SameUser, IInv, NEW r \in Requests,
           MountTmpfs(r) \/ MountOverlay(r) \/ BindWorkspace(r)
    PROVE  MountsInv'
<1> USE DEF At, Goto, disk, agents
<1>1. Busy(r) /\ wiped' = {} /\ UNCHANGED <<view, alive>>
  BY DEF MountTmpfs, MountOverlay, BindWorkspace, Busy, IInv, MountsInv
<1>2. CASE MountTmpfs(r)
  <2>1. Bare
    BY <1>2 DEF MountTmpfs, IInv, MountsInv, MountsOf
  <2>2. Append(upper, r) = <<Nobody, r>>
    BY <2>1, TwoMounts DEF Bare
  <2>3. CASE Goto(r, "overlay") /\ upper' = Append(upper, r)
    <3>1. MountsOf(r)'
      BY <1>2, <2>1, <2>2, <2>3 DEF MountTmpfs, MountsOf, Bare, TmpfsOnly, IInv, RunInv, LockInv
    <3> QED
      BY <1>1, <2>3, <3>1, Alone DEF Labels, IInv, MountsInv
  <2>4. CASE Goto(r, "release") /\ UNCHANGED upper
    <3>1. MountsOf(r)'
      BY <1>2, <2>1, <2>4 DEF MountTmpfs, MountsOf, Bare, IInv, RunInv, LockInv
    <3> QED
      BY <1>1, <2>4, <3>1, Alone DEF Labels, IInv, MountsInv
  <2> QED
    BY <1>2, <2>3, <2>4 DEF MountTmpfs
<1>3. CASE MountOverlay(r)
  <2>1. TmpfsOnly(r)
    BY <1>3 DEF MountOverlay, IInv, MountsInv, MountsOf
  <2>2. /\ Append(merge, [of |-> r, upper |-> Top(upper), ws |-> <<>>]) = <<Plain, Overlay(r, <<>>)>>
        /\ Popped(upper) = <<Nobody>>
    BY <2>1, TwoMounts, Grown DEF TmpfsOnly, Overlay
  <2>3. CASE Goto(r, "bind") /\ UNCHANGED upper /\ merge' = <<Plain, Overlay(r, <<>>)>>
    <3>1. MountsOf(r)'
      BY <2>1, <2>3 DEF MountsOf, TmpfsOnly, Mounted, IInv, RunInv, LockInv
    <3> QED
      BY <1>1, <2>3, <3>1, Alone DEF Labels, IInv, MountsInv
  <2>4. CASE Goto(r, "release") /\ UNCHANGED merge /\ upper' = <<Nobody>>
    <3>1. MountsOf(r)'
      BY <2>1, <2>4 DEF MountsOf, TmpfsOnly, Bare, IInv, RunInv, LockInv
    <3> QED
      BY <1>1, <2>4, <3>1, Alone DEF Labels, IInv, MountsInv
  <2> QED
    BY <1>3, <2>2, <2>3, <2>4 DEF MountOverlay
<1>4. CASE BindWorkspace(r)
  <2>1. Mounted(r, <<>>)
    BY <1>4 DEF BindWorkspace, IInv, MountsInv, MountsOf
  <2>2. /\ Unbound(Top(merge).ws) = <<>>
        /\ Append(Unbound(Top(merge).ws), UserOf[r]) = Own(r)
        /\ WithWorkspaces(<<>>) = <<Plain, Overlay(r, <<>>)>>
        /\ WithWorkspaces(Own(r)) = <<Plain, Overlay(r, Own(r))>>
    BY <2>1, Rebound, Binds DEF Mounted, Own
  <2>3. CASE Goto(r, "start") /\ UNCHANGED upper /\ merge' = <<Plain, Overlay(r, Own(r))>>
    <3>1. MountsOf(r)'
      BY <2>1, <2>3 DEF MountsOf, Mounted, Own, IInv, RunInv, LockInv
    <3> QED
      BY <1>1, <2>3, <3>1, Alone DEF Labels, IInv, MountsInv
  <2>4. CASE Goto(r, "unplug") /\ UNCHANGED upper /\ merge' = <<Plain, Overlay(r, <<>>)>>
    <3>1. MountsOf(r)'
      BY <2>1, <2>4 DEF MountsOf, Mounted, IInv, RunInv, LockInv
    <3> QED
      BY <1>1, <2>4, <3>1, Alone DEF Labels, IInv, MountsInv
  <2> QED
    BY <1>4, <2>2, <2>3, <2>4 DEF BindWorkspace
<1> QED
  BY <1>2, <1>3, <1>4

\* From the start of the agent to the end of its scanner nothing is mounted.
LEMMA AgentMounts ==
    ASSUME SameUser, IInv, NEW r \in Requests,
           \/ StartAgent(r) \/ SetupNet(r) \/ ScannerEnds(r) \/ ScannerCancelled(r)
           \/ Unplug(r) \/ Unlink(r)
    PROVE  MountsInv'
<1> USE DEF At, Goto, disk, agents
<1>1. /\ Busy(r) /\ wiped' = {} /\ UNCHANGED <<merge, upper>>
      /\ \/ Mounted(r, Own(r))
         \/ Mounted(r, <<>>) /\ pc[r] \in {"unplug", "unlink"}
  BY DEF StartAgent, SetupNet, ScannerEnds, ScannerCancelled, Unplug, Unlink, Busy,
         IInv, MountsInv, MountsOf
<1>2. DOMAIN view' = Requests /\ \A s \in alive' : view'[s] = Overlay(s, Own(s))
  <2>1. CASE StartAgent(r)
    <3>1. Top(merge) = Overlay(r, Own(r))
      BY <1>1, <2>1, TwoMounts DEF StartAgent, Mounted
    <3>2. CASE view' = [view EXCEPT ![r] = Top(merge)] /\ alive' = alive \union {r}
      BY <3>1, <3>2 DEF IInv, MountsInv, Own
    <3>3. CASE UNCHANGED <<view, alive>>
      BY <3>3 DEF IInv, MountsInv, Own
    <3> QED
      BY <2>1, <3>2, <3>3 DEF StartAgent
  <2>2. CASE \/ SetupNet(r) \/ ScannerEnds(r) \/ ScannerCancelled(r) \/ Unplug(r) \/ Unlink(r)
    <3>1. UNCHANGED <<view, alive>>
      BY <2>2 DEF SetupNet, ScannerEnds, ScannerCancelled, Unplug, Unlink
    <3> QED
      BY <3>1 DEF IInv, MountsInv, Own
  <2> QED
    BY <2>1, <2>2
<1>3. PICK label \in {"net", "run", "unplug", "unlink", "offWorkspace"} :
          /\ Goto(r, label)
          /\ label \in {"net", "run"} => Mounted(r, Own(r))
  BY <1>1 DEF StartAgent, SetupNet, ScannerEnds, ScannerCancelled, Unplug, Unlink
<1>4. MountsOf(r)'
  BY <1>1, <1>3 DEF MountsOf, Mounted, Own, IInv, RunInv, LockInv
<1> QED
  BY <1>1, <1>2, <1>3, <1>4, Alone DEF Labels

\* localCleanup, back to bare directories.
LEMMA CleanupMounts ==
    ASSUME SameUser, IInv, NEW r \in Requests,
           OffWorkspace(r) \/ OffMerge(r) \/ OffUpper(r)
    PROVE  MountsInv'
<1> USE DEF At, Goto, disk, agents
<1>1. Busy(r) /\ wiped' = {} /\ UNCHANGED <<view, alive>>
  BY DEF OffWorkspace, OffMerge, OffUpper, Busy, IInv, MountsInv
<1>2. CASE OffWorkspace(r)
  <2>1. Mounted(r, <<>>) \/ Mounted(r, Own(r))
    BY <1>2 DEF OffWorkspace, IInv, MountsInv, MountsOf
  <2>2. WithWorkspaces(Unbound(Top(merge).ws)) = <<Plain, Overlay(r, <<>>)>>
    BY <2>1, Rebound, Binds DEF Mounted, Own
  <2>3. MountsOf(r)'
    BY <1>2, <2>1, <2>2 DEF OffWorkspace, MountsOf, Mounted, IInv, RunInv, LockInv
  <2> QED
    BY <1>1, <1>2, <2>3, Alone DEF OffWorkspace, Labels, IInv, MountsInv
<1>3. CASE OffMerge(r)
  <2>1. Mounted(r, <<>>)
    BY <1>3 DEF OffMerge, IInv, MountsInv, MountsOf
  <2>2. Popped(merge) = <<Plain>>
    BY <2>1, TwoMounts DEF Mounted
  <2>3. MountsOf(r)'
    BY <1>3, <2>1, <2>2 DEF OffMerge, MountsOf, Mounted, TmpfsOnly, IInv, RunInv, LockInv
  <2> QED
    BY <1>1, <1>3, <2>3, Alone DEF OffMerge, Labels, IInv, MountsInv
<1>4. CASE OffUpper(r)
  <2>1. TmpfsOnly(r)
    BY <1>4 DEF OffUpper, IInv, MountsInv, MountsOf
  <2>2. Popped(upper) = <<Nobody>>
    BY <2>1, TwoMounts DEF TmpfsOnly
  <2>3. MountsOf(r)'
    BY <1>4, <2>1, <2>2 DEF OffUpper, MountsOf, TmpfsOnly, Bare, IInv, RunInv, LockInv
  <2> QED
    BY <1>1, <1>4, <2>3, Alone DEF OffUpper, Labels, IInv, MountsInv
<1> QED
  BY <1>2, <1>3, <1>4

\* A turn begins on bare directories, because nobody of the user is busy.
LEMMA LockMounts ==
    ASSUME SameUser, IInv, NEW r \in Requests,
           AcquireUser(r) \/ GiveUp(r) \/ Cancel(r) \/ Exit(r)
    PROVE  MountsInv'
<1> USE DEF At, Goto, disk, agents
<1>1. CASE AcquireUser(r)
  <2>1. \A s \in Requests : ~Busy(s)
    BY <1>1, SandboxAssumption DEF AcquireUser, SameUser, IInv, RunInv, LockInv
  <2>2. Bare /\ Bare'
    BY <1>1, <2>1 DEF AcquireUser, IInv, MountsInv, Bare
  <2>3. \A s \in Requests \ {r} : ~Busy(s)' /\ pc'[s] = pc[s]
    BY <1>1, <2>1 DEF AcquireUser, Busy, IInv, RunInv, LockInv
  <2>4. pc'[r] = "stat"
    BY <1>1 DEF AcquireUser, IInv, RunInv, LockInv
  <2> QED
    BY <1>1, <2>2, <2>3, <2>4 DEF AcquireUser, IInv, MountsInv, MountsOf, Busy, Own
<1>2. CASE GiveUp(r)
  <2>1. \A s \in Requests : Busy(s)' = Busy(s) /\ (Busy(s) => pc'[s] = pc[s])
    BY <1>2 DEF GiveUp, Busy, IInv, RunInv, LockInv
  <2>2. \A s \in Requests : MountsOf(s)'
    BY <1>2, <2>1 DEF GiveUp, IInv, MountsInv, MountsOf, Busy, Bare, TmpfsOnly, Mounted, Own
  <2> QED
    BY <1>2, <2>1, <2>2 DEF GiveUp, IInv, MountsInv, Bare, Own
<1>3. CASE Cancel(r) \/ Exit(r)
  BY <1>3 DEF Cancel, Exit, IInv, MountsInv, MountsOf, Busy, Bare, TmpfsOnly, Mounted, Own
<1> QED
  BY <1>1, <1>2, <1>3

LEMMA StepMounts ==
    ASSUME SameUser, IInv, [Next]_vars
    PROVE  MountsInv'
<1>1. CASE UNCHANGED vars
  BY <1>1 DEF vars, IInv, MountsInv, MountsOf, Busy, Bare, TmpfsOnly, Mounted, Own
<1>2. CASE Next
  BY <1>2, PrepareMounts, MountMounts, AgentMounts, CleanupMounts, LockMounts
     DEF Next, Step, Prepare, Cleanup
<1> QED
  BY <1>1, <1>2

-----------------------------------------------------------------------------
LEMMA InvariantRun == Spec => []RunInv
<1>1. Init => RunInv
  BY InitRun
<1>2. RunInv /\ [Next]_vars => RunInv'
  BY StepRun
<1> QED
  BY <1>1, <1>2, PTL DEF Spec

LEMMA InvariantOfUser ==
    ASSUME SameUser
    PROVE  Spec => []IInv
<1>1. Init => IInv
  BY InitRun, InitMounts DEF IInv
<1>2. IInv /\ [Next]_vars => IInv'
  BY StepRun, StepMounts DEF IInv
<1> QED
  BY <1>1, <1>2, PTL DEF Spec

\* Two agents of one user run together only while the older one, cancelled, is
\* being killed, and a message appended for a user reaches the agent of the
\* call that holds the user (Run and killOnCancel), for any users and calls.
THEOREM FreeAgents == Spec => []OneFreeAgent
<1>1. RunInv => OneFreeAgent
  BY SandboxAssumption DEF RunInv, LockInv, AgentsInv, OneFreeAgent, Busy
<1> QED
  BY <1>1, InvariantRun, PTL

\* An agent starts on an overlay of its own, over a tmpfs of its own, with its
\* user's workspace and nothing else, however the calls before it ended
\* (prepareSandbox), as long as the calls are of one user.
THEOREM FreshSnapshot ==
    ASSUME SameUser
    PROVE  Spec => []OwnSnapshot
<1>1. IInv => OwnSnapshot
  BY DEF IInv, MountsInv, OwnSnapshot, Overlay, Own
<1> QED
  BY <1>1, InvariantOfUser, PTL

\* No removal of the merge directory finds a workspace mounted there
\* (prepareSandbox and localCleanup), as long as the calls are of one user.
THEOREM WorkspaceSurvives ==
    ASSUME SameUser
    PROVE  Spec => []WorkspaceKept
<1>1. IInv => WorkspaceKept
  BY DEF IInv, MountsInv, WorkspaceKept
<1> QED
  BY <1>1, InvariantOfUser, PTL

\* Whichever step of whichever call failed, once the lock is free nothing is
\* mounted, published or linked (localCleanup), as long as the calls are of
\* one user.
THEOREM AllTakenDown ==
    ASSUME SameUser
    PROVE  Spec => []NoLeftovers
<1>1. IInv => NoLeftovers
  BY SandboxAssumption DEF IInv, RunInv, LockInv, AgentsInv, MountsInv, NoLeftovers, Bare, Busy
<1> QED
  BY <1>1, InvariantOfUser, PTL
=============================================================================
