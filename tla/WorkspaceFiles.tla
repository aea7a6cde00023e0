--------------------------- MODULE WorkspaceFiles ---------------------------
(* The file manager on one user's workspace (web/files.go): several requests  *)
(* of one user write, make and delete files between their checks, and the     *)
(* skills a superadmin installs under skills/ are only shown.                 *)
EXTENDS Naturals, Sequences, FiniteSets

CONSTANTS Skills, Tabs, MaxOps, MaxFaults

VARIABLES
  tree,      \* the directories and files there are
  content,   \* who wrote each block of a file
  why,       \* user_skills: "none", "self" or another reason
  center,    \* skills that a source on disk has
  op,        \* the write of each request
  ops, fileFaults,
  spoilt     \* ghost: written by two at once, or by one that failed

vars == <<tree, content, why, center, op, ops, fileFaults, spoilt>>

Note == <<"note">>
SkillDir(s) == <<"skills", s>>
SkillFile(s) == <<"skills", s, "SKILL.md">>
Files == {Note} \cup {SkillFile(s) : s \in Skills}
Dirs == {<<>>, <<"skills">>} \cup {SkillDir(s) : s \in Skills}
Parent(p) == SubSeq(p, 1, Len(p) - 1)
Under(d, p) == Len(p) >= Len(d) /\ SubSeq(p, 1, Len(d)) = d
NoOp == [at |-> "idle", path |-> Note, size |-> 0, done |-> 0]
Whole(n, k) == [i \in 1..k |-> n]

\* isInstalledSkillPath: someone gave it, or the user took it from a source.
Installed(p) == /\ Len(p) >= 2 /\ p[1] = "skills"
                /\ why[p[2]] # "none" /\ (why[p[2]] = "self" => p[2] \in center)

\* handleFiles: what is listed in a directory; under skills/ also the names
\* that are bound, and which of them are read-only; inside those, nothing.
OnDisk(d) == {p[Len(p)] : p \in {q \in tree : q # <<>> /\ Parent(q) = d}}
Taken(s) == why[s] = "self" /\ s \in center
Given(s) == why[s] \notin {"none", "self"}
Listing(d) ==
    IF d = <<"skills">>
    THEN {[name |-> s, readonly |-> Taken(s) \/ Given(s)] :
             s \in {x \in Skills : why[x] # "none"} \cup OnDisk(d)}
    ELSE IF Len(d) = 2 /\ (Taken(d[2]) \/ Given(d[2])) THEN {}
         ELSE {[name |-> n, readonly |-> FALSE] : n \in OnDisk(d)}

Init ==
    /\ tree = {<<>>, <<"skills">>} /\ content = [p \in Files |-> <<>>]
    /\ why = [s \in Skills |-> "none"] /\ center \in SUBSET Skills
    /\ op = [t \in Tabs |-> NoOp] /\ ops = 0 /\ fileFaults = 0 /\ spoilt = {}

Counted == ops < MaxOps /\ ops' = ops + 1
Writing(t) == op[t].at = "write"
Writers(p) == {t \in Tabs : Writing(t) /\ op[t].path = p}
Quit(t) == op' = [op EXCEPT ![t] = NoOp]

\* handleFileUpload looks at the directory, handleFileEditSave at the file.
Upload(t, p, n) ==
    /\ Counted /\ op[t] = NoOp /\ Parent(p) \in tree /\ ~Installed(Parent(p))
    /\ op' = [op EXCEPT ![t] = [at |-> "open", path |-> p, size |-> n, done |-> 0]]
    /\ UNCHANGED <<tree, content, why, center, fileFaults, spoilt>>
EditSave(t, p, n) ==
    /\ Counted /\ op[t] = NoOp /\ ~Installed(p)
    /\ op' = [op EXCEPT ![t] = [at |-> "open", path |-> p, size |-> n, done |-> 0]]
    /\ UNCHANGED <<tree, content, why, center, fileFaults, spoilt>>

\* O_TRUNC: the old content goes before any of the new one is there.
OpenFile(t) ==
    LET p == op[t].path IN
    /\ op[t].at = "open" /\ Parent(p) \in tree
    /\ tree' = tree \cup {p} /\ content' = [content EXCEPT ![p] = <<>>]
    /\ op' = [op EXCEPT ![t].at = "write"]
    /\ spoilt' = IF Writers(p) = {} THEN spoilt \ {p} ELSE spoilt \cup {p}
    /\ UNCHANGED <<why, center, ops, fileFaults>>
OpenFails(t) ==
    /\ op[t].at = "open" /\ Parent(op[t].path) \notin tree /\ Quit(t)
    /\ UNCHANGED <<tree, content, why, center, ops, fileFaults, spoilt>>

\* One block, at the place this request has come to.
WriteBlock(t) ==
    LET o == op[t] k == o.done + 1 old == content[o.path] IN
    /\ Writing(t) /\ k <= o.size
    /\ op' = [op EXCEPT ![t].done = k]
    /\ content' = [content EXCEPT ![o.path] =
                      [i \in 1..(IF Len(old) > k THEN Len(old) ELSE k) |->
                              IF i = k THEN t ELSE IF i <= Len(old) THEN old[i] ELSE "hole"]]
    /\ UNCHANGED <<tree, why, center, ops, fileFaults, spoilt>>
Saved(t) ==
    /\ Writing(t) /\ op[t].done = op[t].size /\ Quit(t)
    /\ UNCHANGED <<tree, content, why, center, ops, fileFaults, spoilt>>

\* The disk is full, or the upload breaks off: what was written stays.
WriteFails(t) ==
    /\ Writing(t) /\ fileFaults < MaxFaults /\ fileFaults' = fileFaults + 1 /\ Quit(t)
    /\ spoilt' = spoilt \cup {op[t].path}
    /\ UNCHANGED <<tree, content, why, center, ops>>

\* Its file was deleted: what it writes is lost.
Lost(t) ==
    /\ op[t].at = "lost" /\ Quit(t)
    /\ UNCHANGED <<tree, content, why, center, ops, fileFaults, spoilt>>

\* handleFileMkdir and handleFileDelete.
Mkdir(d) ==
    /\ Counted /\ Parent(d) \in tree /\ d \notin tree /\ ~Installed(d) /\ tree' = tree \cup {d}
    /\ UNCHANGED <<content, why, center, op, fileFaults, spoilt>>
Delete(p) ==
    /\ Counted /\ p \in tree \ {<<>>} /\ ~Installed(p)
    /\ tree' = {q \in tree : ~Under(p, q)}
    /\ content' = [q \in Files |-> IF Under(p, q) THEN <<>> ELSE content[q]]
    /\ op' = [t \in Tabs |-> IF Writing(t) /\ Under(p, op[t].path) THEN [op[t] EXCEPT !.at = "lost"] ELSE op[t]]
    /\ UNCHANGED <<why, center, fileFaults, spoilt>>

\* External (Skills): bindings and sources change.
Rebind(s, w) == /\ Counted /\ w # why[s] /\ why' = [why EXCEPT ![s] = w]
                /\ UNCHANGED <<tree, content, center, op, fileFaults, spoilt>>
Resource(s) == /\ Counted /\ center' = IF s \in center THEN center \ {s} ELSE center \cup {s}
               /\ UNCHANGED <<tree, content, why, op, fileFaults, spoilt>>

Next ==
    \/ \E t \in Tabs : \/ \E p \in Files, n \in {1, 2} : Upload(t, p, n) \/ EditSave(t, p, n)
                       \/ OpenFile(t) \/ OpenFails(t) \/ WriteBlock(t) \/ Saved(t) \/ WriteFails(t) \/ Lost(t)
    \/ \E d \in Dirs \ {<<>>} : Mkdir(d)
    \/ \E p \in Dirs \cup Files : Delete(p)
    \/ \E s \in Skills : Resource(s) \/ \E w \in {"none", "self", "admin"} : Rebind(s, w)
Spec == Init /\ [][Next]_vars

-----------------------------------------------------------------------------
\* A file nobody writes is what one request wrote, from its first block to
\* its last, unless two wrote it at once or one failed.
WholeFiles == \A p \in Files \cap tree : Writers(p) = {} /\ p \notin spoilt =>
                 \E t \in Tabs, n \in {1, 2} : content[p] = Whole(t, n)

\* The page and the requests it sends hold the same skills read-only.
ListingAgrees ==
    \A s \in Skills :
        /\ \A e \in Listing(<<"skills">>) : e.name = s => e.readonly = Installed(SkillDir(s))
        /\ Installed(SkillFile(s)) => Listing(SkillDir(s)) = {}

\* A file has a directory.
TreeIsOne == \A p \in tree \ {<<>>} : Parent(p) \in tree

FilesSafe == WholeFiles /\ ListingAgrees /\ TreeIsOne
=============================================================================
