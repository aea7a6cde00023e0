---------------------------- MODULE MemoryEvolution ----------------------------
(* The agent's long-term memory: MEMORY.md and USER.md, rewritten by the      *)
(* update_memory tool, which the agent and its sub-agents call, and by the    *)
(* evolution that ends a conversation.  A write is a backup, a truncation and *)
(* the new text; the process may be killed between any two.                   *)
(* internal/agent/evolution.go and tool_update_memory.go.                     *)
EXTENDS Naturals, Sequences, SequencesExt, FiniteSets, TLC

CONSTANTS Writers,     \* goroutines that call the tool: "engine", and helpers
          Texts,       \* what an entry may say
          Budget,      \* items a file may hold after a merge
          MaxWrites,   \* files written in all
          MaxNow,      \* seconds
          MaxSaid,     \* messages of the session
          MaxCollect,  \* messages an evolution looks at (200)
          MaxFaults    \* kills, failed backups and failed writes

VARIABLES file,      \* MEMORY and USER: sections of items
          backups,   \* memory/archive
          now, job,  \* of each writer
          said,      \* messages in the session's files
          evolved,   \* EvolvedCount of the session's meta
          writes, faults,
          wanted,    \* history variable: the files, had every call been atomic
          good       \* history variable: the last text written as a whole

vars == <<file, backups, now, job, said, evolved, writes, faults, wanted, good>>
Files == {"MEMORY", "USER"}
Topics == {1, 2}
Idle == [pc |-> "idle"]

---------------------------------------------------------------------------
(* The contents.  A section has items, by topic; the order in a section is    *)
(* left out.  Sections the serialiser does not know are in "other".           *)
SectionOrder == [MEMORY |-> <<"done", "doing", "blocked", "tech", "knowledge", "decisions">>,
                 USER |-> <<"learned", "fields", "prefs">>]
Sections(f) == Range(SectionOrder[f])
Empty(f) == [s \in Sections(f) \cup {"other"} |-> <<>>]
Without(items, topics) == [t \in (DOMAIN items) \ topics |-> items[t]]

(* enforceMemoryBudget, enforceUserBudget: one item goes at a time, from the  *)
(* least important section that has one.                                      *)
Size(c) == Cardinality(UNION {{<<s, t>> : t \in DOMAIN c[s]} : s \in DOMAIN c})
DropOne(f, c) == LET some == {i \in DOMAIN SectionOrder[f] : c[SectionOrder[f][i]] # <<>>}
                     least == SectionOrder[f][CHOOSE i \in some : \A j \in some : i <= j]
                 IN  IF some = {} THEN c
                     ELSE [c EXCEPT ![least] = Without(@, {CHOOSE t \in DOMAIN @ : \A u \in DOMAIN @ : t <= u})]
Trimmed(f, c) == LET over == IF Size(c) > Budget THEN Size(c) - Budget ELSE 0
                     t[k \in 0..over] == IF k = 0 THEN c ELSE DropOne(f, t[k - 1])
                 IN  t[over]

(* MergeIntoMemoryMD: what is known by topic is replaced or added.  A topic   *)
(* now known leaves the technical findings; what is completed leaves what is  *)
(* in progress or blocked - unless nothing would be left there: an empty list *)
(* is not written back.                                                       *)
MergeIntoMemoryMD(c, r) ==
    LET known == r.knowledge @@ c.knowledge
        doing == r.doing @@ Without(c.doing, DOMAIN r.done)
        blocked == r.blocked @@ Without(c.blocked, DOMAIN r.done)
    IN  Trimmed("MEMORY",
          [c EXCEPT !.decisions = r.decisions @@ @, !.knowledge = known,
                    !.tech = IF r.knowledge = <<>> THEN @ ELSE Without(@, DOMAIN known),
                    !.done = r.done @@ @,
                    !.doing = IF doing = <<>> THEN @ ELSE doing,
                    !.blocked = IF blocked = <<>> THEN @ ELSE blocked,
                    !.other = <<>>])
MergeIntoUserMD(c, r) == Trimmed("USER", [c EXCEPT !.prefs = r.prefs @@ @, !.other = <<>>])
Merge(f, c, r) == IF f = "MEMORY" THEN MergeIntoMemoryMD(c, r) ELSE MergeIntoUserMD(c, r)

(* What the model may find in a conversation, or give to the tool.            *)
Nothing == [s \in {"decisions", "knowledge", "prefs", "done", "doing", "blocked"} |-> <<>>]
Entries == [topic : Topics, text : Texts]
Results == {[Nothing EXCEPT ![s] = e.topic :> e.text] : s \in DOMAIN Nothing, e \in Entries}
HomeOf(s) == IF s = "prefs" THEN "USER" ELSE "MEMORY"
Progress == {"done", "doing", "blocked"}
Ops == [action : {"add", "update", "delete"}, section : {"knowledge", "prefs", "doing", "done"}, entry : Entries]

(* executeAdd, executeUpdate, executeDelete.  An update adds a preference     *)
(* that is missing, but nothing else; it never touches the progress; neither  *)
(* it nor a deletion makes room.                                              *)
Added(f, c, op) == Merge(f, c, [Nothing EXCEPT ![op.section] = op.entry.topic :> op.entry.text])
Updated(f, c, op) ==
    CASE c = Empty(f) -> Added(f, c, op)
      [] c # Empty(f) /\ op.section \in Progress -> c
      [] OTHER -> [c EXCEPT ![op.section] = IF f = "USER" \/ op.entry.topic \in DOMAIN @
                                            THEN (op.entry.topic :> op.entry.text) @@ @ ELSE @,
                            !.other = <<>>]
Deleted(f, c, op) == [c EXCEPT ![op.section] = Without(@, {op.entry.topic}), !.other = <<>>]
Apply(f, c, op) == CASE op.action = "add" -> Added(f, c, op)
                     [] op.action = "update" -> Updated(f, c, op)
                     [] op.action = "delete" -> Deleted(f, c, op)
                     [] op.action = "evolve" -> Merge(f, c, op.result)

---------------------------------------------------------------------------
Init == /\ file = [f \in Files |-> Empty(f)] /\ wanted = file /\ good = file
        /\ backups = {} /\ now = 0 /\ job = [w \in Writers |-> Idle]
        /\ said = 0 /\ evolved = 0 /\ writes = 0 /\ faults = 0

Start(w, queue, op, reads) ==
    job' = [job EXCEPT ![w] = [pc |-> "backup", queue |-> queue, op |-> op, read |-> reads]]

(* Execute of update_memory: the file is read, and what it will be is decided. *)
CallTool(w) ==
    /\ job[w] = Idle /\ writes < MaxWrites /\ writes' = writes + 1
    /\ \E op \in Ops : Start(w, <<HomeOf(op.section)>>, op, file)
    /\ UNCHANGED <<file, backups, now, said, evolved, faults, wanted, good>>

(* Messages the evolution takes: of those collected, the ones behind the      *)
(* mark - all of them, when there is nothing behind it.                       *)
Collected == IF said > MaxCollect THEN MaxCollect ELSE said
Taken == IF evolved > 0 /\ evolved < Collected THEN (evolved + 1)..Collected ELSE 1..Collected

(* Evolve: five messages and a tool call among them (here: two and one are    *)
(* enough); nothing new found ends it; both files are read first, USER.md is  *)
(* written first.                                                             *)
Evolve == /\ job["engine"] = Idle /\ writes + 1 < MaxWrites /\ writes' = writes + 2
          /\ Taken # {} /\ (evolved = 0 => Cardinality(Taken) >= 2)
          /\ \E r \in Results : Start("engine", <<"USER", "MEMORY">>, [action |-> "evolve", result |-> r], file)
          /\ UNCHANGED <<file, backups, now, said, evolved, faults, wanted, good>>

(* Mutant: only what was read as text is worth a backup - and the truncation  *)
(* comes first.                                                               *)
Backup_late(w) ==
    /\ job[w].pc = "backup"
    /\ LET f == Head(job[w].queue)
       IN  /\ file' = [file EXCEPT ![f] = Empty(f)]
           /\ backups' = backups \cup {[file |-> f, at |-> now, text |-> file'[f]]}
    /\ job' = [job EXCEPT ![w].pc = "truncate"]
    /\ UNCHANGED <<now, said, evolved, writes, faults, wanted, good>>

(* backupFile: named by the second, it replaces one of the same second; if it *)
(* fails, that is logged and the write goes on.  The tool makes none of a     *)
(* file it read no text from.  (good: an evolution in the second in which a   *)
(* write failed may replace the one good copy.)                               *)
Backup(w) ==
    /\ job[w].pc = "backup"
    /\ LET f == Head(job[w].queue)
           same == {b \in backups : b.file = f /\ b.at = now}
       IN  \/ /\ job[w].op.action = "evolve" \/ job[w].read[f] # Empty(f)
              /\ backups' = (backups \ same) \cup {[file |-> f, at |-> now, text |-> file[f]]}
              /\ good' = IF same = {} THEN good ELSE [good EXCEPT ![f] = file[f]]
              /\ UNCHANGED faults
           \/ /\ job[w].op.action # "evolve" /\ job[w].read[f] = Empty(f)
              /\ UNCHANGED <<backups, good, faults>>
           \/ /\ faults < MaxFaults /\ faults' = faults + 1
              /\ UNCHANGED backups /\ good' = [good EXCEPT ![f] = Empty(f)]
    /\ job' = [job EXCEPT ![w].pc = "truncate"]
    /\ UNCHANGED <<file, now, said, evolved, writes, wanted>>

(* os.WriteFile: the file is emptied, then written; a write may fail, and the *)
(* tool answers that it did; an evolution returns with the error.             *)
Truncate(w) ==
    /\ job[w].pc = "truncate"
    /\ file' = [file EXCEPT ![Head(job[w].queue)] = Empty(Head(job[w].queue))]
    /\ job' = [job EXCEPT ![w].pc = "write"]
    /\ UNCHANGED <<backups, now, said, evolved, writes, faults, wanted, good>>
Write(w) ==
    /\ job[w].pc = "write"
    /\ LET f == Head(job[w].queue)
           text == Apply(f, job[w].read[f], job[w].op)
       IN  /\ file' = [file EXCEPT ![f] = text] /\ good' = [good EXCEPT ![f] = text]
           /\ wanted' = [wanted EXCEPT ![f] = Apply(f, @, job[w].op)]
    /\ job' = [job EXCEPT ![w] =
          IF Len(@.queue) > 1 THEN [@ EXCEPT !.queue = Tail(job[w].queue), !.pc = "backup"]
          ELSE IF @.op.action = "evolve" THEN [@ EXCEPT !.pc = "mark"] ELSE Idle]
    /\ UNCHANGED <<backups, now, said, evolved, writes, faults>>
WriteFails(w) ==
    /\ job[w].pc = "write" /\ faults < MaxFaults /\ faults' = faults + 1
    /\ job' = [job EXCEPT ![w] = Idle] /\ wanted' = file
    /\ UNCHANGED <<file, backups, now, said, evolved, writes, good>>

(* Backups older than the limit (here: two seconds) go, and the mark is saved. *)
Mark == /\ job["engine"].pc = "mark"
        /\ backups' = {b \in backups : b.at + 2 >= now}
        /\ good' = [f \in Files |-> IF \E b \in backups \ backups' : b.file = f THEN file[f] ELSE good[f]]
        /\ evolved' = Collected /\ job' = [job EXCEPT !["engine"] = Idle]
        /\ UNCHANGED <<file, now, said, writes, faults, wanted>>

Say == /\ said < MaxSaid /\ said' = said + 1 /\ job["engine"] = Idle
       /\ UNCHANGED <<file, backups, now, job, evolved, writes, faults, wanted, good>>
Second == /\ now < MaxNow /\ now' = now + 1
          /\ UNCHANGED <<file, backups, job, said, evolved, writes, faults, wanted, good>>
(* The process is killed; the next begins in another second.                  *)
Kill == /\ faults < MaxFaults /\ faults' = faults + 1 /\ now < MaxNow /\ now' = now + 1
        /\ \E w \in Writers : job[w] # Idle
        /\ job' = [w \in Writers |-> Idle] /\ wanted' = file
        /\ UNCHANGED <<file, backups, said, evolved, writes, good>>

Next == \/ \E w \in Writers : CallTool(w) \/ Backup(w) \/ Truncate(w) \/ Write(w) \/ WriteFails(w)
        \/ Evolve \/ Mark \/ Say \/ Second \/ Kill
Spec == Init /\ [][Next]_vars

---------------------------------------------------------------------------
(* The last text written as a whole is in the file or in a backup of it,      *)
(* unless its backup failed or was old.                                       *)
Recoverable == \A f \in Files : good[f] # Empty(f) =>
                  file[f] = good[f] \/ \E b \in backups : b.file = f /\ b.text = good[f]

(* With one writer at a time, the files are what the calls and evolutions     *)
(* made of them one after another: no call undoes another.                    *)
OneAtATime == \A w, v \in Writers : job[w] # Idle /\ job[v] # Idle => w = v
Quiet == \A w \in Writers : job[w] = Idle
NoneUndone == Quiet => file = wanted
MemorySafe == Recoverable /\ NoneUndone

(* "完成项从进行中移除" (evolution.go): what is added as completed is no longer *)
(* in progress.                                                               *)
CompletedLeaves ==
    [][\A w \in Writers :
         job[w].pc = "write" /\ job[w].op.action = "add" /\ job[w].op.section = "done" /\ file' # file
           => job[w].op.entry.topic \notin DOMAIN file'["MEMORY"].doing]_vars
=============================================================================
