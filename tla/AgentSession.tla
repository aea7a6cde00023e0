---------------------------- MODULE AgentSession ----------------------------
(* The two files of an agent's conversation: the archive, which is only       *)
(* appended to, and the live file, which the model of the next turn sees.     *)
(* A picoagent process loads live, appends what is said to both files, lets   *)
(* the engine rewrite live with what the turn adds or compaction leaves, and  *)
(* may be killed between any two of these steps (killOnCancel), or its writes *)
(* may fail half-way (a full disk).  internal/agent/session.go,               *)
(* session_io.go, compactor.go, engine.go and cmd/picoagent/main.go.          *)
EXTENDS Naturals, Sequences, FiniteSets, SequencesExt

CONSTANTS Channels,       \* where a process is started from: "chat", "cron"
          MaxTurns,       \* messages in all
          MaxRounds,      \* tool rounds in all
          FsyncInterval,  \* rounds between two rewrites of live
          MaxKills,       \* processes killed
          MaxShort        \* writes cut short

VARIABLES archive, live,  \* session key -> sequence of lines
          channel,        \* of the running process
          history,        \* its memory of live, read when a turn begins
          msgs,           \* the engine's messages of the turn
          pc, turn, rounds, kills, short,
          todo,           \* what a rewrite has still to write
          excused         \* history variable: lines a fault may have lost

vars == <<archive, live, channel, history, msgs, pc, turn, rounds, kills, short,
          todo, excused>>

Line(kind, n) == [kind |-> kind, turn |-> n, chan |-> channel, of |-> {}]
Said == {"user", "answer"}
Torn == [kind |-> "torn", turn |-> 0, chan |-> "none", of |-> {}]

(* BuildSessionKey: the key is made of the user; the channel is not in it.    *)
SessionKey(c) == "sk_v1_user"
Keys == {SessionKey(c) : c \in Channels}
Key == SessionKey(channel)

(* readJSONL: one line that does not parse, and nothing is read.              *)
Readable(f) == IF Contains(f, Torn) THEN <<>> ELSE f

(* appendFile: a line written behind a torn one becomes part of it.           *)
Spoilt(f) == f # <<>> /\ Last(f) = Torn
Added(f, line) == IF Spoilt(f) THEN f ELSE Append(f, line)

(* Mutants.                                                                   *)
Reload_forgotten == /\ pc = "reload" /\ history' = history /\ pc' = "idle"
                    /\ UNCHANGED <<archive, live, channel, msgs, turn, rounds, kills, short, todo, excused>>

(* generateSummary stands for all it is given, also when the model fails.     *)
Summary(ms) ==
    [kind |-> "summary", turn |-> 0, chan |-> "none",
     of |-> UNION {IF m.kind = "summary" THEN m.of ELSE {m} : m \in Range(ms)}]

(* compactLLMMessages: all but a tail become one summary; at most two         *)
(* messages stay as they are.                                                 *)
Compacted(ms, k) == IF Len(ms) <= 2 \/ k = 0 THEN ms
                    ELSE <<Summary(SubSeq(ms, 1, k))>> \o SubSeq(ms, k + 1, Len(ms))

Init == /\ archive = [k \in Keys |-> <<>>] /\ live = archive
        /\ channel \in Channels
        /\ history = <<>> /\ msgs = <<>> /\ todo = <<>>
        /\ pc = "start" /\ turn = 0 /\ rounds = 0 /\ kills = 0 /\ short = 0
        /\ excused = {}

(* A process starts and loads the conversation.                               *)
Load == /\ pc = "start"
        /\ history' = Readable(live[Key]) /\ pc' = "idle"
        /\ UNCHANGED <<archive, live, channel, msgs, turn, rounds, kills, short, todo, excused>>

(* The next message; the engine's messages are the history and it.            *)
TakeInput == /\ pc = "idle" /\ turn < MaxTurns
             /\ turn' = turn + 1 /\ pc' = "archiveUser"
             /\ msgs' = Append(history, Line("user", turn'))
             /\ UNCHANGED <<archive, live, channel, history, rounds, kills, short, todo, excused>>

InHand == Line(IF pc \in {"archiveUser", "liveUser"} THEN "user" ELSE "answer", turn)
AfterAppend == IF InHand.kind = "user" THEN "engine" ELSE "reload"

(* AppendMessage writes the archive, then live; an error ends it, and the     *)
(* process goes on.                                                           *)
WriteArchive ==
    /\ pc \in {"archiveUser", "archiveAnswer"}
    /\ \/ /\ archive' = [archive EXCEPT ![Key] = Added(@, InHand)]
          /\ pc' = IF InHand.kind = "user" THEN "liveUser" ELSE "liveAnswer"
          /\ excused' = IF Spoilt(archive[Key]) THEN excused \cup {InHand} ELSE excused
          /\ UNCHANGED short
       \/ /\ short < MaxShort /\ short' = short + 1
          /\ archive' = [archive EXCEPT ![Key] = Added(@, Torn)]
          /\ pc' = AfterAppend /\ excused' = excused \cup {InHand}
    /\ UNCHANGED <<live, channel, history, msgs, turn, rounds, kills, todo>>

WriteLive ==
    /\ pc \in {"liveUser", "liveAnswer"}
    /\ \/ /\ live' = [live EXCEPT ![Key] = Added(@, InHand)]
          /\ excused' = IF Spoilt(live[Key]) THEN excused \cup {InHand} ELSE excused
          /\ UNCHANGED short
       \/ /\ short < MaxShort /\ short' = short + 1
          /\ live' = [live EXCEPT ![Key] = Added(@, Torn)]
          /\ excused' = excused \cup Range(archive[Key])
    /\ pc' = AfterAppend
    /\ UNCHANGED <<archive, channel, history, msgs, turn, rounds, kills, todo>>

(* Before a request: the messages overflow, are compacted and written to live. *)
CompactFirst == /\ pc = "engine"
                /\ \E k \in 1..(Len(msgs) - 1) :
                      /\ Compacted(msgs, k) # msgs
                      /\ msgs' = Compacted(msgs, k)
                /\ todo' = msgs' /\ pc' = "truncate"
                /\ UNCHANGED <<archive, live, channel, history, turn, rounds, kills, short, excused>>

(* A round of tool calls; what it leaves may be compacted, and every          *)
(* FsyncInterval rounds of the process's life live is rewritten (fsyncSession). *)
ToolRound ==
    /\ pc = "engine" /\ rounds < MaxRounds /\ rounds' = rounds + 1
    /\ LET ms == Append(msgs, [Line("tools", turn) EXCEPT !.of = {}])
       IN  \E k \in 0..(Len(ms) - 1) : msgs' = Compacted(ms, k)
    /\ IF rounds' % FsyncInterval = 0
       THEN todo' = msgs' /\ pc' = "truncate" ELSE UNCHANGED <<todo, pc>>
    /\ UNCHANGED <<archive, live, channel, history, turn, kills, short, excused>>

(* ReplaceLive: os.Create empties the file, then a write for each message.    *)
Truncate == /\ pc = "truncate" /\ live' = [live EXCEPT ![Key] = <<>>] /\ pc' = "rewrite"
            /\ UNCHANGED <<archive, channel, history, msgs, turn, rounds, kills, short, todo, excused>>

RewriteLine ==
    /\ pc = "rewrite" /\ todo # <<>>
    /\ \/ /\ live' = [live EXCEPT ![Key] = Append(@, Head(todo))] /\ todo' = Tail(todo)
          /\ UNCHANGED <<short, excused>>
       \/ /\ short < MaxShort /\ short' = short + 1
          /\ live' = [live EXCEPT ![Key] = Added(@, Torn)] /\ todo' = <<>>
          /\ excused' = excused \cup Range(archive[Key])
    /\ UNCHANGED <<archive, channel, history, msgs, pc, turn, rounds, kills>>

Rewritten == /\ pc = "rewrite" /\ todo = <<>> /\ pc' = "engine"
             /\ UNCHANGED <<archive, live, channel, history, msgs, turn, rounds, kills, short, todo, excused>>

(* Process returns: text that was streamed is saved, even after an error;     *)
(* with none there is nothing to save.                                        *)
Answer == /\ pc = "engine"
          /\ pc' \in {"archiveAnswer", "reload"}
          /\ UNCHANGED <<archive, live, channel, history, msgs, turn, rounds, kills, short, todo, excused>>

Reload == /\ pc = "reload" /\ history' = Readable(live[Key]) /\ pc' = "idle"
          /\ UNCHANGED <<archive, live, channel, msgs, turn, rounds, kills, short, todo, excused>>

(* The process is killed, or ends between turns; the next is started from any *)
(* channel.  A line of the archive that live has not got yet is lost to it;   *)
(* a kill during a rewrite may lose all.                                      *)
Kill == /\ pc # "start"
        /\ IF pc = "idle" THEN kills' = kills
           ELSE kills < MaxKills /\ kills' = kills + 1
        /\ excused' = IF pc = "rewrite" THEN excused \cup Range(archive[Key])
                      ELSE IF pc \in {"liveUser", "liveAnswer"} THEN excused \cup {InHand}
                      ELSE excused
        /\ channel' \in Channels /\ pc' = "start"
        /\ history' = <<>> /\ msgs' = <<>> /\ todo' = <<>>
        /\ UNCHANGED <<archive, live, turn, rounds, short>>

Next == \/ Load \/ TakeInput \/ WriteArchive \/ WriteLive \/ CompactFirst \/ ToolRound
        \/ Truncate \/ RewriteLine \/ Rewritten \/ Answer \/ Reload \/ Kill
Spec == Init /\ [][Next]_vars

---------------------------------------------------------------------------
(* At the start of a turn what the agent remembers accounts for everything    *)
(* that was said: each line of the archive is in the history or inside one of *)
(* its summaries, but for lines a fault took; nothing is there twice, and     *)
(* what was said is in order.                                                 *)
Remembered(l) == \E i \in DOMAIN history : l = history[i] \/ l \in history[i].of
Before(l, m) == \/ l.turn < m.turn
                \/ l.turn = m.turn /\ l.kind = "user" /\ m.kind = "answer"
HistoryKept ==
    pc = "idle" =>
      /\ \A l \in Range(archive[Key]) \ (excused \cup {Torn}) : Remembered(l)
      /\ \A i, j \in DOMAIN history :
            i < j /\ {history[i].kind, history[j].kind} \subseteq Said => Before(history[i], history[j])

(* Whatever happens to live, the archive has all that live was given to say.  *)
ArchiveFirst == \A l \in Range(live[Key]) : l.kind \in Said => l \in Range(archive[Key]) \cup excused

SessionSafe == HistoryKept /\ ArchiveFirst

=============================================================================
