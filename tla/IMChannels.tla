------------------------------ MODULE IMChannels ------------------------------
(* A user's IM channel: its row in user_channels (web/channels.go,            *)
(* store/channels.go), the provider's connection made from it (im/dingtalk.go,*)
(* im/feishu.go) and the messages that arrive on one (web/integration.go).    *)
(* The two providers have the same shape; DingTalk also needs the webhook of  *)
(* a conversation to write to it, and knows a message that is pushed again.   *)
(* Each message is of a conversation of its own and names it.                 *)
EXTENDS Naturals, FiniteSets

CONSTANTS Creds,        \* credentials
          Messages, Saves,
          MaxConns,     \* bound: connections
          MaxCrashes    \* bound: restarts of the server

None == "none"
Conns == 1..MaxConns
Pushes == Messages \X {1, 2}    \* a message and its repetition
Idle == [at |-> "idle", on |-> 0, saw |-> None]

VARIABLES provider,     \* of the channel
          row,          \* user_channels
          up, crashes,
          made,         \* connections so far
          conns,        \* provider.conns of the user; 0 when it has none
          conn,         \* each connection
          seen,         \* processedMsgIds
          push,         \* the steps of onUserMessage
          runs,         \* times a message was handed on, in this process
          save,         \* the steps of a save
          overlapped    \* a save met another save, or the rewriting of the row
vars == <<provider, row, up, crashes, made, conns, conn, seen, push, runs, save, overlapped>>

DingTalk == provider = "dingtalk"
Configured(r) == r.on /\ r.cred # None
Saving == {s \in Saves : save[s].at \in {"row", "connect"}}
Rewriting == {d \in Pushes : push[d].at = "write"}

Init == /\ provider \in {"dingtalk", "feishu"}
        /\ row \in [on : BOOLEAN, cred : Creds \union {None}, chat : {None}, hook : {None}]
        /\ up = FALSE /\ crashes = 0 /\ made = 0 /\ conns = 0 /\ seen = {}
        /\ conn = [k \in Conns |-> [cred |-> None, live |-> FALSE, default |-> None, chats |-> {}]]
        /\ push = [d \in Pushes |-> Idle] /\ runs = [m \in Messages |-> 0]
        /\ save = [s \in Saves |-> [at |-> "idle", on |-> FALSE, cred |-> None]]
        /\ overlapped = FALSE

-----------------------------------------------------------------------------
(* The provider                                                               *)

\* AddUser, under the provider's lock: the old connection is stopped.
AddUser(cred, chat, chats) ==
    LET k == made + 1 IN
    /\ made < MaxConns
    /\ made' = k /\ conns' = k
    /\ conn' = [j \in Conns |->
          IF j = k THEN [cred |-> cred, live |-> TRUE, default |-> chat, chats |-> chats]
          ELSE IF j = conns THEN [conn[j] EXCEPT !.live = FALSE] ELSE conn[j]]

RemoveUser == /\ conns' = 0
              /\ conn' = [j \in Conns |-> IF j = conns THEN [conn[j] EXCEPT !.live = FALSE] ELSE conn[j]]
              /\ UNCHANGED made

\* A start that takes the conversation from the row without its webhook.
Boot_forgets ==
    /\ ~up /\ up' = TRUE
    /\ IF Configured(row) THEN AddUser(row.cred, row.chat, {}) ELSE UNCHANGED <<made, conns, conn>>
    /\ UNCHANGED <<row, crashes, seen, push, runs, save, overlapped>>

\* initAgentIntegration and the gateway's Start: the connection of a row that
\* is on and complete, with SetUserWebhook's conversation.
Boot == /\ ~up /\ up' = TRUE
        /\ IF Configured(row)
           THEN AddUser(row.cred, row.chat, IF DingTalk /\ row.hook # None THEN {row.chat} ELSE {})
           ELSE UNCHANGED <<made, conns, conn>>
        /\ UNCHANGED <<row, crashes, seen, push, runs, save, overlapped>>

Crash == /\ up /\ crashes < MaxCrashes
         /\ up' = FALSE /\ crashes' = crashes + 1
         /\ conns' = 0 /\ seen' = {} /\ runs' = [m \in Messages |-> 0]
         /\ conn' = [k \in Conns |-> [conn[k] EXCEPT !.live = FALSE]]
         /\ push' = [d \in Pushes |-> IF push[d].at = "idle" THEN Idle ELSE [Idle EXCEPT !.at = "done"]]
         /\ save' = [s \in Saves |-> IF s \in Saving THEN [save[s] EXCEPT !.at = "done"] ELSE save[s]]
         /\ UNCHANGED <<row, made, overlapped>>

-----------------------------------------------------------------------------
(* handleChannelConfigFieldsSave                                              *)

\* The form's fields, and the switch of the row if the form has none.
Save(s, on, cred) ==
    /\ up /\ save[s].at = "idle"
    /\ save' = [save EXCEPT ![s] = [at |-> "row", cred |-> cred,
                                    on |-> IF on = "kept" THEN row.on ELSE on = "on"]]
    /\ overlapped' = (overlapped \/ Saving # {} \/ Rewriting # {})
    /\ UNCHANGED <<row, up, crashes, made, conns, conn, seen, push, runs>>

\* The credentials of the form replace all of them: what handleIMMessage has
\* put beside them is gone.  A row that cannot be written ends the request.
Upsert(s) ==
    /\ save[s].at = "row"
    /\ \/ /\ row' = [on |-> save[s].on, cred |-> save[s].cred, chat |-> None, hook |-> None]
          /\ save' = [save EXCEPT ![s].at = "connect"]
       \/ /\ save' = [save EXCEPT ![s].at = "done"]
          /\ UNCHANGED row
    /\ UNCHANGED <<up, crashes, made, conns, conn, seen, push, runs, overlapped>>

Connect(s) ==
    /\ save[s].at = "connect"
    /\ IF Configured(save[s]) THEN AddUser(save[s].cred, None, {}) ELSE RemoveUser
    /\ save' = [save EXCEPT ![s].at = "done"]
    /\ UNCHANGED <<row, up, crashes, seen, push, runs, overlapped>>

-----------------------------------------------------------------------------
(* onUserMessage and handleIMMessage                                          *)

To(d, where) == push' = [push EXCEPT ![d].at = where]

\* The platform pushes a message, again when it has no answer in time.
Receive(d, k) ==
    /\ push[d].at = "idle" /\ conn[k].live
    /\ d[2] = 2 => push[<<d[1], 1>>].at # "idle"
    /\ IF DingTalk /\ d[1] \in seen
       THEN push' = [push EXCEPT ![d].at = "done"] /\ UNCHANGED seen
       ELSE /\ push' = [push EXCEPT ![d].at = "chat", ![d].on = k]
            /\ seen' = seen \union {d[1]}
    /\ UNCHANGED <<row, up, crashes, made, conns, conn, runs, save, overlapped>>

\* The conversation is stored in the connection before the message is handed on.
StoreChat(d) ==
    LET k == push[d].on IN
    /\ push[d].at = "chat"
    /\ conn' = [conn EXCEPT ![k].chats = @ \union {d[1]}, ![k].default = d[1]]
    /\ runs' = [runs EXCEPT ![d[1]] = @ + 1]
    /\ To(d, "read")
    /\ UNCHANGED <<row, up, crashes, made, conns, seen, save, overlapped>>

ReadRow(d) ==
    LET changed == row.chat # d[1] \/ (DingTalk /\ row.hook # d[1]) IN
    /\ push[d].at = "read"
    /\ push' = [push EXCEPT ![d].at = IF changed THEN "write" ELSE "run", ![d].saw = row]
    /\ overlapped' = (overlapped \/ (changed /\ Saving # {}))
    /\ UNCHANGED <<row, up, crashes, made, conns, conn, seen, runs, save>>

\* The whole row, as it was read.
WriteRow(d) ==
    LET saw == push[d].saw IN
    /\ push[d].at = "write"
    /\ row' = [saw EXCEPT !.chat = d[1], !.hook = IF DingTalk THEN d[1] ELSE @]
    /\ push' = [push EXCEPT ![d].at = "run", ![d].saw = None]
    /\ UNCHANGED <<up, crashes, made, conns, conn, seen, runs, save, overlapped>>

\* After the run (IMReply) the gateway's Send looks for the conversation among
\* the provider's connections.
Reply(d) == /\ push[d].at = "run"
            /\ push' = [push EXCEPT ![d].at = IF conns # 0 /\ d[1] \in conn[conns].chats
                                              THEN "replied" ELSE "lost"]
            /\ UNCHANGED <<row, up, crashes, made, conns, conn, seen, runs, save, overlapped>>

-----------------------------------------------------------------------------
Next == /\ \/ Boot \/ Crash
           \/ \E s \in Saves : \/ Upsert(s) \/ Connect(s)
                               \/ \E on \in {"on", "off", "kept"}, c \in Creds \union {None} : Save(s, on, c)
           \/ \E d \in Pushes : \/ StoreChat(d) \/ ReadRow(d) \/ WriteRow(d) \/ Reply(d)
                                \/ \E k \in Conns : Receive(d, k)
        /\ UNCHANGED provider
Spec == Init /\ [][Next]_vars

-----------------------------------------------------------------------------
(* Properties                                                                 *)

TypeOK == /\ conns \in 0..made /\ made \in 0..MaxConns
          /\ \A k \in Conns : conn[k].chats \subseteq Messages
          /\ \A d \in Pushes : push[d].at \in {"idle", "chat", "read", "write", "run", "replied", "lost", "done"}

\* The user has one connection, or none, and while saves do not run into each
\* other or into a message it is the one that the row asks for.
ConnectionFollows ==
    /\ {k \in Conns : conn[k].live} = {conns} \ {0}
    /\ up /\ ~overlapped /\ Saving = {} =>
          /\ conns # 0 <=> Configured(row)
          /\ conns # 0 => conn[conns].cred = row.cred

\* A message that DingTalk pushes again is handed on once.
HandledOnce == DingTalk => \A m \in Messages : runs[m] <= 1

\* A reply finds its conversation unless the connection it came from has been
\* replaced meanwhile.
RepliesReach == \A d \in Pushes : push[d].at \in {"read", "write", "run"} /\ push[d].on = conns =>
                                      d[1] \in conn[conns].chats

\* The conversation that a cron job's result is sent to can be written to,
\* after a restart too.
ResultsReach == \A k \in Conns : DingTalk /\ conn[k].default # None => conn[k].default \in conn[k].chats

\* A conversation that the connection knows is in the row as well once the
\* message has been handed on, so that a restart finds it.
ChatPersisted ==
    conns # 0 /\ conn[conns].default # None /\ ~overlapped /\ Saving = {}
        /\ (\A d \in Pushes : push[d].at \notin {"read", "write"}) =>
    /\ row.chat # None
    /\ DingTalk => row.hook = row.chat

ChannelsSound == ConnectionFollows /\ HandledOnce /\ RepliesReach /\ ResultsReach /\ ChatPersisted
=============================================================================
