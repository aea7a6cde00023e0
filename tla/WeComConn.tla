------------------------------ MODULE WeComConn ------------------------------
(* im/wecom.go: the WebSocket of a user's WeCom bot.  connectLoop dials and    *)
(* subscribes; then a heartbeat and the read loop run beside each other, and   *)
(* Send writes on the same socket.  Each of them sends commands and waits for  *)
(* their acknowledgement, which the read loop takes from the socket.           *)
EXTENDS Naturals

CONSTANT MaxMessages    \* bound: messages from the bot's users

Commands == {"subscribe", "ping", "send"}

VARIABLES loop,         \* connectLoop, runConnection and readLoop
          conn,         \* uc.conn: the socket is open
          beat,         \* the heartbeat goroutine
          command,      \* what each writeAndWait does
          pending,      \* uc.pending
          wire,         \* acknowledgements on the socket
          messages,     \* messages so far
          inbox,        \* message_callbacks on the socket
          cancelled     \* RemoveUser, or AddUser of the next connection
vars == <<loop, conn, beat, command, pending, wire, messages, inbox, cancelled>>

Init == /\ loop = "dial" /\ conn = FALSE /\ beat = FALSE /\ cancelled = FALSE
        /\ command = [c \in Commands |-> "none"] /\ pending = {} /\ wire = {}
        /\ messages = 0 /\ inbox = 0

-----------------------------------------------------------------------------
(* writeAndWait                                                               *)

Write(c) == /\ pending' = pending \union {c}
            /\ command' = [command EXCEPT ![c] = "sent"]

\* WeCom acknowledges every command it gets.
Acknowledge(c) == /\ command[c] = "sent" /\ conn /\ c \notin wire /\ c \in pending
                  /\ wire' = wire \union {c}
                  /\ UNCHANGED <<loop, conn, beat, command, pending, messages, inbox, cancelled>>

\* Ten seconds are over only when the answer has come and nobody reads it, or
\* the socket is closed.
TimesOut(c) == /\ command[c] = "sent"
               /\ ~conn \/ (c \in wire /\ loop # "read")
               /\ command' = [command EXCEPT ![c] = "failed"]
               /\ pending' = pending \ {c}
               /\ UNCHANGED <<loop, conn, beat, wire, messages, inbox, cancelled>>

Cancelled(c) == /\ command[c] = "sent" /\ cancelled
                /\ command' = [command EXCEPT ![c] = "failed"]
                /\ pending' = pending \ {c}
                /\ UNCHANGED <<loop, conn, beat, wire, messages, inbox, cancelled>>

-----------------------------------------------------------------------------
(* connectLoop and runConnection                                              *)

\* A connection that works: the socket opens and the subscription is written.
Dial == /\ loop = "dial" /\ ~cancelled
        /\ conn' = TRUE /\ wire' = {} /\ inbox' = 0
        /\ Write("subscribe")
        /\ loop' = "subscribe"
        /\ UNCHANGED <<beat, messages, cancelled>>

Subscribed == /\ loop = "subscribe" /\ command["subscribe"] = "acknowledged"
              /\ loop' = "read" /\ beat' = TRUE
              /\ UNCHANGED <<conn, command, pending, wire, messages, inbox, cancelled>>

\* The deferred function closes the socket; the loop tries again.
NotSubscribed == /\ loop = "subscribe" /\ command["subscribe"] = "failed"
                 /\ conn' = FALSE
                 /\ loop' = IF cancelled THEN "ended" ELSE "dial"
                 /\ UNCHANGED <<beat, command, pending, wire, messages, inbox, cancelled>>

\* The heartbeat stops at its first failure.
Ping == /\ beat /\ ~cancelled
        /\ \/ command["ping"] \in {"none", "acknowledged"} /\ Write("ping") /\ UNCHANGED beat
           \/ command["ping"] = "failed" /\ beat' = FALSE /\ UNCHANGED <<command, pending>>
        /\ UNCHANGED <<loop, conn, wire, messages, inbox, cancelled>>

\* RemoveUser and stopConn.
Remove == /\ ~cancelled /\ cancelled' = TRUE
          /\ conn' = FALSE
          /\ loop' = IF loop = "dial" THEN "ended" ELSE loop
          /\ UNCHANGED <<beat, command, pending, wire, messages, inbox>>

-----------------------------------------------------------------------------
(* readLoop, and what a message does                                          *)

ReadAck(c) == /\ loop = "read" /\ conn /\ c \in wire
              /\ wire' = wire \ {c}
              /\ pending' = pending \ {c}
              /\ command' = IF c \in pending THEN [command EXCEPT ![c] = "acknowledged"] ELSE command
              /\ UNCHANGED <<loop, conn, beat, messages, inbox, cancelled>>

Message == /\ loop \in {"read", "handle"} /\ conn /\ messages < MaxMessages
           /\ messages' = messages + 1 /\ inbox' = inbox + 1
           /\ UNCHANGED <<loop, conn, beat, command, pending, wire, cancelled>>

\* handleIncoming runs in the read loop: the reply is sent from within it.
HandleIncoming == /\ loop = "read" /\ conn /\ inbox > 0
                  /\ inbox' = inbox - 1
                  /\ loop' = "handle"
                  /\ Write("send")
                  /\ UNCHANGED <<conn, beat, wire, messages, cancelled>>

Handled == /\ loop = "handle" /\ command["send"] # "sent"
           /\ loop' = "read"
           /\ UNCHANGED <<conn, beat, command, pending, wire, messages, inbox, cancelled>>

ReadEnds == /\ loop = "read" /\ ~conn
            /\ loop' = "ended" /\ beat' = FALSE
            /\ UNCHANGED <<conn, command, pending, wire, messages, inbox, cancelled>>

-----------------------------------------------------------------------------
Step == \/ Dial \/ Subscribed \/ NotSubscribed \/ Ping \/ HandleIncoming \/ Handled \/ ReadEnds
        \/ \E c \in Commands : Acknowledge(c) \/ TimesOut(c) \/ Cancelled(c) \/ ReadAck(c)
Next == Step \/ Remove \/ Message
\* The goroutines run and WeCom answers.
Spec == Init /\ [][Next]_vars /\ WF_vars(Step)

TypeOK == /\ loop \in {"dial", "subscribe", "read", "handle", "ended"}
          /\ command \in [Commands -> {"none", "sent", "acknowledged", "failed"}]
          /\ pending \subseteq Commands /\ wire \subseteq Commands

\* A bot that WeCom answers gets its subscription ("WeCom WebSocket connected
\* and subscribed", wecom.go:245), unless the user takes it away.
BotSubscribes == loop = "dial" ~> loop = "read" \/ cancelled
=============================================================================
