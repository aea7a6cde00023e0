------------------------------- MODULE MCChat -------------------------------
(***************************************************************************)
(* The chat path of internal/web for TLC: the runs of a user (ChatRuns),   *)
(* the events of one run and their streams (ChatStream) and the answer to  *)
(* an instant message (IMReply).  The three look at the same code from     *)
(* three sides and share no state here: part says which of them, and of    *)
(* what kind, a behaviour is about, and the others stand still.            *)
(***************************************************************************)
EXTENDS ChatRuns, Sequences

CONSTANTS OneSender,              \* of Senders: the one that sends when messages come one by one
          FewRuns,                \* bound: messages that are sent at once
          \* of ChatStream
          Clients, NumEvents, Hidden, MaxEvents, NotifCap,
          FewEvents,              \* bound: events of a run that is found stale
          \* of IMReply
          Streams, Errors, MaxReplyEvents, ReplyCap

ASSUME ChatAssumption == /\ OneSender \in Senders
                         /\ {NumEvents, MaxEvents, NotifCap, Errors, MaxReplyEvents, ReplyCap} \subseteq Nat
                         /\ Streams \in BOOLEAN

VARIABLES part,
          \* ChatStream
          producer, produced, events, streamDone, subs, listed, streamCleaner, crashed,
          pc, notif, closed, next, upto, ending, sent,
          \* IMReply
          runEvents, runDone, channelClosed, tokens, handler, cursor, handled, full,
          lastSent, out

runsVars == vars
streamVars == <<producer, produced, events, streamDone, subs, listed, streamCleaner,
                crashed, pc, notif, closed, next, upto, ending, sent>>
replyVars == <<runEvents, runDone, channelClosed, tokens, handler, cursor, handled, full,
               lastSent, out>>
all == <<part, runsVars, streamVars, replyVars>>

Stream == INSTANCE ChatStream WITH done <- streamDone, cleaner <- streamCleaner
Reply == INSTANCE IMReply WITH
    MaxEvents <- MaxReplyEvents, NotifCap <- ReplyCap,
    events <- runEvents, done <- runDone, closed <- channelClosed, pc <- handler

-----------------------------------------------------------------------------
ChatInit == /\ part \in {"runs", "busy", "stream", "stale", "reply"}
            /\ Init /\ Stream!Init /\ Reply!Init

\* runs: messages one after another, no run outlives half an hour; busy:
\* requests that send at once, and runs that do.
RunsPart == /\ part \in {"runs", "busy"} /\ Next
            /\ part = "runs" => cleaner' = 0 /\ \A s \in Senders \ {OneSender} : send'[s] = Idle
            /\ part = "busy" => started' <= FewRuns
            /\ UNCHANGED <<part, streamVars, replyVars>>

\* stream: a run that is never taken for stale; stale: one that may be.
StreamPart == /\ part \in {"stream", "stale"} /\ Stream!Next
              /\ part = "stream" => streamCleaner' = "idle"
              /\ part = "stale" => produced' <= FewEvents
              /\ UNCHANGED <<part, runsVars, replyVars>>

ReplyPart == /\ part = "reply" /\ Reply!Next
             /\ UNCHANGED <<part, runsVars, streamVars>>

ChatNext == RunsPart \/ StreamPart \/ ReplyPart

\* The fairness of each module, for the part it is.
ChatFairness ==
    /\ \A s \in Senders : /\ WF_runsVars(part = "busy" /\ started < FewRuns /\ CreateRun(s))
                          /\ WF_runsVars(part = "busy" /\ RegisterRun(s))
    /\ \A r \in 1..FewRuns : /\ WF_runsVars(part = "busy" /\ SandboxKilled(r))
                             /\ WF_runsVars(part = "busy" /\ FinishRun(r))
                             /\ WF_runsVars(part = "busy" /\ Persist(r))
                             /\ WF_runsVars(part = "busy" /\ Forget(r))
    /\ WF_runsVars(part = "busy" /\ FinishStale)
    /\ \A c \in Clients : WF_streamVars(part \in {"stream", "stale"} /\ Stream!Running(c))
    /\ WF_replyVars(part = "reply" /\ Reply!Handler)

ChatSpec == ChatInit /\ [][ChatNext]_all /\ ChatFairness

-----------------------------------------------------------------------------
(* The properties of the parts                                             *)

\* ChatRuns!Reachable and Streamable, for messages sent one after another.
OneAfterAnother == part = "runs" => Reachable /\ Streamable

\* ChatRuns!CancelledEnds, for messages sent at once.
StoppedEnds == \A r \in 1..FewRuns :
    part = "busy" /\ r \in cancelled ~> part = "busy" /\ r \in done /\ ~Alive(r)

\* ChatStream!SentInOrder, with or without the cleaner.
SentInOrder == part \in {"stream", "stale"} => Stream!SentInOrder

\* ChatStream!NoPanic: without the cleaner no channel is used once closed.
NoPanic == part = "stream" => Stream!NoPanic

\* ChatStream!ImplementsLog: the streams of a run implement ChatLog.
ImplementsLog == /\ part = "stream" => Stream!Log!Init
                 /\ [][part = "stream" => [Stream!Log!Next]_(Stream!Log!vars)]_all

\* ChatStream!KeepsUp and StreamsEnd: what was appended reaches every
\* connection that stays, and none hangs on a run that is over.
StreamsServed == /\ part = "stream" => Stream!KeepsUp
                 /\ part \in {"stream", "stale"} => Stream!StreamsEnd

\* IMReply!Answered: the platform gets the whole answer, once if nothing failed.
Answered == part = "reply" => Reply!Answered

\* IMReply!Replies: a run that ends is answered.
Replies == part = "reply" => Reply!Replies
=============================================================================
