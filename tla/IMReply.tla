------------------------------- MODULE IMReply -------------------------------
(***************************************************************************)
(* The answer to an instant message: handleIMMessage of                    *)
(* internal/web/integration.go subscribes to the chat run it started and   *)
(* forwards its text to the platform, piece by piece at tool calls when    *)
(* the channel streams, else at the end.  The run (chatRun.append, finish) *)
(* goes on while the handler sends; the channel of tokens between the two  *)
(* is that of module ChatStream, with one subscriber.                      *)
(***************************************************************************)
EXTENDS Naturals, Sequences, FiniteSets

CONSTANTS MaxEvents,    \* bound: events of the run
          NotifCap,     \* capacity of the notification channel, 64
          Streams,      \* the channel's setting "stream"
          Errors        \* bound: error events of the run

Kinds == {"text_delta", "tool_call_start", "error"}

VARIABLES events,     \* chatRun.events: their kinds
          done,       \* the run is finished
          closed,     \* the handler's channel is closed
          tokens,     \* tokens in the channel
          pc,         \* the handler: "start", "existing", "wait", "batch",
                      \* "rest" or "replied"
          cursor,     \* events the handler has taken
          handled,    \* those of them its loop is done with
          full,       \* fullResponse, as positions of its texts
          lastSent,   \* how much of it was sent as a piece
          out         \* what it handed to the platform: a send that
                      \* fails is logged and not repeated

vars == <<events, done, closed, tokens, pc, cursor, handled, full, lastSent, out>>

Error == 0     \* in out: "an error happened"

Init == /\ events = <<>> /\ full = <<>> /\ out = <<>>
        /\ done = FALSE /\ closed = FALSE /\ tokens = 0
        /\ pc = "start"
        /\ cursor = 0 /\ handled = 0 /\ lastSent = 0

Subscribed == pc # "start"
Failures == {i \in 1..Len(events) : events[i] = "error"}

-----------------------------------------------------------------------------
(* The run                                                                 *)

AppendEvent(kind) ==
    /\ ~done /\ Len(events) < MaxEvents
    /\ kind = "error" => Cardinality(Failures) < Errors
    /\ events' = Append(events, kind)
    /\ tokens' = IF Subscribed /\ tokens < NotifCap THEN tokens + 1 ELSE tokens
    /\ UNCHANGED <<done, closed, pc, cursor, handled, full, lastSent, out>>

Finish == /\ ~done
          /\ done' = TRUE
          /\ closed' = Subscribed
          /\ UNCHANGED <<events, tokens, pc, cursor, handled, full, lastSent, out>>

-----------------------------------------------------------------------------
(* The handler                                                             *)

\* A subscription to a run that is over, whose channel nobody will close.
Subscribe_ignoresDone ==
    /\ pc = "start"
    /\ pc' = "existing"
    /\ cursor' = Len(events)
    /\ tokens' = IF ~done /\ events # <<>> THEN 1 ELSE 0
    /\ UNCHANGED <<events, done, closed, handled, full, lastSent, out>>

Subscribe == /\ pc = "start"
             /\ pc' = "existing"
             /\ cursor' = Len(events)
             /\ tokens' = IF ~done /\ events # <<>> THEN 1 ELSE 0
             /\ closed' = done
             /\ UNCHANGED <<events, done, handled, full, lastSent, out>>

\* A token: all events since the cursor.
Wake == /\ pc = "wait" /\ tokens > 0
        /\ tokens' = tokens - 1
        /\ cursor' = Len(events)
        /\ pc' = "batch"
        /\ UNCHANGED <<events, done, closed, handled, full, lastSent, out>>

\* The channel is closed and empty: the events that are left.
Closed == /\ pc = "wait" /\ closed /\ tokens = 0
          /\ cursor' = Len(events)
          /\ pc' = "rest"
          /\ UNCHANGED <<events, done, closed, tokens, handled, full, lastSent, out>>

NextEvent == events[handled + 1]
KeepText == full' = IF NextEvent = "text_delta" THEN Append(full, handled + 1) ELSE full
Rest == SubSeq(full, lastSent + 1, Len(full))

\* Of the events that were there before the handler subscribed, and of those
\* left at the close, the texts only.
HandleText == /\ pc \in {"existing", "rest"} /\ handled < cursor
              /\ KeepText
              /\ handled' = handled + 1
              /\ UNCHANGED <<events, done, closed, tokens, pc, cursor, lastSent, out>>

\* A text is kept; it goes out when a tool is called, or with an error.
HandleEvent ==
    /\ pc = "batch" /\ handled < cursor
    /\ KeepText
    /\ IF Streams /\ NextEvent = "tool_call_start"
       THEN out' = out \o Rest /\ lastSent' = Len(full)
       ELSE /\ out' = IF NextEvent = "error" THEN out \o Rest \o <<Error>> ELSE out
            /\ UNCHANGED lastSent
    /\ handled' = handled + 1
    /\ UNCHANGED <<events, done, closed, tokens, pc, cursor>>

EndBatch == /\ pc \in {"existing", "batch"} /\ handled = cursor
            /\ pc' = "wait"
            /\ UNCHANGED <<events, done, closed, tokens, cursor, handled, full, lastSent, out>>

\* A loop that returns at the close of the channel without sending the rest.
Return_silent == /\ pc = "rest" /\ handled = cursor
                 /\ UNCHANGED out
                 /\ pc' = "replied"
                 /\ UNCHANGED <<events, done, closed, tokens, cursor, handled, full, lastSent>>

\* What of the whole answer was not sent.
Return == /\ pc = "rest" /\ handled = cursor
          /\ out' = out \o Rest
          /\ pc' = "replied"
          /\ UNCHANGED <<events, done, closed, tokens, cursor, handled, full, lastSent>>

-----------------------------------------------------------------------------
Handler == Subscribe \/ Wake \/ Closed \/ HandleText \/ HandleEvent \/ EndBatch \/ Return
Next == \/ \E kind \in Kinds : AppendEvent(kind)
        \/ Finish \/ Handler

Spec == Init /\ [][Next]_vars

\* The handler's goroutine runs.  The run may go on for ever.
Fairness == WF_vars(Handler)
LiveSpec == Spec /\ Fairness

-----------------------------------------------------------------------------
(* Properties                                                              *)

Failed == Failures # {}
TextsTo(n) == {i \in 1..n : events[i] = "text_delta"}

TypeOK == /\ events \in Seq(Kinds) /\ Len(events) <= MaxEvents
          /\ done \in BOOLEAN /\ closed \in BOOLEAN /\ (closed => done) /\ tokens \in 0..NotifCap
          /\ pc \in {"start", "existing", "wait", "batch", "rest", "replied"}
          /\ cursor \in 0..Len(events) /\ handled \in 0..cursor
          /\ full \in Seq(1..MaxEvents) /\ lastSent \in 0..Len(full)
          /\ out \in Seq(0..MaxEvents)

\* The handler puts together the texts of the run in order, and when it returns
\* the platform has got all of them, whatever errors the run reports; without
\* an error each of them once and in order ("the run is over, deal with the
\* remaining events", integration.go:228).
Answered == /\ {full[i] : i \in 1..Len(full)} = TextsTo(handled)
            /\ \A i, j \in 1..Len(full) : i < j => full[i] < full[j]
            /\ pc = "replied" => TextsTo(Len(events)) \subseteq {out[i] : i \in 1..Len(out)}
            /\ ~Failed => Len(out) <= Len(full) /\ \A i \in 1..Len(out) : out[i] = full[i]

\* An error of the run reaches the user, also one that is there already when
\* the handler subscribes ("deal with the events that exist already",
\* integration.go:212).
ErrorsReported == pc = "replied" =>
    (Failed => \E i \in 1..Len(out) : out[i] = Error)

\* A run that ends is answered: the handler returns.
Replies == done ~> pc = "replied"
=============================================================================
