---------------------------- MODULE AgentEngine ----------------------------
(* One call of Engine.Process with the provider it streams from: iterations,  *)
(* the two levels of retries, tool calls and their results, compaction under  *)
(* a token budget, and the events it must end with.                           *)
(* internal/agent/engine.go, provider.go, tool_registry.go, retry.go.         *)
EXTENDS Naturals, Sequences, FiniteSets, SequencesExt

CONSTANTS MaxIter,       \* iterations of a turn
          MaxOverflow,   \* retries after a context overflow (3)
          MaxRetries,    \* retries after another error (5)
          MaxEmpty,      \* retries after an empty response (3)
          MaxAttempts,   \* attempts the provider makes by itself (3)
          MaxCalls,      \* tool calls in a response
          Sizes,         \* tokens of a tool's result
          Budget         \* usable tokens

VARIABLES provider,      \* "openai" or "anthropic", of the user's configuration
          pc, iter, over, retry, empty, tries,
          attempt,       \* number of the stream that is read
          text, pending, \* what the callback has gathered of the response
          msgs,          \* messages of the turn
          executed, final, outcome

counters == <<iter, over, retry, empty, tries, attempt>>
result == <<executed, final, outcome>>
vars == <<provider, pc, counters, text, pending, msgs, result>>

Msg(role, ids, size) == [role |-> role, ids |-> ids, size |-> size]
Tokens(ms) == LET sum[i \in 0..Len(ms)] == IF i = 0 THEN 0 ELSE sum[i - 1] + ms[i].size
              IN  sum[Len(ms)]
TailOf(ms, i) == SubSeq(ms, i, Len(ms))

Init == /\ provider \in {"openai", "anthropic"}
        /\ pc = "iterate" /\ iter = 0 /\ over = 0 /\ retry = 0 /\ empty = 0 /\ tries = 0
        /\ attempt = 1 /\ text = <<>> /\ pending = <<>> /\ msgs = <<Msg("user", {}, 1)>>
        /\ executed = FALSE /\ final = <<>> /\ outcome = <<>>

(* compactLLMMessages: the longest tail within four fifths of the budget, and *)
(* at least the last message, is kept; the rest becomes a summary.  The       *)
(* summary never fails (generateSummary falls back), so trimMessages never    *)
(* runs.                                                                      *)
Compacted(ms) ==
    IF Len(ms) <= 2 THEN ms
    ELSE LET fitting == {i \in DOMAIN ms : i = Len(ms) \/ Tokens(TailOf(ms, i)) <= (Budget * 4) \div 5}
             start == Min(fitting)
         IN  IF start = 1 THEN ms
             ELSE <<Msg("summary", {}, 1)>> \o TailOf(ms, start)

(* The loops around it make up to ten passes until the messages are below the *)
(* budget.  With a summary within the fifth left to it the second pass finds  *)
(* them below it, or two messages, and changes nothing.                       *)
Squeezed(ms) == Compacted(ms)

(* An iteration begins: messages over the budget are compacted (and stored,   *)
(* which AgentSession models).                                                *)
Iterate == /\ pc = "iterate" /\ iter < MaxIter
           /\ msgs' = IF Tokens(msgs) >= Budget THEN Squeezed(msgs) ELSE msgs
           /\ over' = 0 /\ retry' = 0 /\ tries' = 1 /\ attempt' = 1
           /\ text' = <<>> /\ pending' = <<>> /\ pc' = "stream"
           /\ UNCHANGED <<provider, iter, empty, result>>

OutOfIterations == /\ pc = "iterate" /\ iter = MaxIter /\ pc' = "finish"
                   /\ UNCHANGED <<provider, counters, text, pending, msgs, result>>

(* StreamChat hands over text as it comes; the parser of Anthropic's stream   *)
(* hands over a tool call at once, the other gathers them to the end.         *)
StreamText == /\ pc = "stream" /\ ~Contains(text, attempt)
              /\ text' = Append(text, attempt)
              /\ UNCHANGED <<provider, pc, counters, pending, msgs, result>>

CallId(n) == <<iter, attempt, n>>
StreamCall == /\ pc = "stream" /\ provider = "anthropic" /\ Len(pending) < MaxCalls
              /\ pending' = Append(pending, CallId(Len(pending)))
              /\ UNCHANGED <<provider, pc, counters, text, msgs, result>>

StreamEnds == /\ pc = "stream" /\ pc' = "answer"
              /\ \E n \in 0..(IF provider = "openai" THEN MaxCalls ELSE 0) :
                     pending' = pending \o [i \in 1..n |-> CallId(i)]
              /\ UNCHANGED <<provider, counters, text, msgs, result>>

(* Engine-level retry: what was gathered is thrown away.                      *)
Again(ms) == /\ msgs' = ms /\ text' = <<>> /\ pending' = <<>>
             /\ attempt' = attempt + 1 /\ tries' = 1
             /\ UNCHANGED <<provider, pc, iter, empty, result>>

GiveUp == /\ pc' = "done" /\ outcome' = outcome \o <<"error", "task_done">>
          /\ UNCHANGED <<provider, counters, text, pending, msgs, executed, final>>

(* A recoverable failure (refused, reset, 429, 5xx): retryStream calls again, *)
(* with the same callback, and keeps what the callback has gathered.          *)
ProviderRetries ==
    /\ pc = "stream"
    /\ tries < MaxAttempts /\ tries' = tries + 1 /\ attempt' = attempt + 1
    /\ UNCHANGED <<provider, pc, iter, over, retry, empty, text, pending, msgs, result>>

(* A failure that reaches the engine: not recoverable, the attempts used up,  *)
(* or the iteration's time over.                                              *)
EngineRetries ==
    /\ pc = "stream"
    /\ IF retry < MaxRetries THEN retry' = retry + 1 /\ over' = over /\ Again(msgs)
       ELSE GiveUp

(* The context is too long, says the provider; once the retries with          *)
(* compaction are used up it counts as any other error.  (A status of         *)
(* Anthropic below 500 is not looked at, so it never says so.)                *)
Overflows ==
    /\ pc = "stream" /\ provider = "openai"
    /\ IF over < MaxOverflow
       THEN over' = over + 1 /\ retry' = retry /\ Again(Squeezed(msgs))
       ELSE IF retry < MaxRetries THEN retry' = retry + 1 /\ over' = over /\ Again(msgs)
       ELSE GiveUp

(* The response: with calls they are run; with text alone it is the answer;   *)
(* an empty one is asked for again, three times.                              *)
Answer ==
    /\ pc = "answer"
    /\ \/ /\ pending # <<>> /\ pc' = "tools"
          /\ msgs' = Append(msgs, Msg("assistant", Range(pending), 1))
          /\ UNCHANGED <<iter, empty, final>>
       \/ /\ pending = <<>> /\ (text # <<>> \/ empty >= MaxEmpty)
          /\ final' = text /\ pc' = "finish"
          /\ UNCHANGED <<iter, empty, msgs>>
       \/ /\ pending = <<>> /\ text = <<>> /\ empty < MaxEmpty
          /\ empty' = empty + 1 /\ iter' = iter + 1 /\ pc' = "iterate"
          /\ UNCHANGED <<msgs, final>>
    /\ UNCHANGED <<provider, over, retry, tries, attempt, text, pending, executed, outcome>>

(* Mutant: a call that fails leaves no result.                                *)
ExecuteTool_failsSilently ==
    /\ pc = "tools" /\ pending # <<>> /\ pending' = Tail(pending)
    /\ \E s \in Sizes : msgs' = IF s > 1 THEN msgs ELSE Append(msgs, Msg("tool", {Head(pending)}, s))
    /\ UNCHANGED <<provider, pc, counters, text, result>>

(* A tool is run; an unknown tool, an error and a panic have a result too.    *)
ExecuteTool ==
    /\ pc = "tools" /\ pending # <<>> /\ pending' = Tail(pending)
    /\ \E s \in Sizes : msgs' = Append(msgs, Msg("tool", {Head(pending)}, s))
    /\ UNCHANGED <<provider, pc, counters, text, result>>

(* The iteration ends: from half of the budget on, the messages are compacted. *)
TurnDone == /\ pc = "tools" /\ pending = <<>>
            /\ msgs' = IF Tokens(msgs) < Budget \div 2 THEN msgs ELSE Squeezed(msgs)
            /\ executed' = TRUE /\ iter' = iter + 1 /\ pc' = "iterate"
            /\ UNCHANGED <<provider, over, retry, empty, tries, attempt, text, pending, final, outcome>>

(* The end: an answer, a stand-in for one after tool calls, or an error.      *)
Finish == /\ pc = "finish" /\ pc' = "done"
          /\ outcome' = outcome \o (IF final = <<>> /\ ~executed THEN <<"error", "task_done">>
                                    ELSE <<"finish", "task_done">>)
          /\ UNCHANGED <<provider, counters, text, pending, msgs, executed, final>>

Next == \/ Iterate \/ OutOfIterations \/ StreamText \/ StreamCall \/ StreamEnds
        \/ ProviderRetries \/ EngineRetries \/ Overflows
        \/ Answer \/ ExecuteTool \/ TurnDone \/ Finish
(* A stream ends or fails: the HTTP client and the iteration have deadlines.  *)
Spec == Init /\ [][Next]_vars /\ WF_vars(Next)

---------------------------------------------------------------------------
(* A request the model is sent is well-formed: every tool call in it has      *)
(* exactly one result, behind it.                                             *)
Answered == pc = "stream" =>
    \A i \in DOMAIN msgs : msgs[i].role = "assistant" =>
        \A id \in msgs[i].ids :
            Cardinality({j \in (i + 1)..Len(msgs) : msgs[j].role = "tool" /\ id \in msgs[j].ids}) = 1

(* The tool calls that are run come from one stream: no call of a response    *)
(* that was retried is run with those of the next.  (Holds for the            *)
(* OpenAI-compatible provider, and while Anthropic's need not try again.)     *)
OneResponse == pc = "tools" => \A i, j \in DOMAIN pending : pending[i][2] = pending[j][2]

(* The last event is task_done, sent once, behind the answer or an error.     *)
EndsOnce == outcome \in {<<>>, <<"finish", "task_done">>, <<"error", "task_done">>}

(* Whatever the provider does, a turn ends.                                   *)
Ends == <>(pc = "done")
=============================================================================
