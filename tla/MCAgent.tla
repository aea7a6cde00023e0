------------------------------- MODULE MCAgent -------------------------------
(* The picoagent process, for TLC: its loop (AgentProcess), a turn of its     *)
(* engine with either provider (AgentEngine), the conversation's files        *)
(* (AgentSession), sub-agents (SubAgents), MCP sessions (MCPClient) and the   *)
(* long-term memory (MemoryEvolution).  They share no state at this level:    *)
(* part says which of them, and of what kind, a behaviour is about, and the   *)
(* others stand still.                                                        *)
EXTENDS Naturals, Sequences, FiniteSets

CONSTANTS
  \* AgentProcess
  MaxMsgs,
  \* AgentEngine
  MaxIter, MaxOverflow, MaxRetries, MaxEmpty, MaxAttempts, MaxCalls, Sizes, Budget,
  \* AgentSession
  Channels, MaxTurns, MaxRounds, FsyncInterval, MaxKills, MaxShort,
  \* SubAgents
  Names, MaxAgents,
  \* MCPClient
  MCPCallers, Servers, MaxToolCalls, MaxBreaks,
  \* MemoryEvolution
  Writers, Texts, MemoryBudget, MaxWrites, MaxNow, MaxSaid, MaxCollect, MaxFaults

ASSUME AgentAssumption ==
    /\ {MaxMsgs, MaxTurns, MaxAgents, MaxToolCalls, MaxBreaks, MaxNow} \subseteq Nat
    /\ "agent" \in MCPCallers /\ "none" \notin MCPCallers
    /\ "engine" \in Writers

VARIABLES part,
  \* AgentProcess
  loop, attempts, pipe, reader, inHand, inputCh, stdinClosed, signal, sent, handled, why,
  changed, evolveCtx, audited,
  \* AgentEngine
  provider, pc, iter, over, retry, empty, tries, attempt, text, pending, msgs, executed, final, outcome,
  \* AgentSession
  archive, live, channel, history, turnMsgs, step, turn, rounds, kills, short, todo, excused,
  \* SubAgents
  agents, owner, state, cancelled, name, call, target, collectOutcome, collected,
  \* MCPClient
  sessions, last, closed, broken, registered, booting, mu, st, calls, breaks, ran,
  \* MemoryEvolution
  file, backups, now, job, said, evolved, writes, faults, wanted, good

processVars == <<loop, attempts, pipe, reader, inHand, inputCh, stdinClosed, signal, sent,
                 handled, why, changed, evolveCtx, audited>>
engineVars == <<provider, pc, iter, over, retry, empty, tries, attempt, text, pending, msgs,
                executed, final, outcome>>
sessionVars == <<archive, live, channel, history, turnMsgs, step, turn, rounds, kills, short, todo, excused>>
helperVars == <<agents, owner, state, cancelled, name, call, target, collectOutcome, collected>>
mcpVars == <<sessions, last, closed, broken, registered, booting, mu, st, calls, breaks, ran>>
memoryVars == <<file, backups, now, job, said, evolved, writes, faults, wanted, good>>
all == <<part, processVars, engineVars, sessionVars, helperVars, mcpVars, memoryVars>>

Process == INSTANCE AgentProcess WITH pc <- loop, closed <- stdinClosed
Engine == INSTANCE AgentEngine
Session == INSTANCE AgentSession WITH msgs <- turnMsgs, pc <- step
Helpers == INSTANCE SubAgents WITH outcome <- collectOutcome
MCP == INSTANCE MCPClient WITH MaxCalls <- MaxToolCalls, Callers <- MCPCallers
Memory == INSTANCE MemoryEvolution WITH Budget <- MemoryBudget

EngineParts == {"openai", "anthropic", "retried"}

-----------------------------------------------------------------------------
\* openai, anthropic, retried: with either provider; Anthropic's stream is
\* requested once in a while, or again by the provider's own loop.
AgentInit ==
    /\ part \in {"crowd", "calm", "session", "nested", "flat", "mcp", "memory"} \cup EngineParts
    /\ Process!Init /\ Engine!Init /\ Session!Init /\ Helpers!Init /\ MCP!Init /\ Memory!Init
    /\ provider = IF part = "openai" THEN "openai" ELSE "anthropic"

\* crowd: messages that arrive together; calm: each when the last was read.
ProcessPart == /\ part \in {"crowd", "calm"} /\ Process!Next
               /\ part = "calm" /\ sent' # sent => Process!LastRead
               /\ UNCHANGED <<part, engineVars, sessionVars, helperVars, mcpVars, memoryVars>>

EngineStep == Engine!Next /\ (part = "anthropic" => tries' <= 1)
EnginePart == /\ part \in EngineParts /\ EngineStep
              /\ UNCHANGED <<part, processVars, sessionVars, helperVars, mcpVars, memoryVars>>

SessionPart == /\ part = "session" /\ Session!Next
               /\ UNCHANGED <<part, processVars, engineVars, helperVars, mcpVars, memoryVars>>

\* nested: sub-agents spawn and collect too; flat: only the main agent does.
HelperPart == /\ part \in {"nested", "flat"} /\ Helpers!Next
              /\ part = "flat" => Helpers!OneCaller'
              /\ UNCHANGED <<part, processVars, engineVars, sessionVars, mcpVars, memoryVars>>

MCPPart == /\ part = "mcp" /\ MCP!Next
           /\ UNCHANGED <<part, processVars, engineVars, sessionVars, helperVars, memoryVars>>

\* One writer at a time.
MemoryPart == /\ part = "memory" /\ Memory!Next /\ Memory!OneAtATime'
              /\ UNCHANGED <<part, processVars, engineVars, sessionVars, helperVars, mcpVars>>

AgentNext == ProcessPart \/ EnginePart \/ SessionPart \/ HelperPart \/ MCPPart \/ MemoryPart

ProcessFairness ==
    /\ WF_processVars(part = "crowd" /\ Process!FetchConfig)
    /\ WF_processVars(part = "crowd" /\ (Process!TakeMessage \/ Process!Idle))
    /\ WF_processVars(part = "crowd" /\ (Process!SeeSignal \/ Process!HardExit))
    /\ WF_processVars(part = "crowd" /\ (Process!TurnEnds \/ Process!Evolve \/ Process!PostAudit))
EngineFairness == WF_engineVars(part \in EngineParts /\ EngineStep)
HelperFairness == \A c \in Helpers!Callers :
    WF_helperVars(part = "nested" /\ (Helpers!SeeDone(c) \/ Helpers!TimesOut(c) \/ Helpers!Drop(c)))
MCPFairness == \A c \in MCPCallers :
    /\ WF_mcpVars(part = "mcp" /\ MCP!Work(c))
    /\ SF_mcpVars(part = "mcp" /\ MCP!Install(c)) /\ SF_mcpVars(part = "mcp" /\ MCP!Lock(c))
AgentSpec == AgentInit /\ [][AgentNext]_all
             /\ ProcessFairness /\ EngineFairness /\ HelperFairness /\ MCPFairness

-----------------------------------------------------------------------------
(* AgentSession: what was said is remembered or summarised, once and in       *)
(* order, and the archive is ahead of the live file.                          *)
ConversationKept == part = "session" => Session!SessionSafe

(* AgentEngine: every request sent is well-formed, one last event; and the    *)
(* calls of one response are run together, unless it was asked for again.     *)
TurnSound == part \in EngineParts => /\ Engine!Answered /\ Engine!EndsOnce
                                     /\ part # "retried" => Engine!OneResponse

(* SubAgents and MCPClient: no sub-agent is forgotten while it works, each    *)
(* result goes to its caller; no session is closed under a call.              *)
HelpersSound == /\ part = "flat" => Helpers!Findable /\ Helpers!OwnResult
                /\ part = "mcp" => MCP!MCPClientSafe

(* AgentProcess: messages are handled in order, and all, when they do not     *)
(* crowd.                                                                     *)
InputInOrder == /\ part \in {"crowd", "calm"} => Process!InOrder
                /\ part = "calm" => Process!EveryMessageRead

(* MemoryEvolution: no memory is lost to a crash, no call undoes another.     *)
MemoryKept == part = "memory" => Memory!MemorySafe

(* A process ends, a turn ends, a Collect returns and an MCP call returns.    *)
AgentEnds == /\ part = "crowd" => Process!ProcessEnds
             /\ part \in EngineParts => Engine!Ends
             /\ part = "nested" => Helpers!CollectReturns
             /\ part = "mcp" => MCP!MCPCallsEnd
=============================================================================
