----------------------------- MODULE AgentProofs -----------------------------
(* Theorems about a picoagent process: its loop, a turn of its engine, its    *)
(* sub-agents and MCP sessions, and its long-term memory, for every value of  *)
(* MCAgent's constants.  Each component has an inductive invariant of its     *)
(* own; a step of the others leaves its variables alone.                      *)
EXTENDS MCAgent, SequenceTheorems, FiniteSetTheorems, WellFoundedInduction, TLAPS

-----------------------------------------------------------------------------
(* AgentProcess: where the messages are on their way, from the pipe over the  *)
(* reading goroutine and its channel to the loop.                             *)

ProcessTypes ==
    /\ MaxMsgs \in Nat /\ sent \in 0..MaxMsgs
    /\ pipe \in Seq(0..MaxMsgs) /\ inputCh \in Seq(0..(MaxMsgs + 1)) /\ handled \in Seq(1..MaxMsgs)
    /\ reader \in {"none", "read", "hand", "gone"} /\ inHand \in 0..(MaxMsgs + 1)
    /\ Len(inputCh) <= 1

InHands == reader = "hand"

\* A message is read in its turn: whatever is behind it is later, if it can be read.
Queued == /\ \A i, j \in 1..Len(pipe) : i < j /\ pipe[j] # 0 => pipe[i] < pipe[j]
          /\ \A j \in 1..Len(pipe) : pipe[j] <= sent
          /\ InHands => \A j \in 1..Len(pipe) : pipe[j] # 0 => inHand < pipe[j]
          /\ inputCh # <<>> => \A j \in 1..Len(pipe) : pipe[j] # 0 => inputCh[1] < pipe[j]
          /\ inputCh # <<>> /\ InHands /\ inHand # 0 => inputCh[1] < inHand

\* What is handled came before all that is on its way.
Passed == \A i \in 1..Len(handled) :
              /\ handled[i] <= sent
              /\ \A j \in 1..Len(pipe) : pipe[j] # 0 => handled[i] < pipe[j]
              /\ InHands /\ inHand # 0 => handled[i] < inHand
              /\ inputCh # <<>> /\ inputCh[1] # 0 => handled[i] < inputCh[1]

\* The end of the input is behind everything.
AtEnd == /\ InHands => inHand <= sent \/ (inHand = MaxMsgs + 1 /\ stdinClosed /\ pipe = <<>>)
         /\ inputCh # <<>> => \/ inputCh[1] <= sent
                              \/ inputCh[1] = MaxMsgs + 1 /\ stdinClosed /\ pipe = <<>> /\ reader = "gone"

Flow == ProcessTypes /\ Queued /\ Passed /\ AtEnd /\ Process!InOrder

\* Nothing is read before the configuration is there.
ReadsLater == loop = "start" => reader = "none"

\* If each message was sent when the last was read, none is lost on its way.
InHandCount == IF InHands /\ inHand # MaxMsgs + 1 THEN 1 ELSE 0
ChannelCount == IF inputCh # <<>> /\ inputCh[1] # MaxMsgs + 1 THEN 1 ELSE 0
Counted == /\ Len(handled) + ChannelCount + InHandCount + Len(pipe) = sent
           /\ Len(pipe) <= 1 /\ (pipe # <<>> => reader \in {"none", "read"})
           /\ \A j \in 1..Len(pipe) : pipe[j] # 0
           /\ InHands => inHand # 0
           /\ inputCh # <<>> => inputCh[1] # 0
           /\ reader = "none" => loop \in {"start", "ended"}
           /\ sent = 0 => reader # "gone" \/ stdinClosed
           /\ why \in {"EOF", "unreadable"} =>
                  /\ loop \in {"evolve", "audit", "ended"}
                  /\ Len(handled) = sent /\ stdinClosed

\* Nothing is sent at the start.
LEMMA ProcessStart == Process!Init => Flow /\ ReadsLater /\ Counted
<1> SUFFICES ASSUME Process!Init PROVE Flow /\ ReadsLater /\ Counted
  OBVIOUS
<1>1. /\ pipe = <<>> /\ inputCh = <<>> /\ handled = <<>> /\ sent = 0 /\ reader = "none" /\ inHand = 0
      /\ stdinClosed = FALSE /\ loop = "start" /\ why = "none"
  BY DEF Process!Init
<1>2. MaxMsgs \in Nat
  BY AgentAssumption
<1>3. Len(pipe) = 0 /\ Len(inputCh) = 0 /\ Len(handled) = 0
  BY <1>1
<1>4. ProcessTypes
  <2>1. pipe \in Seq(0..MaxMsgs) /\ inputCh \in Seq(0..(MaxMsgs + 1)) /\ handled \in Seq(1..MaxMsgs)
    BY <1>1
  <2>2. sent \in 0..MaxMsgs /\ inHand \in 0..(MaxMsgs + 1)
    BY <1>1, <1>2
  <2> QED
    BY <1>1, <1>2, <1>3, <2>1, <2>2 DEF ProcessTypes
<1>5. Queued /\ Passed /\ AtEnd
  BY <1>1, <1>3 DEF Queued, Passed, AtEnd, InHands
<1>6. Process!InOrder
  BY <1>1 DEF Process!InOrder
<1>7. Counted
  BY <1>1, <1>3 DEF Counted, InHandCount, ChannelCount, InHands
<1> QED
  BY <1>1, <1>4, <1>5, <1>6, <1>7 DEF Flow, ReadsLater

\* The manager sends the next message.
LEMMA SendStep ==
    ASSUME Flow, Process!Send
    PROVE  Flow'
<1>0. ProcessTypes /\ Queued /\ Passed /\ AtEnd /\ Process!InOrder
  BY DEF Flow
<1>1. /\ sent < MaxMsgs /\ ~stdinClosed /\ sent' = sent + 1 /\ pipe' = Append(pipe, sent + 1)
      /\ UNCHANGED <<reader, inHand, inputCh, stdinClosed, handled>>
  BY DEF Process!Send
<1>2. MaxMsgs \in Nat
  BY AgentAssumption
<1>3. sent \in Nat /\ sent + 1 \in 1..MaxMsgs /\ sent' \in 0..MaxMsgs
  BY <1>0, <1>1, <1>2 DEF ProcessTypes
<1>4. /\ pipe' \in Seq(0..MaxMsgs) /\ Len(pipe') = Len(pipe) + 1 /\ Len(pipe) \in Nat
      /\ \A j \in 1..Len(pipe) : pipe'[j] = pipe[j] /\ pipe[j] \in 0..MaxMsgs
      /\ pipe'[Len(pipe) + 1] = sent + 1
  BY <1>0, <1>1, <1>3 DEF ProcessTypes
<1>5. \A j \in 1..Len(pipe') : j \in 1..Len(pipe) \/ j = Len(pipe) + 1
  BY <1>4
<1>6. ProcessTypes'
  BY <1>0, <1>1, <1>3, <1>4 DEF ProcessTypes
<1>7. AtEnd'
  BY <1>0, <1>1, <1>3 DEF AtEnd, InHands, ProcessTypes
<1>8. (InHands => inHand <= sent) /\ (inputCh # <<>> => inputCh[1] <= sent)
  BY <1>0, <1>1 DEF AtEnd
<1>9. Queued'
  <2>1. ASSUME NEW i \in 1..Len(pipe'), NEW j \in 1..Len(pipe'), i < j, pipe'[j] # 0 PROVE pipe'[i] < pipe'[j]
    <3>1. i \in 1..Len(pipe)
      BY <1>4, <2>1
    <3>2. CASE j \in 1..Len(pipe)
      BY <1>0, <1>4, <2>1, <3>1, <3>2 DEF Queued
    <3>3. CASE j = Len(pipe) + 1
      BY <1>0, <1>3, <1>4, <3>1, <3>3 DEF Queued
    <3> QED
      BY <1>5, <3>2, <3>3
  <2>2. \A j \in 1..Len(pipe') : pipe'[j] <= sent'
    BY <1>0, <1>1, <1>3, <1>4, <1>5 DEF Queued
  <2>3. InHands' => \A j \in 1..Len(pipe') : pipe'[j] # 0 => inHand' < pipe'[j]
    BY <1>0, <1>1, <1>3, <1>4, <1>5, <1>8 DEF Queued, InHands, ProcessTypes
  <2>4. inputCh' # <<>> => \A j \in 1..Len(pipe') : pipe'[j] # 0 => inputCh'[1] < pipe'[j]
    <3>1. inputCh # <<>> => inputCh[1] \in 0..(MaxMsgs + 1)
      BY <1>0 DEF ProcessTypes
    <3> QED
      BY <1>0, <1>1, <1>2, <1>3, <1>4, <1>5, <1>8, <3>1 DEF Queued
  <2>5. inputCh' # <<>> /\ InHands' /\ inHand' # 0 => inputCh'[1] < inHand'
    BY <1>0, <1>1 DEF Queued, InHands
  <2> QED
    BY <2>1, <2>2, <2>3, <2>4, <2>5 DEF Queued
<1>10. Passed'
  <2> SUFFICES ASSUME NEW i \in 1..Len(handled)
               PROVE  /\ handled[i] <= sent + 1
                      /\ \A j \in 1..Len(pipe') : pipe'[j] # 0 => handled[i] < pipe'[j]
                      /\ InHands /\ inHand # 0 => handled[i] < inHand
                      /\ inputCh # <<>> /\ inputCh[1] # 0 => handled[i] < inputCh[1]
    BY <1>1 DEF Passed, InHands
  <2>1. handled[i] \in 1..MaxMsgs /\ handled[i] <= sent
    BY <1>0 DEF ProcessTypes, Passed
  <2>2. ASSUME NEW j \in 1..Len(pipe'), pipe'[j] # 0 PROVE handled[i] < pipe'[j]
    <3>1. CASE j \in 1..Len(pipe)
      BY <1>0, <1>4, <2>2, <3>1 DEF Passed
    <3>2. CASE j = Len(pipe) + 1
      BY <1>2, <1>3, <1>4, <2>1, <3>2
    <3> QED
      BY <1>5, <3>1, <3>2
  <2> QED
    BY <1>0, <1>2, <1>3, <2>1, <2>2 DEF Passed
<1>11. Process!InOrder'
  BY <1>0, <1>1 DEF Process!InOrder
<1> QED
  BY <1>6, <1>7, <1>9, <1>10, <1>11 DEF Flow

\* The reading goroutine reads a message, and some of those behind it are lost.
LEMMA ReadStep ==
    ASSUME Flow, Process!ReadInput
    PROVE  Flow'
<1>0. ProcessTypes /\ Queued /\ Passed /\ AtEnd /\ Process!InOrder
  BY DEF Flow
<1>1. PICK k \in 2..(Len(pipe) + 1), broken0 \in BOOLEAN :
          /\ broken0 => k <= Len(pipe)
          /\ pipe' = IF broken0 THEN <<0>> \o SubSeq(pipe, k + 1, Len(pipe)) ELSE SubSeq(pipe, k, Len(pipe))
  BY DEF Process!ReadInput, Process!Bad
<1>2. /\ reader = "read" /\ pipe # <<>> /\ reader' = "hand" /\ inHand' = pipe[1]
      /\ UNCHANGED <<inputCh, stdinClosed, sent, handled>>
  BY DEF Process!ReadInput
<1>3. Len(pipe) \in Nat /\ MaxMsgs \in Nat /\ 1 \in 1..Len(pipe) /\ \A j \in 1..Len(pipe) : pipe[j] \in 0..MaxMsgs
  BY <1>0, <1>2, AgentAssumption DEF ProcessTypes
<1>4. /\ pipe' \in Seq(0..MaxMsgs) /\ Len(pipe') = Len(pipe) - k + 1
      /\ \A j \in 1..Len(pipe') : pipe'[j] = 0 \/ pipe'[j] = pipe[j + k - 1]
  <2>1. CASE ~broken0
    <3>1. pipe' = SubSeq(pipe, k, Len(pipe))
      BY <1>1, <2>1
    <3> QED
      BY <1>0, <1>3, <3>1 DEF ProcessTypes
  <2>2. CASE broken0
    <3> DEFINE more == SubSeq(pipe, k + 1, Len(pipe))
    <3>1. /\ pipe' = <<0>> \o more /\ more \in Seq(0..MaxMsgs) /\ Len(more) = Len(pipe) - k
          /\ \A j \in 1..Len(more) : more[j] = pipe[j + k]
      BY <1>0, <1>1, <1>3, <2>2 DEF ProcessTypes
    <3> HIDE DEF more
    <3>2. 0 \in 0..MaxMsgs /\ <<0>> \in Seq(0..MaxMsgs)
      BY <1>3
    <3>3. /\ pipe' \in Seq(0..MaxMsgs) /\ Len(pipe') = Len(more) + 1
          /\ \A j \in 1..Len(more) + 1 : pipe'[j] = IF j <= 1 THEN 0 ELSE more[j - 1]
      <4>1. /\ <<0>> \o more \in Seq(0..MaxMsgs) /\ Len(<<0>> \o more) = Len(<<0>>) + Len(more)
            /\ \A j \in 1..Len(<<0>>) + Len(more) :
                  (<<0>> \o more)[j] = IF j <= Len(<<0>>) THEN <<0>>[j] ELSE more[j - Len(<<0>>)]
        BY <3>1, <3>2, ConcatProperties
      <4>2. Len(<<0>>) = 1 /\ \A j \in 1..Len(more) + 1 : j <= 1 => j = 1 /\ <<0>>[j] = 0
        BY <3>1
      <4> QED
        BY <3>1, <4>1, <4>2
    <3>4. ASSUME NEW j \in 1..Len(pipe') PROVE pipe'[j] = 0 \/ pipe'[j] = pipe[j + k - 1]
      <4>1. CASE j = 1
        BY <3>1, <3>3, <4>1
      <4>2. CASE j # 1
        <5>1. j - 1 \in 1..Len(more) /\ (j - 1) + k = j + k - 1
          BY <3>3, <4>2, <3>1, <1>3
        <5>2. pipe'[j] = more[j - 1]
          BY <3>1, <3>3, <4>2, <5>1
        <5> QED
          BY <3>1, <5>1, <5>2
      <4> QED
        BY <4>1, <4>2
    <3> QED
      BY <1>3, <3>1, <3>3, <3>4
  <2> QED
    BY <2>1, <2>2
<1> DEFINE at(j) == j + k - 1
<1>5. /\ \A j \in 1..Len(pipe') : /\ at(j) \in 1..Len(pipe) /\ 1 < at(j)
                                  /\ pipe'[j] \in 0..MaxMsgs /\ (pipe'[j] # 0 => pipe'[j] = pipe[at(j)])
      /\ \A i, j \in 1..Len(pipe') : i < j => at(i) < at(j)
  BY <1>3, <1>4
<1>6. ProcessTypes'
  BY <1>0, <1>2, <1>3, <1>4 DEF ProcessTypes
<1> HIDE DEF at
<1>7. Queued'
  <2>1. ASSUME NEW i \in 1..Len(pipe'), NEW j \in 1..Len(pipe'), i < j, pipe'[j] # 0 PROVE pipe'[i] < pipe'[j]
    <3>1. pipe'[j] = pipe[at(j)] /\ at(i) < at(j) /\ at(i) \in 1..Len(pipe) /\ at(j) \in 1..Len(pipe)
      BY <1>5, <2>1
    <3>2. pipe[at(i)] < pipe[at(j)]
      BY <1>0, <2>1, <3>1 DEF Queued
    <3>3. CASE pipe'[i] # 0
      BY <1>5, <3>1, <3>2, <3>3
    <3>4. CASE pipe'[i] = 0
      BY <1>3, <1>5, <2>1, <3>4
    <3> QED
      BY <3>3, <3>4
  <2>2. ASSUME NEW j \in 1..Len(pipe'), pipe'[j] # 0
        PROVE  /\ pipe'[j] <= sent /\ pipe[1] < pipe'[j]
               /\ inputCh # <<>> => inputCh[1] < pipe'[j]
    <3>1. pipe'[j] = pipe[at(j)] /\ at(j) \in 1..Len(pipe) /\ 1 < at(j) /\ pipe[at(j)] # 0
      BY <1>5, <2>2
    <3> QED
      BY <1>0, <1>3, <3>1 DEF Queued
  <2>3. \A j \in 1..Len(pipe') : pipe'[j] <= sent
    BY <1>0, <1>3, <1>5, <2>2 DEF ProcessTypes
  <2>4. inputCh # <<>> /\ pipe[1] # 0 => inputCh[1] < pipe[1]
    BY <1>0, <1>3 DEF Queued
  <2> QED
    BY <1>2, <2>1, <2>2, <2>3, <2>4 DEF Queued, InHands
<1>8. Passed'
  <2> SUFFICES ASSUME NEW i \in 1..Len(handled)
               PROVE  /\ handled[i] <= sent
                      /\ \A j \in 1..Len(pipe') : pipe'[j] # 0 => handled[i] < pipe'[j]
                      /\ pipe[1] # 0 => handled[i] < pipe[1]
                      /\ inputCh # <<>> /\ inputCh[1] # 0 => handled[i] < inputCh[1]
    BY <1>2 DEF Passed, InHands
  <2>1. \A j \in 1..Len(pipe') : pipe'[j] # 0 => pipe'[j] = pipe[at(j)] /\ at(j) \in 1..Len(pipe)
    BY <1>5
  <2> QED
    BY <1>0, <1>3, <2>1 DEF Passed
<1>9. AtEnd'
  <2>1. pipe[1] <= sent
    BY <1>0, <1>3 DEF Queued
  <2>2. inputCh # <<>> => inputCh[1] <= sent
    BY <1>0, <1>2 DEF AtEnd
  <2> QED
    BY <1>2, <2>1, <2>2 DEF AtEnd, InHands
<1>10. Process!InOrder'
  BY <1>0, <1>2 DEF Process!InOrder
<1> QED
  BY <1>6, <1>7, <1>8, <1>9, <1>10 DEF Flow

\* ... or sees the end of the input.
LEMMA ReadEndsStep ==
    ASSUME Flow, Process!ReadEnds
    PROVE  Flow'
<1>0. ProcessTypes /\ Queued /\ Passed /\ AtEnd /\ Process!InOrder
  BY DEF Flow
<1>1. /\ pipe = <<>> /\ stdinClosed /\ reader = "read" /\ reader' = "hand" /\ inHand' = MaxMsgs + 1
      /\ UNCHANGED <<pipe, inputCh, stdinClosed, sent, handled>>
  BY DEF Process!ReadEnds, Process!EOF
<1>2. Len(pipe) = 0 /\ MaxMsgs \in Nat
  BY <1>0, <1>1 DEF ProcessTypes
<1>3. ProcessTypes'
  BY <1>0, <1>1, <1>2 DEF ProcessTypes
<1>4. inputCh # <<>> => inputCh[1] <= MaxMsgs /\ inputCh[1] \in Nat
  BY <1>0, <1>1 DEF AtEnd, ProcessTypes
<1>5. \A i \in 1..Len(handled) : handled[i] \in Nat /\ handled[i] <= MaxMsgs
  BY <1>0 DEF ProcessTypes
<1>6. Queued'
  BY <1>1, <1>2, <1>4 DEF Queued, InHands
<1>7. Passed'
  BY <1>0, <1>1, <1>2, <1>5 DEF Passed, InHands
<1>8. AtEnd'
  BY <1>0, <1>1, <1>2 DEF AtEnd, InHands
<1>9. Process!InOrder'
  BY <1>0, <1>1 DEF Process!InOrder
<1> QED
  BY <1>3, <1>6, <1>7, <1>8, <1>9 DEF Flow

\* It hands over what it read.
LEMMA HandOverStep ==
    ASSUME Flow, Process!HandOver
    PROVE  Flow'
<1>0. ProcessTypes /\ Queued /\ Passed /\ AtEnd /\ Process!InOrder
  BY DEF Flow
<1>1. /\ reader = "hand" /\ inputCh = <<>> /\ inputCh' = <<inHand>>
      /\ reader' \in {"gone", "read"} /\ (inHand = MaxMsgs + 1 => reader' = "gone")
      /\ UNCHANGED <<pipe, inHand, stdinClosed, sent, handled>>
  BY DEF Process!HandOver, Process!EOF
<1>2. inHand \in 0..(MaxMsgs + 1) /\ MaxMsgs \in Nat
  BY <1>0 DEF ProcessTypes
<1>3. inputCh' \in Seq(0..(MaxMsgs + 1)) /\ Len(inputCh') = 1 /\ inputCh'[1] = inHand
  BY <1>1, <1>2
<1>4. ProcessTypes'
  BY <1>0, <1>1, <1>2, <1>3 DEF ProcessTypes
<1>5. Queued'
  BY <1>0, <1>1, <1>3 DEF Queued, InHands
<1>6. Passed'
  BY <1>0, <1>1, <1>3 DEF Passed, InHands
<1>7. AtEnd'
  BY <1>0, <1>1, <1>3 DEF AtEnd, InHands
<1>8. Process!InOrder'
  BY <1>0, <1>1 DEF Process!InOrder
<1> QED
  BY <1>4, <1>5, <1>6, <1>7, <1>8 DEF Flow

\* The loop takes it.
LEMMA TakeStep ==
    ASSUME Flow, Process!TakeMessage
    PROVE  Flow'
<1>0. ProcessTypes /\ Queued /\ Passed /\ AtEnd /\ Process!InOrder
  BY DEF Flow
<1>1. /\ inputCh # <<>> /\ inputCh' = <<>> /\ UNCHANGED <<pipe, reader, inHand, stdinClosed, sent>>
      /\ \/ handled' = handled
         \/ inputCh[1] \notin {0, MaxMsgs + 1} /\ handled' = Append(handled, inputCh[1])
  BY DEF Process!TakeMessage, Process!EOF, Process!Bad
<1>2. MaxMsgs \in Nat /\ inputCh[1] \in 0..(MaxMsgs + 1) /\ inputCh' \in Seq(0..(MaxMsgs + 1)) /\ Len(inputCh') = 0
  BY <1>0, <1>1 DEF ProcessTypes
<1>3. Queued' /\ AtEnd'
  BY <1>0, <1>1 DEF Queued, AtEnd, InHands
<1>4. CASE handled' = handled
  BY <1>0, <1>1, <1>2, <1>3, <1>4 DEF Flow, ProcessTypes, Passed, InHands, Process!InOrder
<1>5. CASE inputCh[1] \notin {0, MaxMsgs + 1} /\ handled' = Append(handled, inputCh[1])
  <2>1. inputCh[1] \in 1..MaxMsgs /\ inputCh[1] <= sent
    BY <1>0, <1>2, <1>5, <1>1 DEF AtEnd
  <2>2. /\ handled' \in Seq(1..MaxMsgs) /\ Len(handled) \in Nat /\ Len(handled') = Len(handled) + 1
        /\ \A i \in 1..Len(handled) : handled'[i] = handled[i] /\ handled[i] \in 1..MaxMsgs
        /\ handled'[Len(handled) + 1] = inputCh[1]
        /\ DOMAIN handled' = 1..Len(handled') /\ DOMAIN handled = 1..Len(handled)
    BY <1>0, <1>5, <2>1 DEF ProcessTypes
  <2>3. \A i \in 1..Len(handled') : i \in 1..Len(handled) \/ i = Len(handled) + 1
    BY <2>2
  <2>4. ProcessTypes'
    BY <1>0, <1>1, <1>2, <2>2 DEF ProcessTypes
  <2>5. Passed'
    BY <1>0, <1>1, <1>5, <2>1, <2>2, <2>3 DEF Passed, Queued, InHands
  <2>6. Process!InOrder'
    <3> SUFFICES ASSUME NEW i \in 1..Len(handled'), NEW j \in 1..Len(handled'), i < j
                 PROVE  handled'[i] < handled'[j]
      BY <2>2 DEF Process!InOrder
    <3>1. i \in 1..Len(handled)
      BY <2>2
    <3>2. CASE j \in 1..Len(handled)
      BY <1>0, <2>2, <3>1, <3>2 DEF Process!InOrder
    <3>3. CASE j = Len(handled) + 1
      BY <1>0, <1>1, <1>5, <2>2, <3>1, <3>3 DEF Passed
    <3> QED
      BY <2>3, <3>2, <3>3
  <2> QED
    BY <1>3, <2>4, <2>5, <2>6 DEF Flow
<1> QED
  BY <1>1, <1>4, <1>5

\* The other steps leave the messages where they are.
LEMMA ProcessStep ==
    ASSUME Flow, ReadsLater, Process!Next
    PROVE  Flow'
<1>1. CASE Process!Send \/ Process!ReadInput \/ Process!ReadEnds \/ Process!HandOver \/ Process!TakeMessage
  BY <1>1, SendStep, ReadStep, ReadEndsStep, HandOverStep, TakeStep
<1>2. CASE Process!CloseStdin
  BY <1>2 DEF Process!CloseStdin, Process!input, Flow, ProcessTypes, Queued, Passed, AtEnd, InHands, Process!InOrder
<1>3. CASE Process!FetchConfig
  <2>1. /\ UNCHANGED <<pipe, inHand, inputCh, stdinClosed, sent, handled>>
        /\ reader' \in {"read", reader} /\ reader = "none"
    BY <1>3 DEF Process!FetchConfig, ReadsLater
  <2> QED
    BY <2>1 DEF Flow, ProcessTypes, Queued, Passed, AtEnd, InHands, Process!InOrder
<1>4. CASE \/ Process!TurnEnds \/ Process!Idle \/ Process!Signal \/ Process!SeeSignal \/ Process!HardExit
           \/ Process!Evolve \/ Process!PostAudit
  <2>1. UNCHANGED <<pipe, reader, inHand, inputCh, stdinClosed, sent, handled>>
    BY <1>4 DEF Process!TurnEnds, Process!Idle, Process!Signal, Process!SeeSignal, Process!HardExit,
                Process!Evolve, Process!PostAudit, Process!input
  <2> QED
    BY <2>1 DEF Flow, ProcessTypes, Queued, Passed, AtEnd, InHands, Process!InOrder
<1> QED
  BY <1>1, <1>2, <1>3, <1>4 DEF Process!Next

\* Where each message is counted, if it was sent when the one before had been read.
LEMMA ReadsLaterStep == ReadsLater /\ Process!Next => ReadsLater'
  BY DEF ReadsLater, Process!Next, Process!Send, Process!ReadInput, Process!ReadEnds, Process!HandOver,
         Process!TakeMessage, Process!CloseStdin, Process!FetchConfig, Process!TurnEnds, Process!Idle,
         Process!Signal, Process!SeeSignal, Process!HardExit, Process!Evolve, Process!PostAudit, Process!input

LEMMA CountedStep ==
    ASSUME Flow, ReadsLater, Counted, Process!Next, sent' # sent => Process!LastRead
    PROVE  Counted'
<1>0. ProcessTypes /\ AtEnd
  BY DEF Flow
<1>1. MaxMsgs \in Nat /\ sent \in 0..MaxMsgs /\ Len(pipe) \in Nat /\ Len(handled) \in Nat /\ Len(inputCh) \in Nat
  BY <1>0 DEF ProcessTypes
<1>2. CASE Process!Send
  <2>1. /\ ~stdinClosed /\ sent < MaxMsgs /\ sent' = sent + 1 /\ pipe' = Append(pipe, sent + 1)
        /\ UNCHANGED <<loop, reader, inHand, inputCh, stdinClosed, handled, why>>
    BY <1>2 DEF Process!Send
  <2>2. pipe = <<>> /\ (reader = "read" \/ sent = 0)
    BY <1>1, <2>1 DEF Process!LastRead
  <2>3. Len(pipe) = 0 /\ Len(pipe') = 1 /\ pipe'[1] = sent + 1
    BY <2>1, <2>2
  <2>4. reader \in {"none", "read"}
    BY <1>0, <1>1, <2>1, <2>2 DEF Counted, AtEnd, InHands, ProcessTypes
  <2>5. InHandCount' = InHandCount /\ ChannelCount' = ChannelCount /\ InHandCount = 0 /\ ChannelCount \in Nat
    BY <2>1, <2>4 DEF InHands, InHandCount, ChannelCount
  <2>6. Len(handled') + ChannelCount' + InHandCount' + Len(pipe') = sent'
    BY <1>1, <2>1, <2>3, <2>5 DEF Counted
  <2> QED
    BY <1>1, <2>1, <2>3, <2>4, <2>6 DEF Counted, InHands
<1>3. CASE Process!ReadInput
  <2>1. /\ reader = "read" /\ pipe # <<>> /\ reader' = "hand" /\ inHand' = pipe[1]
        /\ UNCHANGED <<loop, inputCh, stdinClosed, sent, handled, why>>
    BY <1>3 DEF Process!ReadInput
  <2>2. Len(pipe) = 1
    <3>1. Len(pipe) # 0
      BY <1>0, <2>1 DEF ProcessTypes
    <3>2. Len(pipe) <= 1
      BY DEF Counted
    <3>3. \A n \in Nat : n # 0 /\ n <= 1 => n = 1
      OBVIOUS
    <3> QED
      BY <1>1, <3>1, <3>2, <3>3
  <2>3. pipe' = SubSeq(pipe, 2, 1)
    BY <1>3, <2>2 DEF Process!ReadInput
  <2>4. Len(pipe') = 0 /\ pipe' = <<>>
    BY <2>3, SubSeqEmpty
  <2>5. inHand' \in 0..MaxMsgs /\ inHand' # 0
    BY <1>0, <2>1, <2>2 DEF Counted, ProcessTypes
  <2>6. ChannelCount' = ChannelCount /\ InHandCount = 0 /\ InHandCount' = 1 /\ ChannelCount \in Nat
    BY <1>1, <2>1, <2>5 DEF InHands, InHandCount, ChannelCount
  <2>7. Len(handled') + ChannelCount' + InHandCount' + Len(pipe') = sent'
    BY <1>1, <2>1, <2>2, <2>4, <2>6 DEF Counted
  <2> QED
    BY <1>1, <2>1, <2>4, <2>5, <2>7 DEF Counted, InHands
<1>4. CASE Process!ReadEnds
  <2>1. /\ pipe = <<>> /\ stdinClosed /\ reader = "read" /\ reader' = "hand" /\ inHand' = MaxMsgs + 1
        /\ UNCHANGED <<loop, pipe, inputCh, stdinClosed, sent, handled, why>>
    BY <1>4 DEF Process!ReadEnds, Process!EOF
  <2> QED
    BY <1>1, <2>1 DEF Counted, InHands, InHandCount, ChannelCount
<1>5. CASE Process!HandOver
  <2>1. /\ reader = "hand" /\ inputCh = <<>> /\ inputCh' = <<inHand>>
        /\ reader' = (IF inHand \in {MaxMsgs + 1, 0} THEN "gone" ELSE "read")
        /\ UNCHANGED <<loop, pipe, inHand, stdinClosed, sent, handled, why>>
    BY <1>5 DEF Process!HandOver, Process!EOF, Process!Bad
  <2>2. inHand # 0 /\ pipe = <<>> /\ inputCh' # <<>> /\ inputCh'[1] = inHand
    BY <2>1 DEF Counted, InHands
  <2> QED
    BY <1>0, <1>1, <2>1, <2>2 DEF Counted, AtEnd, InHands, InHandCount, ChannelCount
<1>6. CASE Process!TakeMessage
  <2>1. /\ loop = "wait" /\ inputCh # <<>> /\ inputCh' = <<>>
        /\ UNCHANGED <<pipe, reader, inHand, stdinClosed, sent>>
    BY <1>6 DEF Process!TakeMessage
  <2>2. inputCh[1] # 0 /\ inputCh[1] \in 0..(MaxMsgs + 1)
    BY <1>0, <2>1 DEF Counted, ProcessTypes
  <2>3. CASE inputCh[1] = MaxMsgs + 1
    <3>1. loop' = "evolve" /\ handled' = handled
      BY <1>6, <2>3 DEF Process!TakeMessage, Process!EOF, Process!Bad
    <3>2. pipe = <<>> /\ reader = "gone" /\ stdinClosed
      BY <1>0, <1>1, <2>1, <2>3 DEF AtEnd
    <3> QED
      BY <1>1, <2>1, <2>3, <3>1, <3>2 DEF Counted, InHands, InHandCount, ChannelCount
  <2>4. CASE inputCh[1] # MaxMsgs + 1
    <3>1. loop' = "turn" /\ handled' = Append(handled, inputCh[1]) /\ why' = why
      BY <1>6, <2>2, <2>4 DEF Process!TakeMessage, Process!EOF, Process!Bad
    <3>2. Len(handled') = Len(handled) + 1
      BY <1>0, <1>1, <2>2, <2>4, <3>1 DEF ProcessTypes
    <3> QED
      BY <1>1, <2>1, <2>4, <3>1, <3>2 DEF Counted, InHands, InHandCount, ChannelCount
  <2> QED
    BY <2>3, <2>4
<1>7. CASE Process!CloseStdin
  BY <1>7 DEF Process!CloseStdin, Process!input, Counted, InHands, InHandCount, ChannelCount
<1>9. CASE Process!FetchConfig
  <2>1. /\ UNCHANGED <<pipe, inHand, inputCh, stdinClosed, sent, handled>>
        /\ loop = "start" /\ reader = "none"
        /\ \/ loop' = "wait" /\ reader' = "read" /\ why' = why
           \/ UNCHANGED <<loop, reader, why>>
           \/ loop' = "ended" /\ why' = "no configuration" /\ reader' = reader
    BY <1>9 DEF Process!FetchConfig, ReadsLater
  <2>2. why \notin {"EOF", "unreadable"}
    BY <2>1 DEF Counted
  <2>3. CASE reader' = reader
    BY <2>1, <2>2, <2>3 DEF Counted, InHands, InHandCount, ChannelCount
  <2>4. CASE loop' = "wait" /\ reader' = "read" /\ why' = why
    BY <2>1, <2>2, <2>4 DEF Counted, InHands, InHandCount, ChannelCount
  <2> QED
    BY <2>1, <2>3, <2>4
<1>8. CASE \/ Process!TurnEnds \/ Process!Idle \/ Process!Signal \/ Process!SeeSignal \/ Process!HardExit
           \/ Process!Evolve \/ Process!PostAudit
  <2>1. UNCHANGED <<pipe, reader, inHand, inputCh, stdinClosed, sent, handled>>
    BY <1>8 DEF Process!TurnEnds, Process!Idle, Process!Signal, Process!SeeSignal, Process!HardExit,
                Process!Evolve, Process!PostAudit, Process!input
  <2>2. /\ loop' \in {"start", "ended"} \/ loop \notin {"start", "ended"}
        /\ why' \in {"EOF", "unreadable"} => /\ why \in {"EOF", "unreadable"}
                                             /\ loop \in {"evolve", "audit", "ended"} => loop' \in {"evolve", "audit", "ended"}
    BY <1>8 DEF Process!TurnEnds, Process!Idle, Process!Signal, Process!SeeSignal, Process!HardExit,
                Process!Evolve, Process!PostAudit
  <2> QED
    BY <2>1, <2>2 DEF Counted, InHands, InHandCount, ChannelCount
<1> QED
  BY <1>2, <1>3, <1>4, <1>5, <1>6, <1>7, <1>8, <1>9 DEF Process!Next

ProcessInv == part \in {"crowd", "calm"} => Flow /\ ReadsLater /\ (part = "calm" => Counted)

\* The agent's process in its part, and no step of the others.
LEMMA ProcessInvStep == ProcessInv /\ [AgentNext]_all => ProcessInv'
<1> SUFFICES ASSUME ProcessInv, [AgentNext]_all, part' \in {"crowd", "calm"}
             PROVE  Flow' /\ ReadsLater' /\ (part' = "calm" => Counted')
  BY DEF ProcessInv
<1>1. part' = part
  BY DEF AgentNext, ProcessPart, EnginePart, SessionPart, HelperPart, MCPPart, MemoryPart, all
<1>2. Flow /\ ReadsLater /\ (part = "calm" => Counted)
  BY <1>1 DEF ProcessInv
<1>3. CASE ProcessPart
  <2>1. Process!Next /\ (part = "calm" /\ sent' # sent => Process!LastRead)
    BY <1>3 DEF ProcessPart
  <2> QED
    BY <1>1, <1>2, <2>1, ProcessStep, ReadsLaterStep, CountedStep
<1>4. CASE UNCHANGED processVars
  BY <1>1, <1>2, <1>4 DEF processVars, Flow, ReadsLater, Counted, InHandCount, ChannelCount,
                          ProcessTypes, Queued, Passed, AtEnd, InHands, Process!InOrder
<1> QED
  BY <1>3, <1>4 DEF AgentNext, EnginePart, SessionPart, HelperPart, MCPPart, MemoryPart, all

(* For every number of messages: they are handled in the order they were     *)
(* sent, each once; and all of them before the process ends for the end of   *)
(* its input, if none was sent before the last was read (AgentProcess).      *)
THEOREM AgentInputInOrder == AgentSpec => []InputInOrder
<1>1. AgentInit => ProcessInv
  BY ProcessStart DEF AgentInit, ProcessInv
<1>2. ProcessInv => InputInOrder
  BY DEF ProcessInv, InputInOrder, Flow, Counted, Process!EveryMessageRead
<1> QED
  BY <1>1, <1>2, ProcessInvStep, PTL DEF AgentSpec

-----------------------------------------------------------------------------
LEMMA LeastNat ==
  ASSUME NEW S \in SUBSET Nat, S # {}
  PROVE  \E n \in S : \A m \in S : n <= m
<1> DEFINE R == OpToRel(<, Nat)
<1>1. IsWellFoundedOn(R, Nat)
  BY NatLessThanWellFounded
<1>2. \A x, y \in Nat : x < y => <<x, y>> \in R
  BY DEF OpToRel
<1> HIDE DEF R
<1>3. PICK x \in S : \A y \in S : <<y, x>> \notin R
  BY <1>1, WFMin, Zenon
<1>4. \A y \in S : y \in Nat /\ x \in Nat /\ ~(y < x)
  BY <1>2, <1>3
<1> QED BY <1>4

-----------------------------------------------------------------------------
(* AgentEngine: a call that waits is in the messages without a result, every  *)
(* other has one.                                                             *)

Ids == Nat \X Nat \X Nat
Messages == [role : {"user", "assistant", "tool", "summary"}, ids : SUBSET Ids, size : Sizes \cup {1}]

EngineTypes ==
    /\ iter \in Nat /\ attempt \in Nat /\ tries \in Nat
    /\ pc \in {"iterate", "stream", "answer", "tools", "finish", "done"}
    /\ msgs \in Seq(Messages) /\ pending \in Seq(Ids)

\* Each call has one result behind it, those in open none.
IsResult(ms, id, j) == ms[j].role = "tool" /\ id \in ms[j].ids
HasResult(ms, i, id, open) ==
    IF id \in open THEN \A j \in (i + 1)..Len(ms) : ~IsResult(ms, id, j)
    ELSE \E k \in (i + 1)..Len(ms) : /\ IsResult(ms, id, k)
                                     /\ \A j \in (i + 1)..Len(ms) : IsResult(ms, id, j) => j = k
Matched(ms, open) == \A i \in 1..Len(ms) : ms[i].role = "assistant" =>
                         \A id \in ms[i].ids : HasResult(ms, i, id, open)
\* The calls of the messages are of iterations before n.
Below(ms, n) == \A i \in 1..Len(ms) : \A id \in ms[i].ids : id[1] < n

Waiting == {pending[i] : i \in 1..Len(pending)}
Open == IF pc = "tools" THEN Waiting ELSE {}
Calls ==
    /\ Matched(msgs, Open)
    /\ \A i, j \in 1..Len(pending) : i # j => pending[i] # pending[j]
    /\ pc \in {"stream", "answer", "tools"} => \A i \in 1..Len(pending) : pending[i][1] = iter
    /\ pc \in {"iterate", "stream", "answer"} => Below(msgs, iter)
    /\ pc = "tools" => Below(msgs, iter + 1)

\* Where the pending calls come from.
Stream ==
    /\ provider = IF part = "openai" THEN "openai" ELSE "anthropic"
    /\ pc = "stream" => /\ tries >= 1
                        /\ provider = "openai" => pending = <<>>
                        /\ \A i \in 1..Len(pending) : pending[i][3] < Len(pending)
    /\ part # "retried" /\ pc \in {"stream", "answer", "tools"} => \A i \in 1..Len(pending) : pending[i][2] = attempt

Outcome == /\ pc # "done" => outcome = <<>>
           /\ Engine!EndsOnce

EngineInv == EngineTypes /\ Calls /\ Stream /\ Outcome

LEMMA SameCardinality == \A S : Engine!Cardinality(S) = Cardinality(S)
  BY DEF Engine!Cardinality, Cardinality

LEMMA AnsweredOnce == EngineTypes /\ Calls => Engine!Answered
<1> SUFFICES ASSUME EngineTypes, Calls, pc = "stream", NEW i \in DOMAIN msgs, msgs[i].role = "assistant", NEW id \in msgs[i].ids
             PROVE  Cardinality({j \in (i + 1)..Len(msgs) : msgs[j].role = "tool" /\ id \in msgs[j].ids}) = 1
  BY SameCardinality DEF Engine!Answered
<1>1. i \in 1..Len(msgs)
  BY DEF EngineTypes
<1>2. PICK k \in (i + 1)..Len(msgs) : /\ IsResult(msgs, id, k)
                                     /\ \A j \in (i + 1)..Len(msgs) : IsResult(msgs, id, j) => j = k
  BY <1>1 DEF Calls, Open, Matched, HasResult
<1>3. {j \in (i + 1)..Len(msgs) : msgs[j].role = "tool" /\ id \in msgs[j].ids} = {k}
  BY <1>2 DEF IsResult
<1> QED
  BY <1>3, FS_Singleton

\* What is left when older messages become a summary.
LEMMA SummaryKeeps ==
    ASSUME NEW ms \in Seq(Messages), NEW s \in 2..Len(ms), NEW n \in Nat,
           NEW new \in Seq(Messages), Len(new) = Len(ms) - s + 2,
           new[1].role = "summary", new[1].ids = {},
           \A k \in 2..Len(new) : new[k] = ms[k + s - 2]
    PROVE  /\ Matched(ms, {}) => Matched(new, {})
           /\ Below(ms, n) => Below(new, n)
<1> DEFINE old(k) == k + s - 2
<1>1. /\ Len(ms) \in Nat /\ s \in Nat /\ Len(new) \in Nat /\ 1 \in 1..Len(new)
      /\ \A k \in 2..Len(new) : old(k) \in 1..Len(ms) /\ new[k] = ms[old(k)]
  OBVIOUS
<1>2. \A k \in 1..Len(new) : k = 1 \/ k \in 2..Len(new)
  BY <1>1
<1>3. ASSUME Matched(ms, {}), NEW i \in 1..Len(new), new[i].role = "assistant", NEW id \in new[i].ids
      PROVE  HasResult(new, i, id, {})
  <2>1. i \in 2..Len(new)
    BY <1>2, <1>3
  <2>2. ms[old(i)].role = "assistant" /\ id \in ms[old(i)].ids /\ old(i) \in 1..Len(ms)
    BY <1>1, <1>3, <2>1
  <2>3. PICK k \in (old(i) + 1)..Len(ms) : /\ IsResult(ms, id, k)
                                          /\ \A j \in (old(i) + 1)..Len(ms) : IsResult(ms, id, j) => j = k
    BY <1>3, <2>2 DEF Matched, HasResult
  <2>4. k - s + 2 \in (i + 1)..Len(new) /\ k - s + 2 \in 2..Len(new) /\ old(k - s + 2) = k
    <3>1. i \in Nat /\ k \in Nat /\ k >= i + s - 2 + 1 /\ k <= Len(ms) /\ i >= 2
      BY <1>1, <2>1, <2>3
    <3>2. Len(new) = Len(ms) - s + 2 /\ Len(ms) \in Nat /\ s \in Nat
      BY <1>1
    <3>3. k - s + 2 <= Len(new) /\ k - s + 2 >= i + 1 /\ k - s + 2 \in Int
      BY <3>1, <3>2
    <3> QED
      BY <3>1, <3>2, <3>3
  <2>5. IsResult(new, id, k - s + 2)
    BY <1>1, <2>3, <2>4 DEF IsResult
  <2>6. ASSUME NEW j \in (i + 1)..Len(new), IsResult(new, id, j) PROVE j = k - s + 2
    <3>1. j \in 2..Len(new) /\ old(j) \in (old(i) + 1)..Len(ms)
      BY <1>1, <2>1, <2>6
    <3>2. new[j] = ms[old(j)]
      BY <1>1, <3>1
    <3>3. IsResult(ms, id, old(j))
      BY <2>6, <3>2 DEF IsResult
    <3>4. old(j) = k
      BY <2>3, <3>1, <3>3
    <3> QED
      BY <1>1, <3>1, <3>4
  <2> QED
    BY <2>4, <2>5, <2>6 DEF HasResult
<1>4. Below(ms, n) => Below(new, n)
  BY <1>1, <1>2 DEF Below
<1> QED
  BY <1>3, <1>4 DEF Matched

LEMMA SqueezeKeeps ==
    ASSUME NEW ms \in Seq(Messages), NEW n \in Nat
    PROVE  /\ Engine!Squeezed(ms) \in Seq(Messages)
           /\ Matched(ms, {}) => Matched(Engine!Squeezed(ms), {})
           /\ Below(ms, n) => Below(Engine!Squeezed(ms), n)
<1> DEFINE fitting == {i \in DOMAIN ms : i = Len(ms) \/ Engine!Tokens(Engine!TailOf(ms, i)) <= (Budget * 4) \div 5}
           s == Engine!Min(fitting)
           new == <<Engine!Msg("summary", {}, 1)>> \o SubSeq(ms, s, Len(ms))
<1>1. CASE Len(ms) <= 2 \/ s = 1
  BY <1>1 DEF Engine!Squeezed, Engine!Compacted
<1>2. CASE ~(Len(ms) <= 2) /\ s # 1
  <2>1. Engine!Squeezed(ms) = new
    BY <1>2 DEF Engine!Squeezed, Engine!Compacted, Engine!TailOf
  <2>2. Len(ms) \in Nat /\ Len(ms) > 2 /\ DOMAIN ms = 1..Len(ms)
    BY <1>2
  <2>3. Len(ms) \in fitting /\ fitting \in SUBSET Nat
    BY <2>2
  <2>4. \E m \in fitting : \A k \in fitting : m <= k
    BY <2>3, LeastNat
  <2>5. s \in fitting
    BY <2>4 DEF Engine!Min
  <2>6. s \in 2..Len(ms)
    BY <1>2, <2>2, <2>5
  <2> HIDE DEF s, fitting
  <2> DEFINE one == <<Engine!Msg("summary", {}, 1)>>
             tail == SubSeq(ms, s, Len(ms))
  <2>7. one \in Seq(Messages) /\ Len(one) = 1 /\ one[1].role = "summary" /\ one[1].ids = {}
    BY DEF Engine!Msg, Messages
  <2>8. /\ tail \in Seq(Messages) /\ Len(tail) = Len(ms) - s + 1
        /\ \A k \in 1..Len(tail) : tail[k] = ms[s + k - 1]
    BY <2>2, <2>6
  <2>9. new = one \o tail
    OBVIOUS
  <2> HIDE DEF one, tail, new
  <2>10. /\ new \in Seq(Messages) /\ Len(new) = Len(one) + Len(tail)
         /\ \A k \in 1..Len(one) + Len(tail) : new[k] = IF k <= Len(one) THEN one[k] ELSE tail[k - Len(one)]
    BY <2>7, <2>8, <2>9, ConcatProperties
  <2>11. Len(new) = Len(ms) - s + 2 /\ new[1].role = "summary" /\ new[1].ids = {}
    <3>1. Len(tail) \in Nat /\ 1 \in 1..Len(one) + Len(tail)
      BY <2>2, <2>6, <2>7, <2>8
    <3>2. new[1] = one[1]
      BY <2>7, <2>10, <3>1
    <3> QED
      BY <2>2, <2>6, <2>7, <2>8, <2>10, <3>2
  <2>12. ASSUME NEW k \in 2..Len(new) PROVE new[k] = ms[k + s - 2]
    <3>1. k - 1 \in 1..Len(tail) /\ ~(k <= Len(one)) /\ k - Len(one) = k - 1 /\ s + (k - 1) - 1 = k + s - 2
      BY <2>2, <2>6, <2>7, <2>8, <2>11, <2>12
    <3>2. tail[k - 1] = ms[s + (k - 1) - 1]
      BY <2>8, <3>1
    <3>3. k \in 1..Len(one) + Len(tail)
      BY <2>2, <2>6, <2>7, <2>8, <2>11, <2>12
    <3> QED
      BY <2>10, <3>1, <3>2, <3>3
  <2> QED
    BY <2>1, <2>6, <2>10, <2>11, <2>12, SummaryKeeps
<1> QED
  BY <1>1, <1>2

LEMMA EngineStart == AgentInit => EngineInv
<1> SUFFICES ASSUME AgentInit PROVE EngineInv
  OBVIOUS
<1>1. /\ pc = "iterate" /\ iter = 0 /\ tries = 0 /\ attempt = 1 /\ pending = <<>> /\ outcome = <<>>
      /\ msgs = <<[role |-> "user", ids |-> {}, size |-> 1]>>
      /\ provider = IF part = "openai" THEN "openai" ELSE "anthropic"
  BY DEF AgentInit, Engine!Init, Engine!Msg
<1>2. msgs \in Seq(Messages) /\ Len(msgs) = 1 /\ msgs[1].role = "user" /\ msgs[1].ids = {}
  BY <1>1 DEF Messages
<1>3. Len(pending) = 0 /\ pending \in Seq(Ids)
  BY <1>1
<1>4. EngineTypes
  BY <1>1, <1>2, <1>3 DEF EngineTypes
<1>5. Calls
  BY <1>1, <1>2, <1>3 DEF Calls, Matched, Open, Below
<1>6. Stream
  BY <1>1, <1>3 DEF Stream
<1>7. Outcome
  BY <1>1 DEF Outcome, Engine!EndsOnce
<1> QED
  BY <1>4, <1>5, <1>6, <1>7 DEF EngineInv

\* Steps that leave the messages as they are, but for a compaction.
LEMMA SqueezeInv ==
    ASSUME EngineTypes, Calls, pc # "tools" \/ pending = <<>>
    PROVE  /\ Engine!Squeezed(msgs) \in Seq(Messages) /\ Matched(Engine!Squeezed(msgs), {})
           /\ \A n \in Nat : Below(msgs, n) => Below(Engine!Squeezed(msgs), n)
<1>1. Open = {} /\ msgs \in Seq(Messages)
  BY DEF Open, Waiting, EngineTypes
<1>2. Matched(msgs, {})
  BY <1>1 DEF Calls
<1> QED
  BY <1>1, <1>2, SqueezeKeeps

LEMMA IdsOf == \A ms \in Seq(Messages) : \A i \in 1..Len(ms) : \A id \in ms[i].ids : id \in Ids
<1> SUFFICES ASSUME NEW ms \in Seq(Messages), NEW i \in 1..Len(ms) PROVE ms[i].ids \subseteq Ids
  OBVIOUS
<1>1. ms[i] \in Messages
  OBVIOUS
<1> QED
  BY <1>1 DEF Messages

LEMMA Appended ==
    ASSUME NEW ms \in Seq(Messages), NEW m \in Messages
    PROVE  /\ Append(ms, m) \in Seq(Messages) /\ Len(ms) \in Nat /\ Len(Append(ms, m)) = Len(ms) + 1
           /\ \A i \in 1..Len(ms) : Append(ms, m)[i] = ms[i]
           /\ Append(ms, m)[Len(ms) + 1] = m
           /\ \A i \in 1..Len(Append(ms, m)) : i \in 1..Len(ms) \/ i = Len(ms) + 1
  OBVIOUS

\* A result takes its call out of those that wait.
LEMMA ResultAdded ==
    ASSUME NEW ms \in Seq(Messages), NEW open, NEW h \in open, NEW m \in Messages,
           m.role = "tool", m.ids = {h}, Matched(ms, open)
    PROVE  Matched(Append(ms, m), open \ {h})
<1> DEFINE new == Append(ms, m)
           n == Len(ms) + 1
<1>1. /\ new \in Seq(Messages) /\ Len(ms) \in Nat /\ Len(new) = n
      /\ \A i \in 1..Len(ms) : new[i] = ms[i]
      /\ new[n] = m
      /\ \A i \in 1..Len(new) : i \in 1..Len(ms) \/ i = n
  BY Appended
<1> HIDE DEF new
<1> SUFFICES ASSUME NEW i \in 1..Len(new), new[i].role = "assistant", NEW id \in new[i].ids
             PROVE  HasResult(new, i, id, open \ {h})
  BY DEF Matched, new
<1>2. i \in 1..Len(ms) /\ ms[i].role = "assistant" /\ id \in ms[i].ids
  BY <1>1
<1>3. HasResult(ms, i, id, open)
  BY <1>2 DEF Matched
<1>5. \A j \in (i + 1)..Len(ms) : j \in (i + 1)..Len(new) /\ new[j] = ms[j] /\ j # n
  BY <1>1, <1>2
<1>4. \A j \in (i + 1)..Len(new) : j = n \/ j \in (i + 1)..Len(ms)
  BY <1>1, <1>2
<1>6. n \in (i + 1)..Len(new)
  BY <1>1, <1>2
<1>7. IsResult(new, id, n) <=> id = h
  BY <1>1 DEF IsResult
<1>8. \A j \in (i + 1)..Len(ms) : IsResult(new, id, j) <=> IsResult(ms, id, j)
  BY <1>5 DEF IsResult
<1> HIDE DEF n
<1>9. CASE id = h
  <2>1. \A j \in (i + 1)..Len(new) : IsResult(new, id, j) => j = n
    BY <1>3, <1>4, <1>8, <1>9 DEF HasResult
  <2> QED
    BY <1>6, <1>7, <1>9, <2>1 DEF HasResult
<1>10. CASE id # h /\ id \in open
  BY <1>3, <1>4, <1>7, <1>8, <1>10 DEF HasResult
<1>11. CASE id # h /\ id \notin open
  BY <1>3, <1>4, <1>5, <1>7, <1>8, <1>11 DEF HasResult
<1> QED
  BY <1>9, <1>10, <1>11

\* The calls of a response wait.
LEMMA CallsAdded ==
    ASSUME NEW ms \in Seq(Messages), NEW m \in Messages, m.role = "assistant", Matched(ms, {}),
           \A i \in 1..Len(ms) : \A id \in ms[i].ids : id \notin m.ids
    PROVE  Matched(Append(ms, m), m.ids)
<1> DEFINE new == Append(ms, m)
           n == Len(ms) + 1
<1>1. /\ new \in Seq(Messages) /\ Len(ms) \in Nat /\ Len(new) = n
      /\ \A i \in 1..Len(ms) : new[i] = ms[i]
      /\ new[n] = m
      /\ \A i \in 1..Len(new) : i \in 1..Len(ms) \/ i = n
  BY Appended
<1> HIDE DEF new
<1> SUFFICES ASSUME NEW i \in 1..Len(new), new[i].role = "assistant", NEW id \in new[i].ids
             PROVE  HasResult(new, i, id, m.ids)
  BY DEF Matched, new
<1>2. CASE i = n
  <2>1. id \in m.ids /\ (i + 1)..Len(new) = {}
    BY <1>1, <1>2
  <2> QED
    BY <2>1 DEF HasResult
<1>3. CASE i \in 1..Len(ms)
  <2>1. ms[i].role = "assistant" /\ id \in ms[i].ids /\ id \notin m.ids
    BY <1>1, <1>3
  <2>2. HasResult(ms, i, id, {})
    BY <1>3, <2>1 DEF Matched
  <2>3. \A j \in (i + 1)..Len(new) : j = n \/ j \in (i + 1)..Len(ms)
    BY <1>1, <1>3
  <2>4. \A j \in (i + 1)..Len(ms) : j \in (i + 1)..Len(new) /\ new[j] = ms[j]
    BY <1>1, <1>3
  <2>5. ~IsResult(new, id, n)
    BY <1>1 DEF IsResult
  <2>6. \A j \in (i + 1)..Len(ms) : IsResult(new, id, j) <=> IsResult(ms, id, j)
    BY <2>4 DEF IsResult
  <2> HIDE DEF n
  <2> QED
    BY <2>1, <2>2, <2>3, <2>4, <2>5, <2>6 DEF HasResult
<1> QED
  BY <1>1, <1>2, <1>3

-----------------------------------------------------------------------------
LEMMA Standing ==
    ASSUME EngineInv, part' = part,
           UNCHANGED <<provider, pc, iter, attempt, tries, pending, msgs, outcome>>
    PROVE  EngineInv'
<1>0. EngineTypes /\ Calls /\ Stream /\ Outcome
  BY DEF EngineInv
<1>1. EngineTypes'
  BY <1>0 DEF EngineTypes
<1>2. Open' = Open
  BY DEF Open, Waiting
<1>3. Matched(msgs', Open') /\ (Below(msgs, iter) => Below(msgs', iter')) /\ (Below(msgs, iter + 1) => Below(msgs', iter' + 1))
  BY <1>0, <1>2 DEF Calls
<1>4. Calls'
  BY <1>0, <1>3 DEF Calls
<1>5. Stream' /\ Outcome'
  BY <1>0 DEF Stream, Outcome, Engine!EndsOnce
<1> QED
  BY <1>1, <1>4, <1>5 DEF EngineInv

LEMMA IterateStep ==
    ASSUME EngineInv, Engine!Iterate, part' = part
    PROVE  EngineInv'
<1>0. EngineTypes /\ Calls /\ Stream /\ Outcome
  BY DEF EngineInv
<1>1. /\ pc = "iterate" /\ pc' = "stream" /\ tries' = 1 /\ attempt' = 1 /\ pending' = <<>>
      /\ msgs' \in {msgs, Engine!Squeezed(msgs)} /\ UNCHANGED <<provider, iter, outcome>>
  BY DEF Engine!Iterate, Engine!result
<1>2. /\ msgs' \in Seq(Messages) /\ Matched(msgs', {}) /\ Below(msgs', iter)
  BY <1>0, <1>1, SqueezeInv DEF EngineTypes, Calls, Open
<1>3. Len(pending') = 0 /\ pending' \in Seq(Ids)
  BY <1>1
<1>4. EngineTypes'
  BY <1>0, <1>1, <1>2, <1>3 DEF EngineTypes
<1>5. Calls'
  BY <1>1, <1>2, <1>3 DEF Calls, Open, Matched, HasResult, IsResult, Below
<1>6. Stream'
  BY <1>0, <1>1, <1>3 DEF Stream
<1>7. Outcome'
  BY <1>0, <1>1 DEF Outcome, Engine!EndsOnce
<1> QED
  BY <1>4, <1>5, <1>6, <1>7 DEF EngineInv

\* Steps that end the turn, or lead to its end.
LEMMA EndStep ==
    ASSUME EngineInv, part' = part, pc \notin {"tools", "done"},
           UNCHANGED <<provider, iter, tries, attempt, pending, msgs>>,
           \/ pc' = "finish" /\ outcome' = outcome
           \/ pc' = "done" /\ outcome' \in {outcome \o <<"error", "task_done">>,
                                            outcome \o <<"finish", "task_done">>}
    PROVE  EngineInv'
<1>0. EngineTypes /\ Calls /\ Stream /\ Outcome
  BY DEF EngineInv
<1>1. EngineTypes'
  BY <1>0 DEF EngineTypes
<1>2. Open = {} /\ Open' = {}
  BY DEF Open
<1>3. Calls'
  BY <1>0, <1>2 DEF Calls, Matched, HasResult, IsResult
<1>4. Stream'
  BY <1>0 DEF Stream
<1>5. outcome = <<>>
  BY <1>0 DEF Outcome
<1>6. outcome' \in {<<>>, <<"error", "task_done">>, <<"finish", "task_done">>}
  BY <1>5
<1>7. Outcome'
  BY <1>0, <1>5, <1>6 DEF Outcome, Engine!EndsOnce
<1> QED
  BY <1>1, <1>3, <1>4, <1>7 DEF EngineInv

LEMMA StreamCallStep ==
    ASSUME EngineInv, Engine!StreamCall, part' = part
    PROVE  EngineInv'
<1>0. EngineTypes /\ Calls /\ Stream /\ Outcome
  BY DEF EngineInv
<1> DEFINE c == <<iter, attempt, Len(pending)>>
           n == Len(pending) + 1
<1>1. /\ pc = "stream" /\ pc' = "stream" /\ provider = "anthropic" /\ pending' = Append(pending, c)
      /\ UNCHANGED <<provider, iter, attempt, tries, msgs, outcome>>
  BY DEF Engine!StreamCall, Engine!counters, Engine!result, Engine!CallId
<1>2. pending \in Seq(Ids) /\ Len(pending) \in Nat /\ c \in Ids /\ c[1] = iter /\ c[2] = attempt /\ c[3] = Len(pending)
  BY <1>0 DEF EngineTypes, Ids
<1> HIDE DEF c
<1>3. /\ pending' \in Seq(Ids) /\ Len(pending') = n /\ pending'[n] = c
      /\ \A i \in 1..Len(pending) : pending'[i] = pending[i]
      /\ \A i \in 1..Len(pending') : i \in 1..Len(pending) \/ i = n
  BY <1>1, <1>2
<1>4. \A i \in 1..Len(pending) : pending[i][1] = iter /\ pending[i][3] < Len(pending) /\ pending[i] # c
  BY <1>0, <1>1, <1>2 DEF Calls, Stream
<1>5. EngineTypes'
  BY <1>0, <1>1, <1>3 DEF EngineTypes
<1>6. Calls'
  <2>1. Matched(msgs', Open') /\ Below(msgs', iter')
    BY <1>0, <1>1 DEF Calls, Open, Matched, HasResult, IsResult, Below
  <2>2. \A i, j \in 1..Len(pending') : i # j => pending'[i] # pending'[j]
    BY <1>0, <1>3, <1>4 DEF Calls
  <2>3. \A i \in 1..Len(pending') : pending'[i][1] = iter'
    BY <1>1, <1>2, <1>3, <1>4
  <2> QED
    BY <1>1, <2>1, <2>2, <2>3 DEF Calls
<1>7. Stream'
  <2>1. \A i \in 1..Len(pending') : pending'[i][3] < Len(pending')
    <3> TAKE i \in 1..Len(pending')
    <3>1. CASE i \in 1..Len(pending)
      <4>1. pending[i] \in Ids /\ pending'[i] = pending[i] /\ pending[i][3] < Len(pending)
        BY <1>2, <1>3, <1>4, <3>1
      <4>2. pending[i][3] \in Nat
        BY <4>1 DEF Ids
      <4> QED
        BY <1>2, <1>3, <4>1, <4>2
    <3>2. CASE i = n
      BY <1>2, <1>3, <3>2
    <3> QED
      BY <1>3, <3>1, <3>2
  <2>2. part # "retried" => \A i \in 1..Len(pending') : pending'[i][2] = attempt'
    BY <1>0, <1>1, <1>2, <1>3 DEF Stream
  <2> QED
    BY <1>0, <1>1, <2>1, <2>2 DEF Stream
<1>8. Outcome'
  BY <1>0, <1>1 DEF Outcome, Engine!EndsOnce
<1> QED
  BY <1>5, <1>6, <1>7, <1>8 DEF EngineInv

LEMMA StreamEndsStep ==
    ASSUME EngineInv, Engine!StreamEnds, part' = part
    PROVE  EngineInv'
<1>0. EngineTypes /\ Calls /\ Stream /\ Outcome
  BY DEF EngineInv
<1>1. /\ pc = "stream" /\ pc' = "answer"
      /\ UNCHANGED <<provider, iter, attempt, tries, msgs, outcome>>
  BY DEF Engine!StreamEnds, Engine!counters, Engine!result
<1>2. PICK n \in 0..(IF provider = "openai" THEN MaxCalls ELSE 0) :
          pending' = pending \o [i \in 1..n |-> <<iter, attempt, i>>]
  BY DEF Engine!StreamEnds, Engine!CallId
<1> DEFINE new == [i \in 1..n |-> <<iter, attempt, i>>]
<1>3. pending' = pending \/ (n \in Nat /\ pending = <<>>)
  <2>1. CASE provider = "openai"
    BY <1>0, <1>1, <2>1 DEF Stream
  <2>2. CASE provider # "openai"
    <3>1. n = 0 /\ pending \in Seq(Ids)
      BY <1>0, <2>2 DEF EngineTypes
    <3>2. new = <<>>
      BY <3>1
    <3>3. pending' = pending \o new
      BY <1>2
    <3>4. pending \o <<>> = pending
      BY <3>1, ConcatEmptySeq
    <3> HIDE DEF new
    <3>5. pending' = pending \o <<>>
      BY <3>2, <3>3
    <3> QED
      BY <3>4, <3>5
  <2> QED
    BY <2>1, <2>2
<1>4. /\ pending' \in Seq(Ids)
      /\ \A i, j \in 1..Len(pending') : i # j => pending'[i] # pending'[j]
      /\ \A i \in 1..Len(pending') : pending'[i][1] = iter
      /\ part # "retried" => \A i \in 1..Len(pending') : pending'[i][2] = attempt
  <2>1. CASE pending' = pending
    BY <1>0, <1>1, <2>1 DEF EngineTypes, Calls, Stream
  <2>2. CASE n \in Nat /\ pending = <<>>
    <3>1. \A i \in 1..n : <<iter, attempt, i>> \in Ids
      BY <1>0, <2>2 DEF EngineTypes, Ids
    <3>2. new \in Seq(Ids) /\ Len(new) = n /\ \A i \in 1..n : new[i] = <<iter, attempt, i>>
      BY <2>2, <3>1
    <3> HIDE DEF new
    <3>3. pending' = new
      BY <1>2, <2>2, <3>2 DEF new
    <3> QED
      BY <3>2, <3>3
  <2> QED
    BY <1>3, <2>1, <2>2
<1>5. EngineTypes'
  BY <1>0, <1>1, <1>4 DEF EngineTypes
<1>6. Calls'
  BY <1>0, <1>1, <1>4 DEF Calls, Open, Matched, HasResult, IsResult, Below
<1>7. Stream'
  BY <1>0, <1>1, <1>4 DEF Stream
<1>8. Outcome'
  BY <1>0, <1>1 DEF Outcome, Engine!EndsOnce
<1> QED
  BY <1>5, <1>6, <1>7, <1>8 DEF EngineInv

\* The engine asks again, with nothing of what it had gathered.
LEMMA AgainStep ==
    ASSUME EngineInv, part' = part, pc = "stream", UNCHANGED outcome,
           NEW ms \in {msgs, Engine!Squeezed(msgs)}, Engine!Again(ms)
    PROVE  EngineInv'
<1>0. EngineTypes /\ Calls /\ Stream /\ Outcome
  BY DEF EngineInv
<1>1. /\ pc' = "stream" /\ tries' = 1 /\ attempt' = attempt + 1 /\ pending' = <<>>
      /\ msgs' \in {msgs, Engine!Squeezed(msgs)} /\ UNCHANGED <<provider, iter>>
  BY DEF Engine!Again
<1>2. /\ msgs' \in Seq(Messages) /\ Matched(msgs', {}) /\ Below(msgs', iter)
  BY <1>0, <1>1, SqueezeInv DEF EngineTypes, Calls, Open
<1>3. Len(pending') = 0 /\ pending' \in Seq(Ids)
  BY <1>1
<1>4. EngineTypes'
  BY <1>0, <1>1, <1>2, <1>3 DEF EngineTypes
<1>5. Calls'
  BY <1>1, <1>2, <1>3 DEF Calls, Open, Matched, HasResult, IsResult, Below
<1>6. Stream'
  BY <1>0, <1>1, <1>3 DEF Stream
<1>7. Outcome'
  BY <1>0, <1>1 DEF Outcome, Engine!EndsOnce
<1> QED
  BY <1>4, <1>5, <1>6, <1>7 DEF EngineInv

LEMMA GiveUpStep ==
    ASSUME EngineInv, part' = part, pc = "stream", Engine!GiveUp
    PROVE  EngineInv'
  BY EndStep DEF Engine!GiveUp, Engine!counters

LEMMA ProviderRetriesStep ==
    ASSUME EngineInv, part' = part, part \in EngineParts, Engine!ProviderRetries,
           part = "anthropic" => tries' <= 1
    PROVE  EngineInv'
<1>0. EngineTypes /\ Calls /\ Stream /\ Outcome
  BY DEF EngineInv
<1>1. /\ pc = "stream" /\ pc' = "stream" /\ tries' = tries + 1 /\ attempt' = attempt + 1
      /\ UNCHANGED <<provider, iter, pending, msgs, outcome>>
  BY DEF Engine!ProviderRetries, Engine!result
<1>2. tries \in Nat /\ tries >= 1 /\ attempt \in Nat
  BY <1>0, <1>1 DEF EngineTypes, Stream
<1>3. part = "retried" \/ pending = <<>>
  BY <1>0, <1>1, <1>2 DEF Stream, EngineParts
<1>4. EngineTypes'
  BY <1>0, <1>1, <1>2 DEF EngineTypes
<1>5. Calls'
  BY <1>0, <1>1 DEF Calls, Open, Matched, HasResult, IsResult, Below
<1>6. Stream'
  <2>1. part # "retried" => \A i \in 1..Len(pending') : pending'[i][2] = attempt'
    BY <1>1, <1>3
  <2> QED
    BY <1>0, <1>1, <1>2, <2>1 DEF Stream
<1>7. Outcome'
  BY <1>0, <1>1 DEF Outcome, Engine!EndsOnce
<1> QED
  BY <1>4, <1>5, <1>6, <1>7 DEF EngineInv

LEMMA AnswerStep ==
    ASSUME EngineInv, part' = part, Engine!Answer
    PROVE  EngineInv'
<1>0. EngineTypes /\ Calls /\ Stream /\ Outcome
  BY DEF EngineInv
<1>1. pc = "answer" /\ UNCHANGED <<provider, attempt, tries, pending, outcome>>
  BY DEF Engine!Answer
<1>2. CASE pc' = "finish"
  <2>1. UNCHANGED <<iter, msgs>>
    BY <1>2 DEF Engine!Answer
  <2> QED
    BY <1>1, <1>2, <2>1, EndStep
<1>3. CASE pc' = "iterate"
  <2>1. iter' = iter + 1 /\ UNCHANGED msgs
    BY <1>3 DEF Engine!Answer
  <2>2. iter \in Nat /\ \A i \in 1..Len(msgs) : \A id \in msgs[i].ids : id \in Ids /\ id[1] < iter
    BY <1>0, <1>1, IdsOf DEF EngineTypes, Calls, Below
  <2>3. Below(msgs', iter')
    BY <2>1, <2>2 DEF Below, Ids
  <2>4. EngineTypes'
    BY <1>0, <1>1, <1>3, <2>1 DEF EngineTypes
  <2>5. Calls'
    BY <1>0, <1>1, <1>3, <2>1, <2>3 DEF Calls, Open, Matched, HasResult, IsResult
  <2>6. Stream'
    BY <1>0, <1>1, <1>3 DEF Stream
  <2>7. Outcome'
    BY <1>0, <1>1, <1>3 DEF Outcome, Engine!EndsOnce
  <2> QED
    BY <2>4, <2>5, <2>6, <2>7 DEF EngineInv
<1>4. CASE pc' = "tools"
  <2> DEFINE m == Engine!Msg("assistant", Engine!Range(pending), 1)
  <2>1. msgs' = Append(msgs, m) /\ UNCHANGED iter
    BY <1>4 DEF Engine!Answer
  <2>2. Engine!Range(pending) = Waiting /\ Waiting \subseteq Ids
    BY <1>0 DEF EngineTypes, Engine!Range, Waiting
  <2>3. m \in Messages /\ m.role = "assistant" /\ m.ids = Waiting
    BY <2>2 DEF Engine!Msg, Messages
  <2> HIDE DEF m
  <2>4. msgs \in Seq(Messages) /\ iter \in Nat /\ Matched(msgs, {}) /\ Below(msgs, iter)
    BY <1>0, <1>1 DEF EngineTypes, Calls, Open
  <2>5. \A id \in Waiting : id[1] = iter
    BY <1>0, <1>1 DEF Calls, Waiting
  <2>6. \A i \in 1..Len(msgs) : \A id \in msgs[i].ids : id \in Ids /\ id[1] < iter
    BY <2>4, IdsOf DEF Below
  <2>7. \A i \in 1..Len(msgs) : \A id \in msgs[i].ids : id \notin m.ids
    BY <2>3, <2>4, <2>5, <2>6
  <2>8. Matched(msgs', Waiting)
    BY <2>1, <2>3, <2>4, <2>7, CallsAdded
  <2>9. /\ msgs' \in Seq(Messages)
        /\ \A i \in 1..Len(msgs') : (i \in 1..Len(msgs) /\ msgs'[i] = msgs[i]) \/ msgs'[i] = m
    BY <2>1, <2>3, <2>4, Appended
  <2>10. Below(msgs', iter + 1)
    BY <2>3, <2>4, <2>5, <2>6, <2>9 DEF Below, Ids
  <2>11. Open' = Waiting
    BY <1>1, <1>4 DEF Open, Waiting
  <2>12. EngineTypes'
    BY <1>0, <1>1, <1>4, <2>1, <2>9 DEF EngineTypes
  <2>13. Calls'
    BY <1>0, <1>1, <1>4, <2>1, <2>8, <2>10, <2>11 DEF Calls
  <2>14. Stream'
    BY <1>0, <1>1, <1>4 DEF Stream
  <2>15. Outcome'
    BY <1>0, <1>1, <1>4 DEF Outcome, Engine!EndsOnce
  <2> QED
    BY <2>12, <2>13, <2>14, <2>15 DEF EngineInv
<1> QED
  BY <1>2, <1>3, <1>4 DEF Engine!Answer

LEMMA ExecuteToolStep ==
    ASSUME EngineInv, part' = part, Engine!ExecuteTool
    PROVE  EngineInv'
<1>0. EngineTypes /\ Calls /\ Stream /\ Outcome
  BY DEF EngineInv
<1>1. /\ pc = "tools" /\ pc' = "tools" /\ pending # <<>> /\ pending' = Tail(pending)
      /\ UNCHANGED <<provider, iter, attempt, tries, outcome>>
  BY DEF Engine!ExecuteTool, Engine!counters, Engine!result
<1> DEFINE h == Head(pending)
<1>2. PICK s \in Sizes : msgs' = Append(msgs, Engine!Msg("tool", {h}, s))
  BY DEF Engine!ExecuteTool
<1> DEFINE m == Engine!Msg("tool", {h}, s)
<1>3. /\ pending \in Seq(Ids) /\ Len(pending) \in Nat /\ 1 \in 1..Len(pending) /\ h = pending[1] /\ h \in Ids
      /\ pending' \in Seq(Ids) /\ Len(pending') = Len(pending) - 1
      /\ \A i \in 1..Len(pending') : i + 1 \in 1..Len(pending) /\ pending'[i] = pending[i + 1]
  BY <1>0, <1>1 DEF EngineTypes
<1> HIDE DEF h
<1>4. m \in Messages /\ m.role = "tool" /\ m.ids = {h}
  BY <1>3 DEF Engine!Msg, Messages
<1> HIDE DEF m
<1>5. Waiting' = Waiting \ {h} /\ h \in Waiting
  <2>1. h \in Waiting
    BY <1>3 DEF Waiting
  <2>2. ASSUME NEW i \in 1..Len(pending') PROVE pending'[i] \in Waiting \ {h}
    <3>1. i + 1 \in 1..Len(pending) /\ i + 1 # 1 /\ pending'[i] = pending[i + 1]
      BY <1>3
    <3>2. pending[i + 1] # pending[1]
      BY <1>0, <1>3, <3>1 DEF Calls
    <3> QED
      BY <1>3, <3>1, <3>2 DEF Waiting
  <2>3. ASSUME NEW x \in Waiting, x # h PROVE \E i \in 1..Len(pending') : x = pending'[i]
    <3>1. PICK i \in 1..Len(pending) : x = pending[i]
      BY DEF Waiting
    <3>2. i - 1 \in 1..Len(pending') /\ (i - 1) + 1 = i
      BY <1>3, <2>3, <3>1
    <3> QED
      BY <1>3, <3>1, <3>2
  <2> QED
    BY <2>1, <2>2, <2>3 DEF Waiting
<1>6. msgs \in Seq(Messages) /\ iter \in Nat /\ Matched(msgs, Waiting) /\ Below(msgs, iter + 1)
  BY <1>0, <1>1 DEF EngineTypes, Calls, Open
<1>7. Matched(msgs', Waiting')
  BY <1>2, <1>4, <1>5, <1>6, ResultAdded DEF m
<1>8. /\ msgs' \in Seq(Messages)
      /\ \A i \in 1..Len(msgs') : (i \in 1..Len(msgs) /\ msgs'[i] = msgs[i]) \/ msgs'[i] = m
  BY <1>2, <1>4, <1>6, Appended DEF m
<1>9. h[1] < iter + 1
  BY <1>0, <1>1, <1>3, <1>6 DEF Calls
<1>10. Below(msgs', iter + 1)
  BY <1>4, <1>6, <1>8, <1>9 DEF Below
<1>11. EngineTypes'
  BY <1>0, <1>1, <1>3, <1>8 DEF EngineTypes
<1>12. Calls'
  <2>1. \A i, j \in 1..Len(pending') : i # j => pending'[i] # pending'[j]
    <3> SUFFICES ASSUME NEW i \in 1..Len(pending'), NEW j \in 1..Len(pending'), i # j
                 PROVE  pending'[i] # pending'[j]
      OBVIOUS
    <3>1. i + 1 # j + 1 /\ i + 1 \in 1..Len(pending) /\ j + 1 \in 1..Len(pending)
      BY <1>3
    <3> QED
      BY <1>0, <1>3, <3>1 DEF Calls
  <2>2. \A i \in 1..Len(pending') : pending'[i][1] = iter
    BY <1>0, <1>1, <1>3 DEF Calls
  <2>3. Open' = Waiting'
    BY <1>1 DEF Open
  <2> QED
    BY <1>1, <1>7, <1>10, <2>1, <2>2, <2>3 DEF Calls
<1>13. Stream'
  BY <1>0, <1>1, <1>3 DEF Stream
<1>14. Outcome'
  BY <1>0, <1>1 DEF Outcome, Engine!EndsOnce
<1> QED
  BY <1>11, <1>12, <1>13, <1>14 DEF EngineInv

LEMMA TurnDoneStep ==
    ASSUME EngineInv, part' = part, Engine!TurnDone
    PROVE  EngineInv'
<1>0. EngineTypes /\ Calls /\ Stream /\ Outcome
  BY DEF EngineInv
<1>1. /\ pc = "tools" /\ pending = <<>> /\ iter' = iter + 1 /\ pc' = "iterate"
      /\ msgs' \in {msgs, Engine!Squeezed(msgs)}
      /\ UNCHANGED <<provider, attempt, tries, pending, outcome>>
  BY DEF Engine!TurnDone
<1>2. iter \in Nat /\ iter + 1 \in Nat
  BY <1>0 DEF EngineTypes
<1>3. Open = {} /\ Len(pending) = 0
  BY <1>1 DEF Open, Waiting
<1>4. msgs' \in Seq(Messages) /\ Matched(msgs', {}) /\ Below(msgs', iter + 1)
  BY <1>0, <1>1, <1>2, <1>3, SqueezeInv DEF EngineTypes, Calls
<1>5. EngineTypes'
  BY <1>0, <1>1, <1>2, <1>4 DEF EngineTypes
<1>6. Calls'
  BY <1>1, <1>3, <1>4 DEF Calls, Open
<1>7. Stream'
  BY <1>0, <1>1 DEF Stream
<1>8. Outcome'
  BY <1>0, <1>1 DEF Outcome, Engine!EndsOnce
<1> QED
  BY <1>5, <1>6, <1>7, <1>8 DEF EngineInv

LEMMA EngineNextStep ==
    ASSUME EngineInv, EngineStep, part \in EngineParts, part' = part
    PROVE  EngineInv'
<1> USE DEF EngineStep
<1>1. CASE Engine!Iterate
  BY <1>1, IterateStep
<1>2. CASE Engine!OutOfIterations
  BY <1>2, EndStep DEF Engine!OutOfIterations, Engine!counters, Engine!result
<1>3. CASE Engine!StreamText
  <2>1. UNCHANGED <<provider, pc, iter, attempt, tries, pending, msgs, outcome>>
    BY <1>3 DEF Engine!StreamText, Engine!counters, Engine!result
  <2> QED
    BY <2>1, Standing
<1>4. CASE Engine!StreamCall
  BY <1>4, StreamCallStep
<1>5. CASE Engine!StreamEnds
  BY <1>5, StreamEndsStep
<1>6. CASE Engine!ProviderRetries
  BY <1>6, ProviderRetriesStep
<1>7. CASE Engine!EngineRetries \/ Engine!Overflows
  <2>1. pc = "stream"
    BY <1>7 DEF Engine!EngineRetries, Engine!Overflows
  <2>2. Engine!GiveUp \/ (\E ms \in {msgs, Engine!Squeezed(msgs)} : Engine!Again(ms) /\ UNCHANGED outcome)
    BY <1>7 DEF Engine!EngineRetries, Engine!Overflows, Engine!Again, Engine!result
  <2> QED
    BY <2>1, <2>2, AgainStep, GiveUpStep
<1>8. CASE Engine!Answer
  BY <1>8, AnswerStep
<1>9. CASE Engine!ExecuteTool
  BY <1>9, ExecuteToolStep
<1>10. CASE Engine!TurnDone
  BY <1>10, TurnDoneStep
<1>11. CASE Engine!Finish
  <2>1. /\ pc = "finish" /\ pc' = "done" /\ UNCHANGED <<provider, iter, tries, attempt, pending, msgs>>
        /\ outcome' \in {outcome \o <<"error", "task_done">>, outcome \o <<"finish", "task_done">>}
    BY <1>11 DEF Engine!Finish, Engine!counters
  <2> QED
    BY <2>1, EndStep
<1> QED
  BY <1>1, <1>2, <1>3, <1>4, <1>5, <1>6, <1>7, <1>8, <1>9, <1>10, <1>11 DEF Engine!Next

EngineSound == part \in EngineParts => EngineInv
LEMMA EngineSoundStep == EngineSound /\ [AgentNext]_all => EngineSound'
<1> SUFFICES ASSUME EngineSound, [AgentNext]_all, part' \in EngineParts PROVE EngineInv'
  BY DEF EngineSound
<1>1. CASE UNCHANGED all
  <2>1. EngineInv /\ UNCHANGED <<part, engineVars>>
    BY <1>1 DEF all, EngineSound
  <2> QED
    BY <2>1, Standing DEF engineVars
<1>2. CASE EnginePart
  BY <1>2, EngineNextStep DEF EnginePart, EngineSound
<1>3. CASE ProcessPart \/ SessionPart \/ HelperPart \/ MCPPart \/ MemoryPart
  <2>1. FALSE
    BY <1>3 DEF ProcessPart, SessionPart, HelperPart, MCPPart, MemoryPart, EngineParts
  <2> QED
    BY <2>1
<1> QED
  BY <1>1, <1>2, <1>3 DEF AgentNext

(* Whatever the provider does, and for every bound on its retries: a request  *)
(* that is sent has exactly one result behind every tool call in it, also     *)
(* after a compaction; the calls that are run come of one response unless it  *)
(* was asked for again; and a turn ends in one answer or error and one        *)
(* task_done (AgentEngine).                                                   *)
THEOREM AgentTurnSound == AgentSpec => []TurnSound
<1>1. AgentInit => EngineSound
  BY EngineStart DEF EngineSound
<1>2. EngineSound => TurnSound
  <2> SUFFICES ASSUME EngineSound, part \in EngineParts
               PROVE  /\ Engine!Answered /\ Engine!EndsOnce
                      /\ part # "retried" => Engine!OneResponse
    BY DEF TurnSound
  <2>1. EngineTypes /\ Calls /\ Stream /\ Outcome
    BY DEF EngineSound, EngineInv
  <2>2. Engine!OneResponse \/ part = "retried"
    BY <2>1 DEF Engine!OneResponse, Stream, EngineTypes
  <2> QED
    BY <2>1, <2>2, AnsweredOnce DEF Outcome
<1> QED
  BY <1>1, <1>2, EngineSoundStep, PTL DEF AgentSpec

-----------------------------------------------------------------------------
(* SubAgents: a name is mapped to one that was spawned under it.              *)

HelperTypes ==
    /\ agents \in [Names -> 0..MaxAgents]
    /\ state \in [1..MaxAgents -> {"new", "run", "done"}]
    /\ cancelled \in [1..MaxAgents -> BOOLEAN]
    /\ owner = [i \in 1..MaxAgents |-> owner[i]] /\ name = [i \in 1..MaxAgents |-> name[i]]
    /\ collected = [i \in 1..MaxAgents |-> collected[i]]
    /\ call \in [0..MaxAgents -> {"idle", "wait", "drop"}]
    /\ target \in [0..MaxAgents -> 0..MaxAgents]
    /\ collectOutcome = [c \in 0..MaxAgents |-> collectOutcome[c]]

\* A name is mapped to one that was spawned under it.
Mapped == \A n \in Names : agents[n] # 0 => name[agents[n]] = n /\ state[agents[n]] # "new"

\* The one that is collected keeps its name, and is dropped only when it is done or given up.
Collecting == call[0] # "idle" =>
    /\ target[0] # 0 /\ \E n \in Names : agents[n] = target[0]
    /\ call[0] = "drop" => state[target[0]] = "done" \/ cancelled[target[0]]

HelperInv == HelperTypes /\ Mapped /\ Collecting /\ Helpers!OneCaller /\ Helpers!Findable /\ Helpers!OwnResult

LEMMA HelperStart == Helpers!Init => HelperInv
<1> SUFFICES ASSUME Helpers!Init PROVE HelperInv
  OBVIOUS
<1>1. MaxAgents \in Nat /\ 0 \in 0..MaxAgents
  BY AgentAssumption
<1>2. /\ agents = [n \in Names |-> 0] /\ owner = [i \in 1..MaxAgents |-> 0]
      /\ state = [i \in 1..MaxAgents |-> "new"] /\ cancelled = [i \in 1..MaxAgents |-> FALSE]
      /\ name = [i \in 1..MaxAgents |-> CHOOSE n \in Names : TRUE]
      /\ call = [c \in 0..MaxAgents |-> "idle"] /\ target = [c \in 0..MaxAgents |-> 0]
      /\ collectOutcome = [c \in 0..MaxAgents |-> "none"] /\ collected = [i \in 1..MaxAgents |-> {}]
  <2>1. {0} \cup 1..MaxAgents = 0..MaxAgents
    BY <1>1
  <2> QED
    BY <2>1 DEF Helpers!Init, Helpers!Ids, Helpers!Callers, Helpers!Main, Helpers!None
<1>3. HelperTypes
  BY <1>1, <1>2 DEF HelperTypes
<1>4. Mapped /\ Collecting
  BY <1>1, <1>2 DEF Mapped, Collecting
<1>5. Helpers!OneCaller /\ Helpers!Findable /\ Helpers!OwnResult
  <2>1. \A i \in 1..MaxAgents : i \in 0..MaxAgents
    BY <1>1
  <2> QED
    BY <1>2, <2>1 DEF Helpers!OneCaller, Helpers!Findable, Helpers!OwnResult, Helpers!Ids, Helpers!Main
<1> QED
  BY <1>3, <1>4, <1>5 DEF HelperInv

\* As long as only the main agent spawns and collects.
LEMMA HelperStep ==
    ASSUME HelperInv, Helpers!Next, Helpers!OneCaller'
    PROVE  HelperInv'
<1> USE DEF Helpers!Ids, Helpers!Main, Helpers!None
<1>0. HelperTypes /\ Mapped /\ Collecting /\ Helpers!OneCaller /\ Helpers!Findable /\ Helpers!OwnResult
  BY DEF HelperInv
<1>1. MaxAgents \in Nat /\ 0 \in 0..MaxAgents /\ \A i \in 1..MaxAgents : i \in 0..MaxAgents /\ i # 0
  BY AgentAssumption
<1>2. Helpers!Callers = 0..MaxAgents /\ \A i \in 0..MaxAgents : i # 0 => i \in 1..MaxAgents
  BY <1>1 DEF Helpers!Callers
<1>3. ASSUME NEW c \in 0..MaxAgents, NEW n \in Names, NEW i \in 1..MaxAgents, Helpers!SpawnAgent(c, n, i)
      PROVE  HelperInv'
  <2>1. /\ call[c] = "idle" /\ state[i] = "new" /\ agents[n] = 0
        /\ agents' = [agents EXCEPT ![n] = i] /\ owner' = [owner EXCEPT ![i] = c]
        /\ state' = [state EXCEPT ![i] = "run"] /\ name' = [name EXCEPT ![i] = n]
        /\ UNCHANGED <<cancelled, call, target, collectOutcome, collected>>
    BY <1>3 DEF Helpers!SpawnAgent, Helpers!Free, Helpers!calls
  <2>2. c = 0
    BY <1>0, <1>3, <2>1 DEF HelperTypes, Helpers!OneCaller
  <2>3. HelperTypes'
    BY <1>0, <1>1, <1>3, <2>1 DEF HelperTypes
  <2>4. \A m \in Names : agents'[m] = (IF m = n THEN i ELSE agents[m])
    BY <1>0, <2>1 DEF HelperTypes
  <2>5. \A j \in 1..MaxAgents : /\ state'[j] = (IF j = i THEN "run" ELSE state[j])
                                /\ name'[j] = (IF j = i THEN n ELSE name[j])
                                /\ owner'[j] = (IF j = i THEN 0 ELSE owner[j])
    BY <1>0, <2>1, <2>2 DEF HelperTypes
  <2>6. \A m \in Names : agents[m] # 0 => agents[m] # i /\ agents[m] \in 1..MaxAgents
    BY <1>0, <1>2, <2>1 DEF Mapped, HelperTypes
  <2>7. Mapped'
    BY <1>0, <1>1, <2>4, <2>5, <2>6 DEF Mapped
  <2>8. Collecting'
    BY <1>0, <2>1, <2>2 DEF Collecting
  <2>9. Helpers!Findable'
    <3> SUFFICES ASSUME NEW j \in 1..MaxAgents, state'[j] = "run", ~cancelled[j] PROVE agents'[name'[j]] = j
      BY <2>1 DEF Helpers!Findable
    <3>1. CASE j = i
      BY <2>4, <2>5, <3>1
    <3>2. CASE j # i
      <4>1. agents[name[j]] = j /\ j # 0
        BY <1>0, <1>1, <2>5, <3>2 DEF Helpers!Findable
      <4>2. name[j] # n
        BY <2>1, <4>1
      <4> QED
        BY <1>0, <2>1, <2>5, <3>2, <4>1, <4>2 DEF HelperTypes
    <3> QED
      BY <3>1, <3>2
  <2>10. Helpers!OwnResult'
    BY <1>0, <2>1, <2>5 DEF Helpers!OwnResult, Helpers!OneCaller
  <2> QED
    BY <2>3, <2>7, <2>8, <2>9, <2>10 DEF HelperInv
<1>4. ASSUME NEW i \in 1..MaxAgents, Helpers!RunSubAgent(i)
      PROVE  HelperInv'
  <2>1. /\ state[i] = "run" /\ state' = [state EXCEPT ![i] = "done"]
        /\ UNCHANGED <<agents, owner, cancelled, name, call, target, collectOutcome, collected>>
    BY <1>4 DEF Helpers!RunSubAgent, Helpers!calls
  <2>2. \A j \in 1..MaxAgents : state'[j] = (IF j = i THEN "done" ELSE state[j])
    BY <1>0, <2>1 DEF HelperTypes
  <2>3. HelperTypes'
    BY <1>0, <2>1 DEF HelperTypes
  <2>4. Mapped'
    BY <1>0, <1>2, <2>1, <2>2 DEF Mapped, HelperTypes
  <2>5. Collecting'
    BY <1>0, <1>1, <1>2, <2>1, <2>2 DEF Collecting, HelperTypes
  <2>6. Helpers!Findable' /\ Helpers!OwnResult'
    BY <1>0, <2>1, <2>2 DEF Helpers!Findable, Helpers!OwnResult
  <2> QED
    BY <2>3, <2>4, <2>5, <2>6 DEF HelperInv
<1>5. ASSUME NEW c \in 0..MaxAgents, NEW n \in Names, Helpers!Collect(c, n)
      PROVE  HelperInv'
  <2>1. /\ agents[n] # 0 /\ call[c] = "idle"
        /\ call' = [call EXCEPT ![c] = "wait"] /\ target' = [target EXCEPT ![c] = agents[n]]
        /\ UNCHANGED <<agents, owner, state, cancelled, name, collectOutcome, collected>>
    BY <1>5 DEF Helpers!Collect, Helpers!Free, Helpers!subs
  <2>2. c = 0
    BY <1>0, <1>2, <1>5, <2>1 DEF HelperTypes, Helpers!OneCaller
  <2>3. call'[0] = "wait" /\ target'[0] = agents[n]
    BY <1>0, <1>1, <2>1, <2>2 DEF HelperTypes
  <2>4. HelperTypes'
    BY <1>0, <1>5, <2>1 DEF HelperTypes
  <2>5. Mapped' /\ Helpers!Findable' /\ Helpers!OwnResult'
    BY <1>0, <2>1 DEF Mapped, Helpers!Findable, Helpers!OwnResult
  <2>6. Collecting'
    BY <2>1, <2>3 DEF Collecting
  <2> QED
    BY <2>4, <2>5, <2>6 DEF HelperInv
<1>6. ASSUME NEW c \in 0..MaxAgents, Helpers!SeeDone(c)
      PROVE  HelperInv'
  <2>1. /\ call[c] = "wait" /\ state[target[c]] = "done" /\ call' = [call EXCEPT ![c] = "drop"]
        /\ collectOutcome' = [collectOutcome EXCEPT ![c] = "result"]
        /\ UNCHANGED <<agents, owner, state, cancelled, name, target, collected>>
    BY <1>6 DEF Helpers!SeeDone, Helpers!subs
  <2>2. c = 0
    BY <1>0, <1>2, <1>6, <2>1 DEF Helpers!OneCaller
  <2>3. HelperTypes' /\ call'[0] = "drop"
    BY <1>0, <1>6, <2>1, <2>2 DEF HelperTypes
  <2>4. Mapped' /\ Helpers!Findable' /\ Helpers!OwnResult'
    BY <1>0, <2>1 DEF Mapped, Helpers!Findable, Helpers!OwnResult
  <2>5. Collecting'
    BY <1>0, <2>1, <2>2, <2>3 DEF Collecting
  <2> QED
    BY <2>3, <2>4, <2>5 DEF HelperInv
<1>7. ASSUME NEW c \in 0..MaxAgents, Helpers!TimesOut(c)
      PROVE  HelperInv'
  <2>1. /\ call[c] = "wait" /\ cancelled' = [cancelled EXCEPT ![target[c]] = TRUE]
        /\ call' = [call EXCEPT ![c] = "drop"] /\ collectOutcome' = [collectOutcome EXCEPT ![c] = "timeout"]
        /\ UNCHANGED <<agents, owner, state, name, target, collected>>
    BY <1>7 DEF Helpers!TimesOut
  <2>2. c = 0
    BY <1>0, <1>2, <1>7, <2>1 DEF Helpers!OneCaller
  <2>3. HelperTypes' /\ call'[0] = "drop"
    BY <1>0, <1>7, <2>1, <2>2 DEF HelperTypes
  <2>4. \A j \in 1..MaxAgents : cancelled'[j] = (IF j = target[c] THEN TRUE ELSE cancelled[j])
    BY <1>0, <2>1 DEF HelperTypes
  <2>5. Mapped' /\ Helpers!Findable' /\ Helpers!OwnResult'
    BY <1>0, <2>1, <2>4 DEF Mapped, Helpers!Findable, Helpers!OwnResult
  <2>6. target[0] \in 1..MaxAgents
    BY <1>0, <1>1, <1>2, <2>1, <2>2 DEF Collecting, HelperTypes
  <2>7. Collecting'
    BY <1>0, <2>1, <2>2, <2>3, <2>4, <2>6 DEF Collecting
  <2> QED
    BY <2>3, <2>5, <2>7 DEF HelperInv
<1>8. ASSUME NEW c \in 0..MaxAgents, Helpers!Drop(c)
      PROVE  HelperInv'
  <2>1. /\ call[c] = "drop" /\ agents' = [agents EXCEPT ![name[target[c]]] = 0]
        /\ call' = [call EXCEPT ![c] = "idle"] /\ target' = [target EXCEPT ![c] = 0]
        /\ collectOutcome' = [collectOutcome EXCEPT ![c] = "none"]
        /\ \/ collected' = collected
           \/ collected' = [collected EXCEPT ![target[c]] = @ \cup {c}]
        /\ UNCHANGED <<owner, state, cancelled, name>>
    BY <1>8 DEF Helpers!Drop, Helpers!subs
  <2>2. c = 0
    BY <1>0, <1>2, <1>8, <2>1 DEF Helpers!OneCaller
  <2>3. PICK n \in Names : agents[n] = target[0] /\ target[0] # 0
    BY <1>0, <2>1, <2>2 DEF Collecting
  <2>4. target[0] \in 1..MaxAgents /\ name[target[0]] = n
    BY <1>0, <1>1, <1>2, <2>3 DEF Mapped, HelperTypes
  <2>5. \A m \in Names : agents'[m] = (IF m = n THEN 0 ELSE agents[m])
    BY <1>0, <2>1, <2>2, <2>4 DEF HelperTypes
  <2>6. HelperTypes' /\ call'[0] = "idle"
    BY <1>0, <1>1, <2>1, <2>2 DEF HelperTypes
  <2>7. Mapped' /\ Collecting'
    BY <1>0, <2>1, <2>5, <2>6 DEF Mapped, Collecting
  <2>8. Helpers!Findable'
    <3> SUFFICES ASSUME NEW j \in 1..MaxAgents, state[j] = "run", ~cancelled[j] PROVE agents'[name[j]] = j
      BY <2>1 DEF Helpers!Findable
    <3>1. agents[name[j]] = j
      BY <1>0 DEF Helpers!Findable
    <3>2. j # target[0]
      BY <1>0, <2>1, <2>2 DEF Collecting
    <3>3. name[j] # n
      BY <2>3, <3>1, <3>2
    <3> QED
      BY <1>0, <2>1, <2>2, <2>4, <3>1, <3>3 DEF HelperTypes
  <2>9. Helpers!OwnResult'
    <3> SUFFICES ASSUME NEW j \in 1..MaxAgents PROVE collected'[j] \subseteq {owner[j]}
      BY <2>1 DEF Helpers!OwnResult
    <3>1. collected[j] \subseteq {owner[j]} /\ owner[j] = 0
      BY <1>0 DEF Helpers!OwnResult, Helpers!OneCaller
    <3>2. collected'[j] = collected[j] \/ collected'[j] = collected[j] \cup {0}
      BY <1>0, <2>1, <2>2 DEF HelperTypes
    <3> QED
      BY <3>1, <3>2
  <2> QED
    BY <2>6, <2>7, <2>8, <2>9 DEF HelperInv
<1> QED
  BY <1>2, <1>3, <1>4, <1>5, <1>6, <1>7, <1>8 DEF Helpers!Next

-----------------------------------------------------------------------------
(* MCPClient: a session in use is the newest of its server, and whoever is    *)
(* served holds the mutex.                                                    *)

Connected == booting = {}
Busy == {"connect", "install", "lock", "calling"}
CallState == [pc : Busy \cup {"idle", "done"}, server : Servers \cup {"none"}, using : Nat,
              again : BOOLEAN, tries : {0, 1}, result : {"none", "ok", "error", "crash"}]

MCPTypes ==
    /\ sessions \in [Servers -> Nat] /\ last \in Nat
    /\ registered \subseteq Servers /\ booting \subseteq Servers
    /\ mu \in MCPCallers \cup {"none"} /\ st \in [MCPCallers -> CallState]
    /\ ran \in [MCPCallers -> Nat]

\* A session in use is the newest of its server, so only older ones are closed.
Sessions ==
    /\ \A s \in Servers : sessions[s] <= last /\ sessions[s] \notin closed
    /\ \A n \in closed : n \in Nat /\ n # 0 /\ n <= last
    /\ \A s, t \in Servers : s # t /\ sessions[s] = sessions[t] => sessions[s] = 0
    /\ \A s \in registered : sessions[s] # 0

\* Whose turn it is: start-up is the agent's, a call is made of a registered
\* server, and the caller that is served holds the mutex.
Serving == \A c \in MCPCallers :
    /\ st[c].pc = "calling" <=> mu = c
    /\ st[c].pc = "calling" => st[c].using = sessions[st[c].server]
    /\ st[c].pc \in Busy /\ Connected => st[c].server \in registered
    /\ ~Connected => /\ st[c].pc \in {"idle", "connect", "install"}
                     /\ st[c].pc # "idle" => c = "agent" /\ st[c].server \in Servers
                     /\ ran[c] = 0

\* How often the tool of a call has run.
Runs == \A c \in MCPCallers :
    /\ st[c].pc \in Busy => ran[c] <= (IF st[c].again THEN 1 ELSE 0)
    /\ ran[c] <= 2
    /\ st[c].pc # "done" => st[c].result = "none"
    /\ st[c].result = "ok" => ran[c] > 0

MCPInv == MCPTypes /\ Sessions /\ Serving /\ Runs

LEMMA MCPStart == MCP!Init => MCPInv
<1> SUFFICES ASSUME MCP!Init PROVE MCPInv
  OBVIOUS
<1>1. /\ sessions = [s \in Servers |-> 0] /\ last = 0 /\ closed = {} /\ registered = {} /\ booting = Servers
      /\ mu = "none" /\ ran = [c \in MCPCallers |-> 0]
      /\ st = [c \in MCPCallers |-> [pc |-> "idle", server |-> "none", using |-> 0, again |-> FALSE,
                                  tries |-> 0, result |-> "none"]]
  BY DEF MCP!Init, MCP!Idle
<1>2. MCPTypes
  BY <1>1 DEF MCPTypes, CallState, Busy
<1>3. Sessions
  BY <1>1 DEF Sessions
<1>4. Serving /\ Runs
  BY <1>1, AgentAssumption DEF Serving, Runs, Busy
<1> QED
  BY <1>2, <1>3, <1>4 DEF MCPInv

\* What holds of a client whose call did not move, as long as nothing it rests on did.
LEMMA MCPSafe == MCPInv => MCP!MCPClientSafe
<1> SUFFICES ASSUME MCPInv, NEW c \in MCPCallers
             PROVE  /\ st[c].pc = "calling" => st[c].using \notin closed \cup {0}
                    /\ st[c].result = "ok" => ran[c] > 0
                    /\ ran[c] <= 2
  BY DEF MCP!MCPClientSafe
<1>1. st[c].pc = "calling" => Connected /\ st[c].server \in registered /\ st[c].using = sessions[st[c].server]
  BY DEF MCPInv, Serving, Busy
<1>2. registered \subseteq Servers
  BY DEF MCPInv, MCPTypes
<1> QED
  BY <1>1, <1>2 DEF MCPInv, Sessions, Runs

LEMMA BootStep ==
    ASSUME MCPInv, MCP!Boot
    PROVE  MCPInv'
<1>0. MCPTypes /\ Sessions /\ Serving /\ Runs
  BY DEF MCPInv
<1>1. PICK s \in booting : st' = [st EXCEPT !["agent"] = [MCP!Idle EXCEPT !.pc = "connect", !.server = s]]
  BY DEF MCP!Boot, MCP!Main
<1>2. ~Connected /\ UNCHANGED <<sessions, last, closed, registered, booting, mu, ran>>
  BY DEF MCP!Boot, MCP!Booted, Connected
<1>3. s \in Servers /\ "agent" \in MCPCallers
  BY <1>0, AgentAssumption DEF MCPTypes
<1> DEFINE new == [MCP!Idle EXCEPT !.pc = "connect", !.server = s]
<1>8. /\ new \in CallState
      /\ new.pc = "connect" /\ new.server = s /\ new.again = FALSE /\ new.result = "none"
  BY <1>3 DEF MCP!Idle, CallState, Busy
<1>10. st' = [st EXCEPT !["agent"] = new]
  BY <1>1
<1> HIDE DEF new
<1>4. \A c \in MCPCallers : st'[c] = (IF c = "agent" THEN new ELSE st[c])
  BY <1>0, <1>3, <1>10 DEF MCPTypes
<1>5. MCPTypes'
  BY <1>0, <1>2, <1>3, <1>8, <1>10 DEF MCPTypes
<1>6. Sessions'
  BY <1>0, <1>2 DEF Sessions
<1>7. Serving'
  BY <1>0, <1>2, <1>3, <1>4, <1>8 DEF Serving, Busy, Connected
<1>9. Runs'
  BY <1>0, <1>2, <1>3, <1>4, <1>8 DEF Serving, Runs, Busy
<1> QED
  BY <1>5, <1>6, <1>7, <1>9 DEF MCPInv

LEMMA DialStep ==
    ASSUME MCPInv, NEW c \in MCPCallers, MCP!Dial(c)
    PROVE  MCPInv'
<1>0. MCPTypes /\ Sessions /\ Serving /\ Runs
  BY DEF MCPInv
<1>1. st[c].pc = "connect" /\ UNCHANGED <<sessions, last, closed, registered, mu, ran>>
  BY DEF MCP!Dial
<1>2. /\ st' \in [MCPCallers -> CallState] /\ \A d \in MCPCallers : d # c => st'[d] = st[d]
      /\ \/ /\ booting' = booting /\ st'[c].pc \in {"install", "connect"} /\ st'[c].server = st[c].server
            /\ st'[c].again = st[c].again /\ st'[c].result = st[c].result
         \/ /\ Connected /\ booting' = booting /\ st'[c].pc = "done" /\ st'[c].result = "crash"
         \/ /\ ~Connected /\ booting' = booting \ {st[c].server}
            /\ st'[c].pc = "idle" /\ st'[c].result = "none"
  <2>1. CASE st' = [st EXCEPT ![c].pc = "install", ![c].tries = 0] /\ booting' = booting
    BY <1>0, <1>1, <2>1 DEF MCPTypes, CallState, Busy
  <2>2. CASE st' = [st EXCEPT ![c].tries = 1] /\ booting' = booting
    BY <1>0, <1>1, <2>2 DEF MCPTypes, CallState, Busy
  <2>3. CASE Connected /\ st' = [st EXCEPT ![c].pc = "done", ![c].result = "crash"] /\ booting' = booting
    <3>1. st[c] \in CallState /\ st' = [st EXCEPT ![c] = [st[c] EXCEPT !.pc = "done", !.result = "crash"]]
      BY <1>0, <2>3 DEF MCPTypes
    <3>2. [st[c] EXCEPT !.pc = "done", !.result = "crash"] \in CallState
      BY <3>1 DEF CallState, Busy
    <3> QED
      BY <1>0, <2>3, <3>1, <3>2 DEF MCPTypes, CallState
  <2>4. CASE ~Connected /\ st' = [st EXCEPT ![c] = MCP!Idle] /\ booting' = booting \ {st[c].server}
    BY <1>0, <1>1, <2>4 DEF MCPTypes, CallState, Busy, MCP!Idle
  <2> QED
    BY <2>1, <2>2, <2>3, <2>4 DEF MCP!Dial, MCP!Booted, Connected
<1>3. MCPTypes'
  BY <1>0, <1>1, <1>2 DEF MCPTypes
<1>4. Sessions'
  BY <1>0, <1>1 DEF Sessions
<1>5. ~Connected => c = "agent"
  BY <1>0, <1>1 DEF Serving
<1>6. Serving'
  BY <1>0, <1>1, <1>2, <1>5 DEF Serving, Busy, Connected
<1>7. Runs'
  BY <1>0, <1>1, <1>2 DEF Runs, Busy
<1> QED
  BY <1>3, <1>4, <1>6, <1>7 DEF MCPInv

LEMMA InstallStep ==
    ASSUME MCPInv, NEW c \in MCPCallers, MCP!Install(c)
    PROVE  MCPInv'
<1>0. MCPTypes /\ Sessions /\ Serving /\ Runs
  BY DEF MCPInv
<1> DEFINE s == st[c].server
<1>1. /\ st[c].pc = "install" /\ mu = "none" /\ last' = last + 1 /\ sessions' = [sessions EXCEPT ![s] = last + 1]
      /\ closed' = closed \cup ({sessions[s]} \ {0}) /\ UNCHANGED <<mu, ran>>
  BY DEF MCP!Install
<1>2. s \in Servers
  BY <1>0, <1>1 DEF Serving, MCPTypes, Busy
<1>3. /\ st' \in [MCPCallers -> CallState] /\ \A d \in MCPCallers : d # c => st'[d] = st[d]
      /\ \/ /\ Connected /\ UNCHANGED <<booting, registered>> /\ st'[c].pc = "lock" /\ st'[c].server = s
            /\ st'[c].again = st[c].again /\ st'[c].result = st[c].result
         \/ /\ ~Connected /\ booting' = booting \ {s} /\ registered' = registered \cup {s}
            /\ st'[c].pc = "idle" /\ st'[c].result = "none"
  <2>1. CASE Connected
    BY <1>0, <2>1 DEF MCP!Install, MCP!Booted, Connected, MCPTypes, CallState, Busy
  <2>2. CASE ~Connected
    <3>1. MCP!Idle \in CallState /\ MCP!Idle.pc = "idle" /\ MCP!Idle.result = "none"
      BY DEF MCP!Idle, CallState, Busy
    <3>2. /\ st' = [st EXCEPT ![c] = MCP!Idle]
          /\ registered' = registered \cup {s} /\ booting' = booting \ {s}
      BY <2>2 DEF MCP!Install, MCP!Booted, Connected
    <3> QED
      BY <1>0, <2>2, <3>1, <3>2 DEF MCPTypes
  <2> QED
    BY <2>1, <2>2
<1>4. ~Connected => c = "agent"
  BY <1>0, <1>1 DEF Serving
<1>5. \A d \in MCPCallers : st[d].pc # "calling"
  BY <1>0, <1>1, AgentAssumption DEF Serving
<1>6. \A t \in Servers : sessions'[t] = (IF t = s THEN last + 1 ELSE sessions[t]) /\ sessions[t] \in Nat
  BY <1>0, <1>1, <1>2 DEF MCPTypes
<1> HIDE DEF s
<1>7. MCPTypes'
  BY <1>0, <1>1, <1>2, <1>3, <1>6 DEF MCPTypes
<1>8. Sessions'
  <2>1. last \in Nat
    BY <1>0 DEF MCPTypes
  <2>2. \A t \in Servers : sessions'[t] <= last' /\ sessions'[t] \notin closed'
    <3> SUFFICES ASSUME NEW t \in Servers PROVE sessions'[t] <= last' /\ sessions'[t] \notin closed'
      OBVIOUS
    <3>1. sessions[t] <= last /\ sessions[t] \notin closed /\ sessions[s] <= last /\ \A n \in closed : n \in Nat /\ n <= last
      BY <1>0, <1>2 DEF Sessions
    <3>2. CASE t = s
      BY <1>1, <1>2, <1>6, <2>1, <3>1, <3>2
    <3>3. CASE t # s
      BY <1>0, <1>1, <1>2, <1>6, <2>1, <3>1, <3>3 DEF Sessions
    <3> QED
      BY <3>2, <3>3
  <2>3. \A n \in closed' : n \in Nat /\ n # 0 /\ n <= last'
    BY <1>0, <1>1, <1>2, <1>6, <2>1 DEF Sessions
  <2>4. \A t, u \in Servers : t # u /\ sessions'[t] = sessions'[u] => sessions'[t] = 0
    BY <1>0, <1>2, <1>6, <2>1 DEF Sessions
  <2>5. \A t \in registered' : sessions'[t] # 0
    BY <1>0, <1>2, <1>3, <1>6, <2>1 DEF Sessions, MCPTypes
  <2> QED
    BY <2>2, <2>3, <2>4, <2>5 DEF Sessions
<1>9. Serving'
  <2>1. \A d \in MCPCallers : st'[d].pc # "calling" /\ mu' # d
    BY <1>0, <1>1, <1>3, <1>5 DEF Serving
  <2>2. CASE Connected
    <3>1. s \in registered
      BY <1>0, <1>1, <2>2 DEF Serving, Busy, s
    <3> QED
      BY <1>0, <1>1, <1>3, <2>1, <2>2, <3>1 DEF Serving, Busy, Connected
  <2>3. CASE ~Connected
    BY <1>0, <1>1, <1>3, <1>4, <2>1, <2>3 DEF Serving, Busy, Connected
  <2> QED
    BY <2>2, <2>3
<1>10. Runs'
  BY <1>0, <1>1, <1>3 DEF Runs, Busy
<1> QED
  BY <1>7, <1>8, <1>9, <1>10 DEF MCPInv

LEMMA CallStep ==
    ASSUME MCPInv, NEW c \in MCPCallers, MCP!Call(c)
    PROVE  MCPInv'
<1>0. MCPTypes /\ Sessions /\ Serving /\ Runs
  BY DEF MCPInv
<1>1. PICK s \in registered : st' = [st EXCEPT ![c] = [MCP!Idle EXCEPT !.pc = "lock", !.server = s]]
  BY DEF MCP!Call
<1>2. /\ Connected /\ st[c].pc = "idle" /\ ran' = [ran EXCEPT ![c] = 0]
      /\ UNCHANGED <<sessions, last, closed, registered, booting, mu>>
  BY DEF MCP!Call, MCP!Booted, Connected
<1>3. s \in Servers
  BY <1>0 DEF MCPTypes
<1> DEFINE new == [MCP!Idle EXCEPT !.pc = "lock", !.server = s]
<1>8. /\ new \in CallState
      /\ new.pc = "lock" /\ new.server = s /\ new.again = FALSE /\ new.result = "none"
  BY <1>3 DEF MCP!Idle, CallState, Busy
<1>10. st' = [st EXCEPT ![c] = new]
  BY <1>1
<1> HIDE DEF new
<1>4. \A d \in MCPCallers :
          /\ st'[d] = (IF d = c THEN new ELSE st[d]) /\ ran'[d] = (IF d = c THEN 0 ELSE ran[d])
  BY <1>0, <1>2, <1>10 DEF MCPTypes
<1>5. MCPTypes'
  BY <1>0, <1>2, <1>3, <1>8, <1>10 DEF MCPTypes
<1>6. Sessions'
  BY <1>0, <1>2 DEF Sessions
<1>7. Serving'
  BY <1>0, <1>2, <1>4, <1>8 DEF Serving, Busy, Connected
<1>9. Runs'
  BY <1>0, <1>2, <1>4, <1>8 DEF Runs, Busy
<1> QED
  BY <1>5, <1>6, <1>7, <1>9 DEF MCPInv

LEMMA LockStep ==
    ASSUME MCPInv, NEW c \in MCPCallers, MCP!Lock(c)
    PROVE  MCPInv'
<1>0. MCPTypes /\ Sessions /\ Serving /\ Runs
  BY DEF MCPInv
<1>1. /\ st[c].pc = "lock" /\ mu = "none" /\ mu' = c
      /\ st' = [st EXCEPT ![c].pc = "calling", ![c].using = sessions[st[c].server]]
      /\ UNCHANGED <<sessions, last, closed, registered, booting, ran>>
  BY DEF MCP!Lock
<1>2. Connected /\ st[c].server \in registered /\ st[c].server \in Servers
  BY <1>0, <1>1 DEF Serving, Busy, MCPTypes
<1>3. /\ st' \in [MCPCallers -> CallState] /\ \A d \in MCPCallers : d # c => st'[d] = st[d]
      /\ st'[c].pc = "calling" /\ st'[c].using = sessions[st[c].server] /\ st'[c].server = st[c].server
      /\ st'[c].again = st[c].again /\ st'[c].result = st[c].result
  BY <1>0, <1>1, <1>2 DEF MCPTypes, CallState, Busy
<1>4. \A d \in MCPCallers : st[d].pc # "calling"
  BY <1>0, <1>1, AgentAssumption DEF Serving
<1>5. MCPTypes' /\ Sessions'
  BY <1>0, <1>1, <1>3 DEF MCPTypes, Sessions
<1>6. Serving'
  BY <1>0, <1>1, <1>2, <1>3, <1>4 DEF Serving, Busy, Connected
<1>7. Runs'
  BY <1>0, <1>1, <1>3 DEF Runs, Busy
<1> QED
  BY <1>5, <1>6, <1>7 DEF MCPInv

\* A call that is served ends, or is to be repeated; the mutex is given back.
LEMMA ServedStep ==
    ASSUME MCPInv, NEW c \in MCPCallers, MCP!Answer(c) \/ MCP!Refuse(c) \/ MCP!Disconnected(c)
    PROVE  MCPInv'
<1>0. MCPTypes /\ Sessions /\ Serving /\ Runs
  BY DEF MCPInv
<1>1. /\ st[c].pc = "calling" /\ mu = c /\ mu' = "none"
      /\ UNCHANGED <<sessions, last, closed, registered, booting>>
  BY <1>0 DEF MCP!Answer, MCP!Refuse, MCP!Disconnected, MCP!Release, Serving
<1>2. /\ st' \in [MCPCallers -> CallState] /\ ran' \in [MCPCallers -> Nat]
      /\ \A d \in MCPCallers : d # c => st'[d] = st[d] /\ ran'[d] = ran[d]
      /\ \/ st'[c].pc = "done" /\ st'[c].result = "ok" /\ ran'[c] = ran[c] + 1
         \/ st'[c].pc = "done" /\ st'[c].result # "ok" /\ ran'[c] \in {ran[c], ran[c] + 1}
         \/ /\ st'[c].pc = "connect" /\ st'[c].result = "none" /\ st'[c].server = st[c].server
            /\ ~st[c].again /\ st'[c].again /\ ran'[c] \in {ran[c], ran[c] + 1}
  <2>1. CASE MCP!Answer(c)
    <3>1. /\ st[c] \in CallState /\ st' = [st EXCEPT ![c] = [st[c] EXCEPT !.pc = "done", !.result = "ok"]]
          /\ ran' = [ran EXCEPT ![c] = @ + 1]
      BY <1>0, <2>1 DEF MCP!Answer, MCPTypes
    <3>2. [st[c] EXCEPT !.pc = "done", !.result = "ok"] \in CallState
      BY <3>1 DEF CallState, Busy
    <3> QED
      BY <1>0, <3>1, <3>2 DEF MCPTypes, CallState
  <2>2. CASE MCP!Refuse(c)
    <3>1. PICK r \in {"error", "crash"} : st' = [st EXCEPT ![c].pc = "done", ![c].result = r]
      BY <2>2 DEF MCP!Refuse
    <3>2. /\ st[c] \in CallState /\ st' = [st EXCEPT ![c] = [st[c] EXCEPT !.pc = "done", !.result = r]]
          /\ ran' = [ran EXCEPT ![c] = @ + 1]
      BY <1>0, <2>2, <3>1 DEF MCP!Refuse, MCPTypes
    <3>3. [st[c] EXCEPT !.pc = "done", !.result = r] \in CallState
      BY <3>2 DEF CallState, Busy
    <3> QED
      BY <1>0, <3>2, <3>3 DEF MCPTypes, CallState
  <2>3. CASE MCP!Disconnected(c)
    <3>1. PICK k \in {0, 1} : ran' = [ran EXCEPT ![c] = @ + k]
      BY <2>3 DEF MCP!Disconnected
    <3>2. ran' \in [MCPCallers -> Nat] /\ ran'[c] \in {ran[c], ran[c] + 1} /\ \A d \in MCPCallers : d # c => ran'[d] = ran[d]
      BY <1>0, <3>1 DEF MCPTypes
    <3>3. st[c] \in CallState
      BY <1>0 DEF MCPTypes
    <3>4. CASE st[c].again
      <4>1. st' = [st EXCEPT ![c] = [st[c] EXCEPT !.pc = "done", !.result = "error"]]
        BY <2>3, <3>4 DEF MCP!Disconnected
      <4> QED
        BY <1>0, <3>2, <3>3, <4>1 DEF MCPTypes, CallState, Busy
    <3>5. CASE ~st[c].again
      <4>1. st' = [st EXCEPT ![c] = [st[c] EXCEPT !.pc = "connect", !.again = TRUE, !.using = 0]]
        BY <2>3, <3>5 DEF MCP!Disconnected
      <4>2. st[c].result = "none"
        BY <1>0, <1>1 DEF Runs
      <4> QED
        BY <1>0, <3>2, <3>3, <3>5, <4>1, <4>2 DEF MCPTypes, CallState, Busy
    <3> QED
      BY <3>4, <3>5
  <2> QED
    BY <2>1, <2>2, <2>3
<1>3. Connected /\ st[c].server \in registered /\ ran[c] \in Nat /\ ran[c] <= (IF st[c].again THEN 1 ELSE 0)
  BY <1>0, <1>1 DEF Serving, Runs, Busy, MCPTypes
<1>4. MCPTypes' /\ Sessions'
  BY <1>0, <1>1, <1>2 DEF MCPTypes, Sessions
<1>5. Serving'
  BY <1>0, <1>1, <1>2, <1>3, AgentAssumption DEF Serving, Busy, Connected
<1>6. Runs'
  BY <1>0, <1>2, <1>3 DEF Runs, Busy
<1> QED
  BY <1>4, <1>5, <1>6 DEF MCPInv

LEMMA MCPStep == MCPInv /\ MCP!Next => MCPInv'
<1> SUFFICES ASSUME MCPInv, MCP!Next PROVE MCPInv'
  OBVIOUS
<1>0. MCPTypes /\ Sessions /\ Serving /\ Runs
  BY DEF MCPInv
<1>1. ASSUME NEW c \in MCPCallers, MCP!Return(c) PROVE MCPInv'
  <2>1. /\ st[c].pc = "done" /\ st' = [st EXCEPT ![c] = MCP!Idle]
        /\ UNCHANGED <<sessions, last, closed, registered, booting, mu, ran>>
    BY <1>1 DEF MCP!Return
  <2>2. /\ st' \in [MCPCallers -> CallState] /\ \A d \in MCPCallers : d # c => st'[d] = st[d]
        /\ st'[c].pc = "idle" /\ st'[c].result = "none"
    BY <1>0, <2>1 DEF MCPTypes, CallState, Busy, MCP!Idle
  <2>3. MCPTypes' /\ Sessions' /\ Runs'
    BY <1>0, <2>1, <2>2 DEF MCPTypes, Sessions, Runs, Busy
  <2>4. Serving'
    BY <1>0, <2>1, <2>2 DEF Serving, Busy, Connected
  <2> QED
    BY <2>3, <2>4 DEF MCPInv
<1>2. ASSUME NEW s \in Servers, MCP!Break(s) PROVE MCPInv'
  BY <1>2 DEF MCP!Break, MCPInv, MCPTypes, Sessions, Serving, Runs, Connected
<1> QED
  BY <1>1, <1>2, BootStep, DialStep, InstallStep, CallStep, LockStep, ServedStep DEF MCP!Next, MCP!Work

HelpersInv == (part = "flat" => HelperInv) /\ (part = "mcp" => MCPInv)

LEMMA HelpersInvStep == HelpersInv /\ [AgentNext]_all => HelpersInv'
<1> SUFFICES ASSUME HelpersInv, [AgentNext]_all PROVE HelpersInv'
  OBVIOUS
<1>1. CASE UNCHANGED all
  <2>1. UNCHANGED <<part, helperVars, mcpVars>>
    BY <1>1 DEF all
  <2>2. HelperInv => HelperInv'
    BY <2>1 DEF helperVars, HelperInv, HelperTypes, Mapped, Collecting, Helpers!OneCaller,
                Helpers!Findable, Helpers!OwnResult
  <2>3. MCPInv => MCPInv'
    BY <2>1 DEF mcpVars, MCPInv, MCPTypes, Sessions, Serving, Runs, Connected
  <2> QED
    BY <2>1, <2>2, <2>3 DEF HelpersInv
<1>2. CASE HelperPart
  <2>1. /\ part \in {"nested", "flat"} /\ part' = part /\ Helpers!Next
        /\ part = "flat" => Helpers!OneCaller'
    BY <1>2 DEF HelperPart
  <2> QED
    BY <2>1, HelperStep DEF HelpersInv
<1>3. CASE MCPPart
  <2>1. part = "mcp" /\ part' = part /\ MCP!Next
    BY <1>3 DEF MCPPart
  <2> QED
    BY <2>1, MCPStep DEF HelpersInv
<1>4. CASE ProcessPart \/ EnginePart \/ SessionPart \/ MemoryPart
  <2>1. part \notin {"flat", "mcp"} /\ part' = part
    BY <1>4 DEF ProcessPart, EnginePart, SessionPart, MemoryPart, EngineParts
  <2> QED
    BY <2>1 DEF HelpersInv
<1> QED
  BY <1>1, <1>2, <1>3, <1>4 DEF AgentNext

(* For every number of sub-agents, as long as only the main agent spawns and  *)
(* collects: none is forgotten while it works, and each result goes to the    *)
(* one that spawned it (SubAgents).  And for every set of callers and         *)
(* servers: no session is closed under a call, and a call that is answered    *)
(* has run its tool, twice at most (MCPClient).                               *)
THEOREM AgentHelpersSound == AgentSpec => []HelpersSound
<1>1. AgentInit => HelpersInv
  BY HelperStart, MCPStart DEF AgentInit, HelpersInv
<1>2. HelpersInv => HelpersSound
  BY MCPSafe DEF HelpersInv, HelpersSound, HelperInv
<1> QED
  BY <1>1, <1>2, HelpersInvStep, PTL DEF AgentSpec

-----------------------------------------------------------------------------
(* MemoryEvolution: what a writer read is what is wanted still, and before it *)
(* empties a file there is a copy of its last good text.                      *)

\* A file's last good text has a copy.
Copied(f) == good[f] # Memory!Empty(f) => \E b \in backups : b.file = f /\ b.text = good[f]
\* What is known of a writer's job: its files were read as they are wanted now,
\* all but the one it has emptied are as they should be, and before it empties
\* one there is a copy.
Job(j) ==
    /\ j = [pc |-> j.pc, queue |-> j.queue, op |-> j.op, read |-> j.read]
    /\ j.pc \in {"backup", "truncate", "write", "mark"}
    /\ j.queue \in {<<"USER">>, <<"MEMORY">>, <<"USER", "MEMORY">>}
    /\ j.pc # "mark" => \A i \in 1..Len(j.queue) : j.read[j.queue[i]] = wanted[j.queue[i]]
    /\ \A f \in Memory!Files : file[f] = wanted[f] \/ (j.pc = "write" /\ f = j.queue[1])
    /\ j.pc = "truncate" => Copied(j.queue[1])

MemoryTypes == /\ job = [w \in Writers |-> job[w]]
               /\ file = [f \in Memory!Files |-> file[f]]
               /\ wanted = [f \in Memory!Files |-> wanted[f]]
               /\ good = [f \in Memory!Files |-> good[f]]
MemoryInv ==
    /\ MemoryTypes
    /\ Memory!OneAtATime
    /\ \A w \in Writers : job[w] = Memory!Idle \/ Job(job[w])
    /\ Memory!Recoverable
    /\ Memory!NoneUndone

LEMMA MemoryStart == AgentInit => MemoryInv
<1> SUFFICES ASSUME AgentInit PROVE MemoryInv
  OBVIOUS
<1>1. /\ file = [f \in Memory!Files |-> Memory!Empty(f)] /\ wanted = file /\ good = file
      /\ job = [w \in Writers |-> Memory!Idle]
  BY DEF AgentInit, Memory!Init
<1>2. MemoryTypes
  BY <1>1 DEF MemoryTypes
<1>3. \A w \in Writers : job[w] = Memory!Idle
  BY <1>1
<1>4. \A f \in Memory!Files : good[f] = Memory!Empty(f)
  BY <1>1
<1> QED
  BY <1>1, <1>2, <1>3, <1>4 DEF MemoryInv, Memory!OneAtATime, Memory!Recoverable, Memory!NoneUndone

LEMMA IdleJob ==
    /\ Memory!Idle.pc = "idle"
    /\ \A j : Job(j) => j # Memory!Idle
  BY DEF Memory!Idle, Job

\* A step of the one writer at work, w.
LEMMA WriterStep ==
    ASSUME MemoryInv, Memory!OneAtATime', NEW w \in Writers, NEW j,
           job' = [job EXCEPT ![w] = j], \A v \in Writers \ {w} : job[v] = Memory!Idle,
           j = Memory!Idle => file' = wanted',
           j # Memory!Idle => Job(j)',
           file' = [f \in Memory!Files |-> file'[f]],
           wanted' = [f \in Memory!Files |-> wanted'[f]],
           good' = [f \in Memory!Files |-> good'[f]],
           Memory!Recoverable'
    PROVE  MemoryInv'
<1>1. job = [v \in Writers |-> job[v]]
  BY DEF MemoryInv, MemoryTypes
<1>2. job' = [v \in Writers |-> IF v = w THEN j ELSE job[v]]
  BY <1>1
<1>3. job'[w] = j /\ \A v \in Writers \ {w} : job'[v] = Memory!Idle
  BY <1>2
<1>4. MemoryTypes'
  BY <1>2 DEF MemoryTypes
<1>5. (\A v \in Writers : job[v] = Memory!Idle \/ Job(job[v]))'
  <2> SUFFICES ASSUME NEW v \in Writers PROVE (job[v] = Memory!Idle \/ Job(job[v]))'
    BY DEF Memory!Idle
  <2>1. CASE v # w
    BY <1>3, <2>1 DEF Memory!Idle
  <2>2. CASE v = w /\ j = Memory!Idle
    BY <1>3, <2>2 DEF Memory!Idle
  <2>3. CASE v = w /\ j # Memory!Idle
    <3>1. job'[v] = j /\ Job(j)'
      BY <1>3, <2>3
    <3> QED
      BY <3>1 DEF Job, Copied, Memory!Empty, Memory!Files
  <2> QED
    BY <2>1, <2>2, <2>3
<1>6. Memory!NoneUndone'
  BY <1>3 DEF Memory!NoneUndone, Memory!Quiet, Memory!Idle
<1> QED
  BY <1>4, <1>5, <1>6 DEF MemoryInv, Memory!Idle

LEMMA AtWork ==
    ASSUME MemoryInv, NEW w \in Writers, job[w].pc \in {"backup", "truncate", "write", "mark"}
    PROVE  Job(job[w]) /\ \A v \in Writers \ {w} : job[v] = Memory!Idle
<1>1. job[w] # Memory!Idle
  BY DEF Memory!Idle
<1> QED
  BY <1>1 DEF MemoryInv, Memory!OneAtATime

\* An update or an evolution begins.
LEMMA StartStep ==
    ASSUME MemoryInv, Memory!OneAtATime', NEW w \in Writers, job[w] = Memory!Idle, NEW op,
           NEW queue \in {<<"USER">>, <<"MEMORY">>, <<"USER", "MEMORY">>},
           Memory!Start(w, queue, op, file), UNCHANGED <<file, backups, wanted, good>>
    PROVE  MemoryInv'
<1>0. PICK j : j = [pc |-> "backup", queue |-> queue, op |-> op, read |-> file]
  OBVIOUS
<1>1. job' = [job EXCEPT ![w] = j]
  BY <1>0 DEF Memory!Start
<1>2. j # Memory!Idle
  BY <1>0 DEF Memory!Idle
<1>3. /\ j.pc = "backup" /\ j.queue = queue /\ j.read = file
      /\ j = [pc |-> j.pc, queue |-> j.queue, op |-> j.op, read |-> j.read]
  BY <1>0
<1>4. \A v \in Writers \ {w} : job[v] = Memory!Idle
  <2>1. job = [v \in Writers |-> job[v]]
    BY DEF MemoryInv, MemoryTypes
  <2>2. job'[w] = j /\ \A v \in Writers \ {w} : job'[v] = job[v]
    BY <1>1, <2>1
  <2> QED
    BY <1>2, <2>2 DEF Memory!OneAtATime, Memory!Idle
<1>5. file = wanted
  BY <1>4 DEF MemoryInv, Memory!NoneUndone, Memory!Quiet
<1>6. Job(j)'
  BY <1>3, <1>5 DEF Job
<1> QED
  BY <1>1, <1>2, <1>4, <1>6, WriterStep DEF MemoryInv, MemoryTypes, Memory!Recoverable

LEMMA CallToolStep ==
    ASSUME MemoryInv, Memory!OneAtATime', NEW w \in Writers, Memory!CallTool(w)
    PROVE  MemoryInv'
<1>1. PICK op \in Memory!Ops : Memory!Start(w, <<Memory!HomeOf(op.section)>>, op, file)
  BY DEF Memory!CallTool
<1>2. <<Memory!HomeOf(op.section)>> \in {<<"USER">>, <<"MEMORY">>, <<"USER", "MEMORY">>}
  BY DEF Memory!HomeOf
<1> QED
  BY <1>1, <1>2, StartStep DEF Memory!CallTool

LEMMA EvolveStep ==
    ASSUME MemoryInv, Memory!OneAtATime', Memory!Evolve
    PROVE  MemoryInv'
<1>1. PICK op : Memory!Start("engine", <<"USER", "MEMORY">>, op, file)
  BY DEF Memory!Evolve
<1>2. "engine" \in Writers
  BY AgentAssumption
<1> QED
  BY <1>1, <1>2, StartStep DEF Memory!Evolve

LEMMA BackupStep ==
    ASSUME MemoryInv, Memory!OneAtATime', NEW w \in Writers, Memory!Backup(w)
    PROVE  MemoryInv'
<1>0. PICK f, j : f = job[w].queue[1]
             /\ j = [pc |-> "truncate", queue |-> job[w].queue, op |-> job[w].op, read |-> job[w].read]
  OBVIOUS
<1> DEFINE same == {b \in backups : b.file = f /\ b.at = now}
           new == [file |-> f, at |-> now, text |-> file[f]]
<1>1. job[w].pc = "backup" /\ UNCHANGED <<file, wanted>>
  BY DEF Memory!Backup
<1>2. Job(job[w]) /\ \A v \in Writers \ {w} : job[v] = Memory!Idle
  BY <1>1, AtWork
<1>3. Head(job[w].queue) = f /\ f \in Memory!Files /\ 1 \in 1..Len(job[w].queue)
  <2>1. job[w].queue \in {<<"USER">>, <<"MEMORY">>, <<"USER", "MEMORY">>}
    BY <1>2 DEF Job
  <2> QED
    BY <1>0, <2>1 DEF Memory!Files
<1>4. job' = [job EXCEPT ![w] = j]
  <2>1. [job[w] EXCEPT !.pc = "truncate"] = j
    BY <1>0, <1>2 DEF Job
  <2>2. job' = [job EXCEPT ![w] = [job[w] EXCEPT !.pc = "truncate"]]
    BY DEF Memory!Backup
  <2> QED
    BY <2>1, <2>2
<1>5. /\ j.pc = "truncate" /\ j.queue = job[w].queue /\ j.read = job[w].read
      /\ j = [pc |-> j.pc, queue |-> j.queue, op |-> j.op, read |-> j.read] /\ j # Memory!Idle
  BY <1>0 DEF Memory!Idle
<1>6. file[f] = wanted[f] /\ job[w].read[f] = wanted[f]
  BY <1>0, <1>1, <1>2, <1>3 DEF Job
<1>7. good = [g \in Memory!Files |-> good[g]]
  BY DEF MemoryInv, MemoryTypes
<1>8. /\ good' = [g \in Memory!Files |-> good'[g]]
      /\ Memory!Recoverable'
      /\ Copied(f)'
  <2>1. \/ backups' = (backups \ same) \cup {new} /\ good' = IF same = {} THEN good ELSE [good EXCEPT ![f] = file[f]]
        \/ job[w].read[f] = Memory!Empty(f) /\ UNCHANGED <<backups, good>>
        \/ UNCHANGED backups /\ good' = [good EXCEPT ![f] = Memory!Empty(f)]
    BY <1>3 DEF Memory!Backup
  <2>2. Memory!Recoverable
    BY DEF MemoryInv
  <2>3. CASE backups' = (backups \ same) \cup {new} /\ good' = IF same = {} THEN good ELSE [good EXCEPT ![f] = file[f]]
    <3>1. new \in backups' /\ new.file = f /\ new.text = file[f]
      BY <2>3
    <3>2. \A g \in Memory!Files : g # f => good'[g] = good[g]
      BY <1>7, <2>3
    <3>3. good'[f] = file[f] \/ (same = {} /\ good' = good)
      BY <1>3, <1>7, <2>3
    <3>4. good' = [g \in Memory!Files |-> good'[g]]
      BY <1>7, <2>3
    <3>5. \A b \in backups : b.file # f \/ same = {} => b \in backups'
      BY <2>3
    <3> HIDE DEF same, new
    <3>6. Copied(f)'
      <4>1. CASE good'[f] = file[f]
        BY <3>1, <4>1 DEF Copied
      <4>2. CASE same = {} /\ good' = good
        BY <1>3, <2>2, <3>1, <3>5, <4>2 DEF Copied, Memory!Recoverable
      <4> QED
        BY <3>3, <4>1, <4>2
    <3>7. ASSUME NEW g \in Memory!Files, good'[g] # Memory!Empty(g)
          PROVE  file'[g] = good'[g] \/ \E b \in backups' : b.file = g /\ b.text = good'[g]
      <4>1. CASE g = f
        BY <3>6, <3>7, <4>1 DEF Copied
      <4>2. CASE g # f
        BY <1>1, <2>2, <3>2, <3>5, <3>7, <4>2 DEF Memory!Recoverable
      <4> QED
        BY <4>1, <4>2
    <3> QED
      BY <3>4, <3>6, <3>7 DEF Memory!Recoverable
  <2>4. CASE job[w].read[f] = Memory!Empty(f) /\ UNCHANGED <<backups, good>>
    BY <1>1, <1>3, <1>6, <1>7, <2>2, <2>4 DEF Memory!Recoverable, Copied
  <2>5. CASE UNCHANGED backups /\ good' = [good EXCEPT ![f] = Memory!Empty(f)]
    <3>1. good' = [g \in Memory!Files |-> good'[g]] /\ good'[f] = Memory!Empty(f)
      BY <1>3, <1>7, <2>5
    <3>2. \A g \in Memory!Files : g # f => good'[g] = good[g]
      BY <1>7, <2>5
    <3> QED
      BY <1>1, <2>2, <2>5, <3>1, <3>2 DEF Memory!Recoverable, Copied
  <2> QED
    BY <2>1, <2>3, <2>4, <2>5
<1>9. Job(j)'
  <2>1. \A g \in Memory!Files : file[g] = wanted[g]
    BY <1>1, <1>2 DEF Job
  <2>2. \A i \in 1..Len(j.queue) : j.read[j.queue[i]] = wanted[j.queue[i]]
    BY <1>1, <1>2, <1>5 DEF Job
  <2>3. j.queue \in {<<"USER">>, <<"MEMORY">>, <<"USER", "MEMORY">>}
    BY <1>2, <1>5 DEF Job
  <2>4. Copied(j.queue[1])'
    BY <1>0, <1>5, <1>8
  <2> QED
    BY <1>1, <1>5, <2>1, <2>2, <2>3, <2>4 DEF Job
<1> QED
  BY <1>1, <1>2, <1>4, <1>5, <1>8, <1>9, WriterStep DEF MemoryInv, MemoryTypes

LEMMA TruncateStep ==
    ASSUME MemoryInv, Memory!OneAtATime', NEW w \in Writers, Memory!Truncate(w)
    PROVE  MemoryInv'
<1>0. PICK f, j : f = job[w].queue[1]
             /\ j = [pc |-> "write", queue |-> job[w].queue, op |-> job[w].op, read |-> job[w].read]
  OBVIOUS
<1>1. job[w].pc = "truncate" /\ UNCHANGED <<backups, wanted, good>>
  BY DEF Memory!Truncate
<1>2. Job(job[w]) /\ \A v \in Writers \ {w} : job[v] = Memory!Idle
  BY <1>1, AtWork
<1>3. Head(job[w].queue) = f /\ f \in Memory!Files /\ 1 \in 1..Len(job[w].queue)
  <2>1. job[w].queue \in {<<"USER">>, <<"MEMORY">>, <<"USER", "MEMORY">>}
    BY <1>2 DEF Job
  <2> QED
    BY <1>0, <2>1 DEF Memory!Files
<1>4. job' = [job EXCEPT ![w] = j]
  <2>1. [job[w] EXCEPT !.pc = "write"] = j
    BY <1>0, <1>2 DEF Job
  <2>2. job' = [job EXCEPT ![w] = [job[w] EXCEPT !.pc = "write"]]
    BY DEF Memory!Truncate
  <2> QED
    BY <2>1, <2>2
<1>5. /\ j.pc = "write" /\ j.queue = job[w].queue /\ j.read = job[w].read
      /\ j = [pc |-> j.pc, queue |-> j.queue, op |-> j.op, read |-> j.read] /\ j # Memory!Idle
  BY <1>0 DEF Memory!Idle
<1>6. file = [g \in Memory!Files |-> file[g]]
  BY DEF MemoryInv, MemoryTypes
<1>7. /\ file' = [g \in Memory!Files |-> file'[g]]
      /\ \A g \in Memory!Files : g # f => file'[g] = file[g]
  BY <1>3, <1>6 DEF Memory!Truncate
<1>8. Copied(f)
  BY <1>0, <1>1, <1>2 DEF Job
<1>9. Memory!Recoverable'
  BY <1>1, <1>7, <1>8 DEF MemoryInv, Memory!Recoverable, Copied
<1>10. Job(j)'
  <2>1. \A g \in Memory!Files : file'[g] = wanted'[g] \/ g = f
    BY <1>1, <1>2, <1>7 DEF Job
  <2>2. \A i \in 1..Len(j.queue) : j.read[j.queue[i]] = wanted[j.queue[i]]
    BY <1>1, <1>2, <1>5 DEF Job
  <2>3. j.queue \in {<<"USER">>, <<"MEMORY">>, <<"USER", "MEMORY">>}
    BY <1>2, <1>5 DEF Job
  <2> QED
    BY <1>0, <1>1, <1>5, <2>1, <2>2, <2>3 DEF Job
<1> QED
  BY <1>1, <1>2, <1>4, <1>5, <1>7, <1>9, <1>10, WriterStep DEF MemoryInv, MemoryTypes

LEMMA WriteStep ==
    ASSUME MemoryInv, Memory!OneAtATime', NEW w \in Writers, Memory!Write(w)
    PROVE  MemoryInv'
<1>0. PICK f, old : f = job[w].queue[1] /\ old = job[w]
  OBVIOUS
<1>1. job[w].pc = "write" /\ UNCHANGED backups
  BY DEF Memory!Write
<1>2. Job(old) /\ \A v \in Writers \ {w} : job[v] = Memory!Idle
  BY <1>0, <1>1, AtWork
<1>3. old.queue \in {<<"USER">>, <<"MEMORY">>, <<"USER", "MEMORY">>} /\ old.pc = "write" /\ f = old.queue[1]
  BY <1>0, <1>1, <1>2 DEF Job
<1>4. Head(old.queue) = f /\ f \in Memory!Files /\ 1 \in 1..Len(old.queue)
  BY <1>3 DEF Memory!Files
<1>5. old.read[f] = wanted[f] /\ \A g \in Memory!Files : g # f => file[g] = wanted[g]
  BY <1>2, <1>3, <1>4 DEF Job
<1> DEFINE newText == Memory!Apply(f, old.read[f], old.op)
<1>6. /\ file = [g \in Memory!Files |-> file[g]]
      /\ wanted = [g \in Memory!Files |-> wanted[g]]
      /\ good = [g \in Memory!Files |-> good[g]]
  BY DEF MemoryInv, MemoryTypes
<1>7. /\ file' = [file EXCEPT ![f] = newText] /\ good' = [good EXCEPT ![f] = newText]
      /\ wanted' = [wanted EXCEPT ![f] = newText]
  BY <1>0, <1>4, <1>5 DEF Memory!Write
<1> HIDE DEF newText
<1>8. /\ file' = [g \in Memory!Files |-> file'[g]]
      /\ wanted' = [g \in Memory!Files |-> wanted'[g]]
      /\ good' = [g \in Memory!Files |-> good'[g]]
      /\ file'[f] = wanted'[f] /\ file'[f] = good'[f]
      /\ \A g \in Memory!Files : g # f => file'[g] = file[g] /\ wanted'[g] = wanted[g] /\ good'[g] = good[g]
  BY <1>4, <1>6, <1>7
<1>9. \A g \in Memory!Files : file'[g] = wanted'[g]
  BY <1>5, <1>8
<1>10. file' = wanted'
  BY <1>8, <1>9
<1>11. Memory!Recoverable'
  BY <1>1, <1>8 DEF MemoryInv, Memory!Recoverable
<1>12. PICK j : /\ job' = [job EXCEPT ![w] = j]
               /\ \/ /\ Len(old.queue) > 1
                     /\ j = [old EXCEPT !.queue = Tail(old.queue), !.pc = "backup"]
                  \/ ~(Len(old.queue) > 1) /\ j = [old EXCEPT !.pc = "mark"]
                  \/ j = Memory!Idle
  <2>1. job' = [job EXCEPT ![w] =
                  IF Len(job[w].queue) > 1 THEN [job[w] EXCEPT !.queue = Tail(job[w].queue), !.pc = "backup"]
                  ELSE IF job[w].op.action = "evolve" THEN [job[w] EXCEPT !.pc = "mark"] ELSE Memory!Idle]
    BY DEF Memory!Write
  <2> QED
    BY <1>0, <2>1
<1>13. j # Memory!Idle => Job(j)'
  <2>1. CASE Len(old.queue) > 1 /\ j = [old EXCEPT !.queue = Tail(old.queue), !.pc = "backup"]
    <3>1. j = [pc |-> "backup", queue |-> Tail(old.queue), op |-> old.op, read |-> old.read]
      BY <1>2, <2>1 DEF Job
    <3>2. old.queue = <<"USER", "MEMORY">>
      <4>1. Len(<<"USER">>) = 1 /\ Len(<<"MEMORY">>) = 1
        OBVIOUS
      <4>2. old.queue \in {<<"USER">>, <<"MEMORY">>} => Len(old.queue) = 1
        BY <4>1, Zenon
      <4>3. ~(1 > 1)
        OBVIOUS
      <4>4. Len(old.queue) # 1
        BY <2>1, <4>3, Zenon
      <4> QED
        BY <1>3, <4>2, <4>4, Zenon
    <3>3. Tail(old.queue) = <<"MEMORY">> /\ old.queue[2] = "MEMORY" /\ 2 \in 1..Len(old.queue) /\ f = "USER"
      BY <1>3, <3>2
    <3>4. old.read["MEMORY"] = wanted["MEMORY"] /\ "MEMORY" \in Memory!Files
      BY <1>2, <1>3, <3>3 DEF Job, Memory!Files
    <3>5. j.read["MEMORY"] = wanted'["MEMORY"]
      BY <1>8, <3>1, <3>3, <3>4
    <3>6. /\ j = [pc |-> j.pc, queue |-> j.queue, op |-> j.op, read |-> j.read]
          /\ j.pc = "backup" /\ j.queue = <<"MEMORY">>
      BY <3>1, <3>3
    <3> QED
      BY <1>9, <3>5, <3>6 DEF Job
  <2>2. CASE ~(Len(old.queue) > 1) /\ j = [old EXCEPT !.pc = "mark"]
    <3>1. j = [pc |-> "mark", queue |-> old.queue, op |-> old.op, read |-> old.read]
      BY <1>2, <2>2 DEF Job
    <3>2. j = [pc |-> j.pc, queue |-> j.queue, op |-> j.op, read |-> j.read] /\ j.pc = "mark" /\ j.queue = old.queue
      BY <3>1
    <3> QED
      BY <1>3, <1>9, <3>2 DEF Job
  <2> QED
    BY <1>12, <2>1, <2>2
<1> QED
  BY <1>2, <1>8, <1>10, <1>11, <1>12, <1>13, WriterStep

LEMMA WriteFailsStep ==
    ASSUME MemoryInv, Memory!OneAtATime', NEW w \in Writers, Memory!WriteFails(w)
    PROVE  MemoryInv'
<1>1. job[w].pc = "write" /\ UNCHANGED <<file, backups, good>> /\ wanted' = file
      /\ job' = [job EXCEPT ![w] = Memory!Idle]
  BY DEF Memory!WriteFails
<1>2. \A v \in Writers \ {w} : job[v] = Memory!Idle
  BY <1>1, AtWork
<1> QED
  BY <1>1, <1>2, WriterStep DEF MemoryInv, MemoryTypes, Memory!Recoverable

LEMMA MarkStep ==
    ASSUME MemoryInv, Memory!OneAtATime', Memory!Mark
    PROVE  MemoryInv'
<1>1. /\ job["engine"].pc = "mark" /\ UNCHANGED <<file, wanted>> /\ "engine" \in Writers
      /\ job' = [job EXCEPT !["engine"] = Memory!Idle]
      /\ good' = [f \in Memory!Files |-> IF \E b \in backups \ backups' : b.file = f THEN file[f] ELSE good[f]]
  BY AgentAssumption DEF Memory!Mark
<1>2. Job(job["engine"]) /\ \A v \in Writers \ {"engine"} : job[v] = Memory!Idle
  BY <1>1, AtWork
<1>3. file = wanted
  BY <1>1, <1>2 DEF Job, MemoryInv, MemoryTypes
<1>4. Memory!Recoverable'
  <2> SUFFICES ASSUME NEW f \in Memory!Files, good'[f] # Memory!Empty(f)
               PROVE  file'[f] = good'[f] \/ \E b \in backups' : b.file = f /\ b.text = good'[f]
    BY DEF Memory!Recoverable
  <2>1. CASE \E b \in backups \ backups' : b.file = f
    BY <1>1, <2>1
  <2>2. CASE ~ \E b \in backups \ backups' : b.file = f
    <3>1. good'[f] = good[f]
      BY <1>1, <2>2
    <3> QED
      BY <1>1, <2>2, <3>1 DEF MemoryInv, Memory!Recoverable
  <2> QED
    BY <2>1, <2>2
<1>5. good' = [f \in Memory!Files |-> good'[f]]
  BY <1>1
<1> QED
  BY <1>1, <1>2, <1>3, <1>4, <1>5, WriterStep DEF MemoryInv, MemoryTypes

LEMMA KillStep ==
    ASSUME MemoryInv, Memory!Kill
    PROVE  MemoryInv'
<1>1. UNCHANGED <<file, backups, good>> /\ wanted' = file /\ job' = [w \in Writers |-> Memory!Idle]
  BY DEF Memory!Kill
<1>2. \A w \in Writers : job'[w] = Memory!Idle
  BY <1>1
<1>3. MemoryTypes'
  BY <1>1, <1>2 DEF MemoryInv, MemoryTypes
<1>4. Memory!Recoverable'
  BY <1>1 DEF MemoryInv, Memory!Recoverable
<1> QED
  BY <1>1, <1>2, <1>3, <1>4 DEF MemoryInv, Memory!OneAtATime, Memory!NoneUndone, Memory!Idle

LEMMA MemoryStands ==
    ASSUME MemoryInv, UNCHANGED <<file, backups, job, wanted, good>>
    PROVE  MemoryInv'
<1>1. MemoryTypes' /\ Memory!OneAtATime' /\ Memory!NoneUndone'
  BY DEF MemoryInv, MemoryTypes, Memory!OneAtATime, Memory!NoneUndone, Memory!Quiet, Memory!Idle
<1>2. Memory!Recoverable'
  BY DEF MemoryInv, Memory!Recoverable
<1>3. ASSUME NEW j PROVE Job(j) => Job(j)'
  BY DEF Job, Copied
<1>4. ASSUME NEW w \in Writers PROVE (job[w] = Memory!Idle \/ Job(job[w]))'
  <2>1. PICK j : j = job[w]
    OBVIOUS
  <2>2. job'[w] = j /\ (j = Memory!Idle \/ Job(j)')
    BY <1>3, <2>1 DEF MemoryInv
  <2> QED
    BY <2>2 DEF Job, Copied, Memory!Idle
<1> QED
  BY <1>1, <1>2, <1>4 DEF MemoryInv, Memory!Idle

MemorySound == part = "memory" => MemoryInv
LEMMA MemorySoundStep == MemorySound /\ [AgentNext]_all => MemorySound'
<1> SUFFICES ASSUME MemorySound, [AgentNext]_all, part' = "memory" PROVE MemoryInv'
  BY DEF MemorySound
<1>1. CASE UNCHANGED all
  <2>1. MemoryInv /\ UNCHANGED <<part, memoryVars>>
    BY <1>1 DEF all, MemorySound
  <2> QED
    BY <2>1, MemoryStands DEF memoryVars
<1>2. CASE MemoryPart
  <2>1. MemoryInv /\ Memory!Next /\ Memory!OneAtATime'
    BY <1>2 DEF MemoryPart, MemorySound
  <2>2. ASSUME NEW w \in Writers,
               Memory!CallTool(w) \/ Memory!Backup(w) \/ Memory!Truncate(w) \/ Memory!Write(w) \/ Memory!WriteFails(w)
        PROVE  MemoryInv'
    BY <2>1, <2>2, CallToolStep, BackupStep, TruncateStep, WriteStep, WriteFailsStep
  <2>3. CASE Memory!Evolve \/ Memory!Mark \/ Memory!Kill
    BY <2>1, <2>3, EvolveStep, MarkStep, KillStep
  <2>4. CASE Memory!Say \/ Memory!Second
    BY <2>1, <2>4, MemoryStands DEF Memory!Say, Memory!Second
  <2> QED
    BY <2>1, <2>2, <2>3, <2>4 DEF Memory!Next
<1>3. CASE ProcessPart \/ EnginePart \/ SessionPart \/ HelperPart \/ MCPPart
  <2>1. FALSE
    BY <1>3 DEF ProcessPart, EnginePart, SessionPart, HelperPart, MCPPart, EngineParts
  <2> QED
    BY <2>1
<1> QED
  BY <1>1, <1>2, <1>3 DEF AgentNext

(* For every number of writers and writes: the last text written as a whole   *)
(* is in the file or in a backup, unless its backup failed or was old; and    *)
(* with one writer at a time no call undoes another (MemoryEvolution).        *)
THEOREM AgentMemoryKept == AgentSpec => []MemoryKept
<1>1. AgentInit => MemorySound
  BY MemoryStart DEF MemorySound
<1>2. MemorySound => MemoryKept
  BY DEF MemorySound, MemoryInv, MemoryKept, Memory!MemorySafe
<1> QED
  BY <1>1, <1>2, MemorySoundStep, PTL DEF AgentSpec
==============================================================================
