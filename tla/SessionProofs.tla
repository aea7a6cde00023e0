---------------------------- MODULE SessionProofs ----------------------------
(* Theorems about the two files of an agent's conversation (AgentSession), in *)
(* MCAgent, for every value of its constants.                                 *)
EXTENDS MCAgent, SequenceTheorems, TLAPS

-----------------------------------------------------------------------------
(* The archive covers what the live file, the history and the turn's messages *)
(* remember, and they hold nothing the archive has not.                       *)

\* The lines the session's sequences hold.
Spoken == {"user", "answer"}
Torn == [kind |-> "torn", turn |-> 0, chan |-> "none", of |-> {}]
Plain == [kind : Spoken \cup {"tools"}, turn : Nat, chan : Channels, of : {{}}]
Lines == Plain \cup [kind : {"summary"}, turn : {0}, chan : {"none"}, of : SUBSET Plain]
Kept == Plain \cup {Torn}
Shapes == Lines \cup {Torn}

Has(s, l) == \E i \in 1..Len(s) : s[i] = l
Holds(s, l) == \E i \in 1..Len(s) : l = s[i] \/ l \in s[i].of
\* What is in the archive a, and not excused, is in s or a summary of it.
Covers(s, a, ex) == \A k \in 1..Len(a) : a[k] \in ex \/ a[k] = Torn \/ Holds(s, a[k])
\* What was said, in s, is in the archive or excused.
Known(s, a, ex) == \A i \in 1..Len(s) : s[i].kind \in Spoken => s[i] \in ex \/ Has(a, s[i])
\* What was said is in order, all of it before n.
Place(l) == IF l.kind = "answer" THEN l.turn + l.turn + 1 ELSE l.turn + l.turn
InLine(s, n) ==
    /\ \A i \in 1..Len(s) : s[i].kind \in Spoken => Place(s[i]) < n
    /\ \A i, j \in 1..Len(s) : i < j /\ s[i].kind \in Spoken /\ s[j].kind \in Spoken => Place(s[i]) < Place(s[j])
TornLast(s) == \A i \in 1..Len(s) : s[i] = Torn => i = Len(s)

SK == "sk_v1_user"
Arch == archive[SK]
Live == live[SK]
InHand == [kind |-> IF step \in {"archiveUser", "liveUser"} THEN "user" ELSE "answer",
           turn |-> turn, chan |-> channel, of |-> {}]
Shown == IF Has(Live, Torn) THEN <<>> ELSE Live
Bound == CASE step \in {"start", "idle", "reload"} -> turn + turn + 2
           [] step \in {"archiveUser", "liveUser"} -> turn + turn
           [] OTHER -> turn + turn + 1

SessionTypes ==
    /\ step \in {"start", "idle", "archiveUser", "liveUser", "engine", "truncate", "rewrite",
                 "archiveAnswer", "liveAnswer", "reload"}
    /\ turn \in Nat /\ channel \in Channels
    /\ archive = [k \in {SK} |-> Arch] /\ Arch \in Seq(Kept)
    /\ live = [k \in {SK} |-> Live] /\ Live \in Seq(Shapes) /\ TornLast(Live)
    /\ history \in Seq(Lines) /\ turnMsgs \in Seq(Lines) /\ todo \in Seq(Lines)
LiveSound ==
    /\ InLine(Live, Bound) /\ Known(Live, Arch, excused)
    /\ step \notin {"liveUser", "liveAnswer", "rewrite"} => Covers(Shown, Arch, excused)
    /\ step \in {"liveUser", "liveAnswer"} =>
          Covers(Shown, Arch, excused \cup {InHand}) /\ (InHand \in excused \/ Has(Arch, InHand))
MessagesSound ==
    /\ step \in {"archiveUser", "liveUser", "engine", "truncate", "rewrite"} =>
          InLine(turnMsgs, turn + turn + 1) /\ Covers(turnMsgs, Arch, excused)
    /\ step \in {"liveUser", "engine", "truncate", "rewrite"} => Known(turnMsgs, Arch, excused)
    /\ step = "archiveUser" => Known(turnMsgs, Arch, excused \cup {InHand}) /\ Has(turnMsgs, InHand)
Rewriting ==
    /\ step = "truncate" => todo = turnMsgs
    /\ step = "rewrite" =>
          \/ todo = <<>> /\ Has(Live, Torn) /\ Covers(<<>>, Arch, excused)
          \/ /\ ~Has(Live, Torn) /\ Len(Live) + Len(todo) = Len(turnMsgs)
             /\ \A i \in 1..Len(Live) : Live[i] = turnMsgs[i]
             /\ \A i \in 1..Len(todo) : todo[i] = turnMsgs[Len(Live) + i]
HistorySound == step = "idle" => /\ InLine(history, turn + turn + 2)
                                 /\ Covers(history, Arch, excused) /\ Known(history, Arch, excused)
SessionInv == SessionTypes /\ LiveSound /\ MessagesSound /\ Rewriting /\ HistorySound

-----------------------------------------------------------------------------
LEMMA LineFacts ==
    ASSUME NEW l \in Lines
    PROVE  /\ l.turn \in Nat /\ Place(l) \in Nat /\ l # Torn
           /\ l.kind \in Spoken \cup {"tools", "summary"}
           /\ l.kind # "summary" => l \in Plain /\ l.of = {}
           /\ l.of \subseteq Plain
<1>1. CASE l \in Plain
  BY <1>1 DEF Plain, Torn, Place, Spoken
<1>2. CASE l \in [kind : {"summary"}, turn : {0}, chan : {"none"}, of : SUBSET Plain]
  BY <1>2 DEF Torn, Place
<1> QED
  BY <1>1, <1>2 DEF Lines

LEMMA Extended ==
    ASSUME NEW S, NEW s \in Seq(S), NEW l \in S
    PROVE  /\ Append(s, l) \in Seq(S) /\ Len(s) \in Nat /\ Len(Append(s, l)) = Len(s) + 1
           /\ \A i \in 1..Len(s) : i \in 1..Len(Append(s, l)) /\ Append(s, l)[i] = s[i]
           /\ Len(s) + 1 \in 1..Len(Append(s, l)) /\ Append(s, l)[Len(s) + 1] = l
           /\ \A i \in 1..Len(Append(s, l)) : i \in 1..Len(s) \/ i = Len(s) + 1
  OBVIOUS

\* A line said, or of another kind, behind the others.
LEMMA InLineAppend ==
    ASSUME NEW s \in Seq(Shapes), NEW l \in Shapes, NEW n \in Nat, NEW m \in Nat,
           InLine(s, n), n <= m, l.kind \in Spoken => Place(l) >= n /\ Place(l) < m
    PROVE  InLine(Append(s, l), m)
<1> DEFINE t == Append(s, l)
           N == Len(s) + 1
<1>1. /\ t \in Seq(Shapes) /\ Len(s) \in Nat /\ Len(t) = N
      /\ \A i \in 1..Len(s) : i \in 1..Len(t) /\ t[i] = s[i]
      /\ t[N] = l
      /\ \A i \in 1..Len(t) : i \in 1..Len(s) \/ i = N
  BY Extended
<1>2. \A i \in 1..Len(s) : s[i].kind \in Spoken => Place(s[i]) \in Nat /\ Place(s[i]) < n
  <2> SUFFICES ASSUME NEW i \in 1..Len(s), s[i].kind \in Spoken PROVE Place(s[i]) \in Nat
    BY DEF InLine
  <2>1. s[i] \in Shapes
    OBVIOUS
  <2>2. s[i] # Torn
    BY DEF Torn, Spoken
  <2> QED
    BY <2>1, <2>2, LineFacts DEF Shapes
<1>3. l.kind \in Spoken => Place(l) \in Nat
  <2> SUFFICES ASSUME l.kind \in Spoken PROVE Place(l) \in Nat
    OBVIOUS
  <2>1. l # Torn
    BY DEF Torn, Spoken
  <2> QED
    BY <2>1, LineFacts DEF Shapes
<1> HIDE DEF t
<1>4. ASSUME NEW i \in 1..Len(t), t[i].kind \in Spoken PROVE Place(t[i]) < m
  <2>1. CASE i \in 1..Len(s)
    BY <1>1, <1>2, <1>4, <2>1
  <2>2. CASE i = N
    BY <1>1, <1>4, <2>2
  <2> QED
    BY <1>1, <2>1, <2>2
<1>5. ASSUME NEW i \in 1..Len(t), NEW j \in 1..Len(t), i < j, t[i].kind \in Spoken, t[j].kind \in Spoken
      PROVE  Place(t[i]) < Place(t[j])
  <2>1. i \in 1..Len(s)
    BY <1>1, <1>5
  <2>2. CASE j \in 1..Len(s)
    BY <1>1, <1>5, <2>1, <2>2 DEF InLine
  <2>3. CASE j = N
    <3>1. Place(s[i]) < n /\ Place(s[i]) \in Nat /\ Place(l) >= n /\ Place(l) \in Nat
      BY <1>1, <1>2, <1>3, <1>5, <2>1, <2>3
    <3>2. t[i] = s[i] /\ t[j] = l
      BY <1>1, <2>1, <2>3
    <3> QED
      BY <3>1, <3>2
  <2> QED
    BY <1>1, <2>2, <2>3
<1>6. InLine(t, m)
  BY <1>4, <1>5 DEF InLine
<1> QED
  BY <1>6 DEF t

LEMMA InLineLater ==
    ASSUME NEW s \in Seq(Shapes), NEW n \in Nat, NEW m \in Nat, InLine(s, n), n <= m
    PROVE  InLine(s, m)
<1> SUFFICES ASSUME NEW i \in 1..Len(s), s[i].kind \in Spoken PROVE Place(s[i]) < m
  BY DEF InLine
<1>1. s[i] \in Shapes
  OBVIOUS
<1>2. s[i] # Torn
  BY DEF Torn, Spoken
<1>3. Place(s[i]) \in Nat /\ Place(s[i]) < n
  BY <1>1, <1>2, LineFacts DEF InLine, Shapes
<1> QED
  BY <1>3

Grown(a, l, b) == b = a \/ b = Append(a, l)
LEMMA HasAppend ==
    ASSUME NEW S, NEW s \in Seq(S), NEW l \in S
    PROVE  /\ \A x : Has(s, x) => Has(Append(s, l), x)
           /\ Has(Append(s, l), l)
  BY Extended DEF Has

\* The archive and the excuses grow.
LEMMA HasMore ==
    ASSUME NEW a \in Seq(Kept), NEW l \in Kept, NEW b, Grown(a, l, b)
    PROVE  \A x : Has(a, x) => Has(b, x)
<1>1. \A x : Has(a, x) => Has(Append(a, l), x)
  BY HasAppend
<1> QED
  BY <1>1 DEF Grown

LEMMA MoreKnown ==
    ASSUME NEW a \in Seq(Kept), NEW l \in Kept, NEW b, Grown(a, l, b), NEW ex, NEW ex2, ex \subseteq ex2
    PROVE  \A s : Known(s, a, ex) => Known(s, b, ex2)
  BY HasMore DEF Known

LEMMA MoreCovered ==
    ASSUME NEW a \in Seq(Kept), NEW l \in Kept, NEW b, Grown(a, l, b), NEW ex, NEW ex2, ex \subseteq ex2,
           NEW s, Covers(s, a, ex), l \in ex2 \/ l = Torn \/ Holds(s, l)
    PROVE  Covers(s, b, ex2)
<1>1. \A k \in 1..Len(Append(a, l)) : (k \in 1..Len(a) /\ Append(a, l)[k] = a[k]) \/ Append(a, l)[k] = l
  BY Extended
<1> QED
  BY <1>1 DEF Covers, Grown

LEMMA CoveredBy ==
    ASSUME NEW S, NEW s \in Seq(S), NEW l \in S, NEW a, NEW ex
    PROVE  /\ Covers(s, a, ex) => Covers(Append(s, l), a, ex)
           /\ Covers(s, a, ex \cup {l}) => Covers(Append(s, l), a, ex)
           /\ Holds(Append(s, l), l)
<1>1. \A x : Holds(s, x) => Holds(Append(s, l), x)
  BY Extended DEF Holds
<1>2. Holds(Append(s, l), l)
  BY Extended DEF Holds
<1> QED
  BY <1>1, <1>2 DEF Covers

LEMMA KnownAppend ==
    ASSUME NEW S, NEW s \in Seq(S), NEW l \in S, NEW a, NEW ex, Known(s, a, ex),
           l.kind \in Spoken => l \in ex \/ Has(a, l)
    PROVE  Known(Append(s, l), a, ex)
<1>1. \A i \in 1..Len(Append(s, l)) : (i \in 1..Len(s) /\ Append(s, l)[i] = s[i]) \/ Append(s, l)[i] = l
  BY Extended
<1> QED
  BY <1>1 DEF Known

\* What compaction makes of the turn's messages.
LEMMA CompactedIs ==
    ASSUME NEW ms \in Seq(Lines), NEW k \in 0..(Len(ms) - 1)
    PROVE  \/ Session!Compacted(ms, k) = ms
           \/ LET new == Session!Compacted(ms, k)
              IN  /\ new \in Seq(Lines) /\ k > 0 /\ Len(new) = Len(ms) - k + 1
                  /\ new[1].kind = "summary"
                  /\ \A i \in 1..k : ms[i] \in new[1].of \/ (ms[i].kind = "summary" /\ ms[i].of \subseteq new[1].of)
                  /\ \A i \in 2..Len(new) : new[i] = ms[i + k - 1]
<1>0. Len(ms) \in Nat
  OBVIOUS
<1>1. CASE Len(ms) <= 2 \/ k = 0
  BY <1>1 DEF Session!Compacted
<1>2. CASE ~(Len(ms) <= 2 \/ k = 0)
  <2> DEFINE front == SubSeq(ms, 1, k)
             tail == SubSeq(ms, k + 1, Len(ms))
             S == Session!Summary(front)
             new == <<S>> \o tail
  <2>1. Session!Compacted(ms, k) = new
    BY <1>2 DEF Session!Compacted
  <2>2. k \in Nat /\ k > 0 /\ k < Len(ms) /\ Len(ms) \in Nat
    BY <1>0, <1>2
  <2>3. /\ front \in Seq(Lines) /\ Len(front) = k /\ \A i \in 1..k : front[i] = ms[i]
        /\ tail \in Seq(Lines) /\ Len(tail) = Len(ms) - k /\ \A i \in 1..Len(tail) : tail[i] = ms[i + k]
    BY <2>2
  <2> HIDE DEF front, tail
  <2>4. Session!Range(front) = {ms[i] : i \in 1..k}
    <3>1. DOMAIN front = 1..k
      BY <2>2, <2>3
    <3>2. {front[i] : i \in 1..k} = {ms[i] : i \in 1..k}
      BY <2>3
    <3> QED
      BY <3>1, <3>2 DEF Session!Range
  <2>5. S.kind = "summary" /\ S.of = UNION {IF m.kind = "summary" THEN m.of ELSE {m} : m \in {ms[i] : i \in 1..k}}
    BY <2>4 DEF Session!Summary
  <2>6. \A i \in 1..k : ms[i] \in Lines
    BY <2>2
  <2>7. S.of \subseteq Plain
    <3> SUFFICES ASSUME NEW x \in S.of PROVE x \in Plain
      OBVIOUS
    <3>1. PICK i \in 1..k : x \in IF ms[i].kind = "summary" THEN ms[i].of ELSE {ms[i]}
      BY <2>5
    <3> QED
      BY <2>6, <3>1, LineFacts
  <2>8. S \in Lines
    <3>1. S = [kind |-> "summary", turn |-> 0, chan |-> "none", of |-> S.of]
      BY DEF Session!Summary
    <3> HIDE DEF S
    <3> QED
      BY <2>7, <3>1 DEF Lines
  <2>9. \A i \in 1..k : ms[i] \in S.of \/ (ms[i].kind = "summary" /\ ms[i].of \subseteq S.of)
    <3> SUFFICES ASSUME NEW i \in 1..k PROVE ms[i] \in S.of \/ (ms[i].kind = "summary" /\ ms[i].of \subseteq S.of)
      OBVIOUS
    <3>1. (IF ms[i].kind = "summary" THEN ms[i].of ELSE {ms[i]}) \subseteq S.of
      BY <2>5
    <3> QED
      BY <3>1
  <2> HIDE DEF S
  <2> DEFINE one == <<S>>
  <2>10. one \in Seq(Lines) /\ Len(one) = 1 /\ one[1] = S
    BY <2>8
  <2>11. new = one \o tail
    OBVIOUS
  <2> HIDE DEF one, new
  <2>12. /\ new \in Seq(Lines) /\ Len(new) = Len(one) + Len(tail)
         /\ \A i \in 1..Len(one) + Len(tail) : new[i] = IF i <= Len(one) THEN one[i] ELSE tail[i - Len(one)]
    <3>1. one \in Seq(Lines) /\ tail \in Seq(Lines)
      BY <2>3, <2>10
    <3> QED
      BY <3>1, <2>11, ConcatProperties
  <2>13. Len(new) = Len(ms) - k + 1 /\ new[1] = S
    <3>1. 1 \in 1..Len(one) + Len(tail) /\ 1 <= Len(one)
      BY <2>2, <2>3, <2>10
    <3> QED
      BY <2>2, <2>3, <2>10, <2>12, <3>1
  <2>14. ASSUME NEW i \in 2..Len(new) PROVE new[i] = ms[i + k - 1]
    <3>1. i \in 1..Len(one) + Len(tail) /\ ~(i <= Len(one)) /\ i - Len(one) = i - 1 /\ i - 1 \in 1..Len(tail)
          /\ (i - 1) + k = i + k - 1
      BY <2>2, <2>3, <2>10, <2>12
    <3>2. tail[i - 1] = ms[(i - 1) + k]
      BY <2>3, <3>1
    <3> QED
      BY <2>12, <3>1, <3>2
  <2> QED
    BY <2>1, <2>2, <2>5, <2>9, <2>12, <2>13, <2>14
<1> QED
  BY <1>1, <1>2

LEMMA CompactedKeeps ==
    ASSUME NEW ms \in Seq(Lines), NEW k \in 0..(Len(ms) - 1), NEW n \in Nat,
           NEW a \in Seq(Kept), NEW ex
    PROVE  LET new == Session!Compacted(ms, k)
           IN  /\ new \in Seq(Lines)
               /\ InLine(ms, n) => InLine(new, n)
               /\ Known(ms, a, ex) => Known(new, a, ex)
               /\ Covers(ms, a, ex) => Covers(new, a, ex)
<1> DEFINE new == Session!Compacted(ms, k)
           from(i) == i + k - 1
<1>1. CASE new = ms
  BY <1>1
<1>2. CASE new # ms
  <2>1. /\ new \in Seq(Lines) /\ k > 0 /\ Len(new) = Len(ms) - k + 1
        /\ new[1].kind = "summary"
        /\ \A i \in 1..k : ms[i] \in new[1].of \/ (ms[i].kind = "summary" /\ ms[i].of \subseteq new[1].of)
        /\ \A i \in 2..Len(new) : new[i] = ms[i + k - 1]
    BY <1>2, CompactedIs
  <2> HIDE DEF new
  <2>2. Len(ms) \in Nat /\ k \in Nat /\ k < Len(ms) /\ Len(new) \in Nat /\ 1 \in 1..Len(new)
    BY <2>1
  <2>3. \A i \in 2..Len(new) : from(i) \in 1..Len(ms) /\ new[i] = ms[from(i)]
    BY <2>1, <2>2
  <2>4. \A i \in 1..Len(new) : i = 1 \/ i \in 2..Len(new)
    BY <2>2
  <2>5. \A i, j \in 2..Len(new) : i < j => from(i) < from(j)
    BY <2>2
  <2>6. "summary" \notin Spoken
    BY DEF Spoken
  <2>7. \A i \in 1..Len(new) : new[i].kind \in Spoken => i \in 2..Len(new)
    BY <2>1, <2>4, <2>6
  <2>8. \A i \in (k + 1)..Len(ms) : i - k + 1 \in 2..Len(new) /\ from(i - k + 1) = i
    BY <2>1, <2>2
  <2>9. \A i \in 1..Len(ms) : i \in 1..k \/ i \in (k + 1)..Len(ms)
    BY <2>2
  <2> HIDE DEF from
  <2>10. InLine(ms, n) => InLine(new, n)
    BY <2>3, <2>5, <2>7 DEF InLine
  <2>11. Known(ms, a, ex) => Known(new, a, ex)
    BY <2>3, <2>7 DEF Known
  <2>12. ASSUME NEW x \in Plain, Holds(ms, x) PROVE Holds(new, x)
    <3>1. PICK i \in 1..Len(ms) : x = ms[i] \/ x \in ms[i].of
      BY <2>12 DEF Holds
    <3>2. ms[i] \in Lines
      BY <2>2
    <3>3. CASE i \in 1..k
      <4>1. ms[i] \in new[1].of \/ (ms[i].kind = "summary" /\ ms[i].of \subseteq new[1].of)
        BY <2>1, <3>3
      <4>2. x.kind # "summary"
        BY DEF Plain, Spoken
      <4>3. x \in new[1].of
        <5>1. CASE ms[i].kind = "summary"
          <6>1. x # ms[i]
            BY <4>2, <5>1
          <6>2. ms[i] \notin new[1].of
            <7>1. new[1] \in Lines
              BY <2>1, <2>2
            <7>2. new[1].of \subseteq Plain
              BY <7>1, LineFacts
            <7> QED
              BY <5>1, <7>2 DEF Plain, Spoken
          <6> QED
            BY <3>1, <4>1, <6>1, <6>2
        <5>2. CASE ms[i].kind # "summary"
          <6>1. ms[i].of = {}
            BY <3>2, <5>2, LineFacts
          <6> QED
            BY <3>1, <4>1, <5>2, <6>1
        <5> QED
          BY <5>1, <5>2
      <4> QED
        BY <2>2, <4>3 DEF Holds
    <3>4. CASE i \in (k + 1)..Len(ms)
      <4>1. i - k + 1 \in 2..Len(new) /\ new[i - k + 1] = ms[i]
        BY <2>3, <2>8, <3>4
      <4>2. i - k + 1 \in 1..Len(new)
        BY <2>2, <4>1
      <4> QED
        BY <3>1, <4>1, <4>2 DEF Holds
    <3> QED
      BY <2>9, <3>3, <3>4
  <2>13. \A j \in 1..Len(a) : a[j] \in Plain \/ a[j] = Torn
    BY DEF Kept
  <2>14. Covers(ms, a, ex) => Covers(new, a, ex)
    BY <2>12, <2>13 DEF Covers
  <2> QED
    BY <2>1, <2>10, <2>11, <2>14 DEF new
<1> QED
  BY <1>1, <1>2

LEMMA PrefixKeeps ==
    ASSUME NEW s, NEW ms, NEW n, NEW a, NEW ex, Len(s) \in Nat, Len(ms) \in Nat, Len(s) <= Len(ms),
           \A i \in 1..Len(s) : s[i] = ms[i]
    PROVE  /\ InLine(ms, n) => InLine(s, n)
           /\ Known(ms, a, ex) => Known(s, a, ex)
           /\ Len(s) = Len(ms) => (Covers(ms, a, ex) => Covers(s, a, ex))
<1>1. \A i \in 1..Len(s) : i \in 1..Len(ms)
  OBVIOUS
<1>2. Len(s) = Len(ms) => \A x : Holds(ms, x) => Holds(s, x)
  BY DEF Holds
<1> QED
  BY <1>1, <1>2 DEF InLine, Known, Covers

LEMMA Untorn ==
    ASSUME NEW s \in Seq(Shapes), ~Has(s, Torn)
    PROVE  s \in Seq(Lines)
<1>1. Len(s) \in Nat /\ s = [i \in 1..Len(s) |-> s[i]] /\ \A i \in 1..Len(s) : s[i] \in Lines
  BY DEF Has, Shapes
<1> QED
  BY <1>1

LEMMA NoneTorn ==
    ASSUME NEW s \in Seq(Lines)
    PROVE  ~Has(s, Torn) /\ s \in Seq(Shapes)
<1>1. \A i \in 1..Len(s) : s[i] \in Lines
  OBVIOUS
<1>2. ~Has(s, Torn)
  BY <1>1, LineFacts DEF Has
<1> QED
  BY <1>2 DEF Shapes

LEMMA Excused == \A s, a, ex, ex2 : ex \cup Session!Range(a) \subseteq ex2 /\ (\E S : a \in Seq(S)) => Covers(s, a, ex2)
<1> SUFFICES ASSUME NEW s, NEW a, NEW ex, NEW ex2, ex \cup Session!Range(a) \subseteq ex2, NEW S, a \in Seq(S) PROVE Covers(s, a, ex2)
  OBVIOUS
<1>1. \A k \in 1..Len(a) : a[k] \in Session!Range(a)
  BY DEF Session!Range
<1> QED
  BY <1>1 DEF Covers

LEMMA Empty ==
    /\ <<>> \in Seq(Lines) /\ <<>> \in Seq(Shapes) /\ ~Has(<<>>, Torn) /\ TornLast(<<>>)
    /\ \A n, a, ex : InLine(<<>>, n) /\ Known(<<>>, a, ex)
  BY DEF InLine, Known, Has, TornLast

-----------------------------------------------------------------------------
LEMMA SessionNames ==
    ASSUME SessionTypes
    PROVE  /\ Session!Key = SK /\ Session!Torn = Torn /\ Session!InHand = InHand /\ InHand \in Plain
           /\ \A a \in Seq(Kept) \cup Seq(Shapes) : Session!Spoilt(a) => Has(a, Torn)
           /\ Session!Spoilt(Live) <=> Has(Live, Torn)
           /\ Session!Readable(Live) = Shown
           /\ \A n : Session!Line("user", n) = [kind |-> "user", turn |-> n, chan |-> channel, of |-> {}]
<1>1. Session!Key = SK /\ Session!Torn = Torn /\ Session!InHand = InHand
  BY DEF Session!Key, Session!SessionKey, SK, Session!Torn, Torn, Session!InHand, Session!Line, InHand
<1>2. InHand \in Plain
  BY DEF SessionTypes, InHand, Plain, Spoken
<1>3. \A a \in Seq(Kept) \cup Seq(Shapes) : Session!Spoilt(a) <=> (a # <<>> /\ a[Len(a)] = Torn)
  BY <1>1 DEF Session!Spoilt, Session!Last
<1>4. \A a \in Seq(Kept) \cup Seq(Shapes) : a # <<>> => Len(a) \in 1..Len(a)
  OBVIOUS
<1>5. \A a \in Seq(Kept) \cup Seq(Shapes) : Session!Spoilt(a) => Has(a, Torn)
  BY <1>3, <1>4 DEF Has
<1>6. Has(Live, Torn) => Session!Spoilt(Live)
  <2> SUFFICES ASSUME Has(Live, Torn) PROVE Session!Spoilt(Live)
    OBVIOUS
  <2>1. PICK i \in 1..Len(Live) : Live[i] = Torn
    BY DEF Has
  <2>2. i = Len(Live) /\ Live # <<>>
    BY <2>1 DEF SessionTypes, TornLast
  <2> QED
    BY <1>3, <2>1, <2>2 DEF SessionTypes
<1>7. Session!Readable(Live) = Shown
  BY <1>1 DEF Session!Readable, Session!Contains, Has, Shown
<1>8. Live \in Seq(Shapes)
  BY DEF SessionTypes
<1> QED
  BY <1>1, <1>2, <1>5, <1>6, <1>7, <1>8 DEF Session!Line

LEMMA Wrote ==
    ASSUME SessionTypes, NEW x
    PROVE  /\ archive' = [archive EXCEPT ![Session!Key] = x] => archive' = [k \in {SK} |-> Arch'] /\ Arch' = x
           /\ live' = [live EXCEPT ![Session!Key] = x] => live' = [k \in {SK} |-> Live'] /\ Live' = x
<1>1. archive = [k \in {SK} |-> Arch] /\ live = [k \in {SK} |-> Live] /\ Session!Key = SK
  BY SessionNames DEF SessionTypes
<1>2. archive' = [archive EXCEPT ![SK] = x] => archive' = [k \in {SK} |-> x]
  BY <1>1
<1>3. live' = [live EXCEPT ![SK] = x] => live' = [k \in {SK} |-> x]
  BY <1>1
<1> QED
  BY <1>1, <1>2, <1>3 DEF Arch, Live

LEMMA SessionStart == AgentInit => SessionInv
<1> SUFFICES ASSUME AgentInit PROVE SessionInv
  OBVIOUS
<1>1. /\ archive = [k \in Session!Keys |-> <<>>] /\ live = archive /\ channel \in Channels
      /\ history = <<>> /\ turnMsgs = <<>> /\ todo = <<>> /\ step = "start" /\ turn = 0
  BY DEF AgentInit, Session!Init
<1>2. Session!Keys = {SK}
  BY <1>1 DEF Session!Keys, Session!SessionKey, SK
<1>3. Arch = <<>> /\ Live = <<>> /\ archive = [k \in {SK} |-> Arch] /\ live = [k \in {SK} |-> Live]
  BY <1>1, <1>2 DEF Arch, Live
<1>4. SessionTypes
  BY <1>1, <1>3, Empty DEF SessionTypes
<1>5. LiveSound
  <2>1. Covers(Shown, Arch, excused)
    BY <1>3 DEF Covers
  <2> QED
    BY <1>1, <1>3, <2>1, Empty DEF LiveSound
<1> QED
  BY <1>1, <1>4, <1>5 DEF SessionInv, MessagesSound, Rewriting, HistorySound

LEMMA ShownSound ==
    ASSUME SessionTypes, LiveSound
    PROVE  Shown \in Seq(Lines) /\ InLine(Shown, Bound) /\ Known(Shown, Arch, excused)
<1>1. Live \in Seq(Shapes) /\ InLine(Live, Bound) /\ Known(Live, Arch, excused)
  BY DEF SessionTypes, LiveSound
<1> QED
  BY <1>1, Empty, Untorn DEF Shown

LEMMA LoadStep ==
    ASSUME SessionInv, Session!Load \/ Session!Reload
    PROVE  SessionInv'
<1>0. SessionTypes /\ LiveSound
  BY DEF SessionInv
<1>1. /\ step \in {"start", "reload"} /\ step' = "idle" /\ history' = Shown
      /\ UNCHANGED <<archive, live, channel, turnMsgs, turn, todo, excused>>
  BY <1>0, SessionNames DEF Session!Load, Session!Reload, Live
<1>2. Arch' = Arch /\ Live' = Live /\ Shown' = Shown
  BY <1>1 DEF Arch, Live, Shown
<1>3. Bound = turn + turn + 2 /\ Bound' = turn + turn + 2
  BY <1>1 DEF Bound
<1>4. Shown \in Seq(Lines) /\ InLine(Shown, Bound) /\ Known(Shown, Arch, excused) /\ Covers(Shown, Arch, excused)
  BY <1>0, <1>1, ShownSound DEF LiveSound
<1>5. SessionTypes'
  BY <1>0, <1>1, <1>2, <1>4 DEF SessionTypes
<1>6. LiveSound'
  BY <1>0, <1>1, <1>2, <1>3, <1>4 DEF LiveSound
<1>7. HistorySound'
  BY <1>1, <1>2, <1>3, <1>4 DEF HistorySound
<1> QED
  BY <1>1, <1>5, <1>6, <1>7 DEF SessionInv, MessagesSound, Rewriting

LEMMA TakeInputStep ==
    ASSUME SessionInv, Session!TakeInput
    PROVE  SessionInv'
<1>0. SessionTypes /\ LiveSound /\ HistorySound
  BY DEF SessionInv
<1>1. PICK h : h = [kind |-> "user", turn |-> turn + 1, chan |-> channel, of |-> {}]
  OBVIOUS
<1>2. /\ step = "idle" /\ step' = "archiveUser" /\ turn' = turn + 1
      /\ turnMsgs' = Append(history, h) /\ UNCHANGED <<archive, live, channel, history, todo, excused>>
  <2>1. turnMsgs' = Append(history, Session!Line("user", turn + 1))
    BY DEF Session!TakeInput, Session!Line
  <2> QED
    BY <1>0, <1>1, <2>1, SessionNames DEF Session!TakeInput
<1>3. Arch' = Arch /\ Live' = Live /\ Shown' = Shown /\ InHand' = h
  BY <1>1, <1>2 DEF Arch, Live, Shown, InHand
<1>4. turn \in Nat /\ Bound = turn + turn + 2 /\ Bound' = turn' + turn' /\ Bound' = Bound
  BY <1>0, <1>2 DEF Bound, SessionTypes
<1>5. /\ h \in Plain /\ h \in Lines /\ h \in Shapes /\ h.kind = "user" /\ Place(h) = Bound
      /\ history \in Seq(Lines) /\ history \in Seq(Shapes)
  <2>1. channel \in Channels /\ history \in Seq(Lines)
    BY <1>0 DEF SessionTypes
  <2>2. h \in Plain /\ h.kind = "user" /\ h.turn = turn + 1
    BY <1>1, <1>4, <2>1 DEF Plain, Spoken
  <2>3. Place(h) = Bound
    BY <1>4, <2>2 DEF Place
  <2> QED
    BY <2>1, <2>2, <2>3, NoneTorn DEF Lines, Shapes
<1>6. SessionTypes'
  BY <1>0, <1>2, <1>3, <1>4, <1>5 DEF SessionTypes
<1>7. LiveSound'
  BY <1>0, <1>2, <1>3, <1>4 DEF LiveSound
<1>8. MessagesSound'
  <2>1. InLine(turnMsgs', turn' + turn' + 1)
    BY <1>0, <1>2, <1>4, <1>5, InLineAppend DEF HistorySound
  <2>2. Covers(turnMsgs', Arch', excused')
    BY <1>0, <1>2, <1>3, <1>5, CoveredBy DEF HistorySound
  <2>3. Known(history, Arch, excused \cup {h})
    BY <1>0, <1>2 DEF HistorySound, Known
  <2>4. Known(turnMsgs', Arch', excused' \cup {InHand'})
    BY <1>2, <1>3, <1>5, <2>3, KnownAppend
  <2>5. Has(turnMsgs', h)
    BY <1>2, <1>5, HasAppend
  <2> QED
    BY <1>2, <1>3, <2>1, <2>2, <2>4, <2>5 DEF MessagesSound
<1> QED
  BY <1>2, <1>6, <1>7, <1>8 DEF SessionInv, Rewriting, HistorySound

LEMMA WriteArchiveStep ==
    ASSUME SessionInv, Session!WriteArchive
    PROVE  SessionInv'
<1>0. SessionTypes /\ LiveSound /\ MessagesSound
  BY DEF SessionInv
<1>1. PICK h : h = InHand
  OBVIOUS
<1>2. /\ step \in {"archiveUser", "archiveAnswer"}
      /\ UNCHANGED <<live, channel, history, turnMsgs, turn, todo>>
      /\ h \in Plain /\ h \in Kept /\ Torn \in Kept
      /\ Arch \in Seq(Kept) /\ turn \in Nat
  BY <1>0, <1>1, SessionNames DEF Session!WriteArchive, SessionTypes, Kept
<1>3. Live' = Live /\ Shown' = Shown
  BY <1>2 DEF Live, Shown
<1>4. PICK l \in Kept :
         /\ archive' = [k \in {SK} |-> Arch'] /\ Grown(Arch, l, Arch')
         /\ excused \subseteq excused'
         /\ step' \in IF step = "archiveUser" THEN {"liveUser", "engine"} ELSE {"liveAnswer", "reload"}
         /\ l = h \/ l = Torn
         /\ l = Torn => step' \in {"engine", "reload"} /\ h \in excused'
         /\ l = h => step' \in {"liveUser", "liveAnswer"} /\ (h \in excused' \/ Has(Arch', h))
  <2>1. /\ Session!Key = SK /\ Session!Torn = Torn /\ Session!InHand = h
        /\ h.kind = IF step = "archiveUser" THEN "user" ELSE "answer"
    BY <1>0, <1>1, <1>2, SessionNames DEF InHand
  <2>2. archive[Session!Key] = Arch
    BY <2>1 DEF Arch
  <2>3. CASE /\ archive' = [archive EXCEPT ![Session!Key] = Session!Added(Arch, h)]
             /\ step' = IF h.kind = "user" THEN "liveUser" ELSE "liveAnswer"
             /\ excused' = IF Session!Spoilt(Arch) THEN excused \cup {h} ELSE excused
    <3>1. archive' = [k \in {SK} |-> Arch'] /\ Arch' = Session!Added(Arch, h)
      BY <1>0, <2>3, Wrote
    <3>2. Arch' = IF Session!Spoilt(Arch) THEN Arch ELSE Append(Arch, h)
      BY <3>1 DEF Session!Added
    <3>3. h \in excused' \/ Has(Arch', h)
      BY <1>2, <2>3, <3>2, HasAppend
    <3>4. h # Torn
      BY <1>2, LineFacts DEF Lines
    <3> QED
      BY <1>2, <2>1, <2>3, <3>1, <3>2, <3>3, <3>4 DEF Grown
  <2>4. CASE /\ archive' = [archive EXCEPT ![Session!Key] = Session!Added(Arch, Torn)]
             /\ step' = IF h.kind = "user" THEN "engine" ELSE "reload"
             /\ excused' = excused \cup {h}
    <3>1. archive' = [k \in {SK} |-> Arch'] /\ Arch' = Session!Added(Arch, Torn)
      BY <1>0, <2>4, Wrote
    <3>2. Arch' = IF Session!Spoilt(Arch) THEN Arch ELSE Append(Arch, Torn)
      BY <3>1 DEF Session!Added
    <3>4. h # Torn
      BY <1>2, LineFacts DEF Lines
    <3> QED
      BY <1>2, <2>1, <2>4, <3>1, <3>2, <3>4 DEF Grown
  <2> QED
    BY <2>1, <2>2, <2>3, <2>4 DEF Session!WriteArchive, Session!AfterAppend
<1>5. step' \in {"liveUser", "liveAnswer"} => InHand' = h
  BY <1>1, <1>2, <1>4 DEF InHand
<1>6. Arch' \in Seq(Kept)
  BY <1>2, <1>4 DEF Grown
<1>7. SessionTypes'
  BY <1>0, <1>2, <1>3, <1>4, <1>6 DEF SessionTypes
<1>8. LiveSound'
  <2>1. /\ Bound \in Nat /\ Bound' \in Nat /\ Bound <= Bound'
    BY <1>2, <1>4 DEF Bound
  <2>2. InLine(Live', Bound')
    BY <1>0, <1>3, <2>1, InLineLater DEF LiveSound, SessionTypes
  <2>3. Known(Live', Arch', excused')
    BY <1>0, <1>2, <1>3, <1>4, MoreKnown DEF LiveSound
  <2>4. Covers(Shown, Arch, excused)
    BY <1>0, <1>2 DEF LiveSound
  <2>5. CASE l = Torn
    <3>1. Covers(Shown, Arch', excused')
      BY <1>2, <1>4, <2>4, <2>5, MoreCovered
    <3> QED
      BY <1>3, <1>4, <2>2, <2>3, <2>5, <3>1 DEF LiveSound
  <2>6. CASE l = h
    <3>1. excused \subseteq excused' \cup {h} /\ l \in excused' \cup {h}
      BY <1>4, <2>6
    <3>2. Covers(Shown, Arch', excused' \cup {h})
      BY <1>2, <1>4, <2>4, <3>1, MoreCovered
    <3> QED
      BY <1>3, <1>4, <1>5, <2>2, <2>3, <2>6, <3>2 DEF LiveSound
  <2> QED
    BY <1>4, <2>5, <2>6
<1>9. MessagesSound'
  <2>1. CASE step = "archiveAnswer"
    BY <1>4, <2>1 DEF MessagesSound
  <2>2. CASE step = "archiveUser"
    <3>1. /\ InLine(turnMsgs, turn + turn + 1) /\ Covers(turnMsgs, Arch, excused)
          /\ Known(turnMsgs, Arch, excused \cup {h}) /\ Has(turnMsgs, h)
      BY <1>0, <1>1, <2>2 DEF MessagesSound
    <3>2. Holds(turnMsgs, h)
      BY <3>1 DEF Has, Holds
    <3>3. Covers(turnMsgs, Arch', excused')
      BY <1>2, <1>4, <3>1, <3>2, MoreCovered
    <3>4. \A x : Has(Arch, x) => Has(Arch', x)
      BY <1>2, <1>4, HasMore
    <3>5. h \in excused' \/ Has(Arch', h)
      BY <1>4
    <3>6. Known(turnMsgs, Arch', excused')
      BY <1>4, <3>1, <3>4, <3>5 DEF Known
    <3> QED
      BY <1>2, <1>4, <2>2, <3>1, <3>3, <3>6 DEF MessagesSound
  <2> QED
    BY <1>2, <2>1, <2>2
<1> QED
  BY <1>4, <1>7, <1>8, <1>9 DEF SessionInv, Rewriting, HistorySound

\* live gets a torn line, and all there is in the archive is excused.
LEMMA TornSound ==
    ASSUME SessionTypes, LiveSound, NEW x, x = Session!Added(Live, Torn),
           live' = [live EXCEPT ![Session!Key] = x], UNCHANGED archive,
           excused' = excused \cup Session!Range(Arch), Bound' \in Nat, Bound <= Bound'
    PROVE  /\ live' = [k \in {SK} |-> Live'] /\ Live' \in Seq(Shapes) /\ TornLast(Live') /\ Has(Live', Torn)
           /\ InLine(Live', Bound') /\ Known(Live', Arch', excused')
           /\ \A s : Covers(s, Arch', excused')
<1>1. live' = [k \in {SK} |-> Live'] /\ Live' = x /\ Arch' = Arch
  BY Wrote DEF Arch
<1>2. x = IF Has(Live, Torn) THEN Live ELSE Append(Live, Torn)
  BY SessionNames DEF Session!Added
<1>3. /\ Live \in Seq(Shapes) /\ Torn \in Shapes /\ TornLast(Live) /\ Arch \in Seq(Kept)
      /\ InLine(Live, Bound) /\ Known(Live, Arch, excused) /\ turn \in Nat
  BY DEF SessionTypes, LiveSound, Shapes
<1>4. Bound \in Nat
  BY <1>3 DEF Bound
<1>5. Torn.kind \notin Spoken
  BY DEF Torn, Spoken
<1>6. Known(Live, Arch, excused')
  BY <1>3 DEF Known
<1>7. \A s : Covers(s, Arch', excused')
  BY <1>1, <1>3, Excused
<1>8. CASE Has(Live, Torn)
  <2>1. x = Live
    BY <1>2, <1>8
  <2> QED
    BY <1>1, <1>3, <1>4, <1>6, <1>7, <1>8, <2>1, InLineLater
<1>9. CASE ~Has(Live, Torn)
  <2>1. x = Append(Live, Torn)
    BY <1>2, <1>9
  <2>2. x \in Seq(Shapes) /\ Has(x, Torn)
    BY <1>3, <2>1, HasAppend
  <2>3. TornLast(x)
    BY <1>3, <1>9, <2>1, Extended DEF TornLast, Has
  <2>4. InLine(x, Bound')
    BY <1>3, <1>4, <1>5, <2>1, InLineAppend
  <2>5. Known(x, Arch, excused')
    BY <1>3, <1>5, <1>6, <2>1, KnownAppend
  <2> QED
    BY <1>1, <1>7, <2>2, <2>3, <2>4, <2>5
<1> QED
  BY <1>8, <1>9

\* The turn's messages, when more is excused.
LEMMA MessagesLater ==
    ASSUME NEW s, NEW a, NEW ex, NEW ex2, ex \subseteq ex2
    PROVE  /\ Known(s, a, ex) => Known(s, a, ex2)
           /\ Covers(s, a, ex) => Covers(s, a, ex2)
  BY DEF Known, Covers

LEMMA WriteLiveStep ==
    ASSUME SessionInv, Session!WriteLive
    PROVE  SessionInv'
<1>0. SessionTypes /\ LiveSound /\ MessagesSound
  BY DEF SessionInv
<1>1. PICK h : h = InHand
  OBVIOUS
<1>2. /\ Session!Key = SK /\ Session!Torn = Torn /\ Session!InHand = h /\ h \in Plain
      /\ h.kind = (IF step = "liveUser" THEN "user" ELSE "answer") /\ h.turn = turn
      /\ step \in {"liveUser", "liveAnswer"}
      /\ live[Session!Key] = Live /\ archive[Session!Key] = Arch
  BY <1>0, <1>1, SessionNames DEF InHand, Session!WriteLive, Live, Arch
<1>3. /\ step' = IF step = "liveUser" THEN "engine" ELSE "reload"
      /\ UNCHANGED <<archive, channel, history, turnMsgs, turn, todo>>
  BY <1>2 DEF Session!WriteLive, Session!AfterAppend
<1>4. /\ turn \in Nat /\ Bound \in Nat /\ Bound' = Bound + 1 /\ Bound' \in Nat /\ Place(h) = Bound
  BY <1>0, <1>2, <1>3 DEF SessionTypes, Bound, Place
<1>5. Arch' = Arch /\ Arch \in Seq(Kept) /\ Live \in Seq(Shapes) /\ TornLast(Live)
  BY <1>0, <1>3 DEF Arch, SessionTypes
<1>6. /\ InLine(Live, Bound) /\ Known(Live, Arch, excused)
      /\ Covers(Shown, Arch, excused \cup {h}) /\ (h \in excused \/ Has(Arch, h))
  BY <1>0, <1>1, <1>2 DEF LiveSound
<1>7. /\ live' = [k \in {SK} |-> Live'] /\ Live' \in Seq(Shapes) /\ TornLast(Live')
      /\ InLine(Live', Bound') /\ Known(Live', Arch', excused') /\ Covers(Shown', Arch', excused')
      /\ excused \subseteq excused'
  <2>1. CASE /\ live' = [live EXCEPT ![Session!Key] = Session!Added(Live, h)]
             /\ excused' = IF Session!Spoilt(Live) THEN excused \cup {h} ELSE excused
    <3>1. live' = [k \in {SK} |-> Live'] /\ Live' = Session!Added(Live, h)
      BY <1>0, <2>1, Wrote
    <3>2. Session!Spoilt(Live) <=> Has(Live, Torn)
      BY <1>0, SessionNames
    <3>3. CASE Has(Live, Torn)
      <4>1. Live' = Live /\ excused' = excused \cup {h} /\ Shown' = Shown
        BY <2>1, <3>1, <3>2, <3>3 DEF Session!Added, Shown
      <4>2. InLine(Live, Bound')
        BY <1>4, <1>5, <1>6, InLineLater
      <4>3. Known(Live, Arch, excused')
        BY <1>6, <4>1 DEF Known
      <4> QED
        BY <1>5, <1>6, <3>1, <4>1, <4>2, <4>3
    <3>4. CASE ~Has(Live, Torn)
      <4>1. Live' = Append(Live, h) /\ excused' = excused
        BY <2>1, <3>1, <3>2, <3>4 DEF Session!Added
      <4>2. Shown = Live /\ h \in Shapes /\ h # Torn /\ h \in Lines
        BY <1>2, <3>4, LineFacts DEF Shown, Shapes, Lines
      <4>3. Live' \in Seq(Shapes) /\ \A i \in 1..Len(Live') : (i \in 1..Len(Live) /\ Live'[i] = Live[i]) \/ Live'[i] = h
        BY <1>5, <4>1, <4>2, Extended
      <4>4. ~Has(Live', Torn)
        BY <3>4, <4>2, <4>3 DEF Has
      <4>5. TornLast(Live')
        BY <4>4 DEF TornLast, Has
      <4>6. InLine(Live', Bound')
        BY <1>4, <1>5, <1>6, <4>1, <4>2, InLineAppend
      <4>7. Known(Live', Arch', excused')
        BY <1>5, <1>6, <4>1, <4>2, KnownAppend
      <4>8. Covers(Live', Arch', excused')
        BY <1>5, <1>6, <4>1, <4>2, CoveredBy
      <4>9. Shown' = Live'
        BY <4>4 DEF Shown
      <4> QED
        BY <3>1, <4>1, <4>3, <4>5, <4>6, <4>7, <4>8, <4>9
    <3> QED
      BY <3>3, <3>4
  <2>2. CASE /\ live' = [live EXCEPT ![Session!Key] = Session!Added(Live, Torn)]
             /\ excused' = excused \cup Session!Range(Arch)
    <3>1. UNCHANGED archive /\ Bound <= Bound' /\ Bound' \in Nat
      BY <1>3, <1>4
    <3> QED
      BY <1>0, <2>2, <3>1, TornSound
  <2> QED
    BY <1>2, <2>1, <2>2 DEF Session!WriteLive
<1>8. SessionTypes'
  BY <1>0, <1>3, <1>5, <1>7 DEF SessionTypes, Arch
<1>9. LiveSound'
  BY <1>3, <1>7 DEF LiveSound
<1>10. MessagesSound'
  <2>1. CASE step = "liveUser"
    <3>1. InLine(turnMsgs, turn + turn + 1) /\ Covers(turnMsgs, Arch, excused) /\ Known(turnMsgs, Arch, excused)
      BY <1>0, <2>1 DEF MessagesSound
    <3>2. Covers(turnMsgs, Arch, excused') /\ Known(turnMsgs, Arch, excused')
      BY <1>7, <3>1, MessagesLater
    <3> QED
      BY <1>3, <1>5, <2>1, <3>1, <3>2 DEF MessagesSound
  <2>2. CASE step = "liveAnswer"
    BY <1>3, <2>2 DEF MessagesSound
  <2> QED
    BY <1>2, <2>1, <2>2
<1> QED
  BY <1>2, <1>3, <1>8, <1>9, <1>10 DEF SessionInv, Rewriting, HistorySound

\* A step of the engine that rewrites the turn's messages and leaves the files.
LEMMA EngineMessages ==
    ASSUME SessionInv, step = "engine", step' \in {"engine", "truncate"},
           turnMsgs' \in Seq(Lines), InLine(turnMsgs', turn + turn + 1),
           Covers(turnMsgs', Arch, excused), Known(turnMsgs', Arch, excused),
           step' = "truncate" => todo' = turnMsgs', step' = "engine" => todo' = todo,
           UNCHANGED <<archive, live, channel, history, turn, excused>>
    PROVE  SessionInv'
<1>0. SessionTypes /\ LiveSound
  BY DEF SessionInv
<1>1. Arch' = Arch /\ Live' = Live /\ Shown' = Shown /\ Bound' = Bound
  BY DEF Arch, Live, Shown, Bound
<1>2. SessionTypes'
  BY <1>0, <1>1 DEF SessionTypes
<1>3. LiveSound'
  BY <1>0, <1>1 DEF LiveSound
<1>4. MessagesSound'
  BY <1>1 DEF MessagesSound
<1> QED
  BY <1>2, <1>3, <1>4 DEF SessionInv, Rewriting, HistorySound

LEMMA CompactFirstStep ==
    ASSUME SessionInv, Session!CompactFirst
    PROVE  SessionInv'
<1>0. SessionTypes /\ MessagesSound
  BY DEF SessionInv
<1>1. /\ step = "engine" /\ step' = "truncate" /\ todo' = turnMsgs'
      /\ UNCHANGED <<archive, live, channel, history, turn, excused>>
  BY DEF Session!CompactFirst
<1>2. PICK k \in 1..(Len(turnMsgs) - 1) : turnMsgs' = Session!Compacted(turnMsgs, k)
  BY DEF Session!CompactFirst
<1>3. /\ turnMsgs \in Seq(Lines) /\ Arch \in Seq(Kept) /\ turn + turn + 1 \in Nat /\ k \in 0..(Len(turnMsgs) - 1)
      /\ InLine(turnMsgs, turn + turn + 1) /\ Covers(turnMsgs, Arch, excused) /\ Known(turnMsgs, Arch, excused)
  BY <1>0, <1>1 DEF SessionTypes, MessagesSound
<1>4. /\ turnMsgs' \in Seq(Lines) /\ InLine(turnMsgs', turn + turn + 1)
      /\ Covers(turnMsgs', Arch, excused) /\ Known(turnMsgs', Arch, excused)
  BY <1>2, <1>3, CompactedKeeps
<1> QED
  BY <1>1, <1>4, EngineMessages

LEMMA ToolRoundStep ==
    ASSUME SessionInv, Session!ToolRound
    PROVE  SessionInv'
<1>0. SessionTypes /\ MessagesSound
  BY DEF SessionInv
<1>1. /\ step = "engine" /\ UNCHANGED <<archive, live, channel, history, turn, excused>>
      /\ \/ step' = "truncate" /\ todo' = turnMsgs'
         \/ step' = "engine" /\ todo' = todo
  BY DEF Session!ToolRound
<1> DEFINE l == [kind |-> "tools", turn |-> turn, chan |-> channel, of |-> {}]
           ms == Append(turnMsgs, l)
           n == turn + turn + 1
<1>2. PICK k \in 0..(Len(ms) - 1) : turnMsgs' = Session!Compacted(ms, k)
  <2>1. [Session!Line("tools", turn) EXCEPT !.of = {}] = l
    BY DEF Session!Line
  <2> QED
    BY <2>1 DEF Session!ToolRound
<1>3. /\ turnMsgs \in Seq(Lines) /\ turnMsgs \in Seq(Shapes) /\ Arch \in Seq(Kept) /\ n \in Nat
      /\ InLine(turnMsgs, n) /\ Covers(turnMsgs, Arch, excused) /\ Known(turnMsgs, Arch, excused)
  BY <1>0, <1>1, NoneTorn DEF SessionTypes, MessagesSound
<1>4. l \in Lines /\ l \in Shapes /\ l.kind \notin Spoken
  BY <1>0 DEF SessionTypes, Lines, Shapes, Plain, Spoken
<1> HIDE DEF l, n
<1>5. ms \in Seq(Lines) /\ InLine(ms, n) /\ Covers(ms, Arch, excused) /\ Known(ms, Arch, excused)
  <2>1. ms \in Seq(Lines)
    BY <1>3, <1>4
  <2>2. InLine(ms, n)
    BY <1>3, <1>4, InLineAppend
  <2>3. Covers(ms, Arch, excused)
    BY <1>3, <1>4, CoveredBy
  <2>4. Known(ms, Arch, excused)
    BY <1>3, <1>4, KnownAppend
  <2> QED
    BY <2>1, <2>2, <2>3, <2>4
<1> HIDE DEF ms
<1>6. /\ turnMsgs' \in Seq(Lines) /\ InLine(turnMsgs', n)
      /\ Covers(turnMsgs', Arch, excused) /\ Known(turnMsgs', Arch, excused)
  BY <1>2, <1>3, <1>5, CompactedKeeps
<1>7. InLine(turnMsgs', turn + turn + 1)
  BY <1>6 DEF n
<1> QED
  BY <1>1, <1>6, <1>7, EngineMessages

LEMMA LiveTruncateStep ==
    ASSUME SessionInv, Session!Truncate
    PROVE  SessionInv'
<1>0. SessionTypes /\ LiveSound /\ MessagesSound /\ Rewriting
  BY DEF SessionInv
<1>1. /\ step = "truncate" /\ step' = "rewrite" /\ live' = [live EXCEPT ![Session!Key] = <<>>]
      /\ UNCHANGED <<archive, channel, history, turnMsgs, turn, todo, excused>>
  BY DEF Session!Truncate
<1>2. live' = [k \in {SK} |-> Live'] /\ Live' = <<>> /\ Arch' = Arch
  BY <1>0, <1>1, Wrote DEF Arch
<1>3. SessionTypes'
  BY <1>0, <1>1, <1>2, Empty DEF SessionTypes
<1>4. LiveSound'
  BY <1>1, <1>2, Empty DEF LiveSound
<1>5. MessagesSound'
  BY <1>0, <1>1, <1>2 DEF MessagesSound
<1>6. Rewriting'
  <2>1. todo = turnMsgs /\ turnMsgs \in Seq(Lines) /\ Len(<<>>) = 0
    BY <1>0, <1>1 DEF Rewriting, SessionTypes
  <2>2. Len(turnMsgs) \in Nat
    BY <2>1
  <2> QED
    BY <1>1, <1>2, <2>1, <2>2, Empty DEF Rewriting
<1> QED
  BY <1>1, <1>3, <1>4, <1>5, <1>6 DEF SessionInv, HistorySound

LEMMA RewriteLineStep ==
    ASSUME SessionInv, Session!RewriteLine
    PROVE  SessionInv'
<1>0. SessionTypes /\ LiveSound /\ MessagesSound /\ Rewriting
  BY DEF SessionInv
<1>1. /\ step = "rewrite" /\ step' = "rewrite" /\ todo # <<>>
      /\ UNCHANGED <<archive, channel, history, turnMsgs, turn>>
  BY DEF Session!RewriteLine
<1>2. /\ Arch' = Arch /\ Bound' = Bound /\ Bound = turn + turn + 1 /\ Bound \in Nat /\ turn \in Nat
      /\ Session!Key = SK /\ Session!Torn = Torn /\ live[Session!Key] = Live /\ archive[Session!Key] = Arch
  BY <1>0, <1>1, SessionNames DEF Arch, Live, Bound, SessionTypes
<1>3. /\ turnMsgs \in Seq(Lines) /\ todo \in Seq(Lines) /\ Live \in Seq(Shapes)
      /\ InLine(turnMsgs, turn + turn + 1) /\ Covers(turnMsgs, Arch, excused) /\ Known(turnMsgs, Arch, excused)
  BY <1>0, <1>1 DEF SessionTypes, MessagesSound
<1>4. CASE /\ live' = [live EXCEPT ![Session!Key] = Append(Live, Head(todo))]
           /\ todo' = Tail(todo) /\ excused' = excused
  <2>1. live' = [k \in {SK} |-> Live'] /\ Live' = Append(Live, Head(todo))
    BY <1>0, <1>4, Wrote
  <2>2. /\ ~Has(Live, Torn) /\ Len(Live) + Len(todo) = Len(turnMsgs)
        /\ \A i \in 1..Len(Live) : Live[i] = turnMsgs[i]
        /\ \A i \in 1..Len(todo) : todo[i] = turnMsgs[Len(Live) + i]
    BY <1>0, <1>1 DEF Rewriting
  <2>3. /\ Len(todo) \in Nat /\ Len(todo) > 0 /\ Head(todo) = todo[1] /\ 1 \in 1..Len(todo) /\ Head(todo) \in Lines
        /\ todo' \in Seq(Lines) /\ Len(todo') = Len(todo) - 1
        /\ \A i \in 1..Len(todo') : i + 1 \in 1..Len(todo) /\ todo'[i] = todo[i + 1]
    BY <1>1, <1>3, <1>4
  <2>4. Live \in Seq(Lines)
    BY <1>3, <2>2, Untorn
  <2>5. /\ Live' \in Seq(Lines) /\ Len(Live) \in Nat /\ Len(Live') = Len(Live) + 1
        /\ \A i \in 1..Len(Live) : Live'[i] = Live[i]
        /\ Live'[Len(Live) + 1] = Head(todo)
        /\ \A i \in 1..Len(Live') : i \in 1..Len(Live) \/ i = Len(Live) + 1
    BY <2>1, <2>3, <2>4, Extended
  <2>6. \A i \in 1..Len(Live') : Live'[i] = turnMsgs[i]
    <3>1. Head(todo) = turnMsgs[Len(Live) + 1]
      BY <2>2, <2>3
    <3> QED
      BY <2>2, <2>5, <3>1
  <2>7. \A i \in 1..Len(todo') : todo'[i] = turnMsgs[Len(Live') + i]
    <3> SUFFICES ASSUME NEW i \in 1..Len(todo') PROVE todo'[i] = turnMsgs[Len(Live') + i]
      OBVIOUS
    <3>1. todo'[i] = turnMsgs[Len(Live) + (i + 1)]
      BY <2>2, <2>3
    <3>2. Len(Live) + (i + 1) = Len(Live') + i
      BY <2>3, <2>5
    <3> QED
      BY <3>1, <3>2
  <2>8. Len(Live') + Len(todo') = Len(turnMsgs) /\ Len(turnMsgs) \in Nat /\ Len(Live') \in Nat /\ Len(Live') <= Len(turnMsgs)
    <3>1. Len(turnMsgs) \in Nat /\ Len(todo') \in Nat
      BY <1>3, <2>3
    <3>2. Len(Live') \in Nat
      BY <2>5
    <3>3. Len(Live') + Len(todo') = Len(Live) + Len(todo)
      BY <2>3, <2>5
    <3>4. Len(Live') + Len(todo') = Len(turnMsgs)
      BY <2>2, <3>3
    <3> QED
      BY <3>1, <3>2, <3>4
  <2>9. ~Has(Live', Torn) /\ Live' \in Seq(Shapes)
    BY <2>5, NoneTorn
  <2>10. InLine(Live', turn + turn + 1) /\ Known(Live', Arch, excused)
    BY <1>3, <2>6, <2>8, PrefixKeeps
  <2>11. TornLast(Live')
    BY <2>9 DEF TornLast, Has
  <2>12. SessionTypes'
    BY <1>0, <1>1, <1>2, <2>1, <2>3, <2>9, <2>11 DEF SessionTypes
  <2>13. LiveSound'
    BY <1>1, <1>2, <1>4, <2>10 DEF LiveSound
  <2>14. MessagesSound'
    BY <1>1, <1>2, <1>3, <1>4 DEF MessagesSound
  <2>15. Rewriting'
    BY <1>1, <2>6, <2>7, <2>8, <2>9 DEF Rewriting
  <2> QED
    BY <1>1, <2>12, <2>13, <2>14, <2>15 DEF SessionInv, HistorySound
<1>5. CASE /\ live' = [live EXCEPT ![Session!Key] = Session!Added(Live, Torn)]
           /\ todo' = <<>> /\ excused' = excused \cup Session!Range(Arch)
  <2>1. /\ live' = [k \in {SK} |-> Live'] /\ Live' \in Seq(Shapes) /\ TornLast(Live') /\ Has(Live', Torn)
        /\ InLine(Live', Bound') /\ Known(Live', Arch', excused')
        /\ \A s : Covers(s, Arch', excused')
    <3>1. UNCHANGED archive /\ Bound <= Bound' /\ Bound' \in Nat
      BY <1>1, <1>2
    <3> QED
      BY <1>0, <1>5, <3>1, TornSound
  <2>2. SessionTypes'
    BY <1>0, <1>1, <1>2, <1>5, <2>1, Empty DEF SessionTypes
  <2>3. LiveSound'
    BY <1>1, <2>1 DEF LiveSound
  <2>4. MessagesSound'
    <3>1. Known(turnMsgs, Arch, excused')
      BY <1>3, <1>5, MessagesLater
    <3> QED
      BY <1>1, <1>2, <1>3, <2>1, <3>1 DEF MessagesSound
  <2>5. Rewriting'
    BY <1>1, <1>5, <2>1 DEF Rewriting
  <2> QED
    BY <1>1, <2>2, <2>3, <2>4, <2>5 DEF SessionInv, HistorySound
<1> QED
  BY <1>2, <1>4, <1>5 DEF Session!RewriteLine

LEMMA RewrittenStep ==
    ASSUME SessionInv, Session!Rewritten
    PROVE  SessionInv'
<1>0. SessionTypes /\ LiveSound /\ MessagesSound /\ Rewriting
  BY DEF SessionInv
<1>1. /\ step = "rewrite" /\ step' = "engine" /\ todo = <<>>
      /\ UNCHANGED <<archive, live, channel, history, turnMsgs, turn, todo, excused>>
  BY DEF Session!Rewritten
<1>2. Arch' = Arch /\ Live' = Live /\ Shown' = Shown /\ Bound' = Bound
  BY <1>1 DEF Arch, Live, Shown, Bound
<1>3. /\ InLine(turnMsgs, turn + turn + 1) /\ Covers(turnMsgs, Arch, excused) /\ Known(turnMsgs, Arch, excused)
      /\ turnMsgs \in Seq(Lines) /\ Live \in Seq(Shapes)
  BY <1>0, <1>1 DEF MessagesSound, SessionTypes
<1>4. Covers(Shown, Arch, excused)
  <2>1. CASE Has(Live, Torn)
    <3>1. Covers(<<>>, Arch, excused)
      BY <1>0, <1>1, <2>1 DEF Rewriting
    <3> QED
      BY <2>1, <3>1 DEF Shown
  <2>2. CASE ~Has(Live, Torn)
    <3>1. Len(Live) + Len(todo) = Len(turnMsgs) /\ \A i \in 1..Len(Live) : Live[i] = turnMsgs[i]
      BY <1>0, <1>1, <2>2 DEF Rewriting
    <3>2. Len(todo) = 0 /\ Len(Live) \in Nat /\ Len(turnMsgs) \in Nat
      BY <1>1, <1>3
    <3>3. Len(Live) = Len(turnMsgs) /\ Len(Live) <= Len(turnMsgs)
      BY <3>1, <3>2
    <3>4. Covers(Live, Arch, excused)
      BY <1>3, <3>1, <3>2, <3>3, PrefixKeeps
    <3> QED
      BY <2>2, <3>4 DEF Shown
  <2> QED
    BY <2>1, <2>2
<1>5. SessionTypes'
  BY <1>0, <1>1, <1>2 DEF SessionTypes
<1>6. LiveSound'
  BY <1>0, <1>1, <1>2, <1>4 DEF LiveSound
<1>7. MessagesSound'
  BY <1>1, <1>2, <1>3 DEF MessagesSound
<1> QED
  BY <1>1, <1>5, <1>6, <1>7 DEF SessionInv, Rewriting, HistorySound

LEMMA AnswerGivenStep ==
    ASSUME SessionInv, Session!Answer
    PROVE  SessionInv'
<1>0. SessionTypes /\ LiveSound
  BY DEF SessionInv
<1>1. /\ step = "engine" /\ step' \in {"archiveAnswer", "reload"}
      /\ UNCHANGED <<archive, live, channel, history, turnMsgs, turn, todo, excused>>
  BY DEF Session!Answer
<1>2. Arch' = Arch /\ Live' = Live /\ Shown' = Shown
  BY <1>1 DEF Arch, Live, Shown
<1>3. Bound \in Nat /\ Bound' \in Nat /\ Bound <= Bound'
  BY <1>0, <1>1 DEF Bound, SessionTypes
<1>4. InLine(Live, Bound')
  BY <1>0, <1>3, InLineLater DEF LiveSound, SessionTypes
<1>5. SessionTypes'
  BY <1>0, <1>1, <1>2 DEF SessionTypes
<1>6. LiveSound'
  BY <1>0, <1>1, <1>2, <1>4 DEF LiveSound
<1> QED
  BY <1>1, <1>5, <1>6 DEF SessionInv, MessagesSound, Rewriting, HistorySound

LEMMA SessionKillStep ==
    ASSUME SessionInv, Session!Kill
    PROVE  SessionInv'
<1>0. SessionTypes /\ LiveSound
  BY DEF SessionInv
<1>1. /\ step' = "start" /\ channel' \in Channels /\ history' = <<>> /\ turnMsgs' = <<>> /\ todo' = <<>>
      /\ UNCHANGED <<archive, live, turn>>
      /\ excused' = IF step = "rewrite" THEN excused \cup Session!Range(Arch)
                    ELSE IF step \in {"liveUser", "liveAnswer"} THEN excused \cup {InHand} ELSE excused
  <2>1. archive[Session!Key] = Arch /\ Session!InHand = InHand
    BY <1>0, SessionNames DEF Arch
  <2> QED
    BY <2>1 DEF Session!Kill
<1>2. Arch' = Arch /\ Live' = Live /\ Shown' = Shown /\ excused \subseteq excused' /\ Arch \in Seq(Kept)
  BY <1>0, <1>1 DEF Arch, Live, Shown, SessionTypes
<1>3. Bound \in Nat /\ Bound' \in Nat /\ Bound <= Bound'
  BY <1>0, <1>1 DEF Bound, SessionTypes
<1>4. InLine(Live, Bound')
  BY <1>0, <1>3, InLineLater DEF LiveSound, SessionTypes
<1>5. Known(Live, Arch, excused')
  BY <1>0, <1>2 DEF LiveSound, Known
<1>6. Covers(Shown, Arch, excused')
  <2>1. CASE step = "rewrite"
    BY <1>1, <1>2, <2>1, Excused
  <2>2. CASE step # "rewrite"
    BY <1>0, <1>1, <2>2 DEF LiveSound
  <2> QED
    BY <2>1, <2>2
<1>7. SessionTypes'
  BY <1>0, <1>1, <1>2, Empty DEF SessionTypes
<1>8. LiveSound'
  BY <1>1, <1>2, <1>4, <1>5, <1>6 DEF LiveSound
<1> QED
  BY <1>1, <1>7, <1>8 DEF SessionInv, MessagesSound, Rewriting, HistorySound

LEMMA SessionStands ==
    ASSUME SessionInv, UNCHANGED sessionVars
    PROVE  SessionInv'
<1>1. UNCHANGED <<archive, live, channel, history, turnMsgs, step, turn, todo, excused>>
  BY DEF sessionVars
<1>2. UNCHANGED <<Arch, Live, Shown, Bound, InHand>>
  BY <1>1 DEF Arch, Live, Shown, Bound, InHand
<1> QED
  BY <1>1, <1>2 DEF SessionInv, SessionTypes, LiveSound, MessagesSound, Rewriting, HistorySound

LEMMA SessionNextStep ==
    ASSUME SessionInv, Session!Next
    PROVE  SessionInv'
  BY LoadStep, TakeInputStep, WriteArchiveStep, WriteLiveStep, CompactFirstStep, ToolRoundStep,
     LiveTruncateStep, RewriteLineStep, RewrittenStep, AnswerGivenStep, SessionKillStep DEF Session!Next

SessionSound == part = "session" => SessionInv
LEMMA SessionSoundStep == SessionSound /\ [AgentNext]_all => SessionSound'
<1> SUFFICES ASSUME SessionSound, [AgentNext]_all, part' = "session" PROVE SessionInv'
  BY DEF SessionSound
<1>1. CASE UNCHANGED all
  BY <1>1, SessionStands DEF all, SessionSound
<1>2. CASE SessionPart
  BY <1>2, SessionNextStep DEF SessionPart, SessionSound
<1>3. CASE ProcessPart \/ EnginePart \/ HelperPart \/ MCPPart \/ MemoryPart
  <2>1. FALSE
    BY <1>3 DEF ProcessPart, EnginePart, HelperPart, MCPPart, MemoryPart, EngineParts
  <2> QED
    BY <2>1
<1> QED
  BY <1>1, <1>2, <1>3 DEF AgentNext

LEMMA SessionSafeFollows == SessionInv => Session!SessionSafe
<1> SUFFICES ASSUME SessionInv PROVE Session!HistoryKept /\ Session!ArchiveFirst
  BY DEF Session!SessionSafe
<1>0. SessionTypes /\ LiveSound /\ HistorySound
  BY DEF SessionInv
<1>1. /\ archive[Session!Key] = Arch /\ live[Session!Key] = Live /\ Session!Torn = Torn /\ Session!Said = Spoken
      /\ Arch \in Seq(Kept) /\ Live \in Seq(Shapes) /\ history \in Seq(Lines)
  BY <1>0, SessionNames DEF Arch, Live, Session!Said, Spoken, SessionTypes
<1>2. Session!Range(Arch) = {Arch[k] : k \in 1..Len(Arch)} /\ Session!Range(Live) = {Live[k] : k \in 1..Len(Live)}
  BY <1>1 DEF Session!Range
<1>3. Session!ArchiveFirst
  BY <1>0, <1>1, <1>2 DEF Session!ArchiveFirst, LiveSound, Known, Has
<1>4. ASSUME step = "idle" PROVE Session!HistoryKept
  <2>1. /\ InLine(history, turn + turn + 2) /\ Covers(history, Arch, excused) /\ DOMAIN history = 1..Len(history)
    BY <1>0, <1>1, <1>4 DEF HistorySound
  <2>2. \A l \in Session!Range(Arch) \ (excused \cup {Torn}) : Session!Remembered(l)
    BY <1>2, <2>1 DEF Covers, Holds, Session!Remembered
  <2>3. ASSUME NEW i \in 1..Len(history), NEW j \in 1..Len(history), i < j,
               history[i].kind \in Spoken, history[j].kind \in Spoken
        PROVE  Session!Before(history[i], history[j])
    <3>1. history[i] \in Lines /\ history[j] \in Lines
      BY <1>1
    <3>2. history[i].turn \in Nat /\ history[j].turn \in Nat
      BY <3>1, LineFacts
    <3>3. Place(history[i]) < Place(history[j])
      BY <2>1, <2>3 DEF InLine
    <3>4. history[i].kind \in {"user", "answer"} /\ history[j].kind \in {"user", "answer"}
      BY <2>3 DEF Spoken
    <3> QED
      BY <3>2, <3>3, <3>4 DEF Place, Session!Before
  <2> QED
    BY <1>1, <2>1, <2>2, <2>3 DEF Session!HistoryKept
<1> QED
  BY <1>3, <1>4 DEF Session!HistoryKept

(* For every number of turns, tool rounds, kills and short writes: at the     *)
(* start of a turn the history accounts for every line of the archive that no *)
(* fault took, in order and once, and the archive has all that live was given *)
(* to say (AgentSession).                                                     *)
THEOREM AgentConversationKept == AgentSpec => []ConversationKept
<1>1. AgentInit => SessionSound
  BY SessionStart DEF SessionSound
<1>2. SessionSound => ConversationKept
  BY SessionSafeFollows DEF SessionSound, ConversationKept
<1> QED
  BY <1>1, <1>2, SessionSoundStep, PTL DEF AgentSpec
==============================================================================
