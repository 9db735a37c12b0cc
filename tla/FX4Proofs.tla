------------------------------ MODULE FX4Proofs -----------------------------
(***************************************************************************)
(* Proofs about FX4 for any channels, any number of readings, requests and *)
(* updates under way, every trigger mode and polarity, and every lag of    *)
(* the channels.                                                           *)
(***************************************************************************)
EXTENDS FX4, SequenceTheorems, FiniteSetTheorems, TLAPS

(***************************************************************************)
(* Lists: of steps, of messages.                                           *)
(***************************************************************************)
\* A step done: the list without its head.
LEMMA TailIs ==
  ASSUME NEW Steps, NEW s \in Seq(Steps), s # <<>>
  PROVE  /\ Len(s) \in Nat \ {0}
         /\ Head(s) = s[1] /\ Head(s) \in Steps
         /\ Tail(s) \in Seq(Steps)
         /\ Len(Tail(s)) = Len(s) - 1
         /\ \A i \in 1..Len(s) - 1 : Tail(s)[i] = s[i + 1]
         /\ \A i \in 1..Len(s) : s[i] \in Steps
  <1>1. Len(s) \in Nat \ {0}
    BY EmptySeq
  <1>2. \A i \in 1..Len(s) : s[i] \in Steps
    BY ElementOfSeq
  <1>3. Head(s) = s[1]
    OBVIOUS
  <1> QED BY <1>1, <1>2, <1>3, HeadTailProperties

\* Whether a step is in the list.
Has(s, op) == \E i \in 1..Len(s) : s[i] = op

\* What is in a list is its first step or in the rest.
LEMMA HasTail ==
  ASSUME NEW Steps, NEW s \in Seq(Steps), s # <<>>, NEW op
  PROVE  Has(s, op) <=> (Head(s) = op \/ Has(Tail(s), op))
  <1>1. ASSUME Has(s, op), Head(s) # op PROVE Has(Tail(s), op)
    <2>1. PICK i \in 1..Len(s) : s[i] = op
      BY <1>1 DEF Has
    <2>2. i # 1 /\ Len(s) \in Nat
      BY <1>1, <2>1, TailIs
    <2>3. i - 1 \in 1..Len(Tail(s)) /\ Tail(s)[i - 1] = op
      BY <2>1, <2>2, TailIs
    <2> QED BY <2>3 DEF Has
  <1>2. ASSUME Has(Tail(s), op) PROVE Has(s, op)
    <2>1. PICK i \in 1..Len(Tail(s)) : Tail(s)[i] = op
      BY <1>2 DEF Has
    <2>2. i + 1 \in 1..Len(s) /\ s[i + 1] = op
      BY <2>1, TailIs
    <2> QED BY <2>2 DEF Has
  <1>3. Head(s) = op => Has(s, op)
    BY TailIs DEF Has
  <1> QED BY <1>1, <1>2, <1>3

-----------------------------------------------------------------------------
\* What the proofs use of the constants.
LEMMA Constants ==
  /\ 1 \in Channels /\ NumAverage \in Nat /\ NumAverage > 0
  /\ MaxQueued \in Nat
  /\ \A p \in Polarities : p = 0 \/ p = 1
  BY ConstAssumption

USE Constants

-----------------------------------------------------------------------------
(***************************************************************************)
(* The readings of a stretch of time, one after the other.                 *)
(***************************************************************************)
LEMMA TimesAre ==
  ASSUME NEW a \in Nat, NEW b \in Nat
  PROVE  /\ Times(a, b) \in Seq(Nat)
         /\ a <= b => Len(Times(a, b)) = b - a
         /\ \A i \in 1..b - a : Times(a, b)[i] = a + i
         /\ a <= b => (Times(a, b) = <<>> <=> a = b)
  <1>1. CASE a <= b
    <2>1. b - a \in Nat
      BY <1>1
    <2>2. Times(a, b) \in Seq(Nat) /\ Len(Times(a, b)) = b - a
      BY <2>1 DEF Times
    <2>3. \A i \in 1..b - a : Times(a, b)[i] = a + i
      BY DEF Times
    <2> QED BY <1>1, <2>2, <2>3, EmptySeq
  <1>2. CASE ~(a <= b)
    <2>1. 1..b - a = {}
      BY <1>2
    <2>2. Times(a, b) = [i \in {} |-> a + i]
      BY <2>1 DEF Times
    <2>3. Times(a, b) \in [1..0 -> Nat]
      BY <2>2
    <2> QED BY <1>2, <2>1, <2>3
  <1> QED BY <1>1, <1>2

LEMMA NoTimes == ASSUME NEW a \in Nat PROVE Times(a, a) = <<>>
  BY TimesAre

LEMMA TimesJoin ==
  ASSUME NEW a \in Nat, NEW b \in Nat, NEW c \in Nat, a <= b, b <= c
  PROVE  Times(a, b) \o Times(b, c) = Times(a, c)
  <1> DEFINE u == Times(a, b)
             v == Times(b, c)
             w == Times(a, c)
             t == u \o v
  <1>1. /\ u \in Seq(Nat) /\ Len(u) = b - a /\ \A i \in 1..b - a : u[i] = a + i
        /\ v \in Seq(Nat) /\ Len(v) = c - b /\ \A i \in 1..c - b : v[i] = b + i
        /\ w \in Seq(Nat) /\ Len(w) = c - a /\ \A i \in 1..c - a : w[i] = a + i
    <2>1. u \in Seq(Nat) /\ Len(u) = b - a /\ \A i \in 1..b - a : u[i] = a + i
      BY TimesAre
    <2>2. v \in Seq(Nat) /\ Len(v) = c - b /\ \A i \in 1..c - b : v[i] = b + i
      BY TimesAre
    <2>3. a <= c
      OBVIOUS
    <2>4. w \in Seq(Nat) /\ Len(w) = c - a /\ \A i \in 1..c - a : w[i] = a + i
      BY <2>3, TimesAre
    <2> HIDE DEF u, v, w
    <2> QED BY <2>1, <2>2, <2>4
  <1> HIDE DEF u, v, w
  <1>2. /\ t \in Seq(Nat) /\ Len(t) = Len(u) + Len(v)
        /\ \A i \in 1..Len(u) + Len(v) : t[i] = IF i <= Len(u) THEN u[i] ELSE v[i - Len(u)]
    BY <1>1, ConcatProperties
  <1> HIDE DEF t
  <1>3. \A i \in 1..Len(t) : t[i] = w[i]
    <2> TAKE i \in 1..Len(t)
    <2>1. CASE i <= b - a
      BY <1>1, <1>2, <2>1
    <2>2. CASE i > b - a
      <3>1. i - (b - a) \in 1..c - b
        BY <1>1, <1>2, <2>2
      <3>2. t[i] = v[i - (b - a)] /\ v[i - (b - a)] = b + (i - (b - a)) /\ w[i] = a + i
        BY <1>1, <1>2, <2>2, <3>1
      <3> QED BY <3>2
    <2> QED BY <1>1, <2>1, <2>2
  <1>4. Len(t) = Len(w)
    BY <1>1, <1>2
  <1>5. t = w
    BY <1>1, <1>2, <1>3, <1>4, SeqEqual
  <1> QED BY <1>5 DEF t, u, v, w

\* The first n of them taken away.
LEMMA TimesRest ==
  ASSUME NEW a \in Nat, NEW b \in Nat, a <= b, NEW n \in Nat, n <= b - a
  PROVE  SubSeq(Times(a, b), n + 1, Len(Times(a, b))) = Times(a + n, b)
  <1> DEFINE u == Times(a, b)
             w == Times(a + n, b)
             t == SubSeq(u, n + 1, Len(u))
  <1>1. /\ u \in Seq(Nat) /\ Len(u) = b - a /\ \A i \in 1..b - a : u[i] = a + i
        /\ w \in Seq(Nat) /\ Len(w) = b - (a + n)
        /\ \A i \in 1..b - (a + n) : w[i] = (a + n) + i
    <2>1. u \in Seq(Nat) /\ Len(u) = b - a /\ \A i \in 1..b - a : u[i] = a + i
      BY TimesAre
    <2>2. a + n \in Nat /\ a + n <= b
      OBVIOUS
    <2>3. /\ w \in Seq(Nat) /\ Len(w) = b - (a + n)
          /\ \A i \in 1..b - (a + n) : w[i] = (a + n) + i
      BY <2>2, TimesAre
    <2> HIDE DEF u, w
    <2> QED BY <2>1, <2>3
  <1> HIDE DEF u, w
  <1>2. /\ t \in Seq(Nat) /\ Len(t) = Len(u) - n
        /\ \A i \in 1..Len(u) - n : t[i] = u[n + i]
    <2>1. n + 1 \in Int /\ Len(u) \in Nat /\ n <= Len(u)
      BY <1>1
    <2>2. \A i \in n + 1..Len(u) : u[i] \in Nat
      BY <1>1
    <2>3. t \in Seq(Nat)
      BY <2>1, <2>2, SubSeqProperties
    <2>4. Len(t) = IF n + 1 <= Len(u) THEN Len(u) - (n + 1) + 1 ELSE 0
      BY <2>1, <2>2, SubSeqProperties
    <2>5. \A i \in 1..Len(u) - (n + 1) + 1 : t[i] = u[(n + 1) + i - 1]
      BY <2>1, <2>2, SubSeqProperties
    <2>6. Len(t) = Len(u) - n
      BY <1>1, <2>1, <2>4
    <2>7. \A i \in 1..Len(u) - n : t[i] = u[n + i]
      <3> TAKE i \in 1..Len(u) - n
      <3>1. i \in 1..Len(u) - (n + 1) + 1 /\ (n + 1) + i - 1 = n + i
        BY <2>1
      <3> HIDE DEF t
      <3> QED BY <2>5, <3>1
    <2> QED BY <2>3, <2>6, <2>7
  <1> HIDE DEF t
  <1>3. \A i \in 1..Len(t) : t[i] = w[i]
    BY <1>1, <1>2
  <1>4. Len(t) = Len(w)
    BY <1>1, <1>2
  <1>5. t = w
    BY <1>1, <1>2, <1>3, <1>4, SeqEqual
  <1> QED BY <1>5 DEF t, u, w

\* One more element at the end.
LEMMA AppendIs ==
  ASSUME NEW S, NEW s \in Seq(S), NEW e \in S
  PROVE  /\ Append(s, e) \in Seq(S) /\ Len(Append(s, e)) = Len(s) + 1 /\ Len(s) \in Nat
         /\ \A i \in 1..Len(s) : Append(s, e)[i] = s[i]
         /\ Append(s, e)[Len(s) + 1] = e
  BY AppendProperties

LEMMA HasAppend ==
  ASSUME NEW S, NEW s \in Seq(S), NEW e \in S, NEW op
  PROVE  Has(Append(s, e), op) <=> (Has(s, op) \/ op = e)
  <1> DEFINE t == Append(s, e)
  <1>1. /\ Len(t) = Len(s) + 1 /\ Len(s) \in Nat
        /\ \A i \in 1..Len(s) : t[i] = s[i]
        /\ t[Len(s) + 1] = e
    BY AppendIs
  <1> HIDE DEF t
  <1>2. ASSUME Has(t, op), op # e PROVE Has(s, op)
    <2>1. PICK i \in 1..Len(t) : t[i] = op
      BY <1>2 DEF Has
    <2>2. i \in 1..Len(s)
      BY <1>1, <1>2, <2>1
    <2> QED BY <1>1, <2>1, <2>2 DEF Has
  <1>3. ASSUME Has(s, op) PROVE Has(t, op)
    <2>1. PICK i \in 1..Len(s) : s[i] = op
      BY <1>3 DEF Has
    <2>2. i \in 1..Len(t)
      BY <1>1, <2>1
    <2> QED BY <1>1, <2>1, <2>2 DEF Has
  <1>4. ASSUME op = e PROVE Has(t, op)
    <2>1. Len(s) + 1 \in 1..Len(t)
      BY <1>1
    <2> QED BY <1>1, <1>4, <2>1 DEF Has
  <1> QED BY <1>2, <1>3, <1>4 DEF t

\* What is asked with a start.
LEMMA StartIs ==
  ASSUME NEW s \in Seq(Requests)
  PROVE  s \o <<"subscribe", "get">> = Append(Append(s, "subscribe"), "get")
  <1> DEFINE u == <<"subscribe", "get">>
             t == s \o u
             a == Append(s, "subscribe")
             b == Append(a, "get")
  <1>1. u \in Seq(Requests) /\ Len(u) = 2 /\ u[1] = "subscribe" /\ u[2] = "get"
    <2> HIDE DEF t, a, b
    <2>1. "subscribe" \in Requests /\ "get" \in Requests
      BY DEF Requests
    <2> QED BY <2>1
  <1> HIDE DEF u
  <1>2. /\ t \in Seq(Requests) /\ Len(t) = Len(s) + 2 /\ Len(s) \in Nat
        /\ \A i \in 1..Len(s) + 2 : t[i] = IF i <= Len(s) THEN s[i] ELSE u[i - Len(s)]
    <2>1. t \in Seq(Requests) /\ Len(t) = Len(s) + Len(u)
      BY <1>1, ConcatProperties
    <2>2. \A i \in 1..Len(s) + Len(u) : t[i] = IF i <= Len(s) THEN s[i] ELSE u[i - Len(s)]
      BY <1>1, ConcatProperties
    <2> HIDE DEF t
    <2> QED BY <1>1, <2>1, <2>2
  <1> HIDE DEF t
  <1>3. "subscribe" \in Requests /\ "get" \in Requests
    BY DEF Requests
  <1>4. /\ a \in Seq(Requests) /\ Len(a) = Len(s) + 1
        /\ \A i \in 1..Len(s) : a[i] = s[i]
        /\ a[Len(s) + 1] = "subscribe"
    BY <1>3, AppendIs
  <1> HIDE DEF a
  <1>5. /\ b \in Seq(Requests) /\ Len(b) = Len(a) + 1
        /\ \A i \in 1..Len(a) : b[i] = a[i]
        /\ b[Len(a) + 1] = "get"
    BY <1>3, <1>4, AppendIs
  <1> HIDE DEF b
  <1>6. \A i \in 1..Len(t) : t[i] = b[i]
    <2> TAKE i \in 1..Len(t)
    <2>1. CASE i <= Len(s)
      BY <1>2, <1>4, <1>5, <2>1
    <2>2. CASE i = Len(s) + 1
      <3>1. t[i] = u[1]
        BY <1>2, <2>2
      <3>2. b[i] = a[i] /\ a[i] = "subscribe"
        BY <1>2, <1>4, <1>5, <2>2
      <3> QED BY ONLY <1>1, <3>1, <3>2
    <2>3. CASE i = Len(s) + 2
      <3>1. t[i] = u[2]
        BY <1>2, <2>3
      <3>2. b[i] = "get"
        BY <1>2, <1>4, <1>5, <2>3
      <3> QED BY ONLY <1>1, <3>1, <3>2
    <2> QED BY <1>2, <2>1, <2>2, <2>3
  <1>7. t = b
    BY <1>2, <1>4, <1>5, <1>6, SeqEqual
  <1> QED BY <1>7 DEF t, b, a, u

-----------------------------------------------------------------------------
(***************************************************************************)
(* Types.                                                                  *)
(***************************************************************************)
LEMMA RequestsAre ==
  ASSUME NEW s \in Seq(Requests)
  PROVE  /\ Append(s, "get") \in Seq(Requests)
         /\ Append(s, "unsubscribe") \in Seq(Requests)
         /\ s \o <<"subscribe", "get">> \in Seq(Requests)
         /\ s # <<>> => Tail(s) \in Seq(Requests) /\ Head(s) \in Requests
  <1>1. "get" \in Requests /\ "unsubscribe" \in Requests /\ "subscribe" \in Requests
    BY DEF Requests
  <1>2. Append(s, "subscribe") \in Seq(Requests)
    BY <1>1, AppendIs
  <1>3. s \o <<"subscribe", "get">> \in Seq(Requests)
    BY <1>1, <1>2, StartIs, AppendIs
  <1> QED BY <1>1, <1>3, AppendIs, TailIs

LEMMA NoDataIs ==
  /\ NoData \in Updates /\ NoData.gate = {}
  /\ NoData.adc = [c \in Channels |-> <<>>]
  /\ \A c \in Channels : NoData.adc[c] = <<>>
  <1>1. [c \in Channels |-> <<>>] \in [Channels -> Seq(Nat)]
    OBVIOUS
  <1> QED BY <1>1 DEF NoData, Updates

LEMMA GateEventsAre ==
  ASSUME TypeOK, NEW a \in Int, NEW b \in Int, b <= now
  PROVE  GateEvents(a, b) \subseteq Gates
  <1> SUFFICES ASSUME NEW u \in a + 1..b, u >= 1
               PROVE  [kind |-> "gate", time |-> u, level |-> levels[u]] \in Gates
    BY DEF GateEvents
  <1>1. u \in 1..now /\ u \in Nat
    BY DEF TypeOK
  <1>2. levels[u] \in {0, 1}
    BY <1>1 DEF TypeOK
  <1> QED BY <1>1, <1>2 DEF Gates

\* The rest of the ring once n readings have been spoken for.
LEMMA RestIs ==
  ASSUME ring \in Seq(Nat), NEW n \in Nat
  PROVE  /\ RestOfRing(n) \in Seq(Nat)
         /\ n = Len(ring) => Claimed(n) /\ RestOfRing(n) = <<>>
  <1>1. Len(ring) \in Nat /\ \A i \in 1..Len(ring) : ring[i] \in Nat
    BY EmptySeq
  <1>2. \A i \in n + 1..Len(ring) : ring[i] \in Nat
    BY <1>1
  <1>3. SubSeq(ring, n + 1, Len(ring)) \in Seq(Nat)
    BY <1>1, <1>2, SubSeqProperties
  <1>4. n = Len(ring) => SubSeq(ring, n + 1, Len(ring)) = <<>>
    BY <1>1, SubSeqEmpty
  <1>5. <<>> \in Seq(Nat)
    OBVIOUS
  <1> QED BY <1>1, <1>3, <1>4, <1>5 DEF RestOfRing, Claimed

\* The lists of the channels after an update.
LEMMA FullIs ==
  ASSUME TypeOK
  PROVE  /\ [c \in Channels |-> cache[c] \o update.adc[c]] \in [Channels -> Seq(Nat)]
         /\ update.gate \subseteq Gates
  <1>1. update.adc \in [Channels -> Seq(Nat)] /\ update.gate \subseteq Gates
    BY DEF TypeOK, Updates
  <1>2. ASSUME NEW c \in Channels PROVE cache[c] \o update.adc[c] \in Seq(Nat)
    <2>1. cache[c] \in Seq(Nat) /\ update.adc[c] \in Seq(Nat)
      BY <1>1 DEF TypeOK
    <2> QED BY <2>1, ConcatProperties
  <1> QED BY <1>1, <1>2

\* What a walk along the list may note.
BadReading(e) ==
  LET t == e.time
      b == Append(ring, t)
      ends == triggerMode # "ExtBulb" /\ rawCount + 1 >= NumAverage
  IN {w \in {"times"} : ~skewed /\ Cardinality(e.times) > 1} \cup
     {w \in {"gate"} : /\ ~disordered /\ triggerMode \in {"ExtGate", "ExtBulb"}
                       /\ levels[t] # polarity} \cup
     {w \in {"claim"} : ends /\ Len(b) # rawCount + 1} \cup
     {w \in {"batch"} : /\ ~disordered /\ ends /\ triggerMode = "ExtTrigger"
                        /\ ~GoodTriggered(b)}

BadGate(e) ==
  {w \in {"claim"} : ~Claimed(rawCount)} \cup
  {w \in {"batch"} : ~disordered /\ ~GoodBulb(ring, e.time)}

Wrongs == {"claim", "batch", "times", "gate"}

LEMMA NotedIs ==
  ASSUME NEW bad, Note(bad)
  PROVE  /\ wrongs \subseteq Wrongs /\ bad \subseteq Wrongs => wrongs' \subseteq Wrongs
         /\ wrongs = {} /\ (clean => bad = {}) => wrongs' = {}
  BY DEF Note

LEMMA BadAre == ASSUME NEW e PROVE BadReading(e) \subseteq Wrongs /\ BadGate(e) \subseteq Wrongs
  BY DEF BadReading, BadGate, Wrongs

LEMMA InitTyped == Init => TypeOK
  <1> SUFFICES ASSUME Init PROVE TypeOK
    OBVIOUS
  <1>1. /\ levels \in Seq({0, 1}) /\ Len(levels) = 0 /\ toServer \in Seq(Requests)
        /\ answers \in Seq(Updates) /\ ring \in Seq(Nat)
        /\ cache \in [Channels -> Seq(Nat)] /\ sent \in [Channels -> Nat]
    BY DEF Init
  <1>2. update \in Updates
    BY NoDataIs DEF Init
  <1>3. \A c \in Channels : sent[c] <= now
    BY DEF Init
  <1>4. now \in Nat /\ now = 0 /\ since = 0 /\ gateSent = -1
    BY DEF Init
  <1>5. 0 <= MaxQueued /\ 0 <= NumAverage
    OBVIOUS
  <1>6. /\ since - 1 <= gateSent /\ gateSent <= now /\ gateSent \in Int /\ since <= now
        /\ since \in Nat
    BY <1>4
  <1>7. /\ subscribed \in BOOLEAN /\ acquiring \in {0, 1} /\ synchronized \in BOOLEAN
        /\ triggerMode \in TriggerModes /\ polarity \in Polarities /\ mode \in Modes
        /\ gateLevel \in {0, 1} /\ triggerActive \in BOOLEAN /\ numAcquired \in {0, 1}
        /\ ws \in {"idle", "taken", "walking", "claiming", "done"}
        /\ clean \in BOOLEAN /\ disordered \in BOOLEAN /\ skewed \in BOOLEAN
    BY DEF Init
  <1>8. /\ numTriggerValues \in Nat /\ numTriggerValues <= NumAverage + 1
        /\ numTriggerValues <= NumAverage
        /\ rawCount \in Nat /\ queued \in Nat /\ queued <= MaxQueued
    BY <1>5 DEF Init
  <1>9. /\ list \subseteq Gates \cup Readings /\ list = {} /\ update = NoData
        /\ wrongs \subseteq {"claim", "batch", "times", "gate"} /\ Len(levels) = now
    BY <1>1, <1>4 DEF Init
  <1> QED BY <1>1, <1>2, <1>3, <1>4, <1>6, <1>7, <1>8, <1>9 DEF TypeOK

LEMMA TypedTick == TypeOK /\ Tick => TypeOK'
  <1> SUFFICES ASSUME TypeOK, Tick PROVE TypeOK'
    OBVIOUS
  <1>1. PICK l \in {0, 1} : levels' = Append(levels, l)
    BY DEF Tick
  <1>2. levels \in Seq({0, 1}) /\ Len(levels) = now
    BY DEF TypeOK
  <1>3. levels' \in Seq({0, 1}) /\ Len(levels') = Len(levels) + 1
    BY <1>1, <1>2, AppendIs
  <1>4. /\ now' \in Nat /\ Len(levels') = now' /\ since' <= now' /\ gateSent' <= now'
        /\ \A c \in Channels : sent'[c] <= now'
    BY <1>2, <1>3 DEF Tick, TypeOK
  <1> QED BY <1>3, <1>4
      DEF Tick, TypeOK, socket, settings, caches, window, batch, thread, history, NoData,
          Updates, Gates, Readings

LEMMA TypedServer == TypeOK /\ Server => TypeOK'
  <1> SUFFICES ASSUME TypeOK, Server PROVE TypeOK'
    OBVIOUS
  <1>1. CASE Answers
    <2>1. toServer' \in Seq(Requests)
      BY <1>1, RequestsAre DEF Answers, TypeOK
    <2>2. CASE ~subscribed /\ answers' = Append(answers, NoData)
                 /\ UNCHANGED <<sent, gateSent, disordered>>
      <3>1. answers' \in Seq(Updates)
        BY <2>2, NoDataIs, AppendIs DEF TypeOK
      <3> QED BY <1>1, <2>1, <2>2, <3>1
          DEF Answers, TypeOK, settings, caches, window, batch, thread
    <2>3. CASE subscribed
      <3>1. PICK upto \in [Channels -> 0..now] :
              /\ answers' = Append(answers, [adc  |-> [c \in Channels |-> Times(sent[c], upto[c])],
                                             gate |-> GateEvents(gateSent, now)])
              /\ sent' = upto /\ gateSent' = now
              /\ disordered' = (disordered \/ \E c \in Channels : upto[c] < now)
        BY <1>1, <2>3 DEF Answers
      <3> DEFINE u == [adc  |-> [c \in Channels |-> Times(sent[c], upto[c])],
                       gate |-> GateEvents(gateSent, now)]
      <3>2. GateEvents(gateSent, now) \subseteq Gates
        BY GateEventsAre DEF TypeOK
      <3>3. [c \in Channels |-> Times(sent[c], upto[c])] \in [Channels -> Seq(Nat)]
        <4>1. \A c \in Channels : sent[c] \in Nat /\ upto[c] \in Nat
          BY DEF TypeOK
        <4> QED BY <4>1, TimesAre
      <3>4. u \in Updates
        BY <3>2, <3>3 DEF Updates
      <3> HIDE DEF u
      <3>5. answers' \in Seq(Updates)
        BY <3>1, <3>4, AppendIs DEF u, TypeOK
      <3>6. /\ sent' \in [Channels -> Nat] /\ gateSent' \in Int /\ disordered' \in BOOLEAN
            /\ \A c \in Channels : sent'[c] <= now
        BY <3>1 DEF TypeOK
      <3>7. since - 1 <= gateSent' /\ gateSent' <= now
        BY <3>1 DEF TypeOK
      <3>8. UNCHANGED <<now, levels, subscribed, since, acquiring, settings, caches, window,
                        batch, numAcquired, thread, clean, skewed, wrongs>>
        BY <1>1 DEF Answers
      <3> QED BY <2>1, <3>5, <3>6, <3>7, <3>8
          DEF TypeOK, settings, caches, window, batch, thread
    <2> QED BY <1>1, <2>2, <2>3 DEF Answers
  <1>2. CASE Subscribes
    <2>1. toServer' \in Seq(Requests)
      BY <1>2, RequestsAre DEF Subscribes, TypeOK
    <2>2. CASE Head(toServer) = "subscribe"
      <3>1. /\ subscribed' = TRUE /\ since' = now /\ gateSent' = now - 1
            /\ sent' \in [Channels -> Nat] /\ \A c \in Channels : sent'[c] <= now
        BY <1>2, <2>2 DEF Subscribes, TypeOK
      <3> QED BY <1>2, <2>1, <3>1
          DEF Subscribes, TypeOK, settings, caches, window, batch, thread, history
    <2>3. CASE Head(toServer) # "subscribe"
      <3>1. subscribed' = FALSE /\ UNCHANGED <<since, sent, gateSent>>
        BY <1>2, <2>3 DEF Subscribes
      <3>2. UNCHANGED <<now, levels, answers, acquiring, settings, caches, window, batch,
                        numAcquired, thread, history>>
        BY <1>2 DEF Subscribes
      <3>3. UNCHANGED <<now, levels, since, sent, gateSent, answers, acquiring, triggerMode,
                        polarity, mode, cache, synchronized, gateLevel, triggerActive,
                        numTriggerValues, ring, rawCount, queued, numAcquired, ws, update,
                        list, clean, disordered, skewed, wrongs>>
        BY ONLY <3>1, <3>2 DEF settings, caches, window, batch, thread, history
      <3>4. subscribed' \in BOOLEAN
        BY <3>1
      <3> QED BY ONLY TypeOK, <2>1, <3>3, <3>4 DEF TypeOK
    <2> QED BY <2>2, <2>3
  <1> QED BY <1>1, <1>2 DEF Server

LEMMA TypedPort == TypeOK /\ Port => TypeOK'
  <1> SUFFICES ASSUME TypeOK, Port PROVE TypeOK'
    OBVIOUS
  <1> USE DEF fx4, socket, settings, caches, window, batch, thread, history
  <1>1. CASE WriteAcquire1
    <2>1. toServer' \in Seq(Requests) /\ acquiring' \in {0, 1} /\ synchronized' \in BOOLEAN
      BY <1>1, RequestsAre DEF WriteAcquire1, Start, TypeOK
    <2>2. cache' \in [Channels -> Seq(Nat)]
      <3>1. cache \in [Channels -> Seq(Nat)]
        BY DEF TypeOK
      <3>2. cache' = cache \/ cache' = [c \in Channels |-> <<>>]
        BY <1>1 DEF WriteAcquire1, Start
      <3> QED BY <3>1, <3>2, NoDataIs DEF Updates, NoData
    <2>3. /\ numTriggerValues' \in Nat /\ numTriggerValues' <= NumAverage + 1
          /\ triggerActive' => numTriggerValues' <= NumAverage
          /\ triggerActive' \in BOOLEAN /\ numAcquired' \in {0, 1}
      <3>1. CASE acquiring = 0
        <4>1. triggerActive' = FALSE /\ numTriggerValues' = 0 /\ numAcquired' = 0
          BY <1>1, <3>1 DEF WriteAcquire1, Start
        <4>2. triggerActive' \in BOOLEAN
          BY ONLY <4>1, Zenon
        <4>3. numTriggerValues' <= NumAverage /\ numTriggerValues' <= NumAverage + 1
          BY <4>1
        <4> QED BY <4>1, <4>2, <4>3
      <3>2. CASE acquiring # 0
        BY <1>1, <3>2 DEF WriteAcquire1, TypeOK
      <3> QED BY <3>1, <3>2
    <2>4. ring' \in Seq(Nat) /\ rawCount' \in Nat /\ clean' \in BOOLEAN
      BY <1>1 DEF WriteAcquire1, Flush, TypeOK
    <2> QED BY <1>1, <2>1, <2>2, <2>3, <2>4 DEF WriteAcquire1, TypeOK
  <1>2. CASE WriteAcquire0
    BY <1>2, RequestsAre DEF WriteAcquire0, Stop, TypeOK
  <1>3. ASSUME NEW t \in TriggerModes, NEW p \in Polarities, WriteTrigger(t, p) PROVE TypeOK'
    BY <1>3 DEF WriteTrigger, SetAcquireParams, TypeOK
  <1>4. ASSUME NEW m \in Modes, WriteAcquireMode(m) PROVE TypeOK'
    <2>1. toServer' \in Seq(Requests) /\ acquiring' \in {0, 1}
      BY <1>4, RequestsAre DEF WriteAcquireMode, Stop, TypeOK
    <2> QED BY <1>4, <2>1 DEF WriteAcquireMode, TypeOK
  <1>5. CASE WriteAveragingTime
    BY <1>5 DEF WriteAveragingTime, Flush, TypeOK
  <1>6. CASE ReadData
    <2>1. ring' \in Seq(Nat) /\ queued' \in Nat /\ queued' <= MaxQueued /\ clean' \in BOOLEAN
      BY <1>6, RestIs DEF ReadData, TypeOK
    <2> QED BY <1>6, <2>1 DEF ReadData, TypeOK
  <1> QED BY <1>1, <1>2, <1>3, <1>4, <1>5, <1>6 DEF Port

LEMMA TypedWebsocket == TypeOK /\ Websocket => TypeOK'
  <1> SUFFICES ASSUME TypeOK, Websocket PROVE TypeOK'
    OBVIOUS
  <1> USE DEF fx4, socket, settings, caches, window, batch, thread, history
  <1>1. CASE WsTakes
    <2>1. answers' \in Seq(Updates) /\ Head(answers) \in Updates
      BY <1>1, TailIs DEF WsTakes, TypeOK
    <2> QED BY <1>1, <2>1 DEF WsTakes, TypeOK
  <1>2. CASE WsMerges
    <2> DEFINE full == [c \in Channels |-> cache[c] \o update.adc[c]]
               Reading(i) == [kind |-> "adc", time |-> full[1][i],
                              times |-> {full[c][i] : c \in Channels}]
    <2>1. full \in [Channels -> Seq(Nat)] /\ update.gate \subseteq Gates
      BY FullIs
    <2>2. /\ ws = "taken" /\ update' = NoData
          /\ UNCHANGED <<fx4, socket, acquiring, settings, window, batch, numAcquired, clean,
                         wrongs>>
      BY <1>2 DEF WsMerges
    <2>3. list = {}
      BY <2>2 DEF TypeOK
    <2>4. /\ cache' \in [Channels -> Seq(Nat)] /\ synchronized' \in BOOLEAN
          /\ skewed' \in BOOLEAN /\ disordered' \in BOOLEAN
          /\ ws' \in {"walking", "done"} /\ list' \subseteq Gates \cup Readings
          /\ list' # {} => ws' = "walking"
      <3>1. CASE cache' = full /\ ws' = "done"
                 /\ disordered' = (disordered \/ update.gate # {})
                 /\ UNCHANGED <<synchronized, list, skewed>>
        <4> HIDE DEF full
        <4> QED BY <2>1, <2>3, <3>1 DEF TypeOK
      <3>2. CASE cache' = [c \in Channels |-> <<>>] /\ ws' = "done"
                 /\ disordered' = (disordered \/ update.gate # {})
                 /\ UNCHANGED <<synchronized, list, skewed>>
        <4> HIDE DEF full
        <4> QED BY <2>1, <2>3, <3>2 DEF TypeOK
      <3>3. ASSUME synchronized' = TRUE,
                   skewed' = (skewed \/ (~synchronized /\ \E c \in Channels : full[c][1] # full[1][1])),
                   ws' = "walking", UNCHANGED disordered,
                   NEW shortest \in Channels,
                   \A c \in Channels : Len(full[shortest]) <= Len(full[c]),
                   list' = update.gate \cup {Reading(i) : i \in 1..Len(full[shortest])},
                   cache' = [c \in Channels |-> SubSeq(full[c], Len(full[shortest]) + 1, Len(full[c]))]
            PROVE  /\ cache' \in [Channels -> Seq(Nat)] /\ synchronized' \in BOOLEAN
                   /\ skewed' \in BOOLEAN /\ disordered' \in BOOLEAN
                   /\ ws' \in {"walking", "done"} /\ list' \subseteq Gates \cup Readings
                   /\ list' # {} => ws' = "walking"
        <4> HIDE DEF full
        <4> DEFINE n == Len(full[shortest])
        <4>1. \A c \in Channels : /\ Len(full[c]) \in Nat
                                  /\ \A i \in 1..Len(full[c]) : full[c][i] \in Nat
          BY <2>1, EmptySeq
        <4>2. n \in Nat /\ \A c \in Channels : n <= Len(full[c])
          BY <3>3, <4>1
        <4>3. ASSUME NEW c \in Channels PROVE SubSeq(full[c], n + 1, Len(full[c])) \in Seq(Nat)
          <5>1. \A i \in n + 1..Len(full[c]) : full[c][i] \in Nat
            BY <4>1, <4>2
          <5> QED BY <4>1, <4>2, <5>1, SubSeqProperties
        <4>4. cache' \in [Channels -> Seq(Nat)]
          BY <3>3, <4>3
        <4>5. ASSUME NEW i \in 1..n PROVE Reading(i) \in Readings
          <5>1. \A c \in Channels : i \in 1..Len(full[c])
            BY <4>1, <4>2
          <5>2. \A c \in Channels : full[c][i] \in Nat
            BY <4>1, <5>1
          <5> QED BY <5>2 DEF Readings
        <4>6. list' \subseteq Gates \cup Readings
          BY <2>1, <3>3, <4>5
        <4> QED BY <3>3, <4>4, <4>6 DEF TypeOK
      <3> QED BY <1>2, <3>1, <3>2, <3>3 DEF WsMerges
    <2> QED BY <2>2, <2>4, NoDataIs DEF TypeOK
  <1>3. ASSUME NEW e \in list, WsWalksGate(e) PROVE TypeOK'
    <2>1. e \in Gates
      BY <1>3 DEF TypeOK, WsWalksGate, Walks, Readings
    <2>2. gateLevel' \in {0, 1}
      BY <1>3, <2>1 DEF WsWalksGate, Gates
    <2>3. /\ triggerActive' \in BOOLEAN /\ numTriggerValues' \in Nat
          /\ numTriggerValues' <= NumAverage + 1
          /\ triggerActive' => numTriggerValues' <= NumAverage
      <3>1. \/ triggerActive' = TRUE /\ numTriggerValues' = 0
            \/ UNCHANGED <<triggerActive, numTriggerValues>>
        BY <1>3 DEF WsWalksGate
      <3>2. CASE triggerActive' = TRUE /\ numTriggerValues' = 0
        <4>1. 0 <= NumAverage /\ 0 <= NumAverage + 1
          OBVIOUS
        <4> QED BY ONLY <3>2, <4>1
      <3>3. CASE UNCHANGED <<triggerActive, numTriggerValues>>
        BY <3>3 DEF TypeOK
      <3> QED BY <3>1, <3>2, <3>3
    <2>4. /\ queued' \in Nat /\ queued' <= MaxQueued /\ ring' \in Seq(Nat)
          /\ ws' \in {"walking", "claiming"}
          /\ wrongs' \subseteq {"claim", "batch", "times", "gate"}
      <3>1. /\ queued \in Nat /\ queued <= MaxQueued /\ ring \in Seq(Nat) /\ ws = "walking"
            /\ wrongs \subseteq {"claim", "batch", "times", "gate"} /\ rawCount \in Nat
        BY <1>3 DEF TypeOK, WsWalksGate, Walks
      <3>2. \/ UNCHANGED <<queued, ring, ws>>
            \/ /\ queued < MaxQueued /\ queued' = queued + 1
               /\ ring' = RestOfRing(rawCount) /\ ws' = "claiming"
        BY <1>3 DEF WsWalksGate
      <3>3. wrongs' = wrongs \/ Note(BadGate(e))
        BY <1>3 DEF WsWalksGate, BadGate
      <3>4. wrongs' \subseteq {"claim", "batch", "times", "gate"}
        BY <3>1, <3>3, NotedIs, BadAre DEF Wrongs
      <3>5. RestOfRing(rawCount) \in Seq(Nat)
        BY <3>1, RestIs
      <3> HIDE <3>3
      <3> QED BY <3>1, <3>2, <3>4, <3>5
    <2>5. list' \subseteq Gates \cup Readings
      BY <1>3 DEF WsWalksGate, Walks, TypeOK
    <2> QED BY <1>3, <2>2, <2>3, <2>4, <2>5 DEF WsWalksGate, TypeOK, Walks
  <1>4. CASE WsClaims
    BY <1>4 DEF WsClaims, TypeOK
  <1>5. ASSUME NEW e \in list, WsWalksReading(e) PROVE TypeOK'
    <2>1. e \in Readings
      BY <1>5 DEF TypeOK, WsWalksReading, Walks, Gates
    <2>2. e.time \in Nat
      BY <2>1 DEF Readings
    <2>3. /\ triggerActive' \in BOOLEAN /\ numTriggerValues' \in Nat
          /\ numTriggerValues' <= NumAverage + 1
          /\ triggerActive' => numTriggerValues' <= NumAverage
      <3>1. CASE triggerMode = "ExtTrigger" /\ triggerActive
        <4>1. /\ numTriggerValues' = numTriggerValues + 1
              /\ triggerActive' = (numTriggerValues < NumAverage)
          BY <1>5, <3>1 DEF WsWalksReading
        <4>2. numTriggerValues \in Nat /\ numTriggerValues <= NumAverage
          BY <3>1 DEF TypeOK
        <4>3. (numTriggerValues < NumAverage) \in BOOLEAN
          OBVIOUS
        <4>4. triggerActive' \in BOOLEAN
          BY ONLY <4>1, <4>3, Zenon
        <4>5. triggerActive' => numTriggerValues < NumAverage
          BY ONLY <4>1, Zenon
        <4>6. numTriggerValues' = numTriggerValues + 1
          BY <4>1
        <4> QED BY ONLY <4>2, <4>4, <4>5, <4>6, Constants
      <3>2. CASE ~(triggerMode = "ExtTrigger" /\ triggerActive)
        BY <1>5, <3>2 DEF WsWalksReading, TypeOK
      <3> QED BY <3>1, <3>2
    <2>4. /\ ring' \in Seq(Nat) /\ rawCount' \in Nat /\ queued' \in Nat /\ queued' <= MaxQueued
          /\ wrongs' \subseteq {"claim", "batch", "times", "gate"}
      <3>1. /\ ring \in Seq(Nat) /\ rawCount \in Nat /\ queued \in Nat /\ queued <= MaxQueued
            /\ wrongs \subseteq {"claim", "batch", "times", "gate"}
        BY DEF TypeOK
      <3>2. Append(ring, e.time) \in Seq(Nat) /\ <<>> \in Seq(Nat)
        BY <2>2, <3>1, AppendIs
      <3>3. CASE Counts
        <4>1. ring' \in {<<>>, Append(ring, e.time)} /\ rawCount' \in {0, rawCount + 1}
          BY <1>5, <3>3 DEF WsWalksReading
        <4>2. queued' \in Nat /\ queued' <= MaxQueued
          BY <1>5, <3>1, <3>3 DEF WsWalksReading
        <4>3. Note(BadReading(e))
          BY <1>5, <3>3 DEF WsWalksReading, BadReading
        <4>4. wrongs' \subseteq {"claim", "batch", "times", "gate"}
          BY <3>1, <4>3, NotedIs, BadAre DEF Wrongs
        <4>5. ring' \in Seq(Nat)
          BY ONLY <3>2, <4>1, Zenon
        <4>6. rawCount' \in Nat
          BY <3>1, <4>1
        <4> HIDE <4>3
        <4> QED BY <4>2, <4>4, <4>5, <4>6
      <3>4. CASE ~Counts
        BY <1>5, <3>1, <3>4 DEF WsWalksReading
      <3> QED BY <3>3, <3>4
    <2>5. list' \subseteq Gates \cup Readings
      BY <1>5 DEF WsWalksReading, Walks, TypeOK
    <2> QED BY <1>5, <2>3, <2>4, <2>5 DEF WsWalksReading, TypeOK, Walks
  <1>6. CASE WsEnds
    BY <1>6, RequestsAre DEF WsEnds, TypeOK
  <1> QED BY <1>1, <1>2, <1>3, <1>4, <1>5, <1>6 DEF Websocket

LEMMA TypedStep == TypeOK /\ [Next]_vars => TypeOK'
  <1> SUFFICES ASSUME TypeOK, [Next]_vars PROVE TypeOK'
    OBVIOUS
  <1>1. CASE UNCHANGED vars
    BY <1>1 DEF vars, fx4, socket, settings, caches, window, batch, thread, history, TypeOK
  <1>2. CASE Task
    <2>1. /\ toServer' \in Seq(Requests) /\ acquiring' \in {0, 1} /\ numAcquired' \in {0, 1}
          /\ queued' \in Nat /\ queued' <= MaxQueued
      <3>1. queued' \in Nat /\ queued' <= MaxQueued /\ numAcquired' \in {0, 1}
        BY <1>2 DEF Task, TypeOK
      <3>2. toServer' \in {toServer, Append(toServer, "unsubscribe")} /\ acquiring' \in {0, acquiring}
        BY <1>2 DEF Task, Stop
      <3>3. toServer' \in Seq(Requests) /\ acquiring' \in {0, 1}
        BY <3>2, RequestsAre DEF TypeOK
      <3> QED BY <3>1, <3>3
    <2> QED BY <1>2, <2>1 DEF Task, TypeOK, fx4, settings, caches, window, thread, history
  <1>3. CASE Poll
    BY <1>3, RequestsAre
    DEF Poll, TypeOK, fx4, settings, caches, window, batch, thread, history
  <1> QED BY <1>1, <1>2, <1>3, TypedTick, TypedServer, TypedPort, TypedWebsocket DEF Next

\* The driver's variables keep their types, and so do the messages: a window that is
\* open has room for readings.
THEOREM TypeCorrect == Spec => []TypeOK
  <1> QED BY InitTyped, TypedStep, PTL DEF Spec

-----------------------------------------------------------------------------
(***************************************************************************)
(* The count that triggerCallbacks reads without the lock is of the        *)
(* readings in the ring, and those that callbackTask has been told of are  *)
(* gone from it before the count is reset.                                 *)
(***************************************************************************)
Counted ==
  clean => /\ ws = "claiming" => ring = <<>>
           /\ ws # "claiming" => rawCount = Len(ring)

\* Nothing is noted that is not among the bad.
LEMMA NotNoted ==
  ASSUME NEW bad, NEW w, Note(bad), w \notin wrongs, clean => w \notin bad
  PROVE  w \notin wrongs'
  BY DEF Note

\* What is claimed is there.
LEMMA NoFalseClaim ==
  ASSUME TypeOK, Counted, clean, ws = "walking", NEW e, e.time \in Nat
  PROVE  "claim" \notin BadReading(e) /\ "claim" \notin BadGate(e)
  <1>1. rawCount = Len(ring) /\ ring \in Seq(Nat) /\ rawCount \in Nat
    BY DEF Counted, TypeOK
  <1>2. Claimed(rawCount)
    BY <1>1, RestIs
  <1>3. Len(Append(ring, e.time)) = rawCount + 1
    BY <1>1, AppendIs
  <1>4. "claim" \notin BadGate(e)
    BY <1>2 DEF BadGate
  <1>5. "claim" \notin BadReading(e)
    BY <1>3 DEF BadReading
  <1> QED BY <1>4, <1>5

\* An event of the list has a time.
LEMMA EventsAre ==
  ASSUME TypeOK, NEW e \in list
  PROVE  /\ e.time \in Nat
         /\ e.kind = "gate" => e \in Gates /\ e.level \in {0, 1}
         /\ e.kind = "adc" => e \in Readings
         /\ e.kind = "gate" \/ e.kind = "adc"
  BY DEF TypeOK, Gates, Readings

LEMMA CountedInit == Init => Counted /\ wrongs = {}
  BY DEF Init, Counted

LEMMA CountedPort == TypeOK /\ Counted /\ Port => Counted' /\ wrongs' = wrongs
  <1> SUFFICES ASSUME TypeOK, Counted, Port PROVE Counted' /\ wrongs' = wrongs
    OBVIOUS
  <1>1. Len(<<>>) = 0
    OBVIOUS
  <1>2. CASE WriteAcquire1
    BY <1>1, <1>2 DEF WriteAcquire1, Flush, Leftover, Counted, thread
  <1>3. CASE WriteAcquire0
    BY <1>3 DEF WriteAcquire0, Counted, batch, thread, history
  <1>4. ASSUME NEW t \in TriggerModes, NEW p \in Polarities, WriteTrigger(t, p)
        PROVE  Counted' /\ wrongs' = wrongs
    BY <1>4 DEF WriteTrigger, Counted, batch, thread
  <1>5. ASSUME NEW m \in Modes, WriteAcquireMode(m) PROVE Counted' /\ wrongs' = wrongs
    BY <1>5 DEF WriteAcquireMode, Counted, batch, thread, history
  <1>6. CASE WriteAveragingTime
    BY <1>1, <1>6 DEF WriteAveragingTime, Flush, Runs, Counted, thread
  <1>7. CASE ReadData
    <2>1. ring \in Seq(Nat) /\ rawCount \in Nat
      BY DEF TypeOK
    <2>2. rawCount = Len(ring) => RestOfRing(rawCount) = <<>>
      BY <2>1, RestIs
    <2> QED BY <1>1, <1>7, <2>2 DEF ReadData, Runs, Counted, thread
  <1> QED BY <1>2, <1>3, <1>4, <1>5, <1>6, <1>7 DEF Port

LEMMA CountedWebsocket ==
  TypeOK /\ Counted /\ Websocket => Counted' /\ ("claim" \notin wrongs => "claim" \notin wrongs')
  <1> SUFFICES ASSUME TypeOK, Counted, Websocket
               PROVE  Counted' /\ ("claim" \notin wrongs => "claim" \notin wrongs')
    OBVIOUS
  <1>1. Len(<<>>) = 0 /\ ring \in Seq(Nat) /\ rawCount \in Nat
    BY DEF TypeOK
  <1>2. CASE WsTakes
    BY <1>2 DEF WsTakes, Counted, batch, history
  <1>3. CASE WsMerges
    <2>1. ws = "taken" /\ ws' \in {"done", "walking"} /\ UNCHANGED <<batch, clean, wrongs>>
      BY <1>3 DEF WsMerges
    <2> QED BY <2>1 DEF Counted, batch
  <1>4. ASSUME NEW e \in list, WsWalksGate(e)
        PROVE  Counted' /\ ("claim" \notin wrongs => "claim" \notin wrongs')
    <2>1. /\ ws = "walking" /\ UNCHANGED <<rawCount, clean>>
          /\ \/ UNCHANGED <<wrongs, ring, ws>>
             \/ Note(BadGate(e)) /\ ring' = RestOfRing(rawCount) /\ ws' = "claiming"
      BY <1>4 DEF WsWalksGate, Walks, BadGate
    <2>2. CASE UNCHANGED <<wrongs, ring, ws>>
      BY <2>1, <2>2 DEF Counted
    <2>3. CASE Note(BadGate(e)) /\ ring' = RestOfRing(rawCount) /\ ws' = "claiming"
      <3>1. clean => "claim" \notin BadGate(e)
        BY <2>1, NoFalseClaim, EventsAre
      <3>2. "claim" \notin wrongs => "claim" \notin wrongs'
        BY <2>3, <3>1, NotNoted
      <3>3. rawCount = Len(ring) => RestOfRing(rawCount) = <<>>
        BY <1>1, RestIs
      <3>4. ws' = "claiming" /\ ring' = RestOfRing(rawCount)
        BY <2>3
      <3>5. clean' => rawCount = Len(ring)
        BY <2>1 DEF Counted
      <3>6. Counted'
        BY <3>3, <3>4, <3>5 DEF Counted
      <3> QED BY <3>2, <3>6
    <2> QED BY <2>1, <2>2, <2>3
  <1>5. CASE WsClaims
    BY <1>1, <1>5 DEF WsClaims, Counted, history
  <1>6. ASSUME NEW e \in list, WsWalksReading(e)
        PROVE  Counted' /\ ("claim" \notin wrongs => "claim" \notin wrongs')
    <2>1. ws = "walking" /\ ws' = "walking" /\ clean' = clean
      BY <1>6 DEF WsWalksReading, Walks
    <2>2. e.time \in Nat
      BY EventsAre
    <2>3. Len(Append(ring, e.time)) = Len(ring) + 1
      BY <1>1, <2>2, AppendIs
    <2>4. CASE ~Counts
      BY <1>6, <2>1, <2>4 DEF WsWalksReading, Counted, batch
    <2>5. CASE Counts
      <3>1. /\ \/ ring' = <<>> /\ rawCount' = 0
               \/ ring' = Append(ring, e.time) /\ rawCount' = rawCount + 1
            /\ Note(BadReading(e))
        BY <1>6, <2>5 DEF WsWalksReading, BadReading
      <3>2. clean => "claim" \notin BadReading(e)
        BY <2>1, <2>2, NoFalseClaim
      <3>3. "claim" \notin wrongs => "claim" \notin wrongs'
        BY <3>1, <3>2, NotNoted
      <3>4. clean' => rawCount' = Len(ring')
        <4>1. clean' => rawCount = Len(ring)
          BY <2>1 DEF Counted
        <4>2. CASE ring' = <<>> /\ rawCount' = 0
          BY <1>1, <4>2
        <4>3. CASE ring' = Append(ring, e.time) /\ rawCount' = rawCount + 1
          BY <2>3, <4>1, <4>3
        <4> QED BY <3>1, <4>2, <4>3
      <3> QED BY <2>1, <3>3, <3>4 DEF Counted
    <2> QED BY <2>4, <2>5
  <1>7. CASE WsEnds
    BY <1>7 DEF WsEnds, Counted, batch, history
  <1> QED BY <1>2, <1>3, <1>4, <1>5, <1>6, <1>7 DEF Websocket

LEMMA CountedStep ==
  TypeOK /\ Counted /\ [Next]_vars
    => Counted' /\ ("claim" \notin wrongs => "claim" \notin wrongs')
  <1> SUFFICES ASSUME TypeOK, Counted, [Next]_vars
               PROVE  Counted' /\ ("claim" \notin wrongs => "claim" \notin wrongs')
    OBVIOUS
  <1>1. CASE UNCHANGED <<batch, thread, history>>
    BY <1>1 DEF Counted, batch, thread, history
  <1>2. CASE Tick \/ Server \/ Poll
    <2>1. UNCHANGED <<batch, ws, clean, wrongs>>
      BY <1>2 DEF Tick, Server, Answers, Subscribes, Poll, thread, history
    <2> QED BY <2>1 DEF Counted, batch
  <1>3. CASE Task
    BY <1>3 DEF Task, Counted, thread, history
  <1> QED BY <1>1, <1>2, <1>3, CountedPort, CountedWebsocket DEF Next, vars

\* What a batch claims is in the ring buffer: between the walk along the list, which
\* reads and resets the count without the lock, and the readings computed under it
\* nobody else speaks for a reading.
THEOREM ClaimsAreReal == Spec => []ClaimsOnce
  <1>1. Init => Counted /\ ClaimsOnce
    BY CountedInit DEF ClaimsOnce
  <1>2. TypeOK /\ Counted /\ ClaimsOnce /\ [Next]_vars => Counted' /\ ClaimsOnce'
    BY CountedStep DEF ClaimsOnce
  <1> QED BY <1>1, <1>2, TypeCorrect, PTL DEF Spec

-----------------------------------------------------------------------------
(***************************************************************************)
(* The requests on their way.  As long as no two acquisitions have met, a  *)
(* subscription is asked for at most once and then ended at most once; and *)
(* before it has begun nothing of an acquisition is anywhere.              *)
(***************************************************************************)
Orderly(s) ==
  \A i, j \in 1..Len(s) :
    /\ (s[i] = s[j] /\ s[i] # "get") => i = j
    /\ (s[i] = "subscribe" /\ s[j] = "unsubscribe") => i < j

Lines ==
  /\ Orderly(toServer)
  /\ Has(toServer, "subscribe") => ~subscribed
  /\ acquiring = 1 => ~Has(toServer, "unsubscribe")
  /\ acquiring = 0 =>
       Has(toServer, "unsubscribe") \/ (~subscribed /\ ~Has(toServer, "subscribe"))

Fresh ==
  Has(toServer, "subscribe") =>
    /\ \A i \in 1..Len(answers) : answers[i] = NoData
    /\ update = NoData /\ list = {} /\ cache = [c \in Channels |-> <<>>]
    /\ ring = <<>> /\ ~triggerActive
    /\ ws \in {"idle", "taken", "done"}

LEMMA OrderlyTail ==
  ASSUME NEW s \in Seq(Requests), s # <<>>, Orderly(s)
  PROVE  /\ Orderly(Tail(s))
         /\ Head(s) = "subscribe" => ~Has(Tail(s), "subscribe")
         /\ Head(s) = "unsubscribe" => /\ ~Has(Tail(s), "subscribe")
                                       /\ ~Has(Tail(s), "unsubscribe")
  <1> DEFINE t == Tail(s)
  <1>1. /\ Len(s) \in Nat \ {0} /\ Head(s) = s[1] /\ Len(t) = Len(s) - 1
        /\ \A i \in 1..Len(s) - 1 : t[i] = s[i + 1]
    BY TailIs
  <1> HIDE DEF t
  <1>2. \A i \in 1..Len(t) : i + 1 \in 1..Len(s) /\ t[i] = s[i + 1] /\ i + 1 # 1
    BY <1>1
  <1>3. Orderly(t)
    BY <1>2 DEF Orderly
  <1>4. 1 \in 1..Len(s)
    BY <1>1
  <1>5. ASSUME NEW i \in 1..Len(t)
        PROVE  /\ Head(s) = "subscribe" => t[i] # "subscribe"
               /\ Head(s) = "unsubscribe" => t[i] # "unsubscribe" /\ t[i] # "subscribe"
    BY <1>1, <1>2, <1>4 DEF Orderly
  <1> QED BY <1>3, <1>5 DEF t, Has

LEMMA OrderlyAppend ==
  ASSUME NEW s \in Seq(Requests), Orderly(s), NEW e \in Requests,
         e = "subscribe" => ~Has(s, "subscribe") /\ ~Has(s, "unsubscribe"),
         e = "unsubscribe" => ~Has(s, "unsubscribe")
  PROVE  Orderly(Append(s, e))
  <1> DEFINE t == Append(s, e)
  <1>1. /\ Len(t) = Len(s) + 1 /\ Len(s) \in Nat
        /\ \A i \in 1..Len(s) : t[i] = s[i]
        /\ t[Len(s) + 1] = e
    BY AppendIs
  <1> HIDE DEF t
  <1>2. \A i \in 1..Len(t) : (i \in 1..Len(s) /\ t[i] = s[i]) \/ (i = Len(t) /\ t[i] = e)
    BY <1>1
  <1>3. ASSUME NEW i \in 1..Len(s)
        PROVE  /\ e = "subscribe" => s[i] # "subscribe" /\ s[i] # "unsubscribe"
               /\ e = "unsubscribe" => s[i] # "unsubscribe"
               /\ i < Len(t)
    BY <1>1 DEF Has
  <1>4. e = "get" \/ e = "subscribe" \/ e = "unsubscribe"
    BY DEF Requests
  <1>5. ASSUME NEW i \in 1..Len(t), NEW j \in 1..Len(t)
        PROVE  /\ (t[i] = t[j] /\ t[i] # "get") => i = j
               /\ (t[i] = "subscribe" /\ t[j] = "unsubscribe") => i < j
    <2>1. CASE i \in 1..Len(s) /\ t[i] = s[i] /\ j \in 1..Len(s) /\ t[j] = s[j]
      BY <2>1 DEF Orderly
    <2>2. CASE i \in 1..Len(s) /\ t[i] = s[i] /\ j = Len(t) /\ t[j] = e
      BY <1>3, <1>4, <2>2
    <2>3. CASE i = Len(t) /\ t[i] = e /\ j \in 1..Len(s) /\ t[j] = s[j]
      BY <1>3, <1>4, <2>3
    <2>4. CASE i = Len(t) /\ t[i] = e /\ j = Len(t) /\ t[j] = e
      BY <2>4
    <2> QED BY <1>2, <2>1, <2>2, <2>3, <2>4
  <1> QED BY <1>5 DEF t, Orderly

\* Requests that are asked for besides the subscription.
LEMMA OneMoreRequest ==
  ASSUME NEW s \in Seq(Requests), Orderly(s)
  PROVE  /\ Orderly(Append(s, "get"))
         /\ \A op \in Requests : Has(Append(s, "get"), op) <=> (Has(s, op) \/ op = "get")
         /\ ~Has(s, "unsubscribe") => Orderly(Append(s, "unsubscribe"))
         /\ \A op \in Requests :
              Has(Append(s, "unsubscribe"), op) <=> (Has(s, op) \/ op = "unsubscribe")
  <1>1. "get" \in Requests /\ "unsubscribe" \in Requests /\ "get" # "subscribe"
        /\ "get" # "unsubscribe"
    BY DEF Requests
  <1> QED BY <1>1, OrderlyAppend, HasAppend

LEMMA StartRequests ==
  ASSUME NEW s \in Seq(Requests), Orderly(s), ~Has(s, "subscribe"), ~Has(s, "unsubscribe")
  PROVE  /\ Orderly(s \o <<"subscribe", "get">>)
         /\ Has(s \o <<"subscribe", "get">>, "subscribe")
         /\ ~Has(s \o <<"subscribe", "get">>, "unsubscribe")
  <1> DEFINE a == Append(s, "subscribe")
  <1>1. "get" \in Requests /\ "subscribe" \in Requests /\ "unsubscribe" \in Requests
    BY DEF Requests
  <1>2. a \in Seq(Requests)
    BY <1>1, AppendIs
  <1>3. Orderly(a)
    BY <1>1, OrderlyAppend
  <1>4. Has(a, "subscribe") /\ ~Has(a, "unsubscribe")
    BY <1>1, HasAppend
  <1>5. s \o <<"subscribe", "get">> = Append(a, "get")
    BY StartIs
  <1> HIDE DEF a
  <1>6. Orderly(Append(a, "get")) /\ Has(Append(a, "get"), "subscribe")
        /\ ~Has(Append(a, "get"), "unsubscribe")
    BY <1>1, <1>2, <1>3, <1>4, OneMoreRequest
  <1> QED BY <1>5, <1>6

\* A start that leaves the history clean finds nothing under way.
LEMMA CleanStart ==
  ASSUME TypeOK, Lines, WriteAcquire1, clean'
  PROVE  /\ clean /\ acquiring = 0 /\ ws = "idle" /\ list = {} /\ update = NoData
         /\ \A i \in 1..Len(answers) : answers[i] = NoData
         /\ ~Has(toServer, "unsubscribe") /\ ~Has(toServer, "subscribe") /\ ~subscribed
         /\ toServer' = toServer \o <<"subscribe", "get">> /\ acquiring' = 1
         /\ cache' = [c \in Channels |-> <<>>] /\ ring' = <<>> /\ ~synchronized'
         /\ ~triggerActive' /\ numTriggerValues' = 0
         /\ UNCHANGED <<fx4, answers, settings, gateLevel, thread, disordered, skewed>>
  <1>1. clean /\ acquiring = 0 /\ ~Leftover
    BY DEF WriteAcquire1
  <1>2. ws = "idle"
    BY <1>1 DEF Leftover
  <1>3. \A i \in DOMAIN answers : answers[i] = NoData
    BY <1>1 DEF Leftover
  <1>4. answers \in Seq(Updates) /\ toServer \in Seq(Requests)
    BY DEF TypeOK
  <1>5. DOMAIN answers = 1..Len(answers) /\ DOMAIN toServer = 1..Len(toServer)
    BY <1>4
  <1>6. ~Has(toServer, "unsubscribe")
    BY <1>1, <1>5 DEF Leftover, Asked, Has
  <1>7. ~Has(toServer, "subscribe") /\ ~subscribed
    BY <1>1, <1>6 DEF Lines
  <1>8. list = {} /\ update = NoData
    BY <1>2 DEF TypeOK
  <1>9. /\ toServer' = toServer \o <<"subscribe", "get">> /\ acquiring' = 1
        /\ cache' = [c \in Channels |-> <<>>] /\ ring' = <<>> /\ ~synchronized'
        /\ ~triggerActive' /\ numTriggerValues' = 0
        /\ UNCHANGED <<fx4, answers, settings, gateLevel, thread, disordered, skewed>>
    BY <1>1 DEF WriteAcquire1, Start, Flush
  <1> QED BY <1>1, <1>2, <1>3, <1>5, <1>6, <1>7, <1>8, <1>9

\* The channels' lists with the update's.
Full == [c \in Channels |-> cache[c] \o update.adc[c]]

SameLength == \A c \in Channels : Len(Full[c]) = Len(Full[1])

FromList(i) == [kind |-> "adc", time |-> Full[1][i], times |-> {Full[c][i] : c \in Channels}]

Skewing == ~synchronized /\ \E c \in Channels : Full[c][1] # Full[1][1]

GateLost == update.gate # {}

Joins ==
  /\ Full[1] # <<>> /\ (SameLength \/ synchronized)
  /\ synchronized' = TRUE
  /\ skewed' = (skewed \/ Skewing)
  /\ \E shortest \in Channels :
       LET n == Len(Full[shortest])
       IN /\ \A c \in Channels : n <= Len(Full[c])
          /\ list' = update.gate \cup {FromList(i) : i \in 1..n}
          /\ cache' = [c \in Channels |-> SubSeq(Full[c], n + 1, Len(Full[c]))]
  /\ ws' = "walking"
  /\ UNCHANGED disordered

\* The three outcomes of a merge.
LEMMA MergesIs ==
  ASSUME WsMerges
  PROVE  /\ ws = "taken" /\ update' = NoData
         /\ UNCHANGED <<fx4, socket, acquiring, settings, window, batch, numAcquired, clean,
                        wrongs>>
         /\ \/ /\ Full[1] = <<>>
               /\ cache' = Full /\ ws' = "done"
               /\ disordered' = (disordered \/ GateLost)
               /\ UNCHANGED <<synchronized, list, skewed>>
            \/ /\ Full[1] # <<>> /\ ~SameLength /\ ~synchronized
               /\ cache' = [c \in Channels |-> <<>>] /\ ws' = "done"
               /\ disordered' = (disordered \/ GateLost)
               /\ UNCHANGED <<synchronized, list, skewed>>
            \/ Joins
  BY DEF WsMerges, Full, SameLength, FromList, Skewing, GateLost, Joins

\* What every step leaves of the history.
LEMMA CleanWas ==
  ASSUME TypeOK, [Next]_vars
  PROVE  /\ clean' => clean
         /\ ~disordered' => ~disordered
         /\ ~skewed' => ~skewed
  <1> USE DEF history
  <1>1. CASE WsMerges
    <2>1. /\ clean' = clean
          /\ disordered' = disordered \/ disordered' = (disordered \/ GateLost)
          /\ skewed' = skewed \/ skewed' = (skewed \/ Skewing)
      BY <1>1, MergesIs, Zenon DEF Joins
    <2>2. clean' => clean
      BY <2>1
    <2>3. ~disordered' => ~disordered
      BY ONLY <2>1, Zenon
    <2>4. ~skewed' => ~skewed
      BY ONLY <2>1, Zenon
    <2> QED BY <2>2, <2>3, <2>4
  <1>2. CASE Websocket /\ ~WsMerges
    BY <1>2 DEF Websocket, WsTakes, WsWalksGate, WsClaims, WsWalksReading, WsEnds
  <1>3. CASE Answers
    <2>1. UNCHANGED <<clean, skewed>>
      BY <1>3 DEF Answers
    <2>2. ~disordered' => ~disordered
      BY <1>3, Zenon DEF Answers
    <2> QED BY <2>1, <2>2
  <1>4. CASE WriteAcquire1 \/ WriteAveragingTime \/ ReadData
                           \/ \E t \in TriggerModes, p \in Polarities : WriteTrigger(t, p)
    <2>1. UNCHANGED <<disordered, skewed>>
      BY <1>4 DEF WriteAcquire1, WriteTrigger, WriteAveragingTime, ReadData
    <2>2. clean' => clean
      BY <1>4, Zenon DEF WriteAcquire1, WriteTrigger, WriteAveragingTime, ReadData
    <2> QED BY <2>1, <2>2
  <1>5. CASE Tick \/ Subscribes \/ Poll \/ Task \/ UNCHANGED vars \/ WriteAcquire0
             \/ \E m \in Modes : WriteAcquireMode(m)
    BY <1>5 DEF Tick, Subscribes, Poll, Task, vars, WriteAcquire0, WriteAcquireMode
  <1> QED BY <1>1, <1>2, <1>3, <1>4, <1>5 DEF Next, Server, Port

\* The requests change in one of these ways.
LEMMA RequestsStep ==
  ASSUME TypeOK, Lines, [Next]_vars, clean'
  PROVE  \/ UNCHANGED <<toServer, subscribed, acquiring>>
         \/ toServer' = Append(toServer, "get") /\ UNCHANGED <<subscribed, acquiring>>
         \/ Server
         \/ acquiring = 1 /\ Stop /\ UNCHANGED subscribed
         \/ WriteAcquire1
  <1>1. CASE Websocket
    BY <1>1 DEF Websocket, WsTakes, WsMerges, WsWalksGate, WsClaims, WsWalksReading, WsEnds,
                socket, fx4
  <1>2. ASSUME Stop, UNCHANGED subscribed
        PROVE  (acquiring = 1 /\ Stop) \/ UNCHANGED <<toServer, subscribed, acquiring>>
    <2>1. acquiring = 0 \/ acquiring = 1
      BY DEF TypeOK
    <2> QED BY <1>2, <2>1 DEF Stop
  <1>3. CASE Port
    <2>1. CASE WriteAcquire1
      BY <2>1
    <2>2. CASE WriteAcquire0
      BY <1>2, <2>2 DEF WriteAcquire0, fx4
    <2>3. ASSUME NEW m \in Modes, WriteAcquireMode(m)
          PROVE  (Stop \/ UNCHANGED <<toServer, acquiring>>) /\ UNCHANGED subscribed
      BY <2>3 DEF WriteAcquireMode, fx4
    <2>4. ASSUME NEW t \in TriggerModes, NEW p \in Polarities, WriteTrigger(t, p)
          PROVE  UNCHANGED <<toServer, subscribed, acquiring>>
      BY <2>4 DEF WriteTrigger, fx4, socket
    <2>5. CASE WriteAveragingTime \/ ReadData
      BY <2>5 DEF WriteAveragingTime, ReadData, fx4, socket
    <2> QED BY <1>2, <1>3, <2>1, <2>2, <2>3, <2>4, <2>5 DEF Port
  <1>4. CASE Task
    <2>1. (Stop \/ UNCHANGED <<toServer, acquiring>>) /\ UNCHANGED subscribed
      BY <1>4 DEF Task, fx4
    <2> QED BY <1>2, <2>1
  <1>5. CASE Tick \/ Server \/ Poll \/ UNCHANGED vars
    BY <1>5 DEF Tick, Poll, vars, socket, fx4
  <1> QED BY <1>1, <1>3, <1>4, <1>5 DEF Next

LEMMA LinesStep == ASSUME TypeOK, Lines, [Next]_vars, clean' PROVE Lines'
  <1>1. /\ toServer \in Seq(Requests) /\ Orderly(toServer) /\ subscribed \in BOOLEAN
        /\ acquiring = 0 \/ acquiring = 1
    BY DEF TypeOK, Lines
  <1>2. {"get", "subscribe", "unsubscribe"} = Requests
    BY DEF Requests
  <1>3. CASE UNCHANGED <<toServer, subscribed, acquiring>>
    BY <1>3 DEF Lines
  <1>4. CASE toServer' = Append(toServer, "get") /\ UNCHANGED <<subscribed, acquiring>>
    <2>1. Orderly(toServer')
      BY <1>1, <1>4, OneMoreRequest
    <2>2. /\ Has(toServer', "subscribe") <=> Has(toServer, "subscribe")
          /\ Has(toServer', "unsubscribe") <=> Has(toServer, "unsubscribe")
      BY <1>1, <1>2, <1>4, OneMoreRequest
    <2> QED BY <1>4, <2>1, <2>2 DEF Lines
  <1>5. CASE Server
    <2>1. /\ toServer # <<>> /\ toServer' = Tail(toServer) /\ acquiring' = acquiring
          /\ \/ Head(toServer) = "get" /\ subscribed' = subscribed
             \/ Head(toServer) = "subscribe" /\ subscribed' = TRUE
             \/ Head(toServer) = "unsubscribe" /\ subscribed' = FALSE
      <3>1. toServer # <<>> => Head(toServer) \in Requests
        BY <1>1, TailIs
      <3> QED BY <1>2, <1>5, <3>1 DEF Server, Answers, Subscribes
    <2>2. /\ Orderly(Tail(toServer))
          /\ Head(toServer) = "subscribe" => ~Has(Tail(toServer), "subscribe")
          /\ Head(toServer) = "unsubscribe" => /\ ~Has(Tail(toServer), "subscribe")
                                               /\ ~Has(Tail(toServer), "unsubscribe")
      BY <1>1, <2>1, OrderlyTail
    <2>3. \A op : Has(toServer, op) <=> (Head(toServer) = op \/ Has(toServer', op))
      BY <1>1, <2>1, HasTail
    <2> QED BY <1>1, <2>1, <2>2, <2>3 DEF Lines
  <1>6. CASE acquiring = 1 /\ Stop /\ UNCHANGED subscribed
    <2>1. toServer' = Append(toServer, "unsubscribe") /\ acquiring' = 0
      BY <1>6 DEF Stop
    <2>2. ~Has(toServer, "unsubscribe")
      BY <1>6 DEF Lines
    <2>3. Orderly(toServer')
      BY <1>1, <2>1, <2>2, OneMoreRequest
    <2>4. /\ Has(toServer', "subscribe") <=> Has(toServer, "subscribe")
          /\ Has(toServer', "unsubscribe")
      BY <1>1, <1>2, <2>1, OneMoreRequest
    <2> QED BY <1>6, <2>1, <2>3, <2>4 DEF Lines
  <1>7. CASE WriteAcquire1
    <2>1. /\ ~Has(toServer, "unsubscribe") /\ ~Has(toServer, "subscribe") /\ ~subscribed
          /\ toServer' = toServer \o <<"subscribe", "get">> /\ acquiring' = 1
          /\ subscribed' = subscribed
      BY <1>7, CleanStart DEF fx4
    <2>2. Orderly(toServer') /\ ~Has(toServer', "unsubscribe")
      BY <1>1, <2>1, StartRequests
    <2> QED BY <2>1, <2>2 DEF Lines
  <1> QED BY <1>3, <1>4, <1>5, <1>6, <1>7, RequestsStep

\* A subscription that is on its way was so before, or has just been asked for.
LEMMA SubscribeWas ==
  ASSUME TypeOK, Lines, [Next]_vars, clean', Has(toServer', "subscribe"), ~WriteAcquire1
  PROVE  Has(toServer, "subscribe") /\ ~subscribed /\ ~subscribed'
  <1>1. toServer \in Seq(Requests) /\ Orderly(toServer)
    BY DEF TypeOK, Lines
  <1>2. "get" \in Requests /\ "subscribe" \in Requests /\ "unsubscribe" \in Requests
    BY DEF Requests
  <1>3. CASE Server
    <2>1. toServer # <<>> /\ toServer' = Tail(toServer)
      BY <1>3 DEF Server, Answers, Subscribes
    <2>2. Has(toServer, "subscribe")
      BY <1>1, <2>1, HasTail
    <2> QED BY <2>2, LinesStep DEF Lines
  <1>4. CASE toServer' = toServer
    BY <1>4, LinesStep DEF Lines
  <1>5. CASE toServer' = Append(toServer, "get") \/ toServer' = Append(toServer, "unsubscribe")
    <2>1. Has(toServer, "subscribe")
      <3>1. /\ Has(Append(toServer, "get"), "subscribe") => Has(toServer, "subscribe")
            /\ Has(Append(toServer, "unsubscribe"), "subscribe") => Has(toServer, "subscribe")
        BY <1>1, <1>2, HasAppend
      <3> QED BY ONLY <1>5, <3>1, Has(toServer', "subscribe"), Zenon
    <2> QED BY <2>1, LinesStep DEF Lines
  <1> QED BY <1>3, <1>4, <1>5, RequestsStep DEF Stop

\* Lists to which nothing is added.
LEMMA NothingFull ==
  ASSUME cache = [c \in Channels |-> <<>>], update = NoData
  PROVE  Full = [c \in Channels |-> <<>>] /\ ~GateLost
  <1>1. <<>> \o <<>> = <<>>
    OBVIOUS
  <1>2. \A c \in Channels : cache[c] = <<>> /\ update.adc[c] = <<>>
    BY NoDataIs
  <1>3. \A c \in Channels : cache[c] \o update.adc[c] = <<>>
    BY <1>1, <1>2
  <1>4. ~GateLost
    BY NoDataIs DEF GateLost
  <1> QED BY <1>3, <1>4 DEF Full

LEMMA FreshStep == ASSUME TypeOK, Counted, Lines, Fresh, [Next]_vars, clean' PROVE Fresh'
  <1> SUFFICES ASSUME Has(toServer', "subscribe")
               PROVE  /\ \A i \in 1..Len(answers') : answers'[i] = NoData
                      /\ update' = NoData /\ list' = {} /\ cache' = [c \in Channels |-> <<>>]
                      /\ ring' = <<>> /\ ~triggerActive'
                      /\ ws' \in {"idle", "taken", "done"}
    BY DEF Fresh
  <1>1. CASE WriteAcquire1
    <2>1. /\ ws = "idle" /\ list = {} /\ update = NoData
          /\ \A i \in 1..Len(answers) : answers[i] = NoData
          /\ cache' = [c \in Channels |-> <<>>] /\ ring' = <<>> /\ ~triggerActive'
          /\ UNCHANGED <<answers, thread>>
      BY <1>1, CleanStart
    <2> QED BY <2>1 DEF thread
  <1> SUFFICES ASSUME ~WriteAcquire1
               PROVE  /\ \A i \in 1..Len(answers') : answers'[i] = NoData
                      /\ update' = NoData /\ list' = {} /\ cache' = [c \in Channels |-> <<>>]
                      /\ ring' = <<>> /\ ~triggerActive'
                      /\ ws' \in {"idle", "taken", "done"}
    BY <1>1
  <1>2. /\ \A i \in 1..Len(answers) : answers[i] = NoData
        /\ update = NoData /\ list = {} /\ cache = [c \in Channels |-> <<>>]
        /\ ring = <<>> /\ ~triggerActive
        /\ ws \in {"idle", "taken", "done"}
    BY SubscribeWas DEF Fresh
  <1>3. ~subscribed /\ answers \in Seq(Updates)
    BY SubscribeWas DEF TypeOK
  <1>4. CASE Answers
    <2>1. /\ answers' = Append(answers, NoData)
          /\ UNCHANGED <<update, list, cache, ring, triggerActive, ws>>
      BY <1>3, <1>4 DEF Answers, thread, batch, window, caches
    <2>2. \A i \in 1..Len(answers') : answers'[i] = NoData
      <3>1. /\ Len(answers') = Len(answers) + 1 /\ Len(answers) \in Nat
            /\ \A i \in 1..Len(answers) : answers'[i] = answers[i]
            /\ answers'[Len(answers) + 1] = NoData
        BY <1>3, <2>1, AppendIs, NoDataIs
      <3> QED BY <1>2, <3>1
    <2> QED BY <1>2, <2>1, <2>2
  <1>5. CASE ReadData
    <2>1. ws = "idle"
      BY <1>5 DEF ReadData, Runs
    <2>2. rawCount = Len(ring) /\ ring \in Seq(Nat) /\ rawCount \in Nat
      BY <1>5, <2>1, CleanWas DEF Counted, TypeOK
    <2>3. ring' = <<>>
      BY <1>5, <2>2, RestIs DEF ReadData
    <2> QED BY <1>2, <1>5, <2>3 DEF ReadData, socket, caches, window, thread
  <1>6. CASE WsTakes
    <2>1. answers # <<>> /\ answers' = Tail(answers)
      BY <1>6 DEF WsTakes
    <2>2. /\ Len(answers) \in Nat \ {0} /\ Head(answers) = answers[1]
          /\ Len(answers') = Len(answers) - 1
          /\ \A i \in 1..Len(answers) - 1 : answers'[i] = answers[i + 1]
      BY <1>3, <2>1, TailIs
    <2>3. Head(answers) = NoData
      BY <1>2, <2>2
    <2>4. \A i \in 1..Len(answers') : answers'[i] = NoData
      BY <1>2, <2>2
    <2> QED BY <1>2, <1>6, <2>3, <2>4 DEF WsTakes, caches, window, batch
  <1>7. CASE WsMerges
    <2>1. Full = [c \in Channels |-> <<>>] /\ Full[1] = <<>>
      BY <1>2, NothingFull
    <2>2. /\ cache' = Full /\ ws' = "done" /\ list' = list /\ update' = NoData
          /\ UNCHANGED <<socket, window, batch>>
      BY <1>7, <2>1, MergesIs DEF Joins
    <2> QED BY <1>2, <2>1, <2>2 DEF socket, window, batch
  <1>8. CASE Websocket /\ ~WsTakes /\ ~WsMerges
    <2>1. WsEnds
      BY <1>2, <1>8 DEF Websocket, WsWalksGate, WsWalksReading, WsClaims, Walks
    <2> QED BY <1>2, <2>1 DEF WsEnds, caches, window, batch
  <1>9. CASE WriteAveragingTime
    BY <1>2, <1>9 DEF WriteAveragingTime, Flush, socket, caches, window, thread
  <1>10. CASE \/ Tick \/ Subscribes \/ WriteAcquire0 \/ Task \/ Poll \/ UNCHANGED vars
              \/ \E t \in TriggerModes, p \in Polarities : WriteTrigger(t, p)
              \/ \E m \in Modes : WriteAcquireMode(m)
    <2>1. UNCHANGED <<answers, update, list, cache, ring, triggerActive, ws>>
      BY <1>10 DEF Tick, Subscribes, WriteAcquire0, Task, Poll, WriteTrigger,
         WriteAcquireMode, vars, socket, caches, window, batch, thread
    <2> QED BY <1>2, <2>1
  <1> QED BY <1>4, <1>5, <1>6, <1>7, <1>8, <1>9, <1>10 DEF Next, Server, Port

LEMMA LinesInit == Init => Lines /\ Fresh
  <1> SUFFICES ASSUME Init PROVE Lines /\ Fresh
    OBVIOUS
  <1>1. toServer = <<>> /\ Len(toServer) = 0
    BY DEF Init
  <1>2. Orderly(toServer) /\ \A op : ~Has(toServer, op)
    BY <1>1 DEF Orderly, Has
  <1> QED BY <1>1, <1>2 DEF Init, Lines, Fresh

-----------------------------------------------------------------------------
(***************************************************************************)
(* The channels.  Each update continues where the one before it ended, in  *)
(* every channel; so what is in a channel's cache and in the update that   *)
(* was taken is a stretch of its readings, and once the channels' lists    *)
(* have begun at the same time they do at every merge.                     *)
(***************************************************************************)
Ends == [Channels -> Nat]

AdcChain(s, a, last) ==
  /\ s \in [0..Len(a) -> Ends] /\ s[Len(a)] = last
  /\ \A i \in 1..Len(a), c \in Channels :
       /\ s[i - 1][c] <= s[i][c]
       /\ a[i].adc[c] = Times(s[i - 1][c], s[i][c])

Joined(x, y) ==
  /\ x \in Ends
  /\ \A c \in Channels : x[c] <= y[c] /\ Full[c] = Times(x[c], y[c])
  /\ synchronized /\ ~skewed => \A c \in Channels : x[c] = x[1]

Level ==
  \E s : /\ AdcChain(s, answers, sent)
         /\ acquiring = 1 \/ ws = "taken" => \E x : Joined(x, s[0])

Straight == ~skewed => \A e \in list : e.kind = "adc" => e.times = {e.time}

LEMMA ChainAppend ==
  ASSUME NEW a \in Seq(Updates), NEW u \in Updates, NEW last \in Ends, NEW next \in Ends,
         NEW s, AdcChain(s, a, last),
         \A c \in Channels : last[c] <= next[c] /\ u.adc[c] = Times(last[c], next[c])
  PROVE  \E z : AdcChain(z, Append(a, u), next) /\ z[0] = s[0]
  <1> DEFINE b == Append(a, u)
             z == [i \in 0..Len(b) |-> IF i <= Len(a) THEN s[i] ELSE next]
  <1>1. /\ Len(b) = Len(a) + 1 /\ Len(a) \in Nat
        /\ \A i \in 1..Len(a) : b[i] = a[i]
        /\ b[Len(a) + 1] = u
    BY AppendIs
  <1> HIDE DEF b
  <1>2. s \in [0..Len(a) -> Ends] /\ s[Len(a)] = last
    BY DEF AdcChain
  <1>3. /\ z \in [0..Len(b) -> Ends] /\ z[Len(b)] = next
        /\ \A i \in 0..Len(a) : z[i] = s[i]
    BY <1>1, <1>2
  <1> HIDE DEF z
  <1>4. ASSUME NEW i \in 1..Len(b), NEW c \in Channels
        PROVE  z[i - 1][c] <= z[i][c] /\ b[i].adc[c] = Times(z[i - 1][c], z[i][c])
    <2>1. CASE i <= Len(a)
      <3>1. i \in 1..Len(a) /\ z[i] = s[i] /\ z[i - 1] = s[i - 1] /\ b[i] = a[i]
        BY <1>1, <1>3, <2>1
      <3> QED BY <3>1 DEF AdcChain
    <2>2. CASE i = Len(a) + 1
      <3>1. z[i] = next /\ z[i - 1] = last /\ b[i] = u
        BY <1>1, <1>2, <1>3, <2>2
      <3> QED BY <3>1
    <2> QED BY <1>1, <2>1, <2>2
  <1>5. z[0] = s[0]
    BY <1>1, <1>3
  <1> QED BY <1>3, <1>4, <1>5 DEF AdcChain, b

LEMMA ChainTail ==
  ASSUME NEW a \in Seq(Updates), a # <<>>, NEW last, NEW s, AdcChain(s, a, last)
  PROVE  /\ s[0] \in Ends /\ s[1] \in Ends
         /\ \A c \in Channels : /\ s[0][c] <= s[1][c]
                                /\ Head(a).adc[c] = Times(s[0][c], s[1][c])
         /\ \E z : AdcChain(z, Tail(a), last) /\ z[0] = s[1]
  <1> DEFINE b == Tail(a)
             z == [i \in 0..Len(b) |-> s[i + 1]]
  <1>1. /\ Len(a) \in Nat \ {0} /\ Head(a) = a[1] /\ Len(b) = Len(a) - 1
        /\ \A i \in 1..Len(a) - 1 : b[i] = a[i + 1]
    BY TailIs
  <1> HIDE DEF b
  <1>2. s \in [0..Len(a) -> Ends] /\ s[Len(a)] = last
    BY DEF AdcChain
  <1>3. /\ z \in [0..Len(b) -> Ends] /\ z[Len(b)] = last /\ z[0] = s[1]
        /\ \A i \in 0..Len(b) : z[i] = s[i + 1]
    BY <1>1, <1>2
  <1> HIDE DEF z
  <1>4. ASSUME NEW i \in 1..Len(b), NEW c \in Channels
        PROVE  z[i - 1][c] <= z[i][c] /\ b[i].adc[c] = Times(z[i - 1][c], z[i][c])
    <2>1. /\ i + 1 \in 1..Len(a) /\ (i + 1) - 1 = i
          /\ z[i] = s[i + 1] /\ z[i - 1] = s[i] /\ b[i] = a[i + 1]
      BY <1>1, <1>3
    <2>2. /\ s[(i + 1) - 1][c] <= s[i + 1][c]
          /\ a[i + 1].adc[c] = Times(s[(i + 1) - 1][c], s[i + 1][c])
      BY <2>1 DEF AdcChain
    <2> QED BY <2>1, <2>2
  <1>5. AdcChain(z, b, last)
    BY <1>3, <1>4 DEF AdcChain
  <1>6. 1 \in 1..Len(a) /\ 0 \in 0..Len(a) /\ 1 \in 0..Len(a) /\ 1 - 1 = 0
    BY <1>1
  <1>7. \A c \in Channels : s[0][c] <= s[1][c] /\ a[1].adc[c] = Times(s[0][c], s[1][c])
    BY <1>6 DEF AdcChain
  <1> QED BY <1>1, <1>2, <1>3, <1>5, <1>6, <1>7 DEF b

\* Updates without data.
LEMMA ChainOfNothing ==
  ASSUME NEW a \in Seq(Updates), \A i \in 1..Len(a) : a[i] = NoData, NEW last \in Ends
  PROVE  \E z : AdcChain(z, a, last) /\ z[0] = last
  <1> DEFINE z == [i \in 0..Len(a) |-> last]
  <1>1. Len(a) \in Nat
    OBVIOUS
  <1>2. /\ z \in [0..Len(a) -> Ends] /\ z[Len(a)] = last /\ z[0] = last
        /\ \A i \in 1..Len(a) : z[i - 1] = last /\ z[i] = last
    BY <1>1
  <1> HIDE DEF z
  <1>3. \A c \in Channels : last[c] \in Nat
    BY DEF Ends
  <1>4. ASSUME NEW i \in 1..Len(a), NEW c \in Channels
        PROVE  z[i - 1][c] <= z[i][c] /\ a[i].adc[c] = Times(z[i - 1][c], z[i][c])
    <2>1. Times(last[c], last[c]) = <<>> /\ last[c] <= last[c]
      BY <1>3, NoTimes
    <2>2. a[i].adc[c] = <<>>
      BY NoDataIs
    <2>3. z[i - 1] = last /\ z[i] = last
      BY <1>2
    <2> QED BY <2>1, <2>2, <2>3
  <1> QED BY <1>2, <1>4 DEF AdcChain

\* No more readings in a channel than it has made.
LEMMA JoinedIs ==
  ASSUME NEW x, NEW y \in Ends, Joined(x, y), NEW c \in Channels
  PROVE  /\ x[c] \in Nat /\ y[c] \in Nat /\ x[c] <= y[c]
         /\ Full[c] \in Seq(Nat) /\ Len(Full[c]) = y[c] - x[c]
         /\ \A i \in 1..y[c] - x[c] : Full[c][i] = x[c] + i
  <1>1. x[c] \in Nat /\ y[c] \in Nat /\ x[c] <= y[c] /\ Full[c] = Times(x[c], y[c])
    BY DEF Joined, Ends
  <1>2. /\ Times(x[c], y[c]) \in Seq(Nat) /\ Len(Times(x[c], y[c])) = y[c] - x[c]
        /\ \A i \in 1..y[c] - x[c] : Times(x[c], y[c])[i] = x[c] + i
    BY ONLY <1>1, TimesAre
  <1> QED BY ONLY <1>1, <1>2

\* Before an update is taken, the cache is what is joined.
LEMMA FullWithout ==
  ASSUME TypeOK, update = NoData, NEW c \in Channels
  PROVE  Full[c] = cache[c] /\ cache[c] \in Seq(Nat)
  <1>1. cache[c] \in Seq(Nat) /\ update.adc[c] = <<>>
    BY NoDataIs DEF TypeOK
  <1>2. cache[c] \o <<>> = cache[c]
    BY <1>1, ConcatEmptySeq
  <1> QED BY <1>1, <1>2 DEF Full

LEMMA NoMore ==
  ASSUME NEW k \in [Channels -> Seq(Nat)], NEW c \in Channels
  PROVE  k[c] \o NoData.adc[c] = k[c]
  <1>1. k[c] \in Seq(Nat) /\ NoData.adc[c] = <<>>
    BY NoDataIs
  <1> QED BY <1>1, ConcatEmptySeq

\* The lists that are joined have begun at the same time, unless they are known not to.
LEMMA JoinsAligned ==
  ASSUME TypeOK, Joins, NEW x, NEW y \in Ends, Joined(x, y), ~skewed'
  PROVE  \A c \in Channels : x[c] = x[1]
  <1>1. skewed' = (skewed \/ Skewing)
    BY DEF Joins
  <1>2. ~skewed /\ ~Skewing
    BY ONLY <1>1, ~skewed', Zenon
  <1>3. CASE synchronized
    BY <1>2, <1>3 DEF Joined
  <1>4. CASE ~synchronized
    <2>1. SameLength /\ Full[1] # <<>> /\ \A c \in Channels : Full[c][1] = Full[1][1]
      BY <1>2, <1>4 DEF Joins, Skewing
    <2>2. Full[1] \in Seq(Nat) /\ Len(Full[1]) = y[1] - x[1] /\ x[1] \in Nat /\ y[1] \in Nat
      BY JoinedIs
    <2>3. 1 <= Len(Full[1])
      BY <2>1, <2>2, EmptySeq
    <2>4. Full[1][1] = x[1] + 1
      BY <2>2, <2>3, JoinedIs
    <2>5. ASSUME NEW c \in Channels PROVE x[c] = x[1]
      <3>1. /\ x[c] \in Nat /\ y[c] \in Nat /\ Len(Full[c]) = y[c] - x[c]
            /\ \A i \in 1..y[c] - x[c] : Full[c][i] = x[c] + i
        BY JoinedIs
      <3>2. Len(Full[c]) = Len(Full[1])
        BY <2>1 DEF SameLength
      <3>3. Full[c][1] = x[c] + 1
        BY <2>2, <2>3, <3>1, <3>2
      <3> QED BY <2>1, <2>2, <2>4, <3>1, <3>3
    <2> QED BY <2>5
  <1> QED BY <1>3, <1>4

\* A merge takes the readings away that are complete.
LEMMA LevelMerge ==
  ASSUME TypeOK, TypeOK', WsMerges, NEW x, NEW y \in Ends, Joined(x, y)
  PROVE  \E z : Joined(z, y)'
  <1>1. update' = NoData /\ cache' \in [Channels -> Seq(Nat)]
    BY MergesIs DEF TypeOK
  <1>2. \A c \in Channels : Full'[c] = cache'[c]
    BY <1>1, NoMore DEF Full
  <1>3. ASSUME cache' = Full, UNCHANGED <<synchronized, skewed>>
        PROVE  Joined(x, y)'
    <2>1. \A c \in Channels : Full'[c] = Full[c]
      BY <1>2, <1>3
    <2> QED BY <1>3, <2>1 DEF Joined
  <1>4. ASSUME cache' = [c \in Channels |-> <<>>], ~synchronized'
        PROVE  Joined(y, y)'
    <2>1. ASSUME NEW c \in Channels PROVE y[c] <= y[c] /\ Full'[c] = Times(y[c], y[c])
      <3>1. y[c] \in Nat
        BY DEF Ends
      <3>2. Times(y[c], y[c]) = <<>>
        BY <3>1, NoTimes
      <3> QED BY <1>2, <1>4, <3>1, <3>2
    <2> QED BY <1>4, <2>1 DEF Joined
  <1>5. ASSUME Joins PROVE \E z : Joined(z, y)'
    <2>1. PICK shortest \in Channels :
            /\ \A c \in Channels : Len(Full[shortest]) <= Len(Full[c])
            /\ cache' = [c \in Channels |->
                           SubSeq(Full[c], Len(Full[shortest]) + 1, Len(Full[c]))]
      BY <1>5 DEF Joins
    <2> DEFINE n == Len(Full[shortest])
               z == [c \in Channels |-> x[c] + n]
    <2>2. n \in Nat
      BY JoinedIs
    <2>3. \A c \in Channels : /\ n <= Len(Full[c])
                              /\ cache'[c] = SubSeq(Full[c], n + 1, Len(Full[c]))
      BY <2>1
    <2> HIDE DEF n
    <2>4. ASSUME NEW c \in Channels
          PROVE  x[c] + n \in Nat /\ x[c] + n <= y[c] /\ Full'[c] = Times(x[c] + n, y[c])
      <3>1. /\ x[c] \in Nat /\ y[c] \in Nat /\ x[c] <= y[c] /\ Len(Full[c]) = y[c] - x[c]
            /\ Full[c] = Times(x[c], y[c])
        BY JoinedIs DEF Joined
      <3>2. n <= y[c] - x[c]
        BY <2>3, <3>1
      <3>3. SubSeq(Times(x[c], y[c]), n + 1, Len(Times(x[c], y[c]))) = Times(x[c] + n, y[c])
        BY <2>2, <3>1, <3>2, TimesRest
      <3>4. cache'[c] = Times(x[c] + n, y[c])
        BY ONLY <2>3, <3>1, <3>3, c \in Channels, Zenon
      <3> QED BY <1>2, <2>2, <3>1, <3>2, <3>4
    <2>5. PICK w \in Ends : \A c \in Channels : w[c] = x[c] + n
      <3>1. z \in Ends /\ \A c \in Channels : z[c] = x[c] + n
        BY <2>4 DEF Ends
      <3> HIDE DEF z
      <3> QED BY <3>1
    <2>6. ~skewed' => \A c \in Channels : x[c] = x[1]
      BY <1>5, JoinsAligned
    <2>7. ~skewed' => \A c \in Channels : w[c] = w[1]
      BY <2>5, <2>6
    <2>8. \A c \in Channels : w[c] <= y[c] /\ Full'[c] = Times(w[c], y[c])
      BY <2>4, <2>5
    <2>9. Joined(w, y)'
      BY <2>5, <2>7, <2>8 DEF Joined
    <2> QED BY <2>9
  <1>6. TypeOK => synchronized \in BOOLEAN
    BY DEF TypeOK
  <1> QED BY <1>3, <1>4, <1>5, <1>6, MergesIs

\* So its readings are each of one time.
LEMMA StraightMerge ==
  ASSUME TypeOK, WsMerges, NEW x, NEW y \in Ends, Joined(x, y), Joins, ~skewed',
         NEW e \in list', e.kind = "adc"
  PROVE  e.times = {e.time}
  <1>1. PICK shortest \in Channels :
          /\ \A c \in Channels : Len(Full[shortest]) <= Len(Full[c])
          /\ list' = update.gate \cup {FromList(i) : i \in 1..Len(Full[shortest])}
    BY DEF Joins
  <1>2. e \notin update.gate
    BY FullIs DEF Gates
  <1>3. PICK i \in 1..Len(Full[shortest]) : e = FromList(i)
    BY <1>1, <1>2
  <1>4. i \in Nat /\ i >= 1
    BY JoinedIs
  <1>5. ASSUME NEW c \in Channels PROVE Full[c][i] = x[1] + i
    <2>1. /\ x[c] \in Nat /\ y[c] \in Nat /\ Len(Full[c]) = y[c] - x[c]
          /\ \A j \in 1..y[c] - x[c] : Full[c][j] = x[c] + j
      BY JoinedIs
    <2>2. Len(Full[shortest]) <= Len(Full[c]) /\ Len(Full[shortest]) \in Nat
      BY <1>1, JoinedIs
    <2>3. i \in 1..y[c] - x[c]
      BY <2>1, <2>2
    <2>4. x[c] = x[1]
      BY JoinsAligned
    <2> QED BY <2>1, <2>3, <2>4
  <1>6. e.time = Full[1][i] /\ e.times = {Full[c][i] : c \in Channels}
    BY <1>3 DEF FromList
  <1>7. {Full[c][i] : c \in Channels} = {Full[1][i]}
    BY <1>5
  <1> QED BY <1>6, <1>7

LEMMA LevelInit == Init => Level /\ Straight
  <1> SUFFICES ASSUME Init PROVE Level /\ Straight
    OBVIOUS
  <1>1. /\ answers = <<>> /\ sent = [c \in Channels |-> 0] /\ acquiring = 0 /\ ws = "idle"
        /\ list = {}
    BY DEF Init
  <1>2. sent \in Ends /\ answers \in Seq(Updates) /\ Len(answers) = 0
    BY <1>1 DEF Ends
  <1>3. \A i \in 1..Len(answers) : answers[i] = NoData
    BY <1>2
  <1>4. \E s : AdcChain(s, answers, sent) /\ s[0] = sent
    BY <1>2, <1>3, ChainOfNothing
  <1> QED BY <1>1, <1>4 DEF Level, Straight

\* The steps that touch neither the channels' readings nor the updates.
LEMMA LevelKept ==
  ASSUME TypeOK, TypeOK', Level, UNCHANGED <<answers, sent, cache, update, synchronized>>,
         ~skewed' => ~skewed, acquiring' = 1 \/ ws' = "taken" => acquiring = 1 \/ ws = "taken"
  PROVE  Level'
  <1>1. PICK s : /\ AdcChain(s, answers, sent)
                 /\ acquiring = 1 \/ ws = "taken" => \E x : Joined(x, s[0])
    BY DEF Level
  <1>2. AdcChain(s, answers', sent')
    BY <1>1
  <1>3. Full' = Full
    BY DEF Full
  <1>4. ASSUME NEW x, Joined(x, s[0]) PROVE Joined(x, s[0])'
    BY <1>3, <1>4 DEF Joined
  <1> QED BY <1>1, <1>2, <1>4 DEF Level

LEMMA LevelServer == ASSUME TypeOK, TypeOK', Lines, Fresh, Level, Server PROVE Level'
  <1>1. /\ sent \in Ends /\ sent' \in Ends /\ answers \in Seq(Updates)
        /\ \A c \in Channels : sent[c] \in Nat /\ sent'[c] \in Nat
    BY DEF TypeOK, Ends
  <1>2. UNCHANGED <<acquiring, cache, synchronized, update, ws, skewed>>
    BY DEF Server, Answers, Subscribes, caches, thread, history
  <1>3. Full' = Full
    BY <1>2 DEF Full
  <1>4. CASE Answers
    <2>1. PICK s : /\ AdcChain(s, answers, sent)
                   /\ acquiring = 1 \/ ws = "taken" => \E x : Joined(x, s[0])
      BY DEF Level
    <2>2. PICK u \in Updates :
            /\ answers' = Append(answers, u)
            /\ \A c \in Channels : sent[c] <= sent'[c] /\ u.adc[c] = Times(sent[c], sent'[c])
      <3>1. CASE answers' = Append(answers, NoData) /\ sent' = sent
        <4>1. \A c \in Channels : sent[c] <= sent[c] /\ Times(sent[c], sent[c]) = <<>>
          BY <1>1, NoTimes
        <4> QED BY <3>1, <4>1, NoDataIs
      <3>2. CASE ~(answers' = Append(answers, NoData) /\ sent' = sent)
        <4>1. PICK upto \in [Channels -> 0..now] :
                /\ \A c \in Channels : upto[c] >= sent[c]
                /\ answers' = Append(answers,
                     [adc  |-> [c \in Channels |-> Times(sent[c], upto[c])],
                      gate |-> GateEvents(gateSent, now)])
                /\ sent' = upto
          BY <1>4, <3>2 DEF Answers
        <4>2. now \in Nat /\ gateSent \in Int
          BY DEF TypeOK
        <4>3. [c \in Channels |-> Times(sent[c], upto[c])] \in [Channels -> Seq(Nat)]
          <5>1. \A c \in Channels : upto[c] \in Nat
            BY <1>1, <4>1
          <5>2. \A c \in Channels : Times(sent[c], upto[c]) \in Seq(Nat)
            BY <1>1, <5>1, TimesAre
          <5> QED BY <5>2
        <4>4. GateEvents(gateSent, now) \subseteq Gates
          BY <4>2, GateEventsAre
        <4> DEFINE u == [adc  |-> [c \in Channels |-> Times(sent[c], upto[c])],
                         gate |-> GateEvents(gateSent, now)]
        <4>5. u \in Updates
          BY <4>3, <4>4 DEF Updates
        <4>6. \A c \in Channels : u.adc[c] = Times(sent[c], upto[c])
          OBVIOUS
        <4>7. \A c \in Channels : sent[c] <= upto[c]
          BY <1>1, <4>1
        <4>8. answers' = Append(answers, u)
          BY <4>1
        <4> HIDE DEF u
        <4> QED BY <4>1, <4>5, <4>6, <4>7, <4>8
      <3> QED BY <3>1, <3>2
    <2>3. \E z : AdcChain(z, Append(answers, u), sent') /\ z[0] = s[0]
      BY <1>1, <2>1, <2>2, ChainAppend
    <2>4. PICK z : AdcChain(z, answers', sent') /\ z[0] = s[0]
      BY <2>2, <2>3
    <2>5. ASSUME NEW x, Joined(x, s[0]) PROVE Joined(x, s[0])'
      BY <1>2, <1>3, <2>5 DEF Joined
    <2>6. acquiring' = 1 \/ ws' = "taken" => \E x : Joined(x, z[0])'
      BY <1>2, <2>1, <2>4, <2>5
    <2> QED BY <2>4, <2>6 DEF Level
  <1>5. CASE Subscribes /\ Head(toServer) = "subscribe"
    <2>1. toServer # <<>> /\ answers' = answers /\ sent' = [c \in Channels |-> now]
      BY <1>5 DEF Subscribes
    <2>2. toServer \in Seq(Requests)
      BY DEF TypeOK
    <2>3. Has(toServer, "subscribe")
      BY <1>5, <2>1, <2>2, HasTail
    <2>4. /\ \A i \in 1..Len(answers) : answers[i] = NoData
          /\ update = NoData /\ cache = [c \in Channels |-> <<>>]
      BY <2>3 DEF Fresh
    <2>5. PICK s : AdcChain(s, answers', sent') /\ s[0] = sent'
      BY <1>1, <2>1, <2>4, ChainOfNothing
    <2>6. \A c \in Channels : sent'[c] = now /\ now \in Nat
      BY <2>1 DEF TypeOK
    <2>7. Full' = [c \in Channels |-> <<>>]
      BY <1>3, <2>4, NothingFull
    <2>8. \A c \in Channels : Times(now, now) = <<>> /\ now <= now
      BY <2>6, NoTimes
    <2>9. PICK y \in Ends : y = sent'
      BY <1>1
    <2>10. Joined(y, y)'
      BY <2>6, <2>7, <2>8, <2>9 DEF Joined
    <2> QED BY <2>5, <2>9, <2>10 DEF Level
  <1>6. CASE Subscribes /\ Head(toServer) # "subscribe"
    <2>1. UNCHANGED <<answers, sent>>
      BY <1>6 DEF Subscribes
    <2> QED BY <1>2, <2>1, LevelKept
  <1> QED BY <1>4, <1>5, <1>6 DEF Server

LEMMA LevelTakes == ASSUME TypeOK, TypeOK', Level, WsTakes PROVE Level'
  <1>1. /\ answers \in Seq(Updates) /\ answers # <<>> /\ answers' = Tail(answers)
        /\ UNCHANGED <<sent, acquiring, cache, synchronized, skewed>>
        /\ ws = "idle" /\ update = NoData
        /\ IF acquiring = 1 THEN ws' = "taken" /\ update' = Head(answers)
                            ELSE UNCHANGED <<ws, update>>
    BY DEF WsTakes, TypeOK, fx4, caches, history
  <1>2. PICK s : /\ AdcChain(s, answers, sent)
                 /\ acquiring = 1 \/ ws = "taken" => \E x : Joined(x, s[0])
    BY DEF Level
  <1>3. /\ s[0] \in Ends /\ s[1] \in Ends
        /\ \A c \in Channels : /\ s[0][c] <= s[1][c]
                               /\ Head(answers).adc[c] = Times(s[0][c], s[1][c])
    BY <1>1, <1>2, ChainTail
  <1>4. PICK z : AdcChain(z, answers', sent') /\ z[0] = s[1]
    BY <1>1, <1>2, ChainTail
  <1>5. CASE acquiring = 1
    <2>1. PICK x : Joined(x, s[0])
      BY <1>2, <1>5
    <2>2. update' = Head(answers)
      BY <1>1, <1>5
    <2>3. ASSUME NEW c \in Channels
          PROVE  x[c] <= s[1][c] /\ Full'[c] = Times(x[c], s[1][c])
      <3>1. /\ x[c] \in Nat /\ s[0][c] \in Nat /\ s[1][c] \in Nat
            /\ x[c] <= s[0][c] /\ s[0][c] <= s[1][c]
        BY <1>3, <2>1, JoinedIs DEF Ends
      <3>2. cache[c] = Times(x[c], s[0][c])
        BY <1>1, <2>1, FullWithout DEF Joined
      <3>3. update'.adc[c] = Times(s[0][c], s[1][c])
        BY <1>3, <2>2
      <3>4. Times(x[c], s[0][c]) \o Times(s[0][c], s[1][c]) = Times(x[c], s[1][c])
        BY <3>1, TimesJoin
      <3>5. Full'[c] = cache[c] \o update'.adc[c]
        BY <1>1 DEF Full
      <3>6. Full'[c] = Times(x[c], s[1][c])
        BY ONLY <3>2, <3>3, <3>4, <3>5, Zenon
      <3> QED BY <3>1, <3>6
    <2>4. Joined(x, s[1])'
      BY <1>1, <2>1, <2>3 DEF Joined
    <2> QED BY <1>4, <2>4 DEF Level
  <1>6. CASE acquiring # 1
    <2>1. acquiring' # 1 /\ ws' # "taken"
      BY <1>1, <1>6
    <2> QED BY <1>4, <2>1 DEF Level
  <1> QED BY <1>5, <1>6

LEMMA LevelStep ==
  ASSUME TypeOK, TypeOK', Lines, Fresh, Level, [Next]_vars, clean' PROVE Level'
  <1>1. ~skewed' => ~skewed
    BY CleanWas
  <1>2. CASE Server
    BY <1>2, LevelServer
  <1>3. CASE WsTakes
    BY <1>3, LevelTakes
  <1>4. CASE WsMerges
    <2>1. PICK s : /\ AdcChain(s, answers, sent)
                   /\ acquiring = 1 \/ ws = "taken" => \E x : Joined(x, s[0])
      BY DEF Level
    <2>2. UNCHANGED <<answers, sent>> /\ ws = "taken"
      BY <1>4, MergesIs DEF fx4, socket
    <2>3. PICK x : Joined(x, s[0])
      BY <2>1, <2>2
    <2>4. s[0] \in Ends
      <3>1. Len(answers) \in Nat
        BY DEF TypeOK
      <3> QED BY <2>1, <3>1 DEF AdcChain
    <2>5. \E z : Joined(z, s[0])'
      BY <1>4, <2>3, <2>4, LevelMerge
    <2>6. AdcChain(s, answers', sent')
      BY <2>1, <2>2
    <2> QED BY <2>5, <2>6 DEF Level
  <1>5. CASE WriteAcquire1
    <2>1. PICK s : AdcChain(s, answers, sent)
      BY DEF Level
    <2>2. /\ UNCHANGED <<answers, sent, update>> /\ update = NoData
          /\ cache' = [c \in Channels |-> <<>>] /\ ~synchronized'
      BY <1>5, CleanStart DEF fx4, thread
    <2>3. s[0] \in Ends
      <3>1. Len(answers) \in Nat
        BY DEF TypeOK
      <3> QED BY <2>1, <3>1 DEF AdcChain
    <2>4. ASSUME NEW c \in Channels
          PROVE  s[0][c] <= s[0][c] /\ Full'[c] = Times(s[0][c], s[0][c])
      <3>1. s[0][c] \in Nat
        BY <2>3 DEF Ends
      <3>2. Times(s[0][c], s[0][c]) = <<>>
        BY <3>1, NoTimes
      <3>3. cache'[c] = <<>> /\ cache' \in [Channels -> Seq(Nat)] /\ update' = NoData
        BY <2>2 DEF TypeOK
      <3>4. Full'[c] = <<>>
        BY <3>3, NoMore DEF Full
      <3> QED BY <3>1, <3>2, <3>4
    <2>5. Joined(s[0], s[0])'
      BY <2>2, <2>3, <2>4 DEF Joined
    <2>6. AdcChain(s, answers', sent')
      BY <2>1, <2>2
    <2> QED BY <2>5, <2>6 DEF Level
  <1>6. CASE Websocket /\ ~WsTakes /\ ~WsMerges
    <2>1. UNCHANGED <<answers, sent, cache, update, synchronized, acquiring>> /\ ws' # "taken"
      BY <1>6 DEF Websocket, WsWalksGate, WsClaims, WsWalksReading, WsEnds, Walks, fx4, socket,
         caches
    <2> QED BY <1>1, <2>1, LevelKept
  <1>7. CASE (Port /\ ~WriteAcquire1) \/ Tick \/ Task \/ Poll \/ UNCHANGED vars
    <2>1. UNCHANGED <<answers, sent, cache, update, synchronized, ws>>
          /\ acquiring' \in {0, acquiring}
      <3>1. CASE WriteAcquire0 \/ Task \/ \E m \in Modes : WriteAcquireMode(m)
        BY <3>1 DEF WriteAcquire0, Task, WriteAcquireMode, Stop, fx4, caches, thread
      <3>2. CASE \/ Tick \/ Poll \/ UNCHANGED vars \/ WriteAveragingTime \/ ReadData
                 \/ \E t \in TriggerModes, p \in Polarities : WriteTrigger(t, p)
        BY <3>2 DEF Tick, Poll, vars, WriteAveragingTime, ReadData, WriteTrigger, fx4, socket,
           caches, thread
      <3> QED BY <1>7, <3>1, <3>2 DEF Port
    <2> QED BY <1>1, <2>1, LevelKept
  <1> QED BY <1>2, <1>3, <1>4, <1>5, <1>6, <1>7 DEF Next

LEMMA StraightStep ==
  ASSUME TypeOK, TypeOK', Level, Straight, [Next]_vars PROVE Straight'
  <1>1. ~skewed' => ~skewed
    BY CleanWas
  <1>2. CASE list' \subseteq list
    BY <1>1, <1>2 DEF Straight
  <1>3. CASE WsMerges /\ Joins
    <2>1. PICK s : /\ AdcChain(s, answers, sent)
                   /\ acquiring = 1 \/ ws = "taken" => \E x : Joined(x, s[0])
      BY DEF Level
    <2>2. PICK x : Joined(x, s[0])
      BY <1>3, <2>1, MergesIs
    <2>3. s[0] \in Ends
      <3>1. Len(answers) \in Nat
        BY DEF TypeOK
      <3> QED BY <2>1, <3>1 DEF AdcChain
    <2> QED BY <1>3, <2>2, <2>3, StraightMerge DEF Straight
  <1>4. CASE WsMerges /\ ~Joins
    <2>1. list' = list
      BY <1>4, MergesIs
    <2> QED BY <1>2, <2>1
  <1>5. CASE Websocket /\ ~WsMerges
    <2>1. list' \subseteq list
      BY <1>5 DEF Websocket, WsTakes, WsWalksGate, WsClaims, WsWalksReading, WsEnds, Walks
    <2> QED BY <1>2, <2>1
  <1>6. CASE Port \/ Server \/ Tick \/ Task \/ Poll \/ UNCHANGED vars
    <2>1. list' = list
      BY <1>6 DEF Port, WriteAcquire1, WriteAcquire0, WriteTrigger, WriteAcquireMode,
         WriteAveragingTime, ReadData, Server, Answers, Subscribes, Tick, Task, Poll, vars,
         thread
    <2> QED BY <1>2, <2>1
  <1> QED BY <1>3, <1>4, <1>5, <1>6 DEF Next

\* What goes wrong in this part of the merge is noted as "times".
LEMMA AlignedStep ==
  ASSUME TypeOK, clean => Straight, [Next]_vars, "times" \notin wrongs
  PROVE  "times" \notin wrongs'
  <1>1. ASSUME NEW e \in list, WsWalksReading(e) PROVE "times" \notin wrongs'
    <2>1. wrongs' = wrongs \/ Note(BadReading(e))
      BY <1>1 DEF WsWalksReading, BadReading
    <2>2. e.kind = "adc"
      BY <1>1 DEF WsWalksReading
    <2>3. clean /\ ~skewed => Cardinality(e.times) = 1
      <3>1. Cardinality({e.time}) = 1
        BY FS_Singleton
      <3> QED BY <2>2, <3>1 DEF Straight
    <2>4. clean => "times" \notin BadReading(e)
      BY <2>3 DEF BadReading
    <2> QED BY <2>1, <2>4, NotNoted
  <1>2. ASSUME NEW e \in list, WsWalksGate(e) PROVE "times" \notin wrongs'
    <2>1. wrongs' = wrongs \/ Note(BadGate(e))
      BY <1>2 DEF WsWalksGate, BadGate
    <2>2. "times" \notin BadGate(e)
      BY DEF BadGate
    <2> QED BY <2>1, <2>2, NotNoted
  <1>3. CASE WsTakes \/ WsMerges \/ WsClaims \/ WsEnds
    BY <1>3 DEF WsTakes, WsMerges, WsClaims, WsEnds, history
  <1>4. CASE Port \/ Server \/ Tick \/ Task \/ Poll \/ UNCHANGED vars
    BY <1>4 DEF Port, WriteAcquire1, WriteAcquire0, WriteTrigger, WriteAcquireMode,
       WriteAveragingTime, ReadData, Server, Answers, Subscribes, Tick, Task, Poll, vars,
       history
  <1> QED BY <1>1, <1>2, <1>3, <1>4 DEF Next, Websocket

\* The channels' part of the invariant.
Channelled == clean => Lines /\ Fresh /\ Level /\ Straight

-----------------------------------------------------------------------------
(***************************************************************************)
(* The gate.  If no reading lags, each update is whole: the readings and   *)
(* the gate's changes of the same stretch of time.  Then the list that is  *)
(* walked is that of one stretch, and the walk follows the signal: up to w *)
(* in the readings and up to v in the gate's changes.                      *)
(***************************************************************************)
From(p) == IF p < since THEN since ELSE p

Whole(p, q) ==
  [adc |-> [c \in Channels |-> Times(From(p), From(q))], gate |-> GateEvents(p, q)]

GateChain(g, a, last) ==
  /\ g \in [0..Len(a) -> Int] /\ g[Len(a)] = last /\ since - 1 <= g[0]
  /\ \A i \in 0..Len(a) : g[i] <= now
  /\ \A i \in 1..Len(a) : g[i - 1] <= g[i] /\ a[i] = Whole(g[i - 1], g[i])

\* The times at which the gate is open, and those at which a batch may begin.
Open   == {t \in 1..now : levels[t] = polarity}
Starts == {t \in 1..now : Begins(t)}

Event(t)      == [kind |-> "gate", time |-> t, level |-> levels[t]]
ReadingOf(t)  == [kind |-> "adc", time |-> t, times |-> {t}]
Changes(t)    == t >= 1 /\ (t \in {1, since} \/ levels[t] # levels[t - 1])
Rows(w, b)    == {ReadingOf(t) : t \in w + 1..b}

\* The batch of a bulb gate is of all readings since the gate opened.
Bulb(w, v) ==
  triggerMode = "ExtBulb" =>
    /\ ring = <<>> => \/ w = since \/ w \notin Open
                      \/ v = w + 1 /\ w + 1 \notin Open
    /\ ring # <<>> => /\ Row(ring) /\ ring[1] \in Starts /\ ring[Len(ring)] = w
                      /\ \A i \in 1..Len(ring) : ring[i] \in Open
                      /\ v = w + 1 => w + 1 \in Open

\* The window of a trigger is open after one.
Triggered(w) ==
  triggerMode = "ExtTrigger" /\ triggerActive =>
    /\ numTriggerValues = 0 => w + 1 \in Starts
    /\ numTriggerValues > 0 =>
         \/ \E i \in 2..Len(ring) : ring[i] \in Starts
         \/ ring # <<>> /\ Row(ring) /\ ring[1] \in Starts /\ ring[Len(ring)] = w
         \/ numTriggerValues > Len(ring)

\* The walk is at w in the readings and at v in the gate's changes.
At(w, v) ==
  /\ since <= w /\ w <= now /\ since - 1 <= v /\ v <= now
  /\ w - 1 <= v /\ v <= w + 1
  /\ v >= 1 /\ v >= since => gateLevel = levels[v]
  /\ v < w => w = since /\ ring = <<>> /\ ~triggerActive
  /\ Bulb(w, v) /\ Triggered(w)
  /\ \A i \in 1..Len(ring) : 1 <= ring[i] /\ ring[i] <= w

Walking(w, v, b) ==
  /\ w <= b /\ v <= b /\ (v < w => w < b)
  /\ list = Rows(w, b) \cup GateEvents(v, b) /\ At(w, v)

\* So it is between two updates.
Resting(p) == \E w \in Int : w = From(p) /\ At(w, p)

Taken(p, b) ==
  p <= b /\ update = Whole(p, b) /\ (Has(toServer, "subscribe") \/ Resting(p))

Followed(b) ==
  /\ ws = "taken" => \E p \in Int : Taken(p, b)
  /\ ws \in {"walking", "claiming"} => \E w, v \in Int : Walking(w, v, b)
  /\ (ws \in {"idle", "done"} /\ acquiring = 1 /\ ~Has(toServer, "subscribe")) =>
       Resting(b)

Neat ==
  /\ \A c \in Channels : sent[c] = From(gateSent)
  /\ cache = [c \in Channels |-> <<>>]
  /\ \E g : GateChain(g, answers, gateSent) /\ Followed(g[0])

LEMMA EventsOf ==
  ASSUME NEW a \in Int, NEW b \in Int
  PROVE  /\ \A e \in GateEvents(a, b) : /\ e.time \in a + 1..b /\ e = Event(e.time)
                                        /\ Changes(e.time) /\ e.kind = "gate"
                                        /\ e.level = levels[e.time]
         /\ \A t \in a + 1..b : Changes(t) => Event(t) \in GateEvents(a, b)
         /\ \A t \in Int : Event(t).time = t /\ Event(t).kind = "gate"
  BY DEF GateEvents, Event, Changes

LEMMA RowsOf ==
  ASSUME NEW w \in Int, NEW b \in Int
  PROVE  /\ \A e \in Rows(w, b) : /\ e.time \in w + 1..b /\ e = ReadingOf(e.time)
                                  /\ e.kind = "adc" /\ e.times = {e.time}
         /\ \A t \in w + 1..b : ReadingOf(t) \in Rows(w, b)
         /\ \A t \in Int : ReadingOf(t).time = t /\ ReadingOf(t).kind = "adc"
  <1>1. ASSUME NEW t \in Int
        PROVE  /\ ReadingOf(t).time = t /\ ReadingOf(t).kind = "adc"
               /\ ReadingOf(t).times = {t}
    BY DEF ReadingOf
  <1>2. ASSUME NEW e \in Rows(w, b)
        PROVE  /\ e.time \in w + 1..b /\ e = ReadingOf(e.time)
               /\ e.kind = "adc" /\ e.times = {e.time}
    <2>1. PICK t \in w + 1..b : e = ReadingOf(t)
      BY DEF Rows
    <2> QED BY <1>1, <2>1
  <1>3. \A t \in w + 1..b : ReadingOf(t) \in Rows(w, b)
    BY DEF Rows
  <1> QED BY <1>1, <1>2, <1>3

\* When a batch may begin.
LEMMA StartsAre ==
  ASSUME TypeOK, NEW t \in Nat, 1 <= t, t <= now
  PROVE  /\ t \in Starts <=> Begins(t)
         /\ t \in Open <=> levels[t] = polarity
         /\ t \in Open /\ (t = 1 \/ t - 1 \notin Open) => t \in Starts
         /\ t = since + 1 /\ since > 0 /\ since \in Open => t \in Starts
  <1>1. now \in Nat /\ since \in Nat /\ t \in 1..now
    BY DEF TypeOK
  <1>2. (t \in Starts <=> Begins(t)) /\ (t \in Open <=> levels[t] = polarity)
    BY <1>1 DEF Starts, Open
  <1>3. t # 1 /\ t - 1 \notin Open => levels[t - 1] # polarity
    BY <1>1 DEF Open
  <1>4. since \in Open => levels[since] = polarity
    BY DEF Open
  <1> QED BY <1>2, <1>3, <1>4 DEF Begins

LEMMA FromIs ==
  ASSUME TypeOK, NEW p \in Int
  PROVE  /\ From(p) \in Nat /\ since <= From(p) /\ p <= From(p)
         /\ p >= since => From(p) = p
         /\ p < since => From(p) = since
         /\ \A q \in Int : p <= q => From(p) <= From(q)
         /\ p <= now => From(p) <= now
  BY DEF TypeOK, From

\* An update without data is a whole one of no time.
LEMMA WholeOfNothing ==
  ASSUME TypeOK, NEW p \in Int
  PROVE  Whole(p, p) = NoData
  <1>1. Times(From(p), From(p)) = <<>>
    BY FromIs, NoTimes
  <1>2. GateEvents(p, p) = {}
    <2>1. \A u : u \notin p + 1..p
      OBVIOUS
    <2> QED BY <2>1, EventsOf
  <1> QED BY <1>1, <1>2 DEF Whole, NoData

-----------------------------------------------------------------------------
(***************************************************************************)
(* The next event of the list.                                             *)
(***************************************************************************)
\* Where the walk has come, in figures.
LEMMA WalkIs ==
  ASSUME TypeOK, NEW w \in Int, NEW v \in Int, NEW b \in Int, b <= now, Walking(w, v, b)
  PROVE  /\ w \in Nat /\ since <= w /\ w <= b /\ v <= b /\ w - 1 <= v /\ v <= w + 1
         /\ since - 1 <= v /\ since \in Nat /\ now \in Nat
         /\ v < w => w = since /\ ring = <<>> /\ ~triggerActive /\ w < b
         /\ v >= 1 /\ v >= since => gateLevel = levels[v]
  BY DEF TypeOK, Walking, At

LEMMA NextGate ==
  ASSUME TypeOK, NEW w \in Int, NEW v \in Int, NEW b \in Int, b <= now, Walking(w, v, b),
         NEW e \in list, Walks(e), e.kind = "gate"
  PROVE  /\ e.level = levels[e.time] /\ e.time \in Nat /\ 1 <= e.time /\ e.time <= b
         /\ Changes(e.time)
         /\ (e.time = w + 1 /\ v <= w) \/ (e.time = w /\ v = w - 1)
         /\ list' = Rows(w, b) \cup GateEvents(e.time, b)
  <1>1. /\ w \in Nat /\ since <= w /\ w <= b /\ v <= b /\ w - 1 <= v /\ v <= w + 1
        /\ since \in Nat /\ (v < w => w = since) /\ now \in Nat
    BY WalkIs
  <1>2. list = Rows(w, b) \cup GateEvents(v, b) /\ list' = list \ {e}
    BY DEF Walking, Walks
  <1>3. e \in GateEvents(v, b)
    BY <1>2, RowsOf
  <1> DEFINE t == e.time
  <1>4. /\ t \in v + 1..b /\ e = Event(t) /\ Changes(t) /\ e.level = levels[t]
    BY <1>3, EventsOf
  <1>5. t \in Nat /\ 1 <= t /\ t <= b
    BY <1>4 DEF Changes
  <1>6. \A f \in list : ~(f.time < t)
    BY DEF Walks, Earlier
  <1>7. t <= w + 1
    <2> SUFFICES ASSUME t > w + 1 PROVE FALSE
      BY <1>1, <1>5
    <2>1. w + 1 \in w + 1..b
      BY <1>1, <1>5
    <2>2. ReadingOf(w + 1) \in list /\ ReadingOf(w + 1).time = w + 1
      BY <1>1, <1>2, <2>1, RowsOf
    <2> QED BY <1>1, <1>6, <2>2
  <1>8. ASSUME NEW u \in v + 1..b, Changes(u) PROVE t <= u
    <2>1. Event(u) \in list /\ Event(u).time = u
      BY <1>2, <1>8, EventsOf
    <2> QED BY <1>5, <1>6, <2>1
  <1>9. (t = w + 1 /\ v <= w) \/ (t = w /\ v = w - 1)
    BY <1>1, <1>4, <1>7
  <1>10. list' = Rows(w, b) \cup GateEvents(t, b)
    <2>1. ASSUME NEW f \in list' PROVE f \in Rows(w, b) \cup GateEvents(t, b)
      <3>1. f # e /\ (f \in Rows(w, b) \/ f \in GateEvents(v, b))
        BY <1>2
      <3>2. CASE f \in GateEvents(v, b)
        <4>1. f.time \in v + 1..b /\ f = Event(f.time) /\ Changes(f.time)
          BY <3>2, EventsOf
        <4>2. t <= f.time /\ f.time # t
          BY <1>4, <1>8, <3>1, <4>1
        <4>3. f.time \in t + 1..b
          BY <1>5, <4>1, <4>2
        <4> QED BY <1>5, <4>1, <4>3, EventsOf
      <3> QED BY <3>1, <3>2
    <2>2. ASSUME NEW f \in Rows(w, b) PROVE f \in list'
      <3>1. f.kind = "adc"
        BY RowsOf
      <3> QED BY <1>2, <3>1
    <2>3. ASSUME NEW f \in GateEvents(t, b) PROVE f \in list'
      <3>1. f.time \in t + 1..b /\ f = Event(f.time) /\ Changes(f.time)
        BY <1>5, EventsOf
      <3>2. f.time \in v + 1..b /\ f.time # t
        BY <1>4, <1>5, <3>1
      <3>3. f \in GateEvents(v, b)
        BY <3>1, <3>2, EventsOf
      <3> QED BY <1>2, <3>2, <3>3
    <2> QED BY <2>1, <2>2, <2>3
  <1> QED BY <1>4, <1>5, <1>9, <1>10

LEMMA NextReading ==
  ASSUME TypeOK, NEW w \in Int, NEW v \in Int, NEW b \in Int, b <= now, Walking(w, v, b),
         NEW e \in list, Walks(e), e.kind = "adc"
  PROVE  /\ e.time = w + 1 /\ w + 1 <= b /\ e.times = {w + 1}
         /\ v = w \/ v = w + 1
         /\ v = w => w >= 1 /\ levels[w + 1] = levels[w]
         /\ list' = Rows(w + 1, b) \cup GateEvents(w + 1, b)
  <1>1. /\ w \in Nat /\ since <= w /\ w <= b /\ v <= b /\ w - 1 <= v /\ v <= w + 1
        /\ since \in Nat /\ (v < w => w = since) /\ now \in Nat
    BY WalkIs
  <1>2. list = Rows(w, b) \cup GateEvents(v, b) /\ list' = list \ {e}
    BY DEF Walking, Walks
  <1>3. e \in Rows(w, b)
    BY <1>2, EventsOf
  <1>4. e.time \in w + 1..b /\ e = ReadingOf(e.time) /\ e.times = {e.time}
    BY <1>3, RowsOf
  <1>5. \A f \in list : ~(f.time < e.time) /\ ~(f.time = e.time /\ f.kind = "gate")
    BY <1>3, RowsOf DEF Walks, Earlier
  <1>6. e.time = w + 1 /\ w + 1 <= b
    <2>1. w + 1 \in w + 1..b
      BY <1>1, <1>4
    <2>2. ReadingOf(w + 1) \in list /\ ReadingOf(w + 1).time = w + 1
      BY <1>1, <1>2, <2>1, RowsOf
    <2> QED BY <1>1, <1>4, <1>5, <2>2
  <1>7. ASSUME NEW u \in v + 1..b, Changes(u) PROVE u > w + 1
    <2>1. Event(u) \in list /\ Event(u).time = u /\ Event(u).kind = "gate"
      BY <1>2, <1>7, EventsOf
    <2> QED BY <1>1, <1>5, <1>6, <2>1
  <1>8. v = w \/ v = w + 1
    <2> SUFFICES ASSUME v = w - 1 PROVE FALSE
      BY <1>1
    <2>1. CASE w = 0
      <3>1. 1 \in v + 1..b /\ Changes(1)
        BY <1>1, <1>6, <2>1 DEF Changes
      <3> QED BY <1>7, <2>1, <3>1
    <2>2. CASE w # 0
      <3>1. w \in v + 1..b /\ Changes(w)
        BY <1>1, <1>6, <2>2 DEF Changes
      <3> QED BY <1>1, <1>7, <3>1
    <2> QED BY <2>1, <2>2
  <1>9. v = w => w >= 1 /\ levels[w + 1] = levels[w]
    <2> SUFFICES ASSUME v = w PROVE w >= 1 /\ levels[w + 1] = levels[w]
      OBVIOUS
    <2>1. w + 1 \in v + 1..b
      BY <1>1, <1>6
    <2>2. ~Changes(w + 1)
      BY <1>1, <1>7, <2>1
    <2>3. w + 1 >= 1 /\ (w + 1) - 1 = w
      BY <1>1
    <2> QED BY <1>1, <2>2, <2>3 DEF Changes
  <1>10. ASSUME NEW f \in list' PROVE f \in Rows(w + 1, b) \cup GateEvents(w + 1, b)
    <2>1. f # e /\ (f \in Rows(w, b) \/ f \in GateEvents(v, b))
      BY <1>2
    <2>2. CASE f \in Rows(w, b)
      <3>1. f.time \in w + 1..b /\ f = ReadingOf(f.time)
        BY <2>2, RowsOf
      <3>2. f.time # w + 1
        BY <1>4, <1>6, <2>1, <3>1
      <3>3. f.time \in (w + 1) + 1..b /\ w + 1 \in Int
        BY <1>1, <3>1, <3>2
      <3>4. ReadingOf(f.time) \in Rows(w + 1, b)
        BY <3>3, RowsOf
      <3> QED BY <3>1, <3>4
    <2>3. CASE f \in GateEvents(v, b)
      <3>1. f.time \in v + 1..b /\ f = Event(f.time) /\ Changes(f.time)
        BY <2>3, EventsOf
      <3>2. f.time \in (w + 1) + 1..b /\ w + 1 \in Int
        BY <1>1, <1>7, <3>1
      <3>3. Event(f.time) \in GateEvents(w + 1, b)
        BY <3>1, <3>2, EventsOf
      <3> QED BY <3>1, <3>3
    <2> QED BY <2>1, <2>2, <2>3
  <1>11. ASSUME NEW f \in Rows(w + 1, b) PROVE f \in list'
    <2>1. f.time \in (w + 1) + 1..b /\ f = ReadingOf(f.time)
      BY <1>1, RowsOf
    <2>2. f.time \in w + 1..b /\ f.time # e.time
      BY <1>1, <1>6, <2>1
    <2>3. ReadingOf(f.time) \in Rows(w, b)
      BY <2>2, RowsOf
    <2> QED BY <1>2, <2>1, <2>2, <2>3
  <1>12. ASSUME NEW f \in GateEvents(w + 1, b) PROVE f \in list'
    <2>1. f.time \in (w + 1) + 1..b /\ f = Event(f.time) /\ Changes(f.time) /\ f.kind = "gate"
      BY <1>1, EventsOf
    <2>2. f.time \in v + 1..b
      BY <1>1, <1>8, <2>1
    <2>3. Event(f.time) \in GateEvents(v, b)
      BY <2>1, <2>2, EventsOf
    <2> QED BY <1>2, <2>1, <2>3
  <1> QED BY <1>4, <1>6, <1>8, <1>9, <1>10, <1>11, <1>12

-----------------------------------------------------------------------------
(***************************************************************************)
(* The walk along the list.                                                *)
(***************************************************************************)
LEMMA SignalKept ==
  ASSUME UNCHANGED <<now, levels, since>>
  PROVE  /\ \A a, b : GateEvents(a, b)' = GateEvents(a, b)
         /\ \A p : From(p)' = From(p)
         /\ \A p, q : Whole(p, q)' = Whole(p, q)
         /\ \A w, b : Rows(w, b)' = Rows(w, b)
         /\ UNCHANGED polarity => Open' = Open /\ Starts' = Starts
  <1>1. ASSUME NEW a, NEW b PROVE GateEvents(a, b)' = GateEvents(a, b)
    BY DEF GateEvents
  <1>2. ASSUME NEW p PROVE From(p)' = From(p)
    BY DEF From
  <1>3. ASSUME NEW p, NEW q PROVE Whole(p, q)' = Whole(p, q)
    BY <1>1, <1>2 DEF Whole
  <1>4. ASSUME NEW w, NEW b PROVE Rows(w, b)' = Rows(w, b)
    BY DEF Rows, ReadingOf
  <1>5. UNCHANGED polarity => Open' = Open /\ Starts' = Starts
    BY DEF Open, Starts, Begins
  <1> QED BY <1>1, <1>2, <1>3, <1>4, <1>5

\* A gate change that the walk comes to.
LEMMA WalkGate ==
  ASSUME TypeOK, TypeOK', Counted, clean, NEW w \in Int, NEW v \in Int, NEW b \in Int,
         b <= now, Walking(w, v, b), NEW e \in list, WsWalksGate(e)
  PROVE  \E t \in Int : Walking(w, t, b)'
  <1> DEFINE t == e.time
  <1>1. Walks(e) /\ e.kind = "gate" /\ ws = "walking"
    BY DEF WsWalksGate, Walks
  <1>2. /\ e.level = levels[t] /\ t \in Nat /\ 1 <= t /\ t <= b
        /\ Changes(t)
        /\ (t = w + 1 /\ v <= w) \/ (t = w /\ v = w - 1)
        /\ list' = Rows(w, b) \cup GateEvents(t, b)
    BY <1>1, NextGate
  <1>3. /\ w \in Nat /\ since <= w /\ w <= b /\ since \in Nat /\ now \in Nat
        /\ v < w => w = since /\ ring = <<>> /\ ~triggerActive /\ w < b
    BY WalkIs
  <1>4. PICK u \in Int : u = t
    BY <1>2
  <1>5. UNCHANGED <<now, levels, since, polarity, triggerMode>>
    BY DEF WsWalksGate, fx4, settings
  <1>6. Open' = Open /\ Starts' = Starts
    BY <1>5, SignalKept
  <1>7. list' = (Rows(w, b) \cup GateEvents(u, b))'
    BY <1>2, <1>4, <1>5, SignalKept
  <1>8. /\ gateLevel' = e.level
        /\ \/ triggerMode = "ExtTrigger" /\ Active(e) /\ triggerActive' /\ numTriggerValues' = 0
           \/ /\ ~(triggerMode = "ExtTrigger" /\ Active(e))
              /\ UNCHANGED <<triggerActive, numTriggerValues>>
        /\ \/ /\ triggerMode = "ExtBulb" /\ ~Active(e) /\ rawCount > 0
              /\ ring' = RestOfRing(rawCount)
           \/ /\ ~(triggerMode = "ExtBulb" /\ ~Active(e) /\ rawCount > 0)
              /\ ring' = ring
    BY DEF WsWalksGate
  <1>9. rawCount = Len(ring) /\ ring \in Seq(Nat) /\ rawCount \in Nat
    BY <1>1 DEF Counted, TypeOK
  <1>10. RestOfRing(rawCount) = <<>>
    BY <1>9, RestIs
  <1>11. Active(e) <=> t \in Open
    <2>1. t <= now
      BY <1>2, <1>3
    <2> QED BY <1>2, <1>3, <2>1, StartsAre DEF Active
  <1>12. /\ Bulb(w, v) /\ Triggered(w) /\ \A i \in 1..Len(ring) : 1 <= ring[i] /\ ring[i] <= w
    BY DEF Walking, At
  <1>13. Bulb(w, u)'
    <2> SUFFICES ASSUME triggerMode = "ExtBulb"
                 PROVE  /\ ring' = <<>> => \/ w = since \/ w \notin Open
                                           \/ u = w + 1 /\ w + 1 \notin Open
                        /\ ring' # <<>> =>
                             /\ Row(ring') /\ ring'[1] \in Starts /\ ring'[Len(ring')] = w
                             /\ \A i \in 1..Len(ring') : ring'[i] \in Open
                             /\ u = w + 1 => w + 1 \in Open
      BY <1>5, <1>6 DEF Bulb, Row
    <2>1. CASE ring' = ring
      <3>1. ring # <<>> => rawCount > 0
        BY <1>9, EmptySeq
      <3>2. ring # <<>> /\ u = w + 1 => w + 1 \in Open
        BY <1>4, <1>8, <1>9, <1>10, <1>11, <2>1, <3>1
      <3>3. v = w + 1 => FALSE
        BY <1>2, <1>3
      <3> QED BY <1>12, <2>1, <3>2, <3>3 DEF Bulb
    <2>2. CASE ring' # ring
      <3>1. ring' = <<>> /\ ~Active(e)
        BY <1>8, <1>10, <2>2
      <3> QED BY <1>2, <1>4, <1>11, <3>1
    <2> QED BY <2>1, <2>2
  <1>14. Triggered(w)'
    <2> SUFFICES ASSUME triggerMode = "ExtTrigger", triggerActive'
                 PROVE  /\ numTriggerValues' = 0 => w + 1 \in Starts
                        /\ numTriggerValues' > 0 =>
                             \/ \E i \in 2..Len(ring') : ring'[i] \in Starts
                             \/ /\ ring' # <<>> /\ Row(ring') /\ ring'[1] \in Starts
                                /\ ring'[Len(ring')] = w
                             \/ numTriggerValues' > Len(ring')
      BY <1>5, <1>6 DEF Triggered, Row
    <2>1. ring' = ring
      BY <1>8
    <2>2. CASE Active(e)
      <3>1. numTriggerValues' = 0
        BY <1>8, <2>2
      <3>2. w + 1 \in Starts
        <4>1. CASE t = w + 1
          <5>1. t <= now /\ t \in Open
            BY <1>2, <1>3, <1>11, <2>2
          <5>2. t = 1 \/ levels[t] # levels[t - 1]
            BY <1>2, <1>3, <4>1 DEF Changes
          <5>3. t # 1 => t - 1 \notin Open
            <6> SUFFICES ASSUME t # 1, t - 1 \in Open PROVE FALSE
              OBVIOUS
            <6>1. levels[t - 1] = polarity
              BY DEF Open
            <6>2. levels[t] = polarity
              BY <5>1 DEF Open
            <6> QED BY <5>2, <6>1, <6>2
          <5> QED BY <1>2, <4>1, <5>1, <5>3, StartsAre
        <4>2. CASE t = w /\ v = w - 1
          <5>1. w = since /\ w < b /\ since \in Open /\ since > 0
            BY <1>2, <1>3, <1>11, <2>2, <4>2
          <5>2. w + 1 \in Nat /\ 1 <= w + 1 /\ w + 1 <= now
            BY <1>3, <5>1
          <5> QED BY <5>1, <5>2, StartsAre
        <4> QED BY <1>2, <4>1, <4>2
      <3> QED BY <3>1, <3>2
    <2>3. CASE ~Active(e)
      <3>1. UNCHANGED <<triggerActive, numTriggerValues>>
        BY <1>8, <2>3
      <3> QED BY <1>12, <2>1, <3>1 DEF Triggered
    <2> QED BY <2>2, <2>3
  <1>15. \A i \in 1..Len(ring') : 1 <= ring'[i] /\ ring'[i] <= w
    BY <1>8, <1>10, <1>12
  <1>16. At(w, u)'
    <2>1. since' - 1 <= u /\ u <= now' /\ w - 1 <= u /\ u <= w + 1 /\ since' <= w /\ w <= now'
      BY <1>2, <1>3, <1>4, <1>5
    <2>2. gateLevel' = levels'[u] /\ ~(u < w)
      BY <1>2, <1>3, <1>4, <1>5, <1>8
    <2> QED BY <1>13, <1>14, <1>15, <2>1, <2>2 DEF At
  <1>17. Walking(w, u, b)'
    BY <1>2, <1>3, <1>4, <1>7, <1>16 DEF Walking
  <1> QED BY <1>17

\* The batch that the end of a bulb gate announces is the whole gate.
LEMMA GateBatch ==
  ASSUME TypeOK, Counted, clean, NEW w \in Int, NEW v \in Int, NEW b \in Int, b <= now,
         Walking(w, v, b), NEW e \in list, WsWalksGate(e), triggerMode = "ExtBulb"
  PROVE  GoodBulb(ring, e.time)
  <1> SUFFICES ASSUME ring # <<>>
               PROVE  /\ Row(ring) /\ Begins(ring[1]) /\ ring[Len(ring)] = e.time - 1
                      /\ \A i \in DOMAIN ring : levels[ring[i]] = polarity
    BY DEF GoodBulb
  <1>1. e.time = w + 1
    BY NextGate, WalkIs DEF WsWalksGate
  <1>2. /\ Row(ring) /\ ring[1] \in Starts /\ ring[Len(ring)] = w
        /\ \A i \in 1..Len(ring) : ring[i] \in Open
    BY DEF Walking, At, Bulb
  <1>3. DOMAIN ring = 1..Len(ring)
    BY DEF TypeOK
  <1> QED BY <1>1, <1>2, <1>3 DEF Open, Starts

\* One more reading in a batch.
Grown(s, w, S) ==
  /\ s = <<>> => /\ Row(Append(s, w + 1)) /\ Append(s, w + 1)[1] = w + 1
                 /\ Len(Append(s, w + 1)) = 1
  /\ s # <<>> /\ Row(s) /\ s[Len(s)] = w => Row(Append(s, w + 1))
  /\ s # <<>> => Append(s, w + 1)[1] = s[1] /\ Len(s) >= 1
  /\ Append(s, w + 1) # <<>> /\ Append(s, w + 1)[Len(Append(s, w + 1))] = w + 1
  /\ (\A i \in 1..Len(s) : s[i] \in S) /\ w + 1 \in S =>
       \A i \in 1..Len(Append(s, w + 1)) : Append(s, w + 1)[i] \in S
  /\ (\E i \in 2..Len(s) : s[i] \in S) \/ (s # <<>> /\ w + 1 \in S) =>
       \E i \in 2..Len(Append(s, w + 1)) : Append(s, w + 1)[i] \in S

LEMMA RowGrows == ASSUME NEW s \in Seq(Nat), NEW w \in Nat, NEW S PROVE Grown(s, w, S)
  <1> DEFINE t == w + 1
             b == Append(s, t)
  <1>0. t \in Nat /\ t - 1 = w
    OBVIOUS
  <1> HIDE DEF t
  <1>1. /\ b \in Seq(Nat) /\ Len(b) = Len(s) + 1 /\ Len(s) \in Nat
        /\ \A i \in 1..Len(s) : b[i] = s[i]
        /\ b[Len(s) + 1] = t
    BY <1>0, AppendIs
  <1> HIDE DEF b, t
  <1>2. (s = <<>> => Len(s) = 0) /\ (s # <<>> => Len(s) >= 1)
    BY <1>1, EmptySeq
  <1>3. \A i \in 1..Len(s) : s[i] \in Nat
    OBVIOUS
  <1>4. DOMAIN b = 1..Len(b) /\ DOMAIN s = 1..Len(s)
    BY <1>1
  <1>5. ASSUME s = <<>> PROVE Row(b) /\ b[1] = t /\ Len(b) = 1
    <2>1. Len(b) = 1 /\ b[1] = t
      BY <1>1, <1>2, <1>5
    <2> QED BY <1>0, <1>4, <2>1 DEF Row
  <1>6. ASSUME s # <<>>, Row(s), s[Len(s)] = w PROVE Row(b)
    <2>1. b[1] = s[1] /\ s[1] \in Nat
      BY <1>1, <1>2, <1>3, <1>6
    <2>2. \A i \in 1..Len(s) : s[i] = s[1] + i - 1
      BY <1>4, <1>6 DEF Row
    <2>5. Len(s) \in 1..Len(s)
      BY <1>1, <1>2, <1>6
    <2>6. s[Len(s)] = s[1] + Len(s) - 1
      BY <2>2, <2>5
    <2>3. t - 1 = s[1] + Len(s) - 1
      BY ONLY <1>0, <1>6, <2>6
    <2>4. ASSUME NEW i \in 1..Len(b) PROVE b[i] = b[1] + i - 1
      <3>1. CASE i \in 1..Len(s)
        BY <1>1, <2>1, <2>2, <3>1
      <3>2. CASE i = Len(s) + 1
        BY <1>0, <1>1, <2>1, <2>3, <3>2
      <3> QED BY <1>1, <3>1, <3>2
    <2> QED BY <1>4, <2>4 DEF Row
  <1>7. s # <<>> => b[1] = s[1] /\ Len(s) >= 1
    BY <1>1, <1>2
  <1>8. b # <<>> /\ b[Len(b)] = t
    BY <1>1, EmptySeq
  <1>9. (\A i \in 1..Len(s) : s[i] \in S) /\ t \in S => \A i \in 1..Len(b) : b[i] \in S
    BY <1>1
  <1>10. (\E i \in 2..Len(s) : s[i] \in S) \/ (s # <<>> /\ t \in S) =>
           \E i \in 2..Len(b) : b[i] \in S
    <2>1. ASSUME NEW i \in 2..Len(s), s[i] \in S PROVE \E j \in 2..Len(b) : b[j] \in S
      <3>1. i \in 2..Len(b) /\ i \in 1..Len(s)
        BY <1>1
      <3> QED BY <1>1, <2>1, <3>1
    <2>2. ASSUME s # <<>>, t \in S PROVE \E j \in 2..Len(b) : b[j] \in S
      <3>1. Len(b) \in 2..Len(b)
        BY <1>1, <1>2, <2>2
      <3> QED BY <1>8, <2>2, <3>1
    <2> QED BY <2>1, <2>2
  <1> QED BY ONLY <1>5, <1>6, <1>7, <1>8, <1>9, <1>10 DEF Grown, b, t

\* The reading after the one that the walk has come to.
LEMMA WalkReadingIs ==
  ASSUME TypeOK, NEW w \in Int, NEW v \in Int, NEW b \in Int, b <= now, Walking(w, v, b),
         NEW e \in list, WsWalksReading(e)
  PROVE  /\ e.time = w + 1 /\ w + 1 <= b /\ w \in Nat /\ w + 1 \in Nat /\ w + 1 <= now
         /\ (gateLevel = polarity <=> w + 1 \in Open)
         /\ list' = Rows(w + 1, b) \cup GateEvents(w + 1, b)
         /\ v = w => (w + 1 \in Open <=> w \in Open)
         /\ v = w \/ v = w + 1
         /\ gateLevel = levels[w + 1]
  <1>1. Walks(e) /\ e.kind = "adc"
    BY DEF WsWalksReading
  <1>2. /\ e.time = w + 1 /\ w + 1 <= b
        /\ v = w \/ v = w + 1
        /\ v = w => w >= 1 /\ levels[w + 1] = levels[w]
        /\ list' = Rows(w + 1, b) \cup GateEvents(w + 1, b)
    BY <1>1, NextReading
  <1>3. /\ w \in Nat /\ since <= w /\ w <= b /\ since \in Nat /\ now \in Nat
        /\ v >= 1 /\ v >= since => gateLevel = levels[v]
    BY WalkIs
  <1>4. w + 1 \in Nat /\ 1 <= w + 1 /\ w + 1 <= now
    BY <1>2, <1>3
  <1>5. gateLevel = levels[w + 1]
    BY <1>2, <1>3
  <1>6. w + 1 \in Open <=> levels[w + 1] = polarity
    BY <1>4, StartsAre
  <1>7. v = w => (w \in Open <=> levels[w] = polarity)
    BY <1>2, <1>3, <1>4, StartsAre
  <1> QED BY <1>2, <1>3, <1>4, <1>5, <1>6, <1>7

\* What the window says of a reading that counts.
LEMMA NextTriggered ==
  ASSUME TypeOK, NEW w \in Nat, Triggered(w), triggerMode = "ExtTrigger", triggerActive
  PROVE  \/ \E i \in 2..Len(Append(ring, w + 1)) : Append(ring, w + 1)[i] \in Starts
         \/ /\ Row(Append(ring, w + 1)) /\ Append(ring, w + 1)[1] \in Starts
            /\ Append(ring, w + 1)[Len(Append(ring, w + 1))] = w + 1
            /\ Append(ring, w + 1) # <<>>
         \/ numTriggerValues > Len(ring)
  <1> DEFINE s == Append(ring, w + 1)
  <1>1. ring \in Seq(Nat) /\ numTriggerValues \in Nat /\ w + 1 \in Nat
    BY DEF TypeOK
  <1>2. /\ ring = <<>> => Row(s) /\ s[1] = w + 1
        /\ ring # <<>> /\ Row(ring) /\ ring[Len(ring)] = w => Row(s)
        /\ ring # <<>> => s[1] = ring[1]
        /\ s # <<>> /\ s[Len(s)] = w + 1
        /\ (\E i \in 2..Len(ring) : ring[i] \in Starts) \/ (ring # <<>> /\ w + 1 \in Starts) =>
             \E i \in 2..Len(s) : s[i] \in Starts
    <2>1. Grown(ring, w, Starts)
      BY <1>1, RowGrows
    <2> QED BY ONLY <2>1 DEF Grown
  <1> HIDE DEF s
  <1>3. /\ numTriggerValues = 0 => w + 1 \in Starts
        /\ numTriggerValues > 0 =>
             \/ \E i \in 2..Len(ring) : ring[i] \in Starts
             \/ ring # <<>> /\ Row(ring) /\ ring[1] \in Starts /\ ring[Len(ring)] = w
             \/ numTriggerValues > Len(ring)
    BY DEF Triggered
  <1>4. \/ \E i \in 2..Len(s) : s[i] \in Starts
        \/ Row(s) /\ s[1] \in Starts /\ s[Len(s)] = w + 1 /\ s # <<>>
        \/ numTriggerValues > Len(ring)
    <2>1. numTriggerValues = 0 \/ numTriggerValues > 0
      BY <1>1
    <2> QED BY ONLY <1>2, <1>3, <2>1
  <1> QED BY ONLY <1>4 DEF s

LEMMA WalkReading ==
  ASSUME TypeOK, TypeOK', Counted, clean, NEW w \in Int, NEW v \in Int, NEW b \in Int,
         b <= now, Walking(w, v, b), NEW e \in list, WsWalksReading(e)
  PROVE  Walking(w + 1, w + 1, b)'
  <1> DEFINE t == w + 1
             s == Append(ring, w + 1)
  <1>1. /\ e.time = t /\ t <= b /\ w \in Nat /\ t \in Nat /\ t <= now
        /\ (gateLevel = polarity <=> t \in Open)
        /\ list' = Rows(t, b) \cup GateEvents(t, b)
        /\ v = w => (t \in Open <=> w \in Open)
        /\ v = w \/ v = t
        /\ gateLevel = levels[t]
    BY WalkReadingIs
  <1>2. UNCHANGED <<now, levels, since, polarity, triggerMode, gateLevel>>
    BY DEF WsWalksReading, fx4, settings
  <1>3. Open' = Open /\ Starts' = Starts
    BY <1>2, SignalKept
  <1>4. since <= w /\ since \in Nat /\ now \in Nat
    BY WalkIs
  <1>5. rawCount = Len(ring) /\ ring \in Seq(Nat) /\ rawCount \in Nat /\ Len(ring) \in Nat
    BY DEF Counted, TypeOK, WsWalksReading, Walks
  <1>6. /\ Bulb(w, v) /\ Triggered(w) /\ \A i \in 1..Len(ring) : 1 <= ring[i] /\ ring[i] <= w
    BY DEF Walking, At
  <1> DEFINE ends == triggerMode # "ExtBulb" /\ rawCount + 1 >= NumAverage
  <1>7. ring' = IF Counts THEN (IF ends THEN <<>> ELSE s) ELSE ring
    BY <1>1 DEF WsWalksReading, batch
  <1>8. /\ s \in Seq(Nat) /\ Len(s) = Len(ring) + 1
        /\ \A i \in 1..Len(ring) : s[i] = ring[i]
        /\ s[Len(ring) + 1] = t
    BY <1>1, <1>5, AppendIs
  <1>9. Bulb(t, t)'
    <2> SUFFICES ASSUME triggerMode = "ExtBulb"
                 PROVE  /\ ring' = <<>> => t \notin Open
                        /\ ring' # <<>> =>
                             /\ Row(ring') /\ ring'[1] \in Starts /\ ring'[Len(ring')] = t
                             /\ \A i \in 1..Len(ring') : ring'[i] \in Open
      BY <1>1, <1>2, <1>3 DEF Bulb, Row
    <2>1. Counts <=> t \in Open
      BY <1>1 DEF Counts
    <2>2. CASE t \in Open
      <3>1. ring' = s
        BY <1>7, <2>1, <2>2
      <3>2. /\ ring = <<>> => Row(s) /\ s[1] = t
            /\ ring # <<>> /\ Row(ring) /\ ring[Len(ring)] = w => Row(s)
            /\ ring # <<>> => s[1] = ring[1]
            /\ s # <<>> /\ s[Len(s)] = t
            /\ (\A i \in 1..Len(ring) : ring[i] \in Open) => \A i \in 1..Len(s) : s[i] \in Open
        <4>1. w \in Nat
          BY <1>1
        <4>2. Grown(ring, w, Open)
          BY <1>5, <4>1, RowGrows
        <4> QED BY ONLY <2>2, <4>2 DEF Grown
      <3>3. CASE ring = <<>>
        <4>1. w = since \/ w \notin Open
          BY <1>6, <2>2, <3>3 DEF Bulb
        <4>2. t \in Starts
          <5>1. (t = since + 1 /\ since > 0 /\ since \in Open) \/ t = 1 \/ t - 1 \notin Open
            BY <1>1, <1>4, <4>1
          <5> QED BY <1>1, <2>2, <5>1, StartsAre
        <4>3. \A i \in 1..Len(ring) : ring[i] \in Open
          BY <3>3
        <4> HIDE DEF s, t
        <4> QED BY <3>1, <3>2, <3>3, <4>2, <4>3
      <3>4. CASE ring # <<>>
        <4>1. /\ Row(ring) /\ ring[1] \in Starts /\ ring[Len(ring)] = w
              /\ \A i \in 1..Len(ring) : ring[i] \in Open
          BY <1>6, <3>4 DEF Bulb
        <4> HIDE DEF s, t
        <4> QED BY <3>1, <3>2, <3>4, <4>1
      <3> QED BY <3>3, <3>4
    <2>3. CASE t \notin Open
      <3>1. ring' = ring
        BY <1>7, <2>1, <2>3
      <3>2. ring = <<>>
        <4> SUFFICES ASSUME ring # <<>> PROVE FALSE
          OBVIOUS
        <4>1. /\ ring[Len(ring)] = w /\ \A i \in 1..Len(ring) : ring[i] \in Open
              /\ v = w + 1 => w + 1 \in Open
          BY <1>6 DEF Bulb
        <4>2. Len(ring) \in 1..Len(ring)
          BY <1>5, EmptySeq
        <4>3. w \in Open
          BY <4>1, <4>2
        <4> QED BY <1>1, <2>3, <4>1, <4>3
      <3> QED BY <2>3, <3>1, <3>2
    <2> QED BY <2>2, <2>3
  <1>10. Triggered(t)'
    <2> SUFFICES ASSUME triggerMode = "ExtTrigger", triggerActive'
                 PROVE  /\ numTriggerValues' = 0 => t + 1 \in Starts
                        /\ numTriggerValues' > 0 =>
                             \/ \E i \in 2..Len(ring') : ring'[i] \in Starts
                             \/ /\ ring' # <<>> /\ Row(ring') /\ ring'[1] \in Starts
                                /\ ring'[Len(ring')] = t
                             \/ numTriggerValues' > Len(ring')
      BY <1>2, <1>3 DEF Triggered, Row
    <2>1. triggerActive /\ numTriggerValues' = numTriggerValues + 1
          /\ numTriggerValues < NumAverage /\ numTriggerValues \in Nat
      <3>1. triggerActive
        BY DEF WsWalksReading
      <3>2. /\ numTriggerValues' = numTriggerValues + 1
            /\ triggerActive' = (numTriggerValues < NumAverage)
        BY <3>1 DEF WsWalksReading
      <3>3. numTriggerValues < NumAverage
        BY ONLY <3>2, triggerActive', Zenon
      <3>4. numTriggerValues' = numTriggerValues + 1
        BY <3>2
      <3> QED BY <3>1, <3>3, <3>4 DEF TypeOK
    <2>2. Counts
      BY <2>1 DEF Counts
    <2>3. CASE ends
      <3>1. ring' = <<>> /\ Len(<<>>) = 0
        BY <1>7, <2>2, <2>3
      <3> QED BY <2>1, <3>1
    <2>4. CASE ~ends
      <3>1. ring' = s
        BY <1>7, <2>2, <2>4
      <3>2. \/ \E i \in 2..Len(s) : s[i] \in Starts
            \/ Row(s) /\ s[1] \in Starts /\ s[Len(s)] = t /\ s # <<>>
            \/ numTriggerValues > Len(ring)
        BY <1>1, <1>6, <2>1, NextTriggered
      <3> HIDE DEF s, t
      <3> QED BY <1>5, <1>8, <2>1, <3>1, <3>2
    <2> QED BY <2>3, <2>4
  <1>11. \A i \in 1..Len(ring') : 1 <= ring'[i] /\ ring'[i] <= t
    <2>1. \A i \in 1..Len(ring) : ring[i] \in Nat
      BY <1>5
    <2>2. \A i \in 1..Len(s) : 1 <= s[i] /\ s[i] <= t
      BY <1>1, <1>5, <1>6, <1>8, <2>1
    <2>3. \A i \in 1..Len(ring) : 1 <= ring[i] /\ ring[i] <= t
      BY <1>1, <1>6, <2>1
    <2> HIDE DEF s, t
    <2> QED BY <1>7, <2>2, <2>3
  <1>12. At(t, t)'
    <2>1. /\ since' - 1 <= t /\ t <= now' /\ t - 1 <= t /\ t <= t + 1 /\ since' <= t
          /\ gateLevel' = levels'[t] /\ ~(t < t)
      BY <1>1, <1>2, <1>4
    <2> QED BY <1>9, <1>10, <1>11, <2>1 DEF At
  <1>13. list' = (Rows(t, b) \cup GateEvents(t, b))'
    BY <1>1, <1>2, SignalKept
  <1>14. t <= b /\ ~(t < t)
    BY <1>1
  <1> QED BY <1>12, <1>13, <1>14 DEF Walking

\* A reading that counts was made with the gate open; and a batch that it completes
\* has a trigger in it.
LEMMA ReadingNoted ==
  ASSUME TypeOK, Counted, clean, NEW w \in Int, NEW v \in Int, NEW b \in Int, b <= now,
         Walking(w, v, b), NEW e \in list, WsWalksReading(e), Counts
  PROVE  "gate" \notin BadReading(e) /\ "batch" \notin BadReading(e)
  <1> DEFINE s == Append(ring, e.time)
  <1>1. /\ e.time = w + 1 /\ w \in Nat /\ w + 1 <= now
        /\ gateLevel = levels[w + 1]
    BY WalkReadingIs
  <1>2. triggerMode \in {"ExtGate", "ExtBulb"} => levels[e.time] = polarity
    BY <1>1 DEF Counts
  <1>3. "gate" \notin BadReading(e)
    BY <1>2 DEF BadReading
  <1>4. ASSUME triggerMode = "ExtTrigger", rawCount + 1 >= NumAverage
        PROVE  GoodTriggered(s)
    <2>1. triggerActive /\ numTriggerValues < NumAverage
      BY <1>4 DEF Counts
    <2>2. Triggered(w)
      BY DEF Walking, At
    <2>3. rawCount = Len(ring) /\ ring \in Seq(Nat) /\ numTriggerValues \in Nat
      BY DEF Counted, TypeOK, WsWalksReading, Walks
    <2>4. s \in Seq(Nat) /\ Len(s) = Len(ring) + 1 /\ Len(ring) \in Nat /\ s = Append(ring, w + 1)
      <3>1. w + 1 \in Nat
        BY <1>1
      <3> QED BY <1>1, <2>3, <3>1, AppendIs
    <2> HIDE DEF s
    <2>5. ~(numTriggerValues > Len(ring))
      BY <1>4, <2>1, <2>3, <2>4
    <2>6. \/ \E i \in 2..Len(s) : s[i] \in Starts
          \/ Row(s) /\ s[1] \in Starts
      BY <1>1, <1>4, <2>1, <2>2, <2>4, <2>5, NextTriggered
    <2> QED BY <2>6 DEF GoodTriggered, Starts
  <1>5. "batch" \notin BadReading(e)
    BY <1>4 DEF BadReading
  <1> QED BY <1>3, <1>5

-----------------------------------------------------------------------------
(***************************************************************************)
(* The steps that leave the walk where it is.                              *)
(***************************************************************************)
LEMMA AtKept ==
  ASSUME UNCHANGED <<now, levels, since, window, ring, triggerMode, polarity>>,
         NEW w, NEW v, At(w, v)
  PROVE  At(w, v)'
  <1>1. Open' = Open /\ Starts' = Starts
    BY SignalKept
  <1>2. UNCHANGED <<gateLevel, triggerActive, numTriggerValues>>
    BY DEF window
  <1>3. Bulb(w, v)'
    BY <1>1 DEF At, Bulb, Row
  <1>4. Triggered(w)'
    BY <1>1, <1>2 DEF At, Triggered, Row
  <1> QED BY <1>2, <1>3, <1>4 DEF At

LEMMA FollowedKept ==
  ASSUME TypeOK, NEW b \in Int, Followed(b), UNCHANGED <<ws, update, list, since>>,
         acquiring' = 1 => acquiring = 1,
         Has(toServer', "subscribe") <=> Has(toServer, "subscribe"),
         \A w, v \in Int : At(w, v) => At(w, v)',
         \A a \in Int : GateEvents(a, b)' = GateEvents(a, b)
  PROVE  Followed(b)'
  <1>1. \A p \in Int : From(p)' = From(p) /\ Whole(p, b)' = Whole(p, b)
    <2>1. ASSUME NEW p PROVE From(p)' = From(p)
      BY DEF From
    <2> QED BY <2>1 DEF Whole
  <1>2. ASSUME NEW p \in Int, Resting(p) PROVE Resting(p)'
    <2>1. PICK w \in Int : w = From(p) /\ At(w, p)
      BY <1>2 DEF Resting
    <2> QED BY <1>1, <2>1 DEF Resting
  <1>3. ASSUME NEW p \in Int, Taken(p, b) PROVE Taken(p, b)'
    BY <1>1, <1>2, <1>3 DEF Taken
  <1>4. ASSUME NEW w \in Int, NEW v \in Int, Walking(w, v, b) PROVE Walking(w, v, b)'
    <2>1. Rows(w, b)' = Rows(w, b)
      BY DEF Rows, ReadingOf
    <2> QED BY <1>4, <2>1 DEF Walking
  <1> QED BY <1>2, <1>3, <1>4 DEF Followed

\* The chain of updates is as it was.
LEMMA GateChainKept ==
  ASSUME UNCHANGED <<now, levels, since>>, NEW g, GateChain(g, answers', gateSent')
  PROVE  GateChain(g, answers, gateSent)'
  <1>1. ASSUME NEW p, NEW q PROVE Whole(p, q)' = Whole(p, q)
    BY SignalKept
  <1> QED BY <1>1 DEF GateChain

\* Time passes.
LEMMA TickSignal ==
  ASSUME TypeOK, Tick
  PROVE  /\ now' = now + 1 /\ now \in Nat /\ since \in Nat /\ UNCHANGED since
         /\ \A t \in 1..now : levels'[t] = levels[t]
         /\ \A a, b \in Int : b <= now => GateEvents(a, b)' = GateEvents(a, b)
         /\ \A t \in 1..now : (t \in Open' <=> t \in Open) /\ (t \in Starts => t \in Starts')
  <1>1. now' = now + 1 /\ now \in Nat /\ since \in Nat /\ since <= now
        /\ UNCHANGED <<since, polarity>>
    BY DEF Tick, TypeOK, settings
  <1>2. \A t \in 1..now : levels'[t] = levels[t]
    <2>1. PICK l \in {0, 1} : levels' = Append(levels, l)
      BY DEF Tick
    <2>2. levels \in Seq({0, 1}) /\ Len(levels) = now
      BY DEF TypeOK
    <2> QED BY <2>1, <2>2, AppendIs
  <1>3. ASSUME NEW a \in Int, NEW b \in Int, b <= now
        PROVE  GateEvents(a, b)' = GateEvents(a, b)
    <2>1. ASSUME NEW u \in a + 1..b, u >= 1
          PROVE  /\ levels'[u] = levels[u]
                 /\ u = 1 \/ levels'[u - 1] = levels[u - 1]
      BY <1>1, <1>2, <1>3, <2>1
    <2> DEFINE S == {u \in a + 1..b : u >= 1 /\ (u \in {1, since} \/ levels[u] # levels[u - 1])}
               T == {u \in a + 1..b : u >= 1 /\ (u \in {1, since} \/ levels'[u] # levels'[u - 1])}
    <2>2. S = T
      BY <2>1
    <2>3. GateEvents(a, b) = {[kind |-> "gate", time |-> t, level |-> levels[t]] : t \in S}
      BY DEF GateEvents
    <2>4. GateEvents(a, b)' = {[kind |-> "gate", time |-> t, level |-> levels'[t]] : t \in T}
      BY <1>1 DEF GateEvents
    <2>5. \A t \in S : levels'[t] = levels[t]
      BY <2>1
    <2> HIDE DEF S, T
    <2> QED BY <2>2, <2>3, <2>4, <2>5
  <1>4. ASSUME NEW t \in 1..now
        PROVE  (t \in Open' <=> t \in Open) /\ (t \in Starts => t \in Starts')
    <2>1. levels'[t] = levels[t] /\ (t # 1 => levels'[t - 1] = levels[t - 1])
      BY <1>1, <1>2
    <2>2. since > 0 => levels'[since] = levels[since]
      BY <1>1, <1>2
    <2>3. t \in 1..now'
      BY <1>1
    <2> QED BY <1>1, <2>1, <2>2, <2>3 DEF Open, Starts, Begins
  <1> QED BY <1>1, <1>2, <1>3, <1>4

LEMMA TickAt ==
  ASSUME TypeOK, Tick, NEW w \in Int, NEW v \in Int, At(w, v)
  PROVE  At(w, v)'
  <1>1. /\ now' = now + 1 /\ now \in Nat /\ since \in Nat /\ UNCHANGED since
        /\ \A t \in 1..now : levels'[t] = levels[t]
        /\ \A t \in 1..now : (t \in Open' <=> t \in Open) /\ (t \in Starts => t \in Starts')
    BY TickSignal
  <1>2. UNCHANGED <<gateLevel, triggerActive, numTriggerValues, ring, triggerMode, polarity>>
    BY DEF Tick, window, batch, settings
  <1>3. /\ since <= w /\ w <= now /\ since - 1 <= v /\ v <= now
        /\ w - 1 <= v /\ v <= w + 1
        /\ v >= 1 /\ v >= since => gateLevel = levels[v]
        /\ v < w => w = since /\ ring = <<>> /\ ~triggerActive
        /\ Bulb(w, v) /\ Triggered(w)
        /\ \A i \in 1..Len(ring) : 1 <= ring[i] /\ ring[i] <= w
        /\ \A i \in 1..Len(ring) : ring[i] \in Nat
    BY DEF At, TypeOK
  <1>4. \A i \in 1..Len(ring) : ring[i] \in 1..now
    BY <1>1, <1>3
  <1>5. 0 \notin Open /\ 0 \notin Open'
    BY DEF Open
  <1>6. w \in Open' <=> w \in Open
    BY <1>1, <1>3, <1>5
  <1>7. Bulb(w, v)'
    <2> SUFFICES ASSUME triggerMode = "ExtBulb"
                 PROVE  /\ ring = <<>> => \/ w = since \/ w \notin Open'
                                          \/ v = w + 1 /\ w + 1 \notin Open'
                        /\ ring # <<>> => /\ Row(ring) /\ ring[1] \in Starts' /\ ring[Len(ring)] = w
                                          /\ \A i \in 1..Len(ring) : ring[i] \in Open'
                                          /\ v = w + 1 => w + 1 \in Open'
      BY <1>1, <1>2 DEF Bulb, Row
    <2>1. v = w + 1 => (w + 1 \in Open' <=> w + 1 \in Open)
      BY <1>1, <1>3
    <2>2. ring # <<>> => 1 \in 1..Len(ring)
      BY EmptySeq DEF TypeOK
    <2> QED BY <1>1, <1>3, <1>4, <1>6, <2>1, <2>2 DEF Bulb
  <1>8. Triggered(w)'
    <2> SUFFICES ASSUME triggerMode = "ExtTrigger", triggerActive
                 PROVE  /\ numTriggerValues = 0 => w + 1 \in Starts'
                        /\ numTriggerValues > 0 =>
                             \/ \E i \in 2..Len(ring) : ring[i] \in Starts'
                             \/ /\ ring # <<>> /\ Row(ring) /\ ring[1] \in Starts'
                                /\ ring[Len(ring)] = w
                             \/ numTriggerValues > Len(ring)
      BY <1>2 DEF Triggered, Row
    <2>1. \A t : t \in Starts => t \in Starts'
      BY <1>1 DEF Starts
    <2> QED BY <1>3, <2>1 DEF Triggered
  <1> QED BY <1>1, <1>2, <1>3, <1>7, <1>8 DEF At

-----------------------------------------------------------------------------
(***************************************************************************)
(* The chain of whole updates.                                             *)
(***************************************************************************)
LEMMA WholeIs ==
  ASSUME TypeOK, NEW p \in Int, NEW q \in Int, q <= now
  PROVE  /\ Whole(p, q) \in Updates
         /\ \A c \in Channels : Whole(p, q).adc[c] = Times(From(p), From(q))
         /\ Whole(p, q).gate = GateEvents(p, q)
  <1>1. Times(From(p), From(q)) \in Seq(Nat)
    BY FromIs, TimesAre
  <1>2. GateEvents(p, q) \subseteq Gates
    BY GateEventsAre
  <1> QED BY <1>1, <1>2 DEF Whole, Updates

LEMMA GateAppend ==
  ASSUME TypeOK, NEW a \in Seq(Updates), NEW last \in Int, NEW next \in Int, last <= next,
         next <= now, NEW g, GateChain(g, a, last)
  PROVE  \E z : GateChain(z, Append(a, Whole(last, next)), next) /\ z[0] = g[0]
  <1> DEFINE u == Whole(last, next)
             b == Append(a, u)
             z == [i \in 0..Len(b) |-> IF i <= Len(a) THEN g[i] ELSE next]
  <1>1. /\ Len(b) = Len(a) + 1 /\ Len(a) \in Nat
        /\ \A i \in 1..Len(a) : b[i] = a[i]
        /\ b[Len(a) + 1] = u
    BY WholeIs, AppendIs
  <1> HIDE DEF b
  <1>2. /\ g \in [0..Len(a) -> Int] /\ g[Len(a)] = last /\ since - 1 <= g[0]
        /\ \A i \in 0..Len(a) : g[i] <= now
    BY DEF GateChain
  <1>3. /\ z \in [0..Len(b) -> Int] /\ z[Len(b)] = next
        /\ \A i \in 0..Len(a) : z[i] = g[i]
    BY <1>1, <1>2
  <1> HIDE DEF z, u
  <1>4. ASSUME NEW i \in 1..Len(b) PROVE z[i - 1] <= z[i] /\ b[i] = Whole(z[i - 1], z[i])
    <2>1. CASE i <= Len(a)
      <3>1. i \in 1..Len(a) /\ z[i] = g[i] /\ z[i - 1] = g[i - 1] /\ b[i] = a[i]
        BY <1>1, <1>3, <2>1
      <3> QED BY <3>1 DEF GateChain
    <2>2. CASE i = Len(a) + 1
      <3>1. z[i] = next /\ z[i - 1] = last /\ b[i] = u
        BY <1>1, <1>2, <1>3, <2>2
      <3> QED BY <3>1 DEF u
    <2> QED BY <1>1, <2>1, <2>2
  <1>5. z[0] = g[0] /\ \A i \in 0..Len(b) : z[i] <= now
    BY <1>1, <1>2, <1>3
  <1>6. GateChain(z, b, next)
    BY <1>2, <1>3, <1>4, <1>5 DEF GateChain
  <1> QED BY <1>5, <1>6 DEF b, u

LEMMA GateTail ==
  ASSUME TypeOK, NEW a \in Seq(Updates), a # <<>>, NEW last, NEW g, GateChain(g, a, last)
  PROVE  /\ g[0] \in Int /\ g[1] \in Int /\ g[0] <= g[1] /\ g[1] <= now
         /\ Head(a) = Whole(g[0], g[1])
         /\ \E z : GateChain(z, Tail(a), last) /\ z[0] = g[1]
  <1> DEFINE b == Tail(a)
             z == [i \in 0..Len(b) |-> g[i + 1]]
  <1>1. /\ Len(a) \in Nat \ {0} /\ Head(a) = a[1] /\ Len(b) = Len(a) - 1
        /\ \A i \in 1..Len(a) - 1 : b[i] = a[i + 1]
    BY TailIs
  <1> HIDE DEF b
  <1>2. /\ g \in [0..Len(a) -> Int] /\ g[Len(a)] = last /\ since - 1 <= g[0]
        /\ \A i \in 0..Len(a) : g[i] <= now
    BY DEF GateChain
  <1>3. /\ z \in [0..Len(b) -> Int] /\ z[Len(b)] = last /\ z[0] = g[1]
        /\ \A i \in 0..Len(b) : z[i] = g[i + 1]
    BY <1>1, <1>2
  <1> HIDE DEF z
  <1>4. ASSUME NEW i \in 1..Len(b) PROVE z[i - 1] <= z[i] /\ b[i] = Whole(z[i - 1], z[i])
    <2>1. /\ i + 1 \in 1..Len(a) /\ (i + 1) - 1 = i
          /\ z[i] = g[i + 1] /\ z[i - 1] = g[i] /\ b[i] = a[i + 1]
      BY <1>1, <1>3
    <2>2. g[(i + 1) - 1] <= g[i + 1] /\ a[i + 1] = Whole(g[(i + 1) - 1], g[i + 1])
      BY <2>1 DEF GateChain
    <2> QED BY <2>1, <2>2
  <1>5. 1 \in 1..Len(a) /\ 0 \in 0..Len(a) /\ 1 \in 0..Len(a) /\ 1 - 1 = 0
    BY <1>1
  <1>6. g[0] <= g[1] /\ a[1] = Whole(g[0], g[1]) /\ g[1] <= now
    BY <1>2, <1>5 DEF GateChain
  <1>7. since - 1 <= z[0] /\ \A i \in 0..Len(b) : z[i] <= now
    <2>1. since \in Int /\ g[0] \in Int /\ g[1] \in Int
      <3>1. since \in Int
        BY DEF TypeOK
      <3>2. g[0] \in Int /\ g[1] \in Int
        BY <1>2, <1>5
      <3> QED BY <3>1, <3>2
    <2>2. \A i \in 0..Len(b) : i + 1 \in 0..Len(a)
      BY <1>1
    <2> QED BY <1>2, <1>3, <1>6, <2>1, <2>2
  <1>8. GateChain(z, b, last)
    BY <1>3, <1>4, <1>7 DEF GateChain
  <1> QED BY <1>1, <1>2, <1>3, <1>5, <1>6, <1>8 DEF b

\* What the walk needs of the chain.
LEMMA ChainStart ==
  ASSUME TypeOK, NEW g, GateChain(g, answers, gateSent)
  PROVE  g[0] \in Int /\ g[0] <= now
  <1>1. Len(answers) \in Nat
    BY DEF TypeOK
  <1>2. 0 \in 0..Len(answers)
    BY <1>1
  <1> QED BY <1>2 DEF GateChain

-----------------------------------------------------------------------------
(***************************************************************************)
(* The FX4's steps.                                                        *)
(***************************************************************************)
LEMMA NeatTick == ASSUME TypeOK, Neat, Tick PROVE Neat'
  <1>1. PICK g : GateChain(g, answers, gateSent) /\ Followed(g[0])
    BY DEF Neat
  <1>2. /\ UNCHANGED <<answers, gateSent, sent, cache, ws, update, list, acquiring, toServer>>
    BY DEF Tick, socket, caches, thread
  <1>3. /\ now' = now + 1 /\ now \in Nat /\ since \in Nat /\ UNCHANGED since
        /\ \A a, b \in Int : b <= now => GateEvents(a, b)' = GateEvents(a, b)
    BY TickSignal
  <1>4. g[0] \in Int /\ g[0] <= now
    BY <1>1, ChainStart
  <1>5. Followed(g[0])'
    BY <1>1, <1>2, <1>3, <1>4, TickAt, FollowedKept
  <1>6. ASSUME NEW p PROVE From(p)' = From(p)
    BY <1>3 DEF From
  <1>7. GateChain(g, answers, gateSent)'
    <2>1. ASSUME NEW p \in Int, NEW q \in Int, q <= now PROVE Whole(p, q)' = Whole(p, q)
      BY <1>3, <1>6, <2>1 DEF Whole
    <2>2. /\ g \in [0..Len(answers) -> Int] /\ g[Len(answers)] = gateSent
          /\ since - 1 <= g[0] /\ \A i \in 0..Len(answers) : g[i] <= now
      BY <1>1 DEF GateChain
    <2>3. ASSUME NEW i \in 1..Len(answers)
          PROVE  g[i - 1] <= g[i] /\ answers[i] = Whole(g[i - 1], g[i])'
      <3>1. Len(answers) \in Nat
        BY DEF TypeOK
      <3>2. i \in 0..Len(answers) /\ i - 1 \in 0..Len(answers)
        BY <3>1
      <3>3. g[i - 1] \in Int /\ g[i] \in Int /\ g[i] <= now
        BY <2>2, <3>2
      <3>4. g[i - 1] <= g[i] /\ answers[i] = Whole(g[i - 1], g[i])
        BY <1>1 DEF GateChain
      <3> QED BY <2>1, <3>3, <3>4
    <2>4. \A i \in 0..Len(answers) : g[i] <= now'
      <3>1. \A i \in 0..Len(answers) : g[i] \in Int
        BY <2>2
      <3> QED BY <1>3, <2>2, <3>1
    <2> QED BY <1>2, <1>3, <2>2, <2>3, <2>4 DEF GateChain
  <1> QED BY <1>2, <1>5, <1>6, <1>7 DEF Neat

\* If no reading lags, an update is whole.
LEMMA AnswersWhole ==
  ASSUME TypeOK, Neat, Answers, ~disordered'
  PROVE  /\ answers' = Append(answers, Whole(gateSent, gateSent'))
         /\ gateSent \in Int /\ gateSent' \in Int /\ gateSent <= gateSent' /\ gateSent' <= now
         /\ \A c \in Channels : sent'[c] = From(gateSent')
  <1>1. /\ gateSent \in Int /\ gateSent <= now /\ now \in Nat /\ since <= now /\ since \in Nat
        /\ \A c \in Channels : sent[c] = From(gateSent)
    BY DEF TypeOK, Neat
  <1>2. CASE answers' = Append(answers, NoData) /\ UNCHANGED <<sent, gateSent>>
    <2>1. Whole(gateSent, gateSent) = NoData
      BY <1>1, WholeOfNothing
    <2> QED BY <1>1, <1>2, <2>1
  <1>3. ASSUME NEW upto \in [Channels -> 0..now],
               answers' = Append(answers,
                 [adc  |-> [c \in Channels |-> Times(sent[c], upto[c])],
                  gate |-> GateEvents(gateSent, now)]),
               sent' = upto, gateSent' = now,
               disordered' = (disordered \/ \E c \in Channels : upto[c] < now)
        PROVE  /\ answers' = Append(answers, Whole(gateSent, gateSent'))
               /\ gateSent' \in Int /\ gateSent <= gateSent' /\ gateSent' <= now
               /\ \A c \in Channels : sent'[c] = From(gateSent')
    <2>1. ~\E c \in Channels : upto[c] < now
      BY ONLY <1>3, ~disordered', Zenon
    <2>2. \A c \in Channels : upto[c] = now
      BY <1>1, <2>1
    <2>3. From(now) = now
      BY <1>1, FromIs
    <2>4. [c \in Channels |-> Times(sent[c], upto[c])]
            = [c \in Channels |-> Times(From(gateSent), From(now))]
      BY <1>1, <2>2, <2>3
    <2>5. answers' = Append(answers, Whole(gateSent, now))
      BY <1>3, <2>4 DEF Whole
    <2> QED BY <1>1, <1>3, <2>2, <2>3, <2>5
  <1> QED BY <1>1, <1>2, <1>3 DEF Answers

LEMMA NeatAnswers == ASSUME TypeOK, Neat, Answers, ~disordered' PROVE Neat'
  <1>1. PICK g : GateChain(g, answers, gateSent) /\ Followed(g[0])
    BY DEF Neat
  <1>2. /\ UNCHANGED <<now, levels, since, window, ring, triggerMode, polarity, cache, ws,
                       update, list, acquiring>>
        /\ toServer # <<>> /\ Head(toServer) = "get" /\ toServer' = Tail(toServer)
    BY DEF Answers, settings, caches, batch, thread
  <1>3. /\ answers' = Append(answers, Whole(gateSent, gateSent'))
        /\ gateSent \in Int /\ gateSent' \in Int /\ gateSent <= gateSent' /\ gateSent' <= now
        /\ \A c \in Channels : sent'[c] = From(gateSent')
    BY AnswersWhole
  <1>4. answers \in Seq(Updates) /\ toServer \in Seq(Requests)
    BY DEF TypeOK
  <1>5. \E z : /\ GateChain(z, Append(answers, Whole(gateSent, gateSent')), gateSent')
               /\ z[0] = g[0]
    BY <1>1, <1>3, <1>4, GateAppend
  <1>6. PICK z : GateChain(z, answers', gateSent') /\ z[0] = g[0]
    BY <1>3, <1>5
  <1>7. GateChain(z, answers, gateSent)'
    BY <1>2, <1>6, GateChainKept
  <1>8. Has(toServer', "subscribe") <=> Has(toServer, "subscribe")
    <2>1. "get" # "subscribe"
      OBVIOUS
    <2> QED BY <1>2, <1>4, <2>1, HasTail
  <1>9. g[0] \in Int /\ g[0] <= now
    BY <1>1, ChainStart
  <1>10. Followed(g[0])'
    BY <1>1, <1>2, <1>8, <1>9, AtKept, SignalKept, FollowedKept
  <1>11. \A c \in Channels : sent'[c] = From(gateSent)'
    BY <1>2, <1>3 DEF From
  <1>12. cache' = [c \in Channels |-> <<>>]
    BY <1>2 DEF Neat
  <1> QED BY <1>6, <1>7, <1>10, <1>11, <1>12 DEF Neat

LEMMA NeatSubscribes ==
  ASSUME TypeOK, Lines, Fresh, Neat, Subscribes
  PROVE  Neat'
  <1>1. PICK g : GateChain(g, answers, gateSent) /\ Followed(g[0])
    BY DEF Neat
  <1>2. /\ UNCHANGED <<now, levels, answers, window, ring, triggerMode, polarity, cache, ws,
                       update, list, acquiring>>
        /\ toServer # <<>> /\ Head(toServer) # "get" /\ toServer' = Tail(toServer)
    BY DEF Subscribes, settings, caches, batch, thread
  <1>3. answers \in Seq(Updates) /\ toServer \in Seq(Requests) /\ now \in Nat
    BY DEF TypeOK
  <1>4. cache' = [c \in Channels |-> <<>>]
    BY <1>2 DEF Neat
  <1>5. CASE Head(toServer) # "subscribe"
    <2>1. UNCHANGED <<since, sent, gateSent>>
      BY <1>5 DEF Subscribes
    <2>2. GateChain(g, answers, gateSent)'
      BY <1>1, <1>2, <2>1, GateChainKept
    <2>3. Has(toServer', "subscribe") <=> Has(toServer, "subscribe")
      BY <1>2, <1>3, <1>5, HasTail
    <2>4. g[0] \in Int /\ g[0] <= now
      BY <1>1, ChainStart
    <2>5. Followed(g[0])'
      BY <1>1, <1>2, <2>1, <2>3, <2>4, AtKept, SignalKept, FollowedKept
    <2>6. \A c \in Channels : sent'[c] = From(gateSent)'
      BY <2>1 DEF From, Neat
    <2> QED BY <1>4, <2>2, <2>5, <2>6 DEF Neat
  <1>6. CASE Head(toServer) = "subscribe"
    <2>1. since' = now /\ sent' = [c \in Channels |-> now] /\ gateSent' = now - 1
      BY <1>6 DEF Subscribes
    <2>2. PICK n \in Int : n = now - 1
      BY <1>3
    <2>3. Has(toServer, "subscribe")
      BY <1>2, <1>3, <1>6, HasTail
    <2>4. /\ \A i \in 1..Len(answers) : answers[i] = NoData
          /\ update = NoData /\ list = {} /\ ring = <<>> /\ ~triggerActive
          /\ ws \in {"idle", "taken", "done"}
      BY <2>3 DEF Fresh
    <2>5. From(n)' = now /\ From(gateSent)' = now
      BY <1>3, <2>1, <2>2 DEF From
    <2>6. Whole(n, n)' = NoData
      <3>1. Times(now, now) = <<>>
        BY <1>3, NoTimes
      <3>2. GateEvents(n, n)' = {}
        BY DEF GateEvents
      <3> QED BY <2>5, <3>1, <3>2 DEF Whole, NoData
    <2> DEFINE z == [i \in 0..Len(answers) |-> n]
    <2>7. PICK y : y = z
      OBVIOUS
    <2>8. /\ Len(answers) \in Nat /\ y \in [0..Len(answers) -> Int] /\ y[Len(answers)] = n
          /\ y[0] = n /\ \A i \in 0..Len(answers) : y[i] = n
      BY <1>3, <2>7
    <2> HIDE DEF z
    <2>9. GateChain(y, answers, gateSent)'
      <3>1. \A i \in 1..Len(answers) : y[i - 1] = n /\ y[i] = n
        BY <2>8
      <3>2. \A i \in 0..Len(answers) : y[i] <= now
        BY <1>3, <2>2, <2>8
      <3>3. \A i \in 1..Len(answers) : y[i - 1] <= y[i] /\ answers[i] = Whole(y[i - 1], y[i])'
        <4> TAKE i \in 1..Len(answers)
        <4>1. answers[i] = Whole(n, n)'
          BY <2>4, <2>6
        <4>2. y[i - 1] = n /\ y[i] = n
          BY <3>1
        <4>3. n <= n
          OBVIOUS
        <4> QED BY <4>1, <4>2, <4>3
      <3> QED BY <1>2, <2>1, <2>2, <2>8, <3>2, <3>3 DEF GateChain
    <2>10. PICK w \in Int : w = now
      BY <1>3
    <2>11. At(w, n)'
      <3>1. Bulb(w, n)'
        BY <1>2, <2>1, <2>4, <2>10 DEF Bulb
      <3>2. Triggered(w)'
        BY <1>2, <2>4 DEF Triggered, window
      <3>3. Len(ring') = 0
        BY <1>2, <2>4
      <3> QED BY <1>2, <1>3, <2>1, <2>2, <2>4, <2>10, <3>1, <3>2, <3>3 DEF At, window
    <2>12. Resting(n)'
      BY <2>5, <2>10, <2>11 DEF Resting
    <2>13. Taken(n, n)'
      BY <1>2, <2>4, <2>6, <2>12 DEF Taken
    <2>14. Followed(y[0])'
      BY <1>2, <2>4, <2>8, <2>12, <2>13 DEF Followed
    <2>15. \A c \in Channels : sent'[c] = From(gateSent)'
      BY <2>1, <2>5
    <2> QED BY <1>4, <2>9, <2>14, <2>15 DEF Neat
  <1> QED BY <1>5, <1>6

-----------------------------------------------------------------------------
(***************************************************************************)
(* The websocket's thread.                                                 *)
(***************************************************************************)
LEMMA NeatTakes == ASSUME TypeOK, Neat, WsTakes PROVE Neat'
  <1>1. PICK g : GateChain(g, answers, gateSent) /\ Followed(g[0])
    BY DEF Neat
  <1>2. /\ UNCHANGED <<now, levels, since, sent, gateSent, window, ring, triggerMode, polarity,
                       cache, acquiring, toServer>>
        /\ answers \in Seq(Updates) /\ answers # <<>> /\ answers' = Tail(answers)
        /\ ws = "idle"
        /\ IF acquiring = 1 THEN ws' = "taken" /\ update' = Head(answers)
                            ELSE UNCHANGED <<ws, update>>
    BY DEF WsTakes, TypeOK, fx4, settings, caches, batch
  <1>3. /\ g[0] \in Int /\ g[1] \in Int /\ g[0] <= g[1] /\ g[1] <= now
        /\ Head(answers) = Whole(g[0], g[1])
    BY <1>1, <1>2, GateTail
  <1>4. PICK z : GateChain(z, answers', gateSent') /\ z[0] = g[1]
    BY <1>1, <1>2, GateTail
  <1>5. GateChain(z, answers, gateSent)'
    BY <1>2, <1>4, GateChainKept
  <1>6. \A p \in Int : From(p)' = From(p) /\ Whole(p, g[1])' = Whole(p, g[1])
    BY <1>2, SignalKept
  <1>7. Followed(g[1])'
    <2>1. CASE acquiring = 1
      <3>1. Has(toServer, "subscribe") \/ Resting(g[0])
        BY <1>1, <1>2, <2>1 DEF Followed
      <3>2. Resting(g[0]) => Resting(g[0])'
        <4>1. ASSUME NEW w \in Int, w = From(g[0]), At(w, g[0]) PROVE Resting(g[0])'
          <5>1. At(w, g[0])'
            BY <1>2, <4>1, AtKept
          <5>2. w = From(g[0])'
            BY <1>3, <1>6, <4>1
          <5> QED BY <5>1, <5>2 DEF Resting
        <4> QED BY <4>1 DEF Resting
      <3>3. update' = Whole(g[0], g[1])'
        BY <1>2, <1>3, <1>6, <2>1
      <3>4. Taken(g[0], g[1])'
        BY <1>2, <1>3, <3>1, <3>2, <3>3 DEF Taken
      <3> QED BY <1>2, <1>3, <2>1, <3>4 DEF Followed
    <2>2. CASE acquiring # 1
      BY <1>2, <2>2 DEF Followed
    <2> QED BY <2>1, <2>2
  <1>8. \A c \in Channels : sent'[c] = From(gateSent)'
    BY <1>2 DEF From, Neat
  <1>9. cache' = [c \in Channels |-> <<>>]
    BY <1>2 DEF Neat
  <1> QED BY <1>4, <1>5, <1>7, <1>8, <1>9 DEF Neat

\* With the caches empty the channels' lists are the update's, of one stretch of time.
LEMMA FullOfWhole ==
  ASSUME TypeOK, cache = [c \in Channels |-> <<>>], NEW p \in Int, NEW b \in Int, b <= now,
         update = Whole(p, b), NEW c \in Channels
  PROVE  Full[c] = Times(From(p), From(b))
  <1>1. update.adc[c] = Times(From(p), From(b))
    BY WholeIs
  <1>2. Times(From(p), From(b)) \in Seq(Nat)
    BY FromIs, TimesAre
  <1>3. <<>> \o Times(From(p), From(b)) = Times(From(p), From(b))
    BY <1>2, ConcatEmptySeq
  <1>4. Full[c] = <<>> \o update.adc[c]
    BY DEF Full
  <1> QED BY ONLY <1>1, <1>3, <1>4, Zenon

\* An update without readings leaves the walk where it is, unless a gate change is lost.
LEMMA MergeOfNothing ==
  ASSUME TypeOK, NEW p \in Int, NEW b \in Int, NEW w \in Int, p <= b, b <= now, w = From(p),
         From(b) = w, At(w, p), GateEvents(p, b) = {}
  PROVE  At(w, b)
  <1>1. /\ since \in Nat /\ now \in Nat /\ since <= w /\ w <= now /\ since - 1 <= p
        /\ w - 1 <= p /\ p <= w + 1
    BY DEF At, TypeOK
  <1>2. /\ p >= since => w = p
        /\ p < since => w = since
        /\ b >= since => w = b
        /\ b < since => w = since
    BY FromIs
  <1>3. CASE p = b
    BY <1>3
  <1>4. CASE p < b
    <2>1. p = since - 1 /\ b = since /\ w = since
      BY <1>1, <1>2, <1>4
    <2>2. since = 0
      <3> SUFFICES ASSUME since # 0 PROVE FALSE
        OBVIOUS
      <3>1. since \in p + 1..b /\ Changes(since)
        BY <1>1, <2>1 DEF Changes
      <3> QED BY <3>1, EventsOf
    <2>3. ring = <<>> /\ ~triggerActive
      BY <2>1 DEF At
    <2>4. Bulb(w, b) /\ Triggered(w)
      BY <2>1, <2>3 DEF Bulb, Triggered
    <2>5. Len(ring) = 0
      BY <2>3
    <2> QED BY <1>1, <2>1, <2>2, <2>3, <2>4, <2>5 DEF At
  <1> QED BY <1>3, <1>4

LEMMA MergeGate ==
  ASSUME TypeOK, Fresh, WsMerges, ~disordered', cache = [c \in Channels |-> <<>>],
         NEW p \in Int, NEW b \in Int, b <= now, Taken(p, b)
  PROVE  /\ cache' = [c \in Channels |-> <<>>]
         /\ \/ ws' = "walking" /\ \E w, v \in Int : Walking(w, v, b)'
            \/ ws' = "done" /\ (Has(toServer, "subscribe") \/ Resting(b)')
  <1>1. UNCHANGED <<now, levels, since, window, ring, triggerMode, polarity, toServer>>
    BY MergesIs DEF fx4, socket, settings, batch
  <1>2. CASE Has(toServer, "subscribe")
    <2>1. Full = [c \in Channels |-> <<>>]
      BY <1>2, NothingFull DEF Fresh
    <2>2. Full[1] = <<>>
      BY <2>1
    <2>3. cache' = Full /\ ws' = "done"
      BY <2>2, MergesIs DEF Joins
    <2> QED BY <1>2, <2>1, <2>3
  <1>3. CASE ~Has(toServer, "subscribe")
    <2>1. PICK w \in Int : w = From(p) /\ At(w, p)
      BY <1>3 DEF Taken, Resting
    <2>2. p <= b /\ update = Whole(p, b)
      BY DEF Taken
    <2> DEFINE q == From(b)
    <2>3. /\ w \in Nat /\ q \in Nat /\ w <= q /\ since \in Nat /\ since <= w
          /\ (b >= since => q = b) /\ (b < since => q = since)
      BY <2>1, <2>2, FromIs DEF TypeOK
    <2>4. \A c \in Channels : Full[c] = Times(w, q)
      BY <2>1, <2>2, FullOfWhole
    <2>5. Times(w, q) \in Seq(Nat) /\ Len(Times(w, q)) = q - w /\ (Times(w, q) = <<>> <=> w = q)
          /\ \A i \in 1..q - w : Times(w, q)[i] = w + i
      BY <2>3, TimesAre
    <2>6. SameLength
      BY <2>4 DEF SameLength
    <2>7. update.gate = GateEvents(p, b)
      BY <2>2, WholeIs
    <2> HIDE DEF q
    <2>8. CASE Full[1] = <<>>
      <3>1. /\ cache' = Full /\ ws' = "done" /\ disordered' = (disordered \/ GateLost)
        BY <2>8, MergesIs DEF Joins
      <3>2. ~GateLost
        BY ONLY <3>1, ~disordered', Zenon
      <3>3. w = q
        BY <2>4, <2>5, <2>8
      <3>4. At(w, b)
        BY <2>1, <2>2, <2>7, <3>2, <3>3, MergeOfNothing DEF GateLost, q
      <3>5. At(w, b)'
        BY <1>1, <3>4, AtKept
      <3>6. w = From(b)'
        BY <1>1, <3>3 DEF q, From
      <3>7. Resting(b)'
        BY <3>5, <3>6 DEF Resting
      <3>8. Full = [c \in Channels |-> <<>>]
        <4>1. \A c \in Channels : Full[c] = <<>>
          BY <2>4, <2>8
        <4> QED BY <4>1 DEF Full
      <3> QED BY <3>1, <3>7, <3>8
    <2>9. CASE Full[1] # <<>>
      <3>1. Joins
        BY <2>6, <2>9, MergesIs
      <3>2. PICK shortest \in Channels :
              /\ list' = update.gate \cup {FromList(i) : i \in 1..Len(Full[shortest])}
              /\ cache' = [c \in Channels |->
                             SubSeq(Full[c], Len(Full[shortest]) + 1, Len(Full[c]))]
        BY <3>1 DEF Joins
      <3>3. ws' = "walking"
        BY <3>1 DEF Joins
      <3>4. w < q /\ q = b
        BY <2>3, <2>4, <2>5, <2>9
      <3>5. Len(Full[shortest]) = q - w
        BY <2>4, <2>5
      <3>6. cache' = [c \in Channels |-> <<>>]
        <4>1. ASSUME NEW c \in Channels
              PROVE  SubSeq(Full[c], Len(Full[shortest]) + 1, Len(Full[c])) = <<>>
          <5>1. Len(Full[shortest]) + 1 \in Int /\ Len(Full[c]) \in Int
                /\ Len(Full[c]) < Len(Full[shortest]) + 1
            BY <2>3, <2>4, <2>5
          <5> QED BY <5>1, SubSeqEmpty
        <4> QED BY <3>2, <4>1
      <3>7. {FromList(i) : i \in 1..Len(Full[shortest])} = Rows(w, b)
        <4>1. ASSUME NEW i \in 1..q - w PROVE FromList(i) = ReadingOf(w + i)
          <5>1. \A c \in Channels : Full[c][i] = w + i
            BY <2>4, <2>5
          <5>2. {Full[c][i] : c \in Channels} = {w + i}
            BY <5>1
          <5> QED BY <5>1, <5>2 DEF FromList, ReadingOf
        <4>2. {FromList(i) : i \in 1..Len(Full[shortest])} = {ReadingOf(w + i) : i \in 1..q - w}
          BY <3>5, <4>1
        <4>3. \A t \in w + 1..b : t - w \in 1..q - w /\ w + (t - w) = t
          BY <2>3, <3>4
        <4>4. \A i \in 1..q - w : w + i \in w + 1..b
          BY <2>3, <3>4
        <4>5. {ReadingOf(w + i) : i \in 1..q - w} = {ReadingOf(t) : t \in w + 1..b}
          BY <4>3, <4>4
        <4> QED BY <4>2, <4>5 DEF Rows
      <3>8. list' = (Rows(w, b) \cup GateEvents(p, b))'
        <4>1. list' = Rows(w, b) \cup GateEvents(p, b)
          BY <2>7, <3>2, <3>7
        <4> QED BY <1>1, <4>1, SignalKept
      <3>9. At(w, p)'
        BY <1>1, <2>1, AtKept
      <3>10. Walking(w, p, b)'
        BY <2>2, <2>3, <3>4, <3>8, <3>9 DEF Walking
      <3> QED BY <3>3, <3>6, <3>10
    <2> QED BY <2>8, <2>9
  <1> QED BY <1>2, <1>3

\* The steps of the thread that leave the FX4 and its updates alone.
LEMMA NeatThread ==
  ASSUME TypeOK, Neat, UNCHANGED <<now, levels, since, sent, gateSent, answers>>,
         cache' = [c \in Channels |-> <<>>],
         NEW g, GateChain(g, answers, gateSent), Followed(g[0])'
  PROVE  Neat'
  <1>1. GateChain(g, answers, gateSent)'
    BY GateChainKept
  <1>2. \A c \in Channels : sent'[c] = From(gateSent)'
    BY DEF From, Neat
  <1> QED BY <1>1, <1>2 DEF Neat

LEMMA NeatWebsocket ==
  ASSUME TypeOK, TypeOK', Counted, Lines, Fresh, Neat, Websocket, clean, ~disordered'
  PROVE  Neat'
  <1>1. PICK g : GateChain(g, answers, gateSent) /\ Followed(g[0])
    BY DEF Neat
  <1>2. PICK b \in Int : b = g[0] /\ b <= now
    BY <1>1, ChainStart
  <1>3. Followed(b) /\ toServer \in Seq(Requests) /\ cache = [c \in Channels |-> <<>>]
    BY <1>1, <1>2 DEF TypeOK, Neat
  <1>4. CASE WsTakes
    BY <1>4, NeatTakes
  <1>5. CASE WsMerges
    <2>1. /\ UNCHANGED <<now, levels, since, sent, gateSent, answers, toServer>>
          /\ ws = "taken"
      BY <1>5, MergesIs DEF fx4, socket
    <2>2. PICK p \in Int : Taken(p, b)
      BY <1>3, <2>1 DEF Followed
    <2>3. /\ cache' = [c \in Channels |-> <<>>]
          /\ \/ ws' = "walking" /\ \E w, v \in Int : Walking(w, v, b)'
             \/ ws' = "done" /\ (Has(toServer, "subscribe") \/ Resting(b)')
      BY <1>2, <1>3, <1>5, <2>2, MergeGate
    <2>4. Followed(b)'
      BY <2>1, <2>3 DEF Followed
    <2> QED BY <1>1, <1>2, <2>1, <2>3, <2>4, NeatThread
  <1>6. ASSUME NEW e \in list, WsWalksGate(e) PROVE Neat'
    <2>1. /\ UNCHANGED <<now, levels, since, sent, gateSent, answers, cache>>
          /\ ws = "walking" /\ ws' \in {"walking", "claiming"}
      BY <1>6 DEF WsWalksGate, Walks, fx4, socket, caches
    <2>2. PICK w \in Int, v \in Int : Walking(w, v, b)
      BY <1>3, <2>1 DEF Followed
    <2>3. \E t \in Int : Walking(w, t, b)'
      BY <1>2, <1>6, <2>2, WalkGate
    <2>4. Followed(b)'
      BY <2>1, <2>3 DEF Followed
    <2> QED BY <1>1, <1>2, <1>3, <2>1, <2>4, NeatThread
  <1>7. CASE WsClaims
    <2>1. /\ UNCHANGED <<now, levels, since, sent, gateSent, answers, cache, window, ring,
                         triggerMode, polarity, list>>
          /\ ws = "claiming" /\ ws' = "walking"
      BY <1>7 DEF WsClaims, fx4, socket, caches, settings
    <2>2. PICK w \in Int, v \in Int : Walking(w, v, b)
      BY <1>3, <2>1 DEF Followed
    <2>3. At(w, v)'
      BY <2>1, <2>2, AtKept DEF Walking
    <2>4. (Rows(w, b) \cup GateEvents(v, b))' = Rows(w, b) \cup GateEvents(v, b)
      BY <2>1, SignalKept
    <2>5. Walking(w, v, b)'
      BY <2>1, <2>2, <2>3, <2>4 DEF Walking
    <2>6. Followed(b)'
      BY <2>1, <2>5 DEF Followed
    <2> QED BY <1>1, <1>2, <1>3, <2>1, <2>6, NeatThread
  <1>8. ASSUME NEW e \in list, WsWalksReading(e) PROVE Neat'
    <2>1. /\ UNCHANGED <<now, levels, since, sent, gateSent, answers, cache>>
          /\ ws = "walking" /\ ws' = "walking"
      BY <1>8 DEF WsWalksReading, Walks, fx4, socket, caches
    <2>2. PICK w \in Int, v \in Int : Walking(w, v, b)
      BY <1>3, <2>1 DEF Followed
    <2>3. Walking(w + 1, w + 1, b)'
      BY <1>2, <1>8, <2>2, WalkReading
    <2>4. w + 1 \in Int
      OBVIOUS
    <2>5. Followed(b)'
      BY <2>1, <2>3, <2>4 DEF Followed
    <2> QED BY <1>1, <1>2, <1>3, <2>1, <2>5, NeatThread
  <1>9. CASE WsEnds
    <2>1. /\ UNCHANGED <<now, levels, since, sent, gateSent, answers, cache, window, ring,
                         triggerMode, polarity, acquiring>>
          /\ ws = "done" \/ (ws = "walking" /\ list = {})
          /\ ws' = "idle"
          /\ toServer' = toServer \/ toServer' = Append(toServer, "get")
      BY <1>9 DEF WsEnds, fx4, caches, settings, batch
    <2>2. Has(toServer', "subscribe") <=> Has(toServer, "subscribe")
      <3>1. Has(Append(toServer, "get"), "subscribe") <=> Has(toServer, "subscribe")
        <4>1. "get" \in Requests /\ "subscribe" # "get"
          BY DEF Requests
        <4> QED BY <1>3, <4>1, HasAppend
      <3> QED BY ONLY <2>1, <3>1, Zenon
    <2>3. \A p \in Int : From(p)' = From(p)
      BY <2>1, SignalKept
    <2>4. acquiring = 1 /\ ~Has(toServer, "subscribe") => Resting(b)
      <3>1. CASE ws = "done"
        BY <1>3, <3>1 DEF Followed
      <3>2. CASE ws = "walking" /\ list = {}
        <4>1. PICK w \in Int, v \in Int : Walking(w, v, b)
          BY <1>3, <3>2 DEF Followed
        <4>2. /\ since <= w /\ w <= b /\ v <= b /\ (v < w => w < b) /\ since \in Nat
              /\ At(w, v)
          BY <1>2, <4>1, WalkIs DEF Walking
        <4>3. ~(w < b)
          <5> SUFFICES ASSUME w < b PROVE FALSE
            OBVIOUS
          <5>1. b \in w + 1..b
            BY <4>2
          <5>2. ReadingOf(b) \in Rows(w, b)
            BY <5>1, RowsOf
          <5> QED BY <3>2, <4>1, <5>2 DEF Walking
        <4>4. w = b /\ v = b
          BY <4>2, <4>3
        <4>5. From(b) = b
          BY <4>2, <4>4, FromIs
        <4> QED BY <4>2, <4>4, <4>5 DEF Resting
      <3> QED BY <2>1, <3>1, <3>2
    <2>5. Resting(b) => Resting(b)'
      <3>1. ASSUME NEW w \in Int, w = From(b), At(w, b) PROVE Resting(b)'
        <4>1. At(w, b)'
          BY <2>1, <3>1, AtKept
        <4> QED BY <2>3, <3>1, <4>1 DEF Resting
      <3> QED BY <3>1 DEF Resting
    <2>6. Followed(b)'
      BY <2>1, <2>2, <2>4, <2>5 DEF Followed
    <2> QED BY <1>1, <1>2, <1>3, <2>1, <2>6, NeatThread
  <1> QED BY <1>4, <1>5, <1>6, <1>7, <1>8, <1>9 DEF Websocket

-----------------------------------------------------------------------------
(***************************************************************************)
(* Starts, stops and settings; and the whole.                              *)
(***************************************************************************)
LEMMA NeatInit == Init => Neat
  <1> SUFFICES ASSUME Init PROVE Neat
    OBVIOUS
  <1>1. /\ since = 0 /\ now = 0 /\ gateSent = -1 /\ answers = <<>> /\ acquiring = 0
        /\ ws = "idle" /\ sent = [c \in Channels |-> 0] /\ cache = [c \in Channels |-> <<>>]
    BY DEF Init
  <1>2. From(gateSent) = 0
    BY <1>1 DEF From
  <1> DEFINE g == [i \in 0..0 |-> gateSent]
  <1>3. Len(answers) = 0 /\ g[0] = gateSent /\ g \in [0..0 -> Int]
    BY <1>1
  <1> HIDE DEF g
  <1>4. GateChain(g, answers, gateSent)
    BY <1>1, <1>3 DEF GateChain
  <1>5. Followed(g[0])
    BY <1>1 DEF Followed
  <1> QED BY <1>1, <1>2, <1>4, <1>5 DEF Neat

\* With nothing taken and no acquisition there is nothing to follow.
LEMMA NeatAtRest ==
  ASSUME TypeOK, Neat, UNCHANGED <<now, levels, since, sent, gateSent, answers>>,
         cache' = [c \in Channels |-> <<>>], ws' = "idle",
         acquiring' = 0 \/ Has(toServer', "subscribe")
  PROVE  Neat'
  <1>1. PICK g : GateChain(g, answers, gateSent)
    BY DEF Neat
  <1>2. Followed(g[0])'
    BY DEF Followed
  <1> QED BY <1>1, <1>2, NeatThread

LEMMA NeatStops ==
  ASSUME TypeOK, Neat,
         UNCHANGED <<now, levels, since, sent, gateSent, answers, cache, window, ring,
                     triggerMode, polarity, ws, update, list>>,
         \/ UNCHANGED <<toServer, acquiring>>
         \/ Stop
         \/ toServer' = Append(toServer, "get") /\ UNCHANGED acquiring
  PROVE  Neat'
  <1>1. PICK g : GateChain(g, answers, gateSent) /\ Followed(g[0])
    BY DEF Neat
  <1>2. g[0] \in Int
    BY <1>1, ChainStart
  <1>3. /\ toServer' \in {toServer, Append(toServer, "get"), Append(toServer, "unsubscribe")}
        /\ acquiring' = 1 => acquiring = 1
    BY DEF Stop
  <1>4. Has(toServer', "subscribe") <=> Has(toServer, "subscribe")
    <2>1. /\ Has(Append(toServer, "get"), "subscribe") <=> Has(toServer, "subscribe")
          /\ Has(Append(toServer, "unsubscribe"), "subscribe") <=> Has(toServer, "subscribe")
      <3>1. /\ "get" \in Requests /\ "unsubscribe" \in Requests /\ "subscribe" # "get"
            /\ "subscribe" # "unsubscribe" /\ toServer \in Seq(Requests)
        BY DEF Requests, TypeOK
      <3> QED BY <3>1, HasAppend
    <2> QED BY ONLY <1>3, <2>1, Zenon
  <1>5. Followed(g[0])'
    BY <1>1, <1>2, <1>3, <1>4, AtKept, SignalKept, FollowedKept
  <1>6. cache' = [c \in Channels |-> <<>>]
    BY DEF Neat
  <1> QED BY <1>1, <1>5, <1>6, NeatThread

LEMMA NeatStep ==
  ASSUME TypeOK, TypeOK', Counted, Lines, Fresh, Neat, [Next]_vars, clean', ~disordered'
  PROVE  Neat'
  <1>1. clean
    BY CleanWas
  <1>2. CASE Tick
    BY <1>2, NeatTick
  <1>3. CASE Server
    BY <1>3, NeatAnswers, NeatSubscribes DEF Server
  <1>4. CASE Websocket
    BY <1>1, <1>4, NeatWebsocket
  <1>5. CASE WriteAcquire1
    <2>1. /\ UNCHANGED <<now, levels, since, sent, gateSent, answers, ws>> /\ ws = "idle"
          /\ cache' = [c \in Channels |-> <<>>]
          /\ toServer' = toServer \o <<"subscribe", "get">>
          /\ ~Has(toServer, "unsubscribe") /\ ~Has(toServer, "subscribe")
      BY <1>5, CleanStart DEF fx4, thread
    <2>2. Has(toServer', "subscribe")
      BY <2>1, StartRequests DEF TypeOK, Lines
    <2> QED BY <2>1, <2>2, NeatAtRest
  <1>6. CASE WriteAcquire0 \/ Task \/ Poll \/ UNCHANGED vars
             \/ \E m \in Modes : WriteAcquireMode(m)
    <2>1. UNCHANGED <<now, levels, since, sent, gateSent, answers, cache, window, ring,
                      triggerMode, polarity, ws, update, list>>
      BY <1>6 DEF WriteAcquire0, Task, Poll, vars, WriteAcquireMode, fx4, socket, settings,
         caches, batch, thread
    <2>2. \/ UNCHANGED <<toServer, acquiring>>
          \/ Stop
          \/ toServer' = Append(toServer, "get") /\ UNCHANGED acquiring
      BY <1>6 DEF WriteAcquire0, Task, Poll, vars, WriteAcquireMode, socket
    <2> QED BY <2>1, <2>2, NeatStops
  <1>7. CASE WriteAveragingTime \/ ReadData
             \/ \E t \in TriggerModes, p \in Polarities : WriteTrigger(t, p)
    <2>1. /\ UNCHANGED <<now, levels, since, sent, gateSent, answers, cache, ws, acquiring>>
      BY <1>7 DEF WriteAveragingTime, ReadData, WriteTrigger, fx4, socket, caches, thread
    <2>2. ~Runs
      <3>1. clean' = (clean /\ ~Runs)
        BY <1>7 DEF WriteAveragingTime, ReadData, WriteTrigger
      <3> QED BY ONLY <3>1, clean', Zenon
    <2>3. ws = "idle" /\ acquiring = 0
      BY <2>2 DEF Runs, TypeOK
    <2>4. cache' = [c \in Channels |-> <<>>]
      BY <2>1 DEF Neat
    <2> QED BY <2>1, <2>3, <2>4, NeatAtRest
  <1> QED BY <1>2, <1>3, <1>4, <1>5, <1>6, <1>7 DEF Next, Port

\* The walk that follows the signal notes nothing.
LEMMA MergedStep ==
  ASSUME TypeOK, Counted, clean /\ ~disordered => Neat, [Next]_vars,
         "batch" \notin wrongs, "gate" \notin wrongs
  PROVE  "batch" \notin wrongs' /\ "gate" \notin wrongs'
  <1>1. ASSUME clean, ~disordered, ws = "walking"
        PROVE  \E w, v, b \in Int : b <= now /\ Walking(w, v, b)
    <2>1. PICK g : GateChain(g, answers, gateSent) /\ Followed(g[0])
      BY <1>1 DEF Neat
    <2>2. g[0] \in Int /\ g[0] <= now
      BY <2>1, ChainStart
    <2> QED BY <1>1, <2>1, <2>2 DEF Followed
  <1>2. ASSUME NEW e \in list, WsWalksReading(e)
        PROVE  "batch" \notin wrongs' /\ "gate" \notin wrongs'
    <2>1. wrongs' = wrongs \/ (Counts /\ Note(BadReading(e)))
      BY <1>2 DEF WsWalksReading, BadReading
    <2>2. Counts /\ clean => "batch" \notin BadReading(e) /\ "gate" \notin BadReading(e)
      <3>1. CASE disordered
        BY <3>1 DEF BadReading
      <3>2. CASE ~disordered
        <4>1. ws = "walking"
          BY <1>2 DEF WsWalksReading, Walks
        <4> QED BY <1>1, <1>2, <3>2, <4>1, ReadingNoted
      <3> QED BY <3>1, <3>2
    <2> QED BY <2>1, <2>2, NotNoted
  <1>3. ASSUME NEW e \in list, WsWalksGate(e)
        PROVE  "batch" \notin wrongs' /\ "gate" \notin wrongs'
    <2>1. wrongs' = wrongs \/ (triggerMode = "ExtBulb" /\ Note(BadGate(e)))
      BY <1>3 DEF WsWalksGate, BadGate
    <2>2. "gate" \notin BadGate(e)
      BY DEF BadGate
    <2>3. triggerMode = "ExtBulb" /\ clean => "batch" \notin BadGate(e)
      <3>1. CASE disordered
        BY <3>1 DEF BadGate
      <3>2. ASSUME ~disordered, triggerMode = "ExtBulb", clean PROVE "batch" \notin BadGate(e)
        <4>1. ws = "walking"
          BY <1>3 DEF WsWalksGate, Walks
        <4>2. GoodBulb(ring, e.time)
          BY <1>1, <1>3, <3>2, <4>1, GateBatch
        <4> QED BY <4>2 DEF BadGate
      <3> QED BY <3>1, <3>2
    <2> QED BY <2>1, <2>2, <2>3, NotNoted
  <1>4. CASE WsTakes \/ WsMerges \/ WsClaims \/ WsEnds
    BY <1>4 DEF WsTakes, WsMerges, WsClaims, WsEnds, history
  <1>5. CASE Port \/ Server \/ Tick \/ Task \/ Poll \/ UNCHANGED vars
    BY <1>5 DEF Port, WriteAcquire1, WriteAcquire0, WriteTrigger, WriteAcquireMode,
       WriteAveragingTime, ReadData, Server, Answers, Subscribes, Tick, Task, Poll, vars,
       history
  <1> QED BY <1>2, <1>3, <1>4, <1>5 DEF Next, Websocket

\* The inductive invariant.
IInv ==
  /\ Counted /\ Channelled
  /\ clean /\ ~disordered => Neat

\* Undisturbed, requests go out in order, nothing of one acquisition meets the next, the
\* updates under way adjoin in every channel; and if no reading lags, the walk along the
\* list is where the gate's changes and the readings say.
THEOREM Invariance == Spec => []IInv
  <1>1. Init => IInv
    BY CountedInit, LinesInit, LevelInit, NeatInit DEF IInv, Channelled
  <1>2. TypeOK /\ TypeOK' /\ IInv /\ [Next]_vars => IInv'
    <2> SUFFICES ASSUME TypeOK, TypeOK', IInv, [Next]_vars PROVE IInv'
      OBVIOUS
    <2>1. (clean' => clean) /\ (~disordered' => ~disordered)
      BY CleanWas
    <2>2. Counted'
      BY CountedStep DEF IInv
    <2>3. Channelled'
      BY <2>1, LinesStep, FreshStep, LevelStep, StraightStep DEF IInv, Channelled
    <2>4. clean' /\ ~disordered' => Neat'
      BY <2>1, NeatStep DEF IInv, Channelled
    <2> QED BY <2>2, <2>3, <2>4 DEF IInv
  <1> QED BY <1>1, <1>2, TypeCorrect, PTL DEF Spec

\* A reading is of one time in all channels: the channels' lists, of whatever lengths
\* the updates make them, are cut at the same times, from the first merge on.
THEOREM ReadingsAligned == Spec => []Aligned
  <1>1. Init => Aligned
    BY DEF Init, Aligned
  <1>2. TypeOK /\ IInv /\ Aligned /\ [Next]_vars => Aligned'
    BY AlignedStep DEF IInv, Channelled, Aligned
  <1> QED BY <1>1, <1>2, TypeCorrect, Invariance, PTL DEF Spec

\* The merge is true to the signal wherever the updates split it: batches of an external
\* trigger have a trigger in them, those of a bulb gate are the whole gate, gated readings
\* were made with the gate open, and the channels do not slip against each other.
THEOREM MergesTruly == Spec => []MergeIsTrue
  <1>1. Init => BatchIsTrue /\ GateIsTrue
    BY DEF Init, BatchIsTrue, GateIsTrue
  <1>2. TypeOK /\ IInv /\ BatchIsTrue /\ GateIsTrue /\ [Next]_vars
          => BatchIsTrue' /\ GateIsTrue'
    BY MergedStep DEF IInv, BatchIsTrue, GateIsTrue
  <1>3. BatchIsTrue /\ GateIsTrue /\ Aligned => MergeIsTrue
    BY DEF MergeIsTrue
  <1> QED BY <1>1, <1>2, <1>3, TypeCorrect, Invariance, ReadingsAligned, PTL DEF Spec
=============================================================================
