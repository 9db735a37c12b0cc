----------------------------- MODULE PCR4Proofs -----------------------------
(***************************************************************************)
(* Proofs about PCR4 for every choice of trigger modes, acquire modes and  *)
(* NumAcquire values, and every bound on faults and queued messages.       *)
(***************************************************************************)
EXTENDS PCR4, SequenceTheorems, TLAPS

(***************************************************************************)
(* The steps that the port thread has still to do, as a list.              *)
(***************************************************************************)
\* A step done: the list without its head.
LEMMA TailIs ==
  ASSUME NEW Steps, NEW s \in Seq(Steps), s # <<>>
  PROVE  /\ Len(s) \in Nat \ {0}
         /\ Head(s) = s[1] /\ Head(s) \in Steps
         /\ Tail(s) \in Seq(Steps)
         /\ Len(Tail(s)) = Len(s) - 1
         /\ \A i \in 1..Len(s) - 1 : Tail(s)[i] = s[i + 1]
         /\ \A i \in 1..Len(s) : s[i] \in Steps
  <1>1. Len(s) \in Nat \ {0}
    BY EmptySeq
  <1>2. \A i \in 1..Len(s) : s[i] \in Steps
    BY ElementOfSeq
  <1>3. Head(s) = s[1]
    OBVIOUS
  <1> QED BY <1>1, <1>2, <1>3, HeadTailProperties

\* A list of more than one step.
LEMMA SkippedIs ==
  ASSUME NEW Steps, NEW s \in Seq(Steps), s # <<>>, Len(s) > 1
  PROVE  /\ Tail(s) # <<>> /\ Head(Tail(s)) = s[2]
         /\ Tail(Tail(s)) \in Seq(Steps)
  <1>1. /\ Tail(s) \in Seq(Steps) /\ Len(Tail(s)) = Len(s) - 1 /\ Len(s) \in Nat
        /\ \A i \in 1..Len(s) - 1 : Tail(s)[i] = s[i + 1]
    BY TailIs
  <1>2. Tail(s) # <<>>
    <2>1. Len(Tail(s)) # 0
      BY <1>1
    <2>2. Len(<<>>) = 0
      OBVIOUS
    <2> QED BY <2>1, <2>2
  <1>3. Tail(s)[1] = s[2]
    <2>1. 1 \in 1..Len(s) - 1 /\ 1 + 1 = 2
      BY <1>1
    <2> QED BY <1>1, <2>1
  <1>4. Head(Tail(s)) = Tail(s)[1] /\ Tail(Tail(s)) \in Seq(Steps)
    BY <1>1, <1>2, TailIs
  <1> QED BY <1>2, <1>3, <1>4

\* A step replaced by another.
LEMMA ReplacedIs ==
  ASSUME NEW Steps, NEW s \in Seq(Steps), s # <<>>, NEW a \in Steps
  PROVE  /\ <<a>> \o Tail(s) \in Seq(Steps)
         /\ <<a>> \o Tail(s) # <<>>
         /\ Len(<<a>> \o Tail(s)) = Len(s)
         /\ (<<a>> \o Tail(s))[1] = a
         /\ \A i \in 2..Len(s) : (<<a>> \o Tail(s))[i] = s[i]
  <1> DEFINE t == <<a>> \o Tail(s)
  <1>1. <<a>> \in Seq(Steps) /\ Len(<<a>>) = 1 /\ <<a>>[1] = a
    OBVIOUS
  <1>2. /\ t \in Seq(Steps)
        /\ Len(t) = 1 + Len(Tail(s))
        /\ \A i \in 1..1 + Len(Tail(s)) :
             t[i] = IF i <= 1 THEN <<a>>[i] ELSE Tail(s)[i - 1]
    BY <1>1, TailIs, ConcatProperties
  <1> HIDE DEF t
  <1>3. Len(t) = Len(s) /\ t # <<>>
    BY <1>2, TailIs, EmptySeq
  <1>4. t[1] = a
    BY <1>1, <1>2, TailIs
  <1>5. ASSUME NEW i \in 2..Len(s) PROVE t[i] = s[i]
    BY <1>2, TailIs
  <1> QED BY <1>2, <1>3, <1>4, <1>5 DEF t

\* A list is its first step put before the rest.
LEMMA HeadBeforeTail ==
  ASSUME NEW Steps, NEW s \in Seq(Steps), s # <<>>
  PROVE  s = <<Head(s)>> \o Tail(s)
  <1>1. Head(s) \in Steps
    BY TailIs
  <1> DEFINE t == <<Head(s)>> \o Tail(s)
  <1>2. /\ t \in Seq(Steps) /\ Len(t) = Len(s) /\ t[1] = Head(s)
        /\ \A i \in 2..Len(s) : t[i] = s[i]
    BY <1>1, ReplacedIs
  <1> HIDE DEF t
  <1>3. \A i \in 1..Len(s) : t[i] = s[i]
    BY <1>2, TailIs
  <1> QED BY <1>2, <1>3, SeqEqual DEF t

\* A step put before a list.
LEMMA ConsIs ==
  ASSUME NEW Steps, NEW s \in Seq(Steps), NEW a \in Steps
  PROVE  /\ <<a>> \o s \in Seq(Steps) /\ <<a>> \o s # <<>>
         /\ Head(<<a>> \o s) = a /\ Tail(<<a>> \o s) = s
         /\ Len(<<a>> \o s) = Len(s) + 1
  <1> DEFINE u == <<a>>
             t == u \o s
  <1>1. u \in Seq(Steps) /\ Len(u) = 1 /\ u[1] = a /\ Len(s) \in Nat
    BY LenProperties
  <1> HIDE DEF u
  <1>2. /\ t \in Seq(Steps) /\ Len(t) = Len(u) + Len(s)
        /\ \A i \in 1..Len(u) + Len(s) : t[i] = IF i <= Len(u) THEN u[i] ELSE s[i - Len(u)]
    BY <1>1, ConcatProperties
  <1> HIDE DEF t
  <1>3. Len(t) = Len(s) + 1 /\ t[1] = a /\ \A i \in 1..Len(s) : t[i + 1] = s[i]
    BY <1>1, <1>2
  <1>4. t # <<>>
    BY <1>1, <1>2, <1>3, EmptySeq
  <1>5. \A i \in 1..Len(s) : Tail(t)[i] = s[i]
    BY <1>2, <1>3, <1>4, TailIs
  <1>6. Tail(t) = s
    BY <1>1, <1>2, <1>3, <1>4, <1>5, TailIs, SeqEqual
  <1> QED BY <1>2, <1>3, <1>4, <1>6, TailIs DEF t, u

\* More steps than one put before a list are put there one by one.
LEMMA ConsOfMany ==
  ASSUME NEW Steps, NEW u \in Seq(Steps), u # <<>>, NEW s \in Seq(Steps)
  PROVE  u \o s = <<Head(u)>> \o (Tail(u) \o s)
  <1>1. Head(u) \in Steps /\ Tail(u) \in Seq(Steps) /\ <<Head(u)>> \in Seq(Steps)
    BY TailIs
  <1>2. u = <<Head(u)>> \o Tail(u)
    BY HeadBeforeTail
  <1> QED BY <1>1, <1>2, ConcatAssociative

\* Two steps, three, four.
LEMMA ConsOfFour ==
  ASSUME NEW Steps, NEW s \in Seq(Steps),
         NEW a \in Steps, NEW b \in Steps, NEW c \in Steps, NEW d \in Steps
  PROVE  /\ <<a, b>> \o s = <<a>> \o (<<b>> \o s)
         /\ <<a, b, c>> \o s = <<a>> \o (<<b>> \o (<<c>> \o s))
         /\ <<a, b, c, d>> \o s = <<a>> \o (<<b>> \o (<<c>> \o (<<d>> \o s)))
  <1>1. ASSUME NEW x \in Steps, NEW y \in Steps PROVE <<x, y>> \o s = <<x>> \o (<<y>> \o s)
    <2> DEFINE u == <<x, y>>
    <2>1. u \in Seq(Steps) /\ u # <<>> /\ Head(u) = x /\ Tail(u) = <<y>>
      OBVIOUS
    <2> HIDE DEF u
    <2>2. u \o s = <<Head(u)>> \o (Tail(u) \o s)
      BY <2>1, ConsOfMany
    <2>3. u \o s = <<x>> \o (<<y>> \o s)
      BY ONLY <2>1, <2>2, Zenon
    <2> QED BY <2>3 DEF u
  <1>2. ASSUME NEW x \in Steps, NEW y \in Steps, NEW z \in Steps
        PROVE  <<x, y, z>> \o s = <<x>> \o (<<y, z>> \o s)
    <2> DEFINE u == <<x, y, z>>
    <2>1. u \in Seq(Steps) /\ u # <<>> /\ Head(u) = x /\ Tail(u) = <<y, z>>
      OBVIOUS
    <2> HIDE DEF u
    <2>2. u \o s = <<Head(u)>> \o (Tail(u) \o s)
      BY <2>1, ConsOfMany
    <2>3. u \o s = <<x>> \o (<<y, z>> \o s)
      BY ONLY <2>1, <2>2, Zenon
    <2> QED BY <2>3 DEF u
  <1>3. <<a, b, c, d>> \o s = <<a>> \o (<<b, c, d>> \o s)
    <2> DEFINE u == <<a, b, c, d>>
    <2>1. u \in Seq(Steps) /\ u # <<>> /\ Head(u) = a /\ Tail(u) = <<b, c, d>>
      OBVIOUS
    <2> HIDE DEF u
    <2>2. u \o s = <<Head(u)>> \o (Tail(u) \o s)
      BY <2>1, ConsOfMany
    <2>3. u \o s = <<a>> \o (<<b, c, d>> \o s)
      BY ONLY <2>1, <2>2, Zenon
    <2> QED BY <2>3 DEF u
  <1>4. <<a, b>> \o s = <<a>> \o (<<b>> \o s)
    BY <1>1
  <1>5. <<a, b, c>> \o s = <<a>> \o (<<b>> \o (<<c>> \o s))
    <2>1. <<a, b, c>> \o s = <<a>> \o (<<b, c>> \o s)
      BY <1>2
    <2>2. <<b, c>> \o s = <<b>> \o (<<c>> \o s)
      BY <1>1
    <2> QED BY ONLY <2>1, <2>2, Zenon
  <1>6. <<b, c, d>> \o s = <<b>> \o (<<c>> \o (<<d>> \o s))
    <2>1. <<b, c, d>> \o s = <<b>> \o (<<c, d>> \o s)
      BY <1>2
    <2>2. <<c, d>> \o s = <<c>> \o (<<d>> \o s)
      BY <1>1
    <2> QED BY ONLY <2>1, <2>2, Zenon
  <1> QED BY ONLY <1>3, <1>4, <1>5, <1>6, Zenon

\* Whether a step is in the list.
Has(s, op) == \E i \in 1..Len(s) : s[i] = op

\* What is in a list is its first step or in the rest.
LEMMA HasTail ==
  ASSUME NEW Steps, NEW s \in Seq(Steps), s # <<>>, NEW op
  PROVE  Has(s, op) <=> (Head(s) = op \/ Has(Tail(s), op))
  <1>1. ASSUME Has(s, op), Head(s) # op PROVE Has(Tail(s), op)
    <2>1. PICK i \in 1..Len(s) : s[i] = op
      BY <1>1 DEF Has
    <2>2. i # 1 /\ Len(s) \in Nat
      BY <1>1, <2>1, TailIs
    <2>3. i - 1 \in 1..Len(Tail(s)) /\ Tail(s)[i - 1] = op
      BY <2>1, <2>2, TailIs
    <2> QED BY <2>3 DEF Has
  <1>2. ASSUME Has(Tail(s), op) PROVE Has(s, op)
    <2>1. PICK i \in 1..Len(Tail(s)) : Tail(s)[i] = op
      BY <1>2 DEF Has
    <2>2. i + 1 \in 1..Len(s) /\ s[i + 1] = op
      BY <2>1, TailIs
    <2> QED BY <2>2 DEF Has
  <1>3. Head(s) = op => Has(s, op)
    BY TailIs DEF Has
  <1> QED BY <1>1, <1>2, <1>3

\* What is in a list with one step more in front.
LEMMA HasCons ==
  ASSUME NEW Steps, NEW s \in Seq(Steps), NEW a \in Steps, NEW op
  PROVE  Has(<<a>> \o s, op) <=> (a = op \/ Has(s, op))
  <1> DEFINE t == <<a>> \o s
  <1>1. t \in Seq(Steps) /\ t # <<>> /\ Head(t) = a /\ Tail(t) = s
    BY ConsIs
  <1> HIDE DEF t
  <1> QED BY <1>1, HasTail DEF t

(***************************************************************************)
(* What the port thread has still to do, as a sequence.                    *)
(***************************************************************************)
LEMMA OpsAre ==
  \A op \in {"stop", "start", "go", "params", "command", "status", "resume", "clear",
             "send", "ask", "query", "arm"} : op \in Ops
  BY DEF Ops

LEMMA JoinedIs ==
  ASSUME NEW s \in Seq(Ops), NEW u \in Seq(Ops)
  PROVE  s \o u \in Seq(Ops)
  BY ConcatProperties

\* What the client's writes ask for.
LEMMA CallsAre ==
  /\ <<>> \in Seq(Ops)
  /\ <<"start">> \in Seq(Ops) /\ <<"stop">> \in Seq(Ops) /\ <<"status">> \in Seq(Ops)
  /\ <<"stop", "send">> \in Seq(Ops) /\ <<"params", "status">> \in Seq(Ops)
  /\ <<"stop", "clear", "params", "status">> \in Seq(Ops)
  /\ <<"stop", "command", "send", "params", "command", "status", "resume", "status">>
        \in Seq(Ops)
  BY DEF Ops

\* A bias setting's list: no command, one or two, then the status.
LEMMA BiasIs ==
  ASSUME NEW n \in 0..2
  PROVE  /\ [i \in 1..n |-> "command"] \in Seq(Ops)
         /\ [i \in 1..n |-> "command"] \in {<<>>, <<"command">>, <<"command", "command">>}
  <1> DEFINE u == [i \in 1..n |-> "command"]
  <1>1. u \in Seq(Ops) /\ Len(u) = n /\ \A i \in 1..n : u[i] = "command"
    <2>1. "command" \in Ops /\ n \in Nat
      BY OpsAre
    <2> QED BY <2>1
  <1>2. /\ <<>> \in Seq(Ops) /\ <<"command">> \in Seq(Ops)
        /\ <<"command", "command">> \in Seq(Ops)
    BY DEF Ops
  <1>3. CASE n = 0
    BY <1>1, <1>2, <1>3, EmptySeq
  <1>4. CASE n = 1
    <2> DEFINE w == <<"command">>
    <2>1. Len(w) = 1 /\ w[1] = "command" /\ w \in Seq(Ops)
      BY <1>2
    <2> HIDE DEF u, w
    <2>2. \A i \in 1..Len(u) : u[i] = w[i]
      BY <1>1, <1>4, <2>1
    <2>3. u = w
      BY <1>1, <1>4, <2>1, <2>2, SeqEqual
    <2> QED BY <1>1, <2>3 DEF u, w
  <1>5. CASE n = 2
    <2> DEFINE w == <<"command", "command">>
    <2>1. Len(w) = 2 /\ w[1] = "command" /\ w[2] = "command" /\ w \in Seq(Ops)
      BY <1>2
    <2> HIDE DEF u, w
    <2>2. \A i \in 1..Len(u) : u[i] = w[i]
      BY <1>1, <1>5, <2>1
    <2>3. u = w
      BY <1>1, <1>5, <2>1, <2>2, SeqEqual
    <2> QED BY <1>1, <2>3 DEF u, w
  <1> QED BY <1>3, <1>4, <1>5

\* The lists that setAcquireParams, sendCommand and readStatus are replaced by.
LEMMA ExpansionsAre ==
  /\ <<"params", "go">> \in Seq(Ops)
  /\ <<"stop", "send", "arm", "start">> \in Seq(Ops)
  /\ <<"stop", "send", "arm">> \in Seq(Ops) /\ <<"send", "arm">> \in Seq(Ops)
  /\ <<"ask">> \in Seq(Ops) /\ <<"query">> \in Seq(Ops)
  /\ \A due \in BOOLEAN :
       Wrapped(<<"ask">>, due) \in Seq(Ops) /\ Wrapped(<<"query">>, due) \in Seq(Ops)
  <1>1. /\ <<"params", "go">> \in Seq(Ops)
        /\ <<"stop", "send", "arm", "start">> \in Seq(Ops)
        /\ <<"stop", "send", "arm">> \in Seq(Ops) /\ <<"send", "arm">> \in Seq(Ops)
        /\ <<"ask">> \in Seq(Ops) /\ <<"query">> \in Seq(Ops)
        /\ <<"stop">> \in Seq(Ops) /\ <<"start">> \in Seq(Ops)
    BY DEF Ops
  <1>2. ASSUME NEW d \in Seq(Ops), NEW due \in BOOLEAN
        PROVE  Wrapped(d, due) \in Seq(Ops)
    <2>1. <<"stop">> \o d \in Seq(Ops)
      BY <1>1, JoinedIs
    <2>2. <<"stop">> \o d \o <<"start">> \in Seq(Ops)
      BY <1>1, <2>1, JoinedIs
    <2> QED BY <2>2 DEF Wrapped
  <1> QED BY <1>1, <1>2

-----------------------------------------------------------------------------
(* Types.                                                                  *)

LEMMA MostIs ==
  MostAcquired \in NumAcquires /\ MostAcquired \in Nat
    /\ \A k \in NumAcquires : k <= MostAcquired
  BY ConstAssumption, MostAssumption DEF MostAcquired

LEMMA InitType == Init => TypeOK
  <1> SUFFICES ASSUME Init PROVE TypeOK
    OBVIOUS
  <1>1. todo \in Seq(Ops)
    BY CallsAre DEF Init
  <1>2. numAcquired \in 0..MostAcquired
    BY MostIs DEF Init
  <1>3. /\ event \in BOOLEAN /\ running \in BOOLEAN
        /\ heard \in BOOLEAN /\ overlapped \in BOOLEAN /\ forgotten \in BOOLEAN
    BY DEF Init
  <1>4. faults \in 0..MaxFaults /\ queued \in 0..MaxQueued
    BY ConstAssumption DEF Init
  <1>5. readingActive = 1 <=> reader = "reading"
    BY DEF Init
  <1> QED BY <1>1, <1>2, <1>3, <1>4, <1>5 DEF Init, TypeOK

Reader == ReaderWakes \/ ReaderStarts \/ ReaderReads

LEMMA ReaderType == ASSUME TypeOK, Reader PROVE TypeOK'
  <1>1. CASE ReaderWakes
    BY <1>1 DEF ReaderWakes, TypeOK, control, port, meter
  <1>2. CASE ReaderStarts
    BY <1>2 DEF ReaderStarts, TypeOK, control, port, meter
  <1>3. CASE ReaderReads
    BY <1>3, ConstAssumption DEF ReaderReads, TypeOK, control, port, meter
  <1> QED BY <1>1, <1>2, <1>3 DEF Reader

LEMMA FailsType ==
  ASSUME TypeOK
  PROVE  /\ Answered => faults' = faults /\ faults' \in 0..MaxFaults
         /\ Fails => faults' \in 0..MaxFaults
  BY ConstAssumption DEF TypeOK, Answered, Fails

LEMMA MeterOffType ==
  ASSUME TypeOK, MeterOff
  PROVE  running' \in BOOLEAN /\ heard' \in BOOLEAN /\ faults' \in 0..MaxFaults
  <1>1. running \in BOOLEAN
    BY DEF TypeOK
  <1>2. CASE Answered /\ running' = FALSE /\ heard' = TRUE
    BY <1>2, FailsType
  <1>3. CASE Fails /\ running' \in {FALSE, running} /\ heard' = FALSE
    BY <1>1, <1>3, FailsType
  <1> QED BY <1>2, <1>3 DEF MeterOff

LEMMA PortType == ASSUME TypeOK, Port PROVE TypeOK'
  <1> USE DEF TypeOK, driver, control, port, meter
  <1>1. CASE PortStop
    <2>1. todo \in Seq(Ops) /\ todo # <<>> /\ Tail(todo) \in Seq(Ops)
      BY <1>1, TailIs DEF PortStop, PortHasLock
    <2>2. running' \in BOOLEAN /\ heard' \in BOOLEAN /\ faults' \in 0..MaxFaults
      BY <1>1, MeterOffType DEF PortStop
    <2> QED BY <1>1, <2>1, <2>2 DEF PortStop, PortHasLock, Pop
  <1>2. CASE PortStopped
    <2>1. todo \in Seq(Ops) /\ todo # <<>> /\ Tail(todo) \in Seq(Ops)
      BY <1>2, TailIs DEF PortStopped
    <2>2. running' \in BOOLEAN /\ heard' \in BOOLEAN /\ faults' \in 0..MaxFaults
      BY <1>2, MeterOffType DEF PortStopped, StopEnds
    <2> QED BY <1>2, <2>1, <2>2 DEF PortStopped, StopEnds, Pop
  <1>3. CASE PortStart
    <2>1. todo \in Seq(Ops) /\ todo # <<>> /\ waiting = "no" /\ Tail(todo) \in Seq(Ops)
      BY <1>3, TailIs DEF PortStart, PortHasLock
    <2>2. <<"params", "go">> \o Tail(todo) \in Seq(Ops)
      BY <2>1, ExpansionsAre, JoinedIs
    <2>3. todo' \in Seq(Ops)
      BY <1>3, <2>1, <2>2 DEF PortStart, Pop, Expand
    <2>4. numAcquired' \in 0..MostAcquired
      BY <1>3, MostIs DEF PortStart
    <2> QED BY <1>3, <2>1, <2>3, <2>4 DEF PortStart
  <1>4. CASE PortGoes
    <2>1. todo \in Seq(Ops) /\ todo # <<>> /\ waiting = "no" /\ Tail(todo) \in Seq(Ops)
      BY <1>4, TailIs DEF PortGoes, PortHasLock
    <2>2. PICK failed \in BOOLEAN :
            /\ IF failed THEN Fails ELSE Answered
            /\ running' = IF trigger = 1 THEN running ELSE IF failed THEN running ELSE TRUE
            /\ heard' = IF trigger = 1 THEN heard ELSE ~failed
            /\ IF readingActive = 1
               THEN /\ acquiring' = (IF failed THEN 0 ELSE 1)
                    /\ Pop /\ UNCHANGED waiting
               ELSE /\ acquiring' = 1
                    /\ waiting' = (IF failed THEN "failed" ELSE "start")
                    /\ UNCHANGED todo
      <3>1. \A failed \in {FALSE} \cup {trigger = 0} : failed \in BOOLEAN
        OBVIOUS
      <3> QED BY <1>4, <3>1 DEF PortGoes
    <2>3. running' \in BOOLEAN /\ heard' \in BOOLEAN
      <3>1. running \in BOOLEAN /\ heard \in BOOLEAN
        OBVIOUS
      <3> QED BY <2>2, <3>1
    <2>4. faults' \in 0..MaxFaults
      BY <2>2, FailsType
    <2>5. /\ acquiring' \in {0, 1} /\ waiting' \in {"no", "stop", "start", "failed"}
          /\ todo' \in Seq(Ops) /\ (waiting' # "no" => todo' # <<>>)
      BY <2>1, <2>2 DEF Pop
    <2>6. event' \in BOOLEAN /\ forgotten' \in BOOLEAN
      BY <1>4 DEF PortGoes
    <2> QED BY <1>4, <2>3, <2>4, <2>5, <2>6 DEF PortGoes
  <1>5. CASE PortStarted
    <2>1. todo \in Seq(Ops) /\ todo # <<>> /\ Tail(todo) \in Seq(Ops)
      BY <1>5, TailIs DEF PortStarted
    <2> QED BY <1>5, <2>1 DEF PortStarted, Pop
  <1>6. CASE PortPreparesParams
    <2>1. todo \in Seq(Ops) /\ todo # <<>> /\ waiting = "no" /\ Tail(todo) \in Seq(Ops)
      BY <1>6, TailIs DEF PortPreparesParams, PortHasLock
    <2>2. PICK ops \in Seq(Ops) : todo' = ops \o Tail(todo)
      <3>1. CASE acquiring = 1 /\ trigger = 1
        BY <1>6, <3>1, ExpansionsAre DEF PortPreparesParams, Expand
      <3>2. CASE ~(acquiring = 1 /\ trigger = 1) /\ (acquiring = 1 \/ trigger = 1)
        BY <1>6, <3>2, ExpansionsAre DEF PortPreparesParams, Expand
      <3>3. CASE ~(acquiring = 1 \/ trigger = 1)
        BY <1>6, <3>3, ExpansionsAre DEF PortPreparesParams, Expand
      <3> QED BY <3>1, <3>2, <3>3
    <2>3. todo' \in Seq(Ops)
      BY <2>1, <2>2, JoinedIs
    <2>4. forgotten' \in BOOLEAN
      BY <1>6 DEF PortPreparesParams
    <2> QED BY <1>6, <2>1, <2>3, <2>4 DEF PortPreparesParams
  <1>7. CASE PortPrepares
    <2>1. todo \in Seq(Ops) /\ todo # <<>> /\ waiting = "no" /\ Tail(todo) \in Seq(Ops)
      BY <1>7, TailIs DEF PortPrepares, PortHasLock
    <2>2. PICK ops \in Seq(Ops) : todo' = ops \o Tail(todo)
      <3> DEFINE ask == acquiring = 1
                 query == acquiring = 1 \/ trigger = 1
      <3>1. ask \in BOOLEAN /\ query \in BOOLEAN
        OBVIOUS
      <3>2. /\ Wrapped(<<"ask">>, ask) \in Seq(Ops)
            /\ Wrapped(<<"query">>, query) \in Seq(Ops)
        BY <3>1, ExpansionsAre
      <3>3. \/ todo' = Wrapped(<<"ask">>, ask) \o Tail(todo)
            \/ todo' = Wrapped(<<"query">>, query) \o Tail(todo)
        BY <1>7 DEF PortPrepares, Expand
      <3> QED BY <3>2, <3>3
    <2>3. todo' \in Seq(Ops)
      BY <2>1, <2>2, JoinedIs
    <2> QED BY <1>7, <2>1, <2>3 DEF PortPrepares
  <1>8. CASE PortTalks
    <2>1. todo \in Seq(Ops) /\ todo # <<>> /\ waiting = "no" /\ Tail(todo) \in Seq(Ops)
      BY <1>8, TailIs DEF PortTalks, PortHasLock
    <2>2. Len(todo) > 1 => Tail(Tail(todo)) \in Seq(Ops)
      BY <2>1, SkippedIs
    <2>3. todo' \in Seq(Ops)
      BY <1>8, <2>1, <2>2 DEF PortTalks, Pop
    <2>4. faults' \in 0..MaxFaults
      BY <1>8, FailsType DEF PortTalks
    <2> QED BY <1>8, <2>1, <2>3, <2>4 DEF PortTalks
  <1>9. CASE PortArms
    <2>1. todo \in Seq(Ops) /\ todo # <<>> /\ waiting = "no" /\ Tail(todo) \in Seq(Ops)
      BY <1>9, TailIs DEF PortArms, PortHasLock
    <2>2. faults' \in 0..MaxFaults
      BY <1>9, FailsType DEF PortArms
    <2>3. running' \in BOOLEAN /\ heard' \in BOOLEAN
      <3>1. running \in BOOLEAN /\ heard \in BOOLEAN
        OBVIOUS
      <3> QED BY <1>9, <3>1 DEF PortArms
    <2> QED BY <1>9, <2>1, <2>2, <2>3 DEF PortArms, Pop
  <1>10. CASE PortSets
    <2>1. todo \in Seq(Ops) /\ todo # <<>> /\ waiting = "no" /\ Tail(todo) \in Seq(Ops)
      BY <1>10, TailIs DEF PortSets, PortHasLock
    <2> DEFINE next == IF acquire = 1 THEN "start" ELSE "stop"
    <2>2. next \in Ops
      BY OpsAre
    <2>3. todo' = <<next>> \o Tail(todo) \/ todo' = Tail(todo)
      BY <1>10 DEF PortSets, Pop, Expand
    <2> HIDE DEF next
    <2>4. <<next>> \o Tail(todo) \in Seq(Ops)
      BY <2>1, <2>2, ConsIs
    <2>5. todo' \in Seq(Ops)
      BY <2>1, <2>3, <2>4
    <2>6. acquire' \in {0, 1}
      BY <1>10 DEF PortSets
    <2> QED BY <1>10, <2>1, <2>5, <2>6 DEF PortSets
  <1> QED BY <1>1, <1>2, <1>3, <1>4, <1>5, <1>6, <1>7, <1>8, <1>9, <1>10 DEF Port

\* What report does: it stops, asks, and starts again what acquired.
LEMMA ReportIs ==
  ASSUME NEW a
  PROVE  <<"stop", "send">> \o (IF a = 1 THEN <<"start">> ELSE <<>>) \in Seq(Ops)
  <1>1. (IF a = 1 THEN <<"start">> ELSE <<>>) \in Seq(Ops)
    BY CallsAre
  <1> QED BY <1>1, CallsAre, JoinedIs

LEMMA ClientType == ASSUME TypeOK, Client PROVE TypeOK'
  <1> USE DEF TypeOK, driver, control, port, meter, Call
  <1>1. ASSUME NEW v \in {0, 1}, WriteAcquire(v) PROVE TypeOK'
    <2>1. todo' = <<"start">> \/ todo' = <<"stop">>
      BY <1>1 DEF WriteAcquire
    <2> QED BY <1>1, <2>1, CallsAre DEF WriteAcquire
  <1>2. ASSUME NEW m \in Modes, WriteAcquireMode(m) PROVE TypeOK'
    <2>1. todo' = <<"params", "status">> \/ todo' = <<"stop", "clear", "params", "status">>
      BY <1>2 DEF WriteAcquireMode
    <2>2. todo' \in Seq(Ops)
      BY <2>1, CallsAre
    <2> QED BY <1>2, <2>2 DEF WriteAcquireMode
  <1>3. ASSUME NEW t \in Triggers, NEW k \in NumAcquires, WriteSetting(t, k) PROVE TypeOK'
    BY <1>3, CallsAre DEF WriteSetting
  <1>4. ASSUME NEW n \in 0..2, WriteBias(n) PROVE TypeOK'
    <2>1. todo' \in Seq(Ops)
      BY <1>4, BiasIs, CallsAre, JoinedIs DEF WriteBias
    <2> QED BY <1>4, <2>1 DEF WriteBias
  <1>5. CASE WriteReset
    BY <1>5, CallsAre DEF WriteReset
  <1>6. CASE Report
    <2>1. todo' \in Seq(Ops)
      BY <1>6, ReportIs DEF Report
    <2> QED BY <1>6, <2>1 DEF Report
  <1>7. CASE WriteReadStatus
    BY <1>7, CallsAre DEF WriteReadStatus
  <1> QED BY <1>1, <1>2, <1>3, <1>4, <1>5, <1>6, <1>7 DEF Client

LEMMA TaskType == ASSUME TypeOK, Task PROVE TypeOK'
  <1> USE DEF TypeOK, driver, control, port, meter
  <1>1. CASE TaskDelivers
    BY <1>1, ConstAssumption, MostIs DEF TaskDelivers
  <1>2. CASE TaskStops
    <2>1. running' \in BOOLEAN /\ heard' \in BOOLEAN /\ faults' \in 0..MaxFaults
      BY <1>2, MeterOffType DEF TaskStops
    <2>2. numAcquired' \in 0..MostAcquired /\ queued' \in 0..MaxQueued
      BY <1>2, ConstAssumption, MostIs DEF TaskStops
    <2>3. overlapped' \in BOOLEAN
      BY <1>2 DEF TaskStops
    <2> QED BY <1>2, <2>1, <2>2, <2>3 DEF TaskStops
  <1>3. CASE TaskStopped
    <2>1. running' \in BOOLEAN /\ heard' \in BOOLEAN /\ faults' \in 0..MaxFaults
      BY <1>3, MeterOffType DEF TaskStopped, StopEnds
    <2> QED BY <1>3, <2>1 DEF TaskStopped, StopEnds
  <1> QED BY <1>1, <1>2, <1>3 DEF Task

LEMMA NextType == TypeOK /\ [Next]_vars => TypeOK'
  <1> SUFFICES ASSUME TypeOK, [Next]_vars PROVE TypeOK'
    OBVIOUS
  <1>1. CASE UNCHANGED vars
    BY <1>1 DEF vars, TypeOK, driver, control, port, meter
  <1> QED BY <1>1, ReaderType, PortType, ClientType, TaskType DEF Next, Reader

\* The variables keep their types, and readingActive_ says just whether the read
\* thread is at its reads, whatever fails and whatever callbackTask does.
THEOREM TypeCorrect == Spec => []TypeOK
  BY InitType, NextType, PTL DEF Spec

-----------------------------------------------------------------------------
(***************************************************************************)
(* The order of the list.  A call stops the meter first; while a step      *)
(* starts again or looks at the state, no dialog that was prepared before  *)
(* is left; and what arms the trigger or prepares it is followed by the    *)
(* step that uses it.  The order is kept whatever fails: an error only     *)
(* skips steps.                                                            *)
(***************************************************************************)
Dialogs == {"send", "ask", "query", "arm"}

\* What may stand behind a step of the list.
Admits(a, t) ==
  /\ ~Has(t, "stop")
  /\ Has(t, "go") => a \in {"stop", "params", "send", "arm"}
  /\ a = "clear" => ~Has(t, "start") /\ ~Has(t, "go")
  /\ Has(t, "clear") => a = "stop"
  /\ Has(t, "resume") => Has(t, "status")
  /\ a \in {"start", "go", "resume", "status"} => \A op \in Dialogs : ~Has(t, op)
  /\ a = "command" => Has(t, "status")
  /\ a = "send" /\ t # <<>> => Head(t) \notin {"ask", "query"}
  /\ a \in {"params", "arm"} =>
       /\ Has(t, "go") \/ Has(t, "status") \/ Has(t, "start")
       /\ Has(t, "resume") \/ Head(t) \in {"go", "status", "start"}

Behind(s, i) == SubSeq(s, i + 1, Len(s))

InOrder(s) == \A i \in 1..Len(s) : Admits(s[i], Behind(s, i))

LEMMA BehindIs ==
  ASSUME NEW Steps, NEW s \in Seq(Steps), s # <<>>
  PROVE  /\ Behind(s, 1) = Tail(s)
         /\ \A i \in 1..Len(s) - 1 : Behind(Tail(s), i) = Behind(s, i + 1)
  <1>1. Behind(s, 1) = Tail(s)
    BY TailIsSubSeq DEF Behind
  <1>2. ASSUME NEW i \in 1..Len(s) - 1 PROVE Behind(Tail(s), i) = Behind(s, i + 1)
    <2> DEFINE u == Tail(s)
               n == Len(s)
    <2>1. /\ u \in Seq(Steps) /\ n \in Nat \ {0} /\ Len(u) = n - 1 /\ i \in Int
          /\ i >= 1 /\ i <= n - 1
      BY TailIs
    <2>2. \A j \in 1..n - 1 : u[j] = s[j + 1]
      BY TailIs
    <2>3. \A j \in 1..n : s[j] \in Steps
      BY TailIs
    <2> DEFINE x == SubSeq(u, i + 1, n - 1)
               y == SubSeq(s, i + 2, n)
    <2>4. \A j \in i + 1..n - 1 : u[j] \in Steps
      <3> HIDE DEF u, n
      <3> QED BY <2>1, <2>2, <2>3
    <2>5. \A j \in i + 2..n : s[j] \in Steps
      <3> HIDE DEF u, n
      <3> QED BY <2>1, <2>3
    <2>6. /\ x \in Seq(Steps) /\ Len(x) = IF i + 1 <= n - 1 THEN n - 1 - (i + 1) + 1 ELSE 0
          /\ \A j \in 1..(n - 1) - (i + 1) + 1 : x[j] = u[(i + 1) + j - 1]
      <3>1. i + 1 \in Int /\ n - 1 \in Int
        BY <2>1
      <3> HIDE DEF u, n
      <3> QED BY <2>4, <3>1, SubSeqProperties
    <2>7. /\ y \in Seq(Steps) /\ Len(y) = IF i + 2 <= n THEN n - (i + 2) + 1 ELSE 0
          /\ \A j \in 1..n - (i + 2) + 1 : y[j] = s[(i + 2) + j - 1]
      <3>1. i + 2 \in Int /\ n \in Int
        BY <2>1
      <3> HIDE DEF u, n
      <3> QED BY <2>5, <3>1, SubSeqProperties
    <2> HIDE DEF x, y, u, n
    <2>8. Len(x) = Len(y)
      BY <2>1, <2>6, <2>7
    <2>9. ASSUME NEW j \in 1..Len(x) PROVE x[j] = y[j]
      <3>1. j \in Int /\ j >= 1 /\ j <= n - 1 - i
        BY <2>1, <2>6
      <3>2. x[j] = u[(i + 1) + j - 1]
        BY <2>1, <2>6, <3>1
      <3>3. y[j] = s[(i + 2) + j - 1]
        BY <2>1, <2>7, <3>1
      <3>4. u[i + j] = s[i + j + 1]
        BY <2>1, <2>2, <3>1
      <3>5. (i + 1) + j - 1 = i + j /\ (i + 2) + j - 1 = i + j + 1
        BY <2>1, <3>1
      <3> QED BY <3>2, <3>3, <3>4, <3>5
    <2>10. x = y
      BY <2>6, <2>7, <2>8, <2>9, SeqEqual
    <2>11. Behind(Tail(s), i) = x /\ Behind(s, i + 1) = y
      <3>1. (i + 1) + 1 = i + 2 /\ Len(u) = n - 1
        BY <2>1
      <3> QED BY <3>1 DEF Behind, x, y, u, n
    <2> QED BY <2>10, <2>11
  <1> QED BY <1>1, <1>2

\* A list is in order when its first step is, before the rest, which is in order.
LEMMA OrderIs ==
  ASSUME NEW s \in Seq(Ops), s # <<>>
  PROVE  InOrder(s) <=> (Admits(Head(s), Tail(s)) /\ InOrder(Tail(s)))
  <1> DEFINE u == Tail(s)
             n == Len(s)
  <1>1. /\ u \in Seq(Ops) /\ n \in Nat \ {0} /\ Len(u) = n - 1 /\ Head(s) = s[1]
        /\ \A i \in 1..n - 1 : u[i] = s[i + 1]
    BY TailIs
  <1>2. /\ Behind(s, 1) = u
        /\ \A i \in 1..n - 1 : Behind(u, i) = Behind(s, i + 1)
    BY BehindIs
  <1> HIDE DEF u, n
  <1>3. InOrder(s) <=> \A i \in 1..n : Admits(s[i], Behind(s, i))
    BY DEF InOrder, n
  <1>4. InOrder(u) <=> \A i \in 1..n - 1 : Admits(u[i], Behind(u, i))
    BY <1>1 DEF InOrder
  <1>5. ASSUME InOrder(s) PROVE Admits(Head(s), u) /\ InOrder(u)
    <2>1. Admits(s[1], Behind(s, 1))
      BY <1>1, <1>3, <1>5
    <2>2. ASSUME NEW i \in 1..n - 1 PROVE Admits(u[i], Behind(u, i))
      <3>1. i + 1 \in 1..n
        BY <1>1
      <3>2. Admits(s[i + 1], Behind(s, i + 1))
        BY <1>3, <1>5, <3>1
      <3> QED BY <1>1, <1>2, <3>2
    <2> QED BY <1>1, <1>2, <1>4, <2>1, <2>2
  <1>6. ASSUME Admits(Head(s), u), InOrder(u) PROVE InOrder(s)
    <2>1. ASSUME NEW i \in 1..n PROVE Admits(s[i], Behind(s, i))
      <3>1. CASE i = 1
        BY <1>1, <1>2, <1>6, <3>1
      <3>2. CASE i # 1
        <4>1. i - 1 \in 1..n - 1 /\ (i - 1) + 1 = i
          BY <1>1, <3>2
        <4>2. Admits(u[i - 1], Behind(u, i - 1))
          BY <1>4, <1>6, <4>1
        <4>3. u[i - 1] = s[i] /\ Behind(u, i - 1) = Behind(s, i)
          BY <1>1, <1>2, <4>1
        <4> QED BY <4>2, <4>3
      <3> QED BY <3>1, <3>2
    <2> QED BY <1>3, <2>1
  <1> QED BY <1>5, <1>6 DEF u

\* A step put before a list that is in order and that the step admits.
LEMMA OrderCons ==
  ASSUME NEW s \in Seq(Ops), NEW a \in Ops, InOrder(s), Admits(a, s)
  PROVE  InOrder(<<a>> \o s)
  <1> DEFINE t == <<a>> \o s
  <1>1. t \in Seq(Ops) /\ t # <<>> /\ Head(t) = a /\ Tail(t) = s
    BY ConsIs
  <1> HIDE DEF t
  <1>2. InOrder(t)
    BY <1>1, OrderIs
  <1> QED BY <1>2 DEF t

-----------------------------------------------------------------------------
\* A step put before a list.
LEMMA PutIs ==
  ASSUME NEW s \in Seq(Ops), NEW a \in Ops
  PROVE  /\ <<a>> \o s \in Seq(Ops) /\ <<a>> \o s # <<>>
         /\ Head(<<a>> \o s) = a /\ Tail(<<a>> \o s) = s
         /\ \A op : Has(<<a>> \o s, op) <=> (a = op \/ Has(s, op))
  BY ConsIs, HasCons

LEMMA WrappedIs ==
  ASSUME NEW s \in Seq(Ops), NEW d \in Ops, NEW due \in BOOLEAN
  PROVE  Wrapped(<<d>>, due) \o s =
           IF due THEN <<"stop">> \o (<<d>> \o (<<"start">> \o s)) ELSE <<d>> \o s
  <1>1. CASE ~due
    BY <1>1 DEF Wrapped
  <1>2. CASE due
    <2>1. <<"stop">> \in Seq(Ops) /\ <<"start">> \in Seq(Ops) /\ <<d>> \in Seq(Ops)
      BY DEF Ops
    <2>2. "stop" \in Ops /\ "start" \in Ops
      BY OpsAre
    <2>3. <<"stop">> \o <<d>> \in Seq(Ops) /\ <<d>> \o <<"start">> \in Seq(Ops)
            /\ <<"start">> \o s \in Seq(Ops)
      BY <2>1, JoinedIs
    <2>4. (<<"stop">> \o <<d>> \o <<"start">>) \o s = (<<"stop">> \o <<d>>) \o (<<"start">> \o s)
      BY <2>1, <2>3, ConcatAssociative
    <2>5. (<<"stop">> \o <<d>>) \o (<<"start">> \o s) = <<"stop">> \o (<<d>> \o (<<"start">> \o s))
      BY <2>1, <2>3, ConcatAssociative
    <2>6. Wrapped(<<d>>, due) = <<"stop">> \o <<d>> \o <<"start">>
      BY <1>2 DEF Wrapped
    <2>7. Wrapped(<<d>>, due) \o s = <<"stop">> \o (<<d>> \o (<<"start">> \o s))
      BY ONLY <2>4, <2>5, <2>6, Zenon
    <2> QED BY <1>2, <2>7
  <1> QED BY <1>1, <1>2

\* What sendCommand and readStatus are replaced by keeps the list in order.
LEMMA WrappedOrder ==
  ASSUME NEW s \in Seq(Ops), s # <<>>, InOrder(s), NEW due \in BOOLEAN, NEW d,
         \/ Head(s) = "command" /\ d = "ask"
         \/ Head(s) = "status" /\ d = "query",
         due => \A op \in Dialogs : ~Has(Tail(s), op)
  PROVE  LET u == Wrapped(<<d>>, due) \o Tail(s) IN
         /\ u \in Seq(Ops) /\ u # <<>> /\ InOrder(u)
         /\ Head(u) = (IF due THEN "stop" ELSE d)
         /\ \A op : Has(u, op) <=> \/ due /\ op \in {"stop", "start"}
                                   \/ op = d
                                   \/ Has(Tail(s), op)
  <1> DEFINE t == Tail(s)
             p == <<"start">> \o t
             q == <<d>> \o p
             r == <<"stop">> \o q
             v == <<d>> \o t
             w == Wrapped(<<d>>, due) \o t
  <1>0. "stop" \in Ops /\ "start" \in Ops /\ d \in Ops /\ d # "go" /\ d # "params" /\ d # "stop"
          /\ d \in {"ask", "query"}
    BY OpsAre
  <1>1. t \in Seq(Ops) /\ Admits(Head(s), t) /\ InOrder(t)
    BY TailIs, OrderIs
  <1>2. w = IF due THEN r ELSE v
    BY <1>0, <1>1, WrappedIs
  <1>3. /\ v \in Seq(Ops) /\ v # <<>> /\ Head(v) = d
        /\ \A op : Has(v, op) <=> (d = op \/ Has(t, op))
    BY <1>0, <1>1, PutIs
  <1>4. /\ p \in Seq(Ops) /\ p # <<>> /\ Head(p) = "start"
        /\ \A op : Has(p, op) <=> (op = "start" \/ Has(t, op))
    BY <1>0, <1>1, PutIs
  <1> HIDE DEF p
  <1>5. /\ q \in Seq(Ops) /\ q # <<>> /\ Head(q) = d
        /\ \A op : Has(q, op) <=> (op = d \/ Has(p, op))
    BY <1>0, <1>4, PutIs
  <1> HIDE DEF q
  <1>6. /\ r \in Seq(Ops) /\ r # <<>> /\ Head(r) = "stop"
        /\ \A op : Has(r, op) <=> (op = "stop" \/ Has(q, op))
    BY <1>0, <1>5, PutIs
  <1>7. InOrder(v)
    <2>1. Admits(d, t)
      BY <1>0, <1>1 DEF Admits
    <2> QED BY <1>0, <1>1, <2>1, OrderCons
  <1>8. ASSUME due PROVE InOrder(r)
    <2>1. Admits("start", t)
      BY <1>0, <1>1, <1>8 DEF Admits
    <2>2. InOrder(p)
      BY <1>0, <1>1, <2>1, OrderCons DEF p
    <2>3. Admits(d, p)
      BY <1>0, <1>1, <1>4 DEF Admits
    <2>4. InOrder(q)
      BY <1>0, <1>4, <2>2, <2>3, OrderCons DEF q
    <2>5. ~Has(q, "stop")
      BY <1>0, <1>1, <1>4, <1>5 DEF Admits
    <2>6. Has(q, "resume") => Has(q, "status")
      BY <1>1, <1>4, <1>5 DEF Admits
    <2>7. ~Has(q, "go") /\ ~Has(q, "clear")
      BY <1>0, <1>1, <1>4, <1>5 DEF Admits
    <2>8. Admits("stop", q)
      BY <2>5, <2>6, <2>7 DEF Admits
    <2> QED BY <1>0, <1>5, <2>4, <2>8, OrderCons
  <1> HIDE DEF r, v, w
  <1>9. /\ w \in Seq(Ops) /\ w # <<>> /\ InOrder(w)
        /\ Head(w) = (IF due THEN "stop" ELSE d)
        /\ \A op : Has(w, op) <=> \/ due /\ op \in {"stop", "start"}
                                  \/ op = d
                                  \/ Has(t, op)
    <2>1. CASE due
      BY <1>2, <1>4, <1>5, <1>6, <1>8, <2>1
    <2>2. CASE ~due
      BY <1>2, <1>3, <1>7, <2>2
    <2> QED BY <2>1, <2>2
  <1> QED BY <1>9 DEF w

\* The first steps of a call's list, one by one.
LEMMA OneByOne ==
  ASSUME NEW s \in Seq(Ops)
  PROVE  /\ <<"send", "arm">> \o s = <<"send">> \o (<<"arm">> \o s)
         /\ <<"stop", "send", "arm">> \o s = <<"stop">> \o (<<"send">> \o (<<"arm">> \o s))
         /\ <<"stop", "send", "arm", "start">> \o s =
              <<"stop">> \o (<<"send">> \o (<<"arm">> \o (<<"start">> \o s)))
  <1>1. "stop" \in Ops /\ "send" \in Ops /\ "arm" \in Ops /\ "start" \in Ops
    BY OpsAre
  <1>2. <<"send", "arm">> \o s = <<"send">> \o (<<"arm">> \o s)
    BY ONLY <1>1, s \in Seq(Ops), ConsOfFour
  <1>3. <<"stop", "send", "arm">> \o s = <<"stop">> \o (<<"send">> \o (<<"arm">> \o s))
    BY ONLY <1>1, s \in Seq(Ops), ConsOfFour
  <1>4. <<"send", "arm", "start">> \o s = <<"send">> \o (<<"arm">> \o (<<"start">> \o s))
    BY ONLY <1>1, s \in Seq(Ops), ConsOfFour
  <1>5. <<"stop", "send", "arm", "start">> \o s
          = <<"stop">> \o (<<"send", "arm", "start">> \o s)
    <2> DEFINE u == <<"stop", "send", "arm", "start">>
    <2>1. u \in Seq(Ops) /\ u # <<>> /\ Head(u) = "stop" /\ Tail(u) = <<"send", "arm", "start">>
      BY <1>1
    <2> HIDE DEF u
    <2>2. u \o s = <<Head(u)>> \o (Tail(u) \o s)
      BY <2>1, ConsOfMany
    <2> QED BY <2>1, <2>2 DEF u
  <1> QED BY ONLY <1>2, <1>3, <1>4, <1>5

\* What setAcquireParams is replaced by, before a list that may follow "arm".
LEMMA ArmedOrder ==
  ASSUME NEW s \in Seq(Ops), InOrder(s), Admits("arm", s)
  PROVE  /\ LET u == <<"send", "arm">> \o s IN
              /\ u \in Seq(Ops) /\ u # <<>> /\ InOrder(u) /\ Head(u) = "send"
              /\ \A op : Has(u, op) <=> op \in {"send", "arm"} \/ Has(s, op)
         /\ LET u == <<"stop", "send", "arm">> \o s IN
              /\ u \in Seq(Ops) /\ u # <<>> /\ InOrder(u) /\ Head(u) = "stop"
              /\ \A op : Has(u, op) <=> op \in {"stop", "send", "arm"} \/ Has(s, op)
  <1> DEFINE p == <<"arm">> \o s
             q == <<"send">> \o p
             r == <<"stop">> \o q
             v == <<"send", "arm">> \o s
             w == <<"stop", "send", "arm">> \o s
  <1>0. "stop" \in Ops /\ "send" \in Ops /\ "arm" \in Ops
    BY OpsAre
  <1>1. v = q /\ w = r
    BY ONLY s \in Seq(Ops), OneByOne
  <1>2. /\ p \in Seq(Ops) /\ p # <<>> /\ Head(p) = "arm"
        /\ \A op : Has(p, op) <=> (op = "arm" \/ Has(s, op))
    BY <1>0, PutIs
  <1>3. InOrder(p)
    BY <1>0, OrderCons
  <1> HIDE DEF p
  <1>4. /\ q \in Seq(Ops) /\ q # <<>> /\ Head(q) = "send"
        /\ \A op : Has(q, op) <=> (op = "send" \/ Has(p, op))
    BY <1>0, <1>2, PutIs
  <1>5. Admits("send", p)
    BY <1>2 DEF Admits
  <1>6. InOrder(q)
    BY <1>0, <1>2, <1>3, <1>5, OrderCons
  <1> HIDE DEF q
  <1>7. /\ r \in Seq(Ops) /\ r # <<>> /\ Head(r) = "stop"
        /\ \A op : Has(r, op) <=> (op = "stop" \/ Has(q, op))
    BY <1>0, <1>4, PutIs
  <1>8. Admits("stop", q)
    BY <1>2, <1>4 DEF Admits
  <1>9. InOrder(r)
    BY <1>0, <1>4, <1>6, <1>8, OrderCons
  <1> HIDE DEF r, v, w
  <1>10. /\ v \in Seq(Ops) /\ v # <<>> /\ InOrder(v) /\ Head(v) = "send"
         /\ \A op : Has(v, op) <=> op \in {"send", "arm"} \/ Has(s, op)
    BY <1>1, <1>2, <1>4, <1>6
  <1>11. /\ w \in Seq(Ops) /\ w # <<>> /\ InOrder(w) /\ Head(w) = "stop"
         /\ \A op : Has(w, op) <=> op \in {"stop", "send", "arm"} \/ Has(s, op)
    BY <1>1, <1>2, <1>4, <1>7, <1>9
  <1> QED BY <1>10, <1>11 DEF v, w

\* All that setAcquireParams may be replaced by.
LEMMA ParamsOrder ==
  ASSUME NEW s \in Seq(Ops), s # <<>>, InOrder(s), Head(s) = "params"
  PROVE  /\ LET u == <<"send", "arm">> \o Tail(s) IN
              /\ u \in Seq(Ops) /\ u # <<>> /\ InOrder(u) /\ Head(u) = "send"
              /\ \A op : Has(u, op) <=> op \in {"send", "arm"} \/ Has(Tail(s), op)
         /\ LET u == <<"stop", "send", "arm">> \o Tail(s) IN
              /\ u \in Seq(Ops) /\ u # <<>> /\ InOrder(u) /\ Head(u) = "stop"
              /\ \A op : Has(u, op) <=> op \in {"stop", "send", "arm"} \/ Has(Tail(s), op)
         /\ (~Has(s, "go") /\ \A op \in Dialogs : ~Has(s, op)) =>
            LET u == <<"stop", "send", "arm", "start">> \o Tail(s) IN
              /\ u \in Seq(Ops) /\ u # <<>> /\ InOrder(u) /\ Head(u) = "stop"
              /\ \A op : Has(u, op) <=>
                           op \in {"stop", "send", "arm", "start"} \/ Has(Tail(s), op)
  <1> DEFINE t == Tail(s)
             p == <<"start">> \o t
             v == <<"stop", "send", "arm">> \o p
             w == <<"stop", "send", "arm", "start">> \o t
  <1>1. t \in Seq(Ops) /\ Admits("params", t) /\ InOrder(t)
    BY TailIs, OrderIs
  <1>2. Admits("arm", t)
    BY <1>1 DEF Admits
  <1>3. ASSUME ~Has(s, "go"), \A op \in Dialogs : ~Has(s, op)
        PROVE  /\ w \in Seq(Ops) /\ w # <<>> /\ InOrder(w) /\ Head(w) = "stop"
               /\ \A op : Has(w, op) <=> op \in {"stop", "send", "arm", "start"} \/ Has(t, op)
    <2>0. "stop" \in Ops /\ "send" \in Ops /\ "arm" \in Ops /\ "start" \in Ops
      BY OpsAre
    <2>1. \A op : Has(t, op) => Has(s, op)
      BY HasTail
    <2>2. Admits("start", t)
      BY <1>1, <1>3, <2>1 DEF Admits
    <2>3. InOrder(p)
      BY <1>1, <2>0, <2>2, OrderCons
    <2>4. /\ p \in Seq(Ops) /\ p # <<>> /\ Head(p) = "start"
          /\ \A op : Has(p, op) <=> (op = "start" \/ Has(t, op))
      BY <1>1, <2>0, PutIs
    <2>5. w = v
      <3>1. w = <<"stop">> \o (<<"send">> \o (<<"arm">> \o p))
        BY ONLY <1>1, OneByOne
      <3>2. v = <<"stop">> \o (<<"send">> \o (<<"arm">> \o p))
        BY ONLY <2>4, OneByOne
      <3> QED BY ONLY <3>1, <3>2, Zenon
    <2> HIDE DEF p
    <2>6. Admits("arm", p)
      BY <1>2, <2>4 DEF Admits
    <2>7. /\ v \in Seq(Ops) /\ v # <<>> /\ InOrder(v) /\ Head(v) = "stop"
          /\ \A op : Has(v, op) <=> op \in {"stop", "send", "arm"} \/ Has(p, op)
      BY <2>3, <2>4, <2>6, ArmedOrder
    <2> HIDE DEF v, w
    <2> QED BY <2>4, <2>5, <2>7
  <1> HIDE DEF w
  <1>4. /\ <<"send", "arm">> \o t \in Seq(Ops) /\ <<"send", "arm">> \o t # <<>>
        /\ InOrder(<<"send", "arm">> \o t) /\ Head(<<"send", "arm">> \o t) = "send"
        /\ \A op : Has(<<"send", "arm">> \o t, op) <=> op \in {"send", "arm"} \/ Has(t, op)
    BY <1>1, <1>2, ArmedOrder
  <1>5. /\ <<"stop", "send", "arm">> \o t \in Seq(Ops) /\ <<"stop", "send", "arm">> \o t # <<>>
        /\ InOrder(<<"stop", "send", "arm">> \o t)
        /\ Head(<<"stop", "send", "arm">> \o t) = "stop"
        /\ \A op : Has(<<"stop", "send", "arm">> \o t, op) <=>
                     op \in {"stop", "send", "arm"} \/ Has(t, op)
    BY <1>1, <1>2, ArmedOrder
  <1> QED BY <1>3, <1>4, <1>5 DEF w

\* setAcquire(1) calls setAcquireParams and goes on.
LEMMA StartOrder ==
  ASSUME NEW s \in Seq(Ops), s # <<>>, InOrder(s), Head(s) = "start"
  PROVE  LET u == <<"params", "go">> \o Tail(s) IN
         /\ u \in Seq(Ops) /\ u # <<>> /\ InOrder(u) /\ Head(u) = "params"
         /\ \A op : Has(u, op) <=> op \in {"params", "go"} \/ Has(Tail(s), op)
  <1> DEFINE t == Tail(s)
             p == <<"go">> \o t
             q == <<"params">> \o p
             w == <<"params", "go">> \o t
  <1>0. "params" \in Ops /\ "go" \in Ops
    BY OpsAre
  <1>1. t \in Seq(Ops) /\ Admits("start", t) /\ InOrder(t)
    BY TailIs, OrderIs
  <1>2. w = q
    BY <1>0, <1>1, ConsOfFour
  <1>3. /\ p \in Seq(Ops) /\ p # <<>> /\ Head(p) = "go"
        /\ \A op : Has(p, op) <=> (op = "go" \/ Has(t, op))
    BY <1>0, <1>1, PutIs
  <1>4. Admits("go", t)
    BY <1>1 DEF Admits
  <1>5. InOrder(p)
    BY <1>0, <1>1, <1>4, OrderCons
  <1> HIDE DEF p
  <1>6. /\ q \in Seq(Ops) /\ q # <<>> /\ Head(q) = "params"
        /\ \A op : Has(q, op) <=> (op = "params" \/ Has(p, op))
    BY <1>0, <1>3, PutIs
  <1>7. Admits("params", p)
    BY <1>1, <1>3 DEF Admits
  <1>8. InOrder(q)
    BY <1>0, <1>3, <1>5, <1>7, OrderCons
  <1> HIDE DEF q, w
  <1>9. /\ w \in Seq(Ops) /\ w # <<>> /\ InOrder(w) /\ Head(w) = "params"
        /\ \A op : Has(w, op) <=> op \in {"params", "go"} \/ Has(t, op)
    BY <1>2, <1>3, <1>6, <1>8
  <1> QED BY <1>9 DEF w

\* What reset ends with is a start or a stop.
LEMMA ResumeOrder ==
  ASSUME NEW s \in Seq(Ops), s # <<>>, InOrder(s), Head(s) = "resume",
         NEW a, a = "start" \/ a = "stop"
  PROVE  LET u == <<a>> \o Tail(s) IN
         /\ u \in Seq(Ops) /\ u # <<>> /\ InOrder(u) /\ Head(u) = a
         /\ \A op : Has(u, op) <=> op = a \/ Has(Tail(s), op)
  <1> DEFINE t == Tail(s)
             w == <<a>> \o t
  <1>0. a \in Ops
    BY OpsAre
  <1>1. t \in Seq(Ops) /\ Admits("resume", t) /\ InOrder(t)
    BY TailIs, OrderIs
  <1>2. Admits(a, t)
    BY <1>1 DEF Admits
  <1>3. InOrder(w)
    BY <1>0, <1>1, <1>2, OrderCons
  <1>4. /\ w \in Seq(Ops) /\ w # <<>> /\ Head(w) = a
        /\ \A op : Has(w, op) <=> (a = op \/ Has(t, op))
    BY <1>0, <1>1, PutIs
  <1> QED BY <1>3, <1>4

-----------------------------------------------------------------------------
\* A list whose first step and rest are known.
LEMMA GrowsTo ==
  ASSUME NEW s \in Seq(Ops), NEW u \in Seq(Ops), u # <<>>, Tail(u) = s,
         InOrder(s), Admits(Head(u), s)
  PROVE  InOrder(u) /\ \A op : Has(u, op) <=> (op = Head(u) \/ Has(s, op))
  BY OrderIs, HasTail

\* What the client's writes ask for is in order.
LEMMA EmptyOrder == InOrder(<<>>) /\ \A op : ~Has(<<>>, op)
  BY DEF InOrder, Has

\* setAcquire(1).
LEMMA StartCall ==
  /\ InOrder(<<"start">>)
  /\ \A op : Has(<<"start">>, op) <=>
               op \in {"start"}
  <1> DEFINE c0 == <<>>
             c1 == <<"start">>
  <1>0. c0 \in Seq(Ops) /\ InOrder(c0) /\ \A op : ~Has(c0, op)
    BY CallsAre, EmptyOrder
  <1>1. c1 \in Seq(Ops) /\ c1 # <<>> /\ Head(c1) = "start" /\ Tail(c1) = c0
    BY DEF Ops
  <1> HIDE DEF c0, c1
  <1>2. InOrder(c1) /\ \A op : Has(c1, op) <=> op \in {"start"}
    <2>1. Admits("start", c0)
      BY <1>0 DEF Admits, Dialogs
    <2> QED BY <1>1, <1>0, <2>1, GrowsTo
  <1> QED BY <1>2 DEF c1

\* setAcquire(0).
LEMMA StopCall ==
  /\ InOrder(<<"stop">>)
  /\ \A op : Has(<<"stop">>, op) <=>
               op \in {"stop"}
  <1> DEFINE c0 == <<>>
             c1 == <<"stop">>
  <1>0. c0 \in Seq(Ops) /\ InOrder(c0) /\ \A op : ~Has(c0, op)
    BY CallsAre, EmptyOrder
  <1>1. c1 \in Seq(Ops) /\ c1 # <<>> /\ Head(c1) = "stop" /\ Tail(c1) = c0
    BY DEF Ops
  <1> HIDE DEF c0, c1
  <1>2. InOrder(c1) /\ \A op : Has(c1, op) <=> op \in {"stop"}
    <2>1. Admits("stop", c0)
      BY <1>0 DEF Admits, Dialogs
    <2> QED BY <1>1, <1>0, <2>1, GrowsTo
  <1> QED BY <1>2 DEF c1

\* readStatus.
LEMMA StatusCall ==
  /\ InOrder(<<"status">>)
  /\ \A op : Has(<<"status">>, op) <=>
               op \in {"status"}
  <1> DEFINE c0 == <<>>
             c1 == <<"status">>
  <1>0. c0 \in Seq(Ops) /\ InOrder(c0) /\ \A op : ~Has(c0, op)
    BY CallsAre, EmptyOrder
  <1>1. c1 \in Seq(Ops) /\ c1 # <<>> /\ Head(c1) = "status" /\ Tail(c1) = c0
    BY DEF Ops
  <1> HIDE DEF c0, c1
  <1>2. InOrder(c1) /\ \A op : Has(c1, op) <=> op \in {"status"}
    <2>1. Admits("status", c0)
      BY <1>0 DEF Admits, Dialogs
    <2> QED BY <1>1, <1>0, <2>1, GrowsTo
  <1> QED BY <1>2 DEF c1

\* A setting.
LEMMA SettingCall ==
  /\ InOrder(<<"params", "status">>)
  /\ \A op : Has(<<"params", "status">>, op) <=>
               op \in {"params", "status"}
  <1> DEFINE c0 == <<>>
             c1 == <<"status">>
             c2 == <<"params", "status">>
  <1>0. c0 \in Seq(Ops) /\ InOrder(c0) /\ \A op : ~Has(c0, op)
    BY CallsAre, EmptyOrder
  <1>1. c1 \in Seq(Ops) /\ c1 # <<>> /\ Head(c1) = "status" /\ Tail(c1) = c0
    BY DEF Ops
  <1>2. c2 \in Seq(Ops) /\ c2 # <<>> /\ Head(c2) = "params" /\ Tail(c2) = c1
    BY DEF Ops
  <1> HIDE DEF c0, c1, c2
  <1>3. InOrder(c1) /\ \A op : Has(c1, op) <=> op \in {"status"}
    <2>1. Admits("status", c0)
      BY <1>0 DEF Admits, Dialogs
    <2> QED BY <1>1, <1>0, <2>1, GrowsTo
  <1>4. InOrder(c2) /\ \A op : Has(c2, op) <=> op \in {"params", "status"}
    <2>1. Admits("params", c1)
      BY <1>1, <1>3 DEF Admits, Dialogs
    <2> QED BY <1>2, <1>1, <1>3, <2>1, GrowsTo
  <1> QED BY <1>4 DEF c2

\* A counted acquire mode.
LEMMA CountedCall ==
  /\ InOrder(<<"stop", "clear", "params", "status">>)
  /\ \A op : Has(<<"stop", "clear", "params", "status">>, op) <=>
               op \in {"stop", "clear", "params", "status"}
  <1> DEFINE c0 == <<>>
             c1 == <<"status">>
             c2 == <<"params", "status">>
             c3 == <<"clear", "params", "status">>
             c4 == <<"stop", "clear", "params", "status">>
  <1>0. c0 \in Seq(Ops) /\ InOrder(c0) /\ \A op : ~Has(c0, op)
    BY CallsAre, EmptyOrder
  <1>1. c1 \in Seq(Ops) /\ c1 # <<>> /\ Head(c1) = "status" /\ Tail(c1) = c0
    BY DEF Ops
  <1>2. c2 \in Seq(Ops) /\ c2 # <<>> /\ Head(c2) = "params" /\ Tail(c2) = c1
    BY DEF Ops
  <1>3. c3 \in Seq(Ops) /\ c3 # <<>> /\ Head(c3) = "clear" /\ Tail(c3) = c2
    BY DEF Ops
  <1>4. c4 \in Seq(Ops) /\ c4 # <<>> /\ Head(c4) = "stop" /\ Tail(c4) = c3
    BY DEF Ops
  <1> HIDE DEF c0, c1, c2, c3, c4
  <1>5. InOrder(c1) /\ \A op : Has(c1, op) <=> op \in {"status"}
    <2>1. Admits("status", c0)
      BY <1>0 DEF Admits, Dialogs
    <2> QED BY <1>1, <1>0, <2>1, GrowsTo
  <1>6. InOrder(c2) /\ \A op : Has(c2, op) <=> op \in {"params", "status"}
    <2>1. Admits("params", c1)
      BY <1>1, <1>5 DEF Admits, Dialogs
    <2> QED BY <1>2, <1>1, <1>5, <2>1, GrowsTo
  <1>7. InOrder(c3) /\ \A op : Has(c3, op) <=> op \in {"clear", "params", "status"}
    <2>1. Admits("clear", c2)
      BY <1>2, <1>6 DEF Admits, Dialogs
    <2> QED BY <1>3, <1>2, <1>6, <2>1, GrowsTo
  <1>8. InOrder(c4) /\ \A op : Has(c4, op) <=> op \in {"stop", "clear", "params", "status"}
    <2>1. Admits("stop", c3)
      BY <1>3, <1>7 DEF Admits, Dialogs
    <2> QED BY <1>4, <1>3, <1>7, <2>1, GrowsTo
  <1> QED BY <1>8 DEF c4

\* reset, and the base class's.
LEMMA ResetCall ==
  /\ InOrder(<<"stop", "command", "send", "params", "command", "status", "resume", "status">>)
  /\ \A op : Has(<<"stop", "command", "send", "params", "command", "status", "resume",
                   "status">>, op) <=>
               op \in {"stop", "command", "send", "params", "status", "resume"}
  <1> DEFINE c0 == <<>>
             c1 == <<"status">>
             c2 == <<"resume", "status">>
             c3 == <<"status", "resume", "status">>
             c4 == <<"command", "status", "resume", "status">>
             c5 == <<"params", "command", "status", "resume", "status">>
             c6 == <<"send", "params", "command", "status", "resume", "status">>
             c7 == <<"command", "send", "params", "command", "status", "resume", "status">>
             c8 == <<"stop", "command", "send", "params", "command", "status", "resume", "status">>
  <1>0. c0 \in Seq(Ops) /\ InOrder(c0) /\ \A op : ~Has(c0, op)
    BY CallsAre, EmptyOrder
  <1>1. c1 \in Seq(Ops) /\ c1 # <<>> /\ Head(c1) = "status" /\ Tail(c1) = c0
    BY DEF Ops
  <1>2. c2 \in Seq(Ops) /\ c2 # <<>> /\ Head(c2) = "resume" /\ Tail(c2) = c1
    BY DEF Ops
  <1>3. c3 \in Seq(Ops) /\ c3 # <<>> /\ Head(c3) = "status" /\ Tail(c3) = c2
    BY DEF Ops
  <1>4. c4 \in Seq(Ops) /\ c4 # <<>> /\ Head(c4) = "command" /\ Tail(c4) = c3
    BY DEF Ops
  <1>5. c5 \in Seq(Ops) /\ c5 # <<>> /\ Head(c5) = "params" /\ Tail(c5) = c4
    BY DEF Ops
  <1>6. c6 \in Seq(Ops) /\ c6 # <<>> /\ Head(c6) = "send" /\ Tail(c6) = c5
    BY DEF Ops
  <1>7. c7 \in Seq(Ops) /\ c7 # <<>> /\ Head(c7) = "command" /\ Tail(c7) = c6
    BY DEF Ops
  <1>8. c8 \in Seq(Ops) /\ c8 # <<>> /\ Head(c8) = "stop" /\ Tail(c8) = c7
    BY DEF Ops
  <1> HIDE DEF c0, c1, c2, c3, c4, c5, c6, c7, c8
  <1>9. InOrder(c1) /\ \A op : Has(c1, op) <=> op \in {"status"}
    <2>1. Admits("status", c0)
      BY <1>0 DEF Admits, Dialogs
    <2> QED BY <1>1, <1>0, <2>1, GrowsTo
  <1>10. InOrder(c2) /\ \A op : Has(c2, op) <=> op \in {"resume", "status"}
    <2>1. Admits("resume", c1)
      BY <1>1, <1>9 DEF Admits, Dialogs
    <2> QED BY <1>2, <1>1, <1>9, <2>1, GrowsTo
  <1>11. InOrder(c3) /\ \A op : Has(c3, op) <=> op \in {"status", "resume"}
    <2>1. Admits("status", c2)
      BY <1>2, <1>10 DEF Admits, Dialogs
    <2> QED BY <1>3, <1>2, <1>10, <2>1, GrowsTo
  <1>12. InOrder(c4) /\ \A op : Has(c4, op) <=> op \in {"command", "status", "resume"}
    <2>1. Admits("command", c3)
      BY <1>3, <1>11 DEF Admits, Dialogs
    <2> QED BY <1>4, <1>3, <1>11, <2>1, GrowsTo
  <1>13. InOrder(c5) /\ \A op : Has(c5, op) <=> op \in {"params", "command", "status", "resume"}
    <2>1. Admits("params", c4)
      BY <1>4, <1>12 DEF Admits, Dialogs
    <2> QED BY <1>5, <1>4, <1>12, <2>1, GrowsTo
  <1>14. /\ InOrder(c6)
         /\ \A op : Has(c6, op) <=> op \in {"send", "params", "command", "status", "resume"}
    <2>1. Admits("send", c5)
      BY <1>5, <1>13 DEF Admits, Dialogs
    <2> QED BY <1>6, <1>5, <1>13, <2>1, GrowsTo
  <1>15. /\ InOrder(c7)
         /\ \A op : Has(c7, op) <=> op \in {"command", "send", "params", "status", "resume"}
    <2>1. Admits("command", c6)
      BY <1>6, <1>14 DEF Admits, Dialogs
    <2> QED BY <1>7, <1>6, <1>14, <2>1, GrowsTo
  <1>16. /\ InOrder(c8)
         /\ \A op : Has(c8, op) <=> op \in {"stop", "command", "send", "params", "status", "resume"}
    <2>1. Admits("stop", c7)
      BY <1>7, <1>15 DEF Admits, Dialogs
    <2> QED BY <1>8, <1>7, <1>15, <2>1, GrowsTo
  <1> QED BY <1>16 DEF c8

\* report: a restart ends the list if the driver acquires.
LEMMA ReportCall ==
  ASSUME NEW s, s = <<>> \/ s = <<"start">>
  PROVE  LET u == <<"stop", "send">> \o s IN
         /\ u \in Seq(Ops) /\ u # <<>> /\ Head(u) = "stop" /\ InOrder(u)
         /\ \A op : Has(u, op) <=> op \in {"stop", "send"} \/ (s # <<>> /\ op = "start")
  <1> DEFINE v == <<"send">> \o s
             w == <<"stop">> \o v
             u == <<"stop", "send">> \o s
  <1>0. "stop" \in Ops /\ "send" \in Ops
    BY OpsAre
  <1>1. /\ s \in Seq(Ops) /\ InOrder(s)
        /\ \A op : Has(s, op) <=> (s # <<>> /\ op = "start")
    <2>1. CASE s = <<>>
      BY <2>1, CallsAre, EmptyOrder
    <2>2. CASE s = <<"start">>
      <3>1. s # <<>>
        BY <2>2
      <3> QED BY <2>2, <3>1, CallsAre, StartCall
    <2> QED BY <2>1, <2>2
  <1>2. s # <<>> => Head(s) = "start"
    OBVIOUS
  <1>3. u = w
    BY <1>0, <1>1, ConsOfFour
  <1>4. Admits("send", s)
    BY <1>1, <1>2 DEF Admits
  <1>5. /\ v \in Seq(Ops) /\ InOrder(v)
        /\ \A op : Has(v, op) <=> (op = "send" \/ Has(s, op))
    BY <1>0, <1>1, <1>4, PutIs, OrderCons
  <1> HIDE DEF v
  <1>6. Admits("stop", v)
    BY <1>1, <1>5 DEF Admits
  <1>7. /\ w \in Seq(Ops) /\ w # <<>> /\ Head(w) = "stop" /\ InOrder(w)
        /\ \A op : Has(w, op) <=> (op = "stop" \/ Has(v, op))
    BY <1>0, <1>5, <1>6, PutIs, OrderCons
  <1> HIDE DEF u, w
  <1>8. /\ u \in Seq(Ops) /\ u # <<>> /\ Head(u) = "stop" /\ InOrder(u)
        /\ \A op : Has(u, op) <=> op \in {"stop", "send"} \/ (s # <<>> /\ op = "start")
    BY <1>1, <1>3, <1>5, <1>7
  <1> QED BY <1>8 DEF u

\* A bias setting: no command, one or two, and the status.
LEMMA BiasCall ==
  ASSUME NEW s, s \in {<<>>, <<"command">>, <<"command", "command">>}
  PROVE  LET u == s \o <<"status">> IN
         /\ u \in Seq(Ops) /\ u # <<>> /\ Head(u) \in {"command", "status"} /\ InOrder(u)
         /\ \A op : Has(u, op) <=> op = "status" \/ (s # <<>> /\ op = "command")
  <1> DEFINE c == <<"status">>
             v == <<"command">> \o c
             w == <<"command">> \o v
             u == s \o c
  <1>0. "command" \in Ops
    BY OpsAre
  <1>1. /\ c \in Seq(Ops) /\ c # <<>> /\ InOrder(c) /\ Head(c) = "status"
        /\ \A op : Has(c, op) <=> op = "status"
    BY CallsAre, StatusCall
  <1>2. <<>> \o c = c
    BY <1>1, ConcatEmptySeq
  <1> HIDE DEF c
  <1>3. <<"command", "command">> \o c = w
    BY <1>0, <1>1, ConsOfFour
  <1>4. Admits("command", c)
    BY <1>1 DEF Admits
  <1>5. /\ v \in Seq(Ops) /\ v # <<>> /\ InOrder(v) /\ Head(v) = "command"
        /\ \A op : Has(v, op) <=> (op = "command" \/ Has(c, op))
    BY <1>0, <1>1, <1>4, PutIs, OrderCons
  <1>6. s = <<"command">> => u = v
    OBVIOUS
  <1> HIDE DEF v
  <1>7. Admits("command", v)
    BY <1>1, <1>5 DEF Admits
  <1>8. /\ w \in Seq(Ops) /\ w # <<>> /\ InOrder(w) /\ Head(w) = "command"
        /\ \A op : Has(w, op) <=> (op = "command" \/ Has(v, op))
    BY <1>0, <1>5, <1>7, PutIs, OrderCons
  <1>9. s = <<"command", "command">> => u = w
    BY <1>3
  <1>10. s = <<>> => u = c
    BY <1>2
  <1> HIDE DEF u, w
  <1>11. <<"command">> # <<>> /\ <<"command", "command">> # <<>>
    OBVIOUS
  <1>12. /\ u \in Seq(Ops) /\ u # <<>> /\ Head(u) \in {"command", "status"} /\ InOrder(u)
         /\ \A op : Has(u, op) <=> op = "status" \/ (s # <<>> /\ op = "command")
    <2>1. CASE s = <<>>
      BY <1>1, <1>10, <2>1
    <2>2. CASE s = <<"command">>
      BY <1>1, <1>5, <1>6, <1>11, <2>2
    <2>3. CASE s = <<"command", "command">>
      BY <1>1, <1>5, <1>8, <1>9, <1>11, <2>3
    <2> QED BY <2>1, <2>2, <2>3
  <1> QED BY <1>12 DEF u, c

-----------------------------------------------------------------------------
\* No dialog is left for a meter that the driver takes for acquiring: the port thread
\* holds the lock from the end of setAcquire(0) to the next setAcquire(1).
TalksWhenOff ==
  (acquiring = 1 /\ PortHasLock /\ Head(todo) # "stop") =>
    ~Has(todo, "go") /\ \A op \in Dialogs : ~Has(todo, op)

Ordered ==
  /\ TypeOK
  /\ InOrder(todo)
  /\ TalksWhenOff
  /\ waiting = "stop" => Head(todo) = "stop" /\ (acquiring = 1 => readingActive = 1)
  /\ waiting \in {"start", "failed"} => Head(todo) = "go"

\* What is left when a step is done.
LEMMA DoneIs ==
  ASSUME Ordered, todo # <<>>
  PROVE  /\ Tail(todo) \in Seq(Ops) /\ InOrder(Tail(todo)) /\ Admits(Head(todo), Tail(todo))
         /\ \A op : Has(todo, op) <=> (op = Head(todo) \/ Has(Tail(todo), op))
  BY TailIs, OrderIs, HasTail DEF Ordered, TypeOK

\* A step that leaves a driver that does not acquire, or a list without dialogs.
LEMMA StaysOrdered ==
  ASSUME TypeOK', InOrder(todo'),
         waiting' = "no",
         \/ acquiring' = 0
         \/ todo' # <<>> /\ Head(todo') = "stop"
         \/ ~Has(todo', "go") /\ \A op \in Dialogs : ~Has(todo', op)
  PROVE  Ordered'
  <1>1. TalksWhenOff'
    BY DEF TalksWhenOff
  <1> QED BY <1>1 DEF Ordered, TypeOK

LEMMA ReaderOrdered == ASSUME Ordered, Reader PROVE Ordered'
  <1> USE DEF Ordered, TalksWhenOff, LockFree, PortHasLock, control, port, meter
  <1>0. TypeOK'
    BY ReaderType
  <1>1. CASE ReaderWakes
    BY <1>0, <1>1 DEF ReaderWakes
  <1>2. CASE ReaderStarts
    BY <1>0, <1>2 DEF ReaderStarts
  <1>3. CASE ReaderReads
    BY <1>0, <1>3 DEF ReaderReads, TypeOK
  <1> QED BY <1>1, <1>2, <1>3 DEF Reader

LEMMA TaskOrdered == ASSUME Ordered, Task PROVE Ordered'
  <1> USE DEF Ordered, TalksWhenOff, LockFree, PortHasLock, control, port, meter, driver
  <1>0. TypeOK'
    BY TaskType
  <1>1. CASE TaskDelivers
    BY <1>0, <1>1 DEF TaskDelivers
  <1>2. CASE TaskStops
    BY <1>0, <1>2 DEF TaskStops
  <1>3. CASE TaskStopped
    <2>1. acquiring' = acquiring \/ acquiring' = 0
      BY <1>3 DEF TaskStopped, StopEnds
    <2> QED BY <1>0, <1>3, <2>1 DEF TaskStopped
  <1> QED BY <1>1, <1>2, <1>3 DEF Task

\* Each of the client's calls, and what its list holds.
LEMMA ClientCalls ==
  ASSUME TypeOK, Client
  PROVE  /\ todo = <<>> /\ waiting = "no" /\ waiting' = "no"
         /\ todo' \in Seq(Ops) /\ todo' # <<>> /\ InOrder(todo')
         /\ ~Has(todo', "go")
         /\ Head(todo') = "stop" \/ \A op \in Dialogs : ~Has(todo', op)
  <1>0. todo = <<>> /\ waiting = "no" /\ waiting' = "no"
    BY DEF Client, Call, WriteAcquire, WriteAcquireMode, WriteSetting, WriteBias, WriteReset,
       Report, WriteReadStatus, TypeOK
  <1> USE <1>0 DEF Call, Dialogs
  <1>1. ASSUME NEW v \in {0, 1}, WriteAcquire(v)
        PROVE  todo' = <<"start">> \/ todo' = <<"stop">>
    BY <1>1 DEF WriteAcquire
  <1>2. ASSUME NEW m \in Modes, WriteAcquireMode(m)
        PROVE  todo' = <<"params", "status">> \/ todo' = <<"stop", "clear", "params", "status">>
    BY <1>2 DEF WriteAcquireMode
  <1>3. CASE todo' = <<"start">>
    BY <1>3, CallsAre, StartCall
  <1>4. CASE todo' = <<"stop">>
    BY <1>4, CallsAre, StopCall
  <1>5. CASE todo' = <<"status">>
    BY <1>5, CallsAre, StatusCall
  <1>6. CASE todo' = <<"params", "status">>
    BY <1>6, CallsAre, SettingCall
  <1>7. CASE todo' = <<"stop", "clear", "params", "status">>
    BY <1>7, CallsAre, CountedCall
  <1>8. CASE WriteReset
    <2> DEFINE c == <<"stop", "command", "send", "params", "command", "status", "resume", "status">>
    <2>1. todo' = c
      BY <1>8 DEF WriteReset
    <2>2. c \in Seq(Ops) /\ c # <<>> /\ Head(c) = "stop"
      BY CallsAre
    <2>3. InOrder(c) /\ ~Has(c, "go")
      BY ResetCall
    <2> HIDE DEF c
    <2> QED BY <2>1, <2>2, <2>3
  <1>9. CASE Report
    <2>1. PICK s : (s = <<>> \/ s = <<"start">>) /\ todo' = <<"stop", "send">> \o s
      <3>1. CASE acquiring = 1
        BY <1>9, <3>1 DEF Report
      <3>2. CASE acquiring # 1
        BY <1>9, <3>2 DEF Report
      <3> QED BY <3>1, <3>2
    <2>2. /\ todo' \in Seq(Ops) /\ todo' # <<>> /\ InOrder(todo') /\ Head(todo') = "stop"
          /\ \A op : Has(todo', op) <=> op \in {"stop", "send"} \/ (s # <<>> /\ op = "start")
      BY <2>1, ReportCall
    <2> QED BY <2>2
  <1>10. ASSUME NEW n \in 0..2, WriteBias(n)
         PROVE  /\ todo' \in Seq(Ops) /\ todo' # <<>> /\ InOrder(todo')
                /\ ~Has(todo', "go") /\ \A op \in Dialogs : ~Has(todo', op)
    <2> DEFINE s == [i \in 1..n |-> "command"]
    <2>1. s \in {<<>>, <<"command">>, <<"command", "command">>} /\ todo' = s \o <<"status">>
      BY <1>10, BiasIs DEF WriteBias
    <2> HIDE DEF s
    <2>2. /\ todo' \in Seq(Ops) /\ todo' # <<>> /\ InOrder(todo')
          /\ \A op : Has(todo', op) <=> op = "status" \/ (s # <<>> /\ op = "command")
      BY <2>1, BiasCall
    <2> QED BY <2>2
  <1> QED BY <1>1, <1>2, <1>3, <1>4, <1>5, <1>6, <1>7, <1>8, <1>9, <1>10
          DEF Client, WriteSetting, WriteReadStatus

LEMMA ClientOrdered == ASSUME Ordered, Client PROVE Ordered'
  <1>1. TypeOK'
    BY ClientType DEF Ordered
  <1>2. /\ waiting' = "no" /\ todo' # <<>> /\ InOrder(todo') /\ ~Has(todo', "go")
        /\ Head(todo') = "stop" \/ \A op \in Dialogs : ~Has(todo', op)
    BY ClientCalls DEF Ordered
  <1> QED BY <1>1, <1>2, StaysOrdered

LEMMA PortOrdered == ASSUME Ordered, Port PROVE Ordered'
  <1>0. TypeOK' /\ acquiring \in {0, 1} /\ waiting \in {"no", "stop", "start", "failed"}
          /\ todo \in Seq(Ops) /\ (waiting # "no" => todo # <<>>)
    BY PortType DEF Ordered, TypeOK
  <1>1. CASE PortStop
    <2>0. todo # <<>> /\ waiting = "no" /\ Head(todo) = "stop" /\ acquiring' = 0
      BY <1>1 DEF PortStop, PortHasLock
    <2>1. CASE readingActive = 0 /\ MeterOff /\ Pop /\ UNCHANGED waiting
      BY <1>0, <2>0, <2>1, DoneIs, StaysOrdered DEF Pop
    <2>2. CASE readingActive = 1 /\ waiting' = "stop" /\ UNCHANGED <<todo, meter>>
      BY <1>0, <2>0, <2>2 DEF Ordered, TalksWhenOff, PortHasLock
    <2> QED BY <1>1, <2>1, <2>2 DEF PortStop
  <1>2. CASE PortStopped
    <2>1. todo # <<>> /\ waiting = "stop" /\ readingActive = 0 /\ waiting' = "no"
            /\ todo' = Tail(todo) /\ (acquiring' = acquiring \/ acquiring' = 0)
      BY <1>0, <1>2 DEF PortStopped, StopEnds, Pop
    <2>2. acquiring' = 0
      BY <1>0, <2>1 DEF Ordered
    <2> QED BY <1>0, <2>1, <2>2, DoneIs, StaysOrdered
  <1>3. CASE PortStart
    <2>0. todo # <<>> /\ waiting' = "no" /\ PortHasLock /\ Head(todo) = "start"
            /\ acquiring' = acquiring
      BY <1>3 DEF PortStart, PortHasLock, driver
    <2>1. CASE acquiring = 1 /\ Pop
      <3>1. todo' = Tail(todo)
        BY <2>1 DEF Pop
      <3>2. InOrder(todo') /\ Admits("start", todo')
        BY <2>0, <3>1, DoneIs
      <3>3. ~Has(todo', "go") /\ \A op \in Dialogs : ~Has(todo', op)
        BY <3>2 DEF Admits
      <3> QED BY <1>0, <2>0, <3>2, <3>3, StaysOrdered
    <2>2. CASE acquiring = 0 /\ Expand(<<"params", "go">>)
      <3>1. InOrder(todo')
        BY <1>0, <2>0, <2>2, StartOrder DEF Expand, Ordered
      <3> QED BY <1>0, <2>0, <2>2, <3>1, StaysOrdered
    <2> QED BY <1>3, <2>1, <2>2 DEF PortStart
  <1>4. CASE PortGoes
    <2>0. todo # <<>> /\ waiting = "no" /\ Head(todo) = "go"
      BY <1>4 DEF PortGoes, PortHasLock
    <2>1. CASE Pop /\ UNCHANGED waiting
      <3>1. InOrder(todo') /\ Admits("go", todo')
        BY <2>0, <2>1, DoneIs DEF Pop
      <3>2. ~Has(todo', "go") /\ \A op \in Dialogs : ~Has(todo', op)
        BY <3>1 DEF Admits
      <3> QED BY <1>0, <2>0, <2>1, <3>1, <3>2, StaysOrdered
    <2>2. CASE waiting' \in {"start", "failed"} /\ UNCHANGED todo
      BY <1>0, <2>0, <2>2 DEF Ordered, TalksWhenOff, PortHasLock
    <2> QED BY <1>4, <2>1, <2>2 DEF PortGoes
  <1>5. CASE PortStarted
    <2>1. todo # <<>> /\ waiting' = "no" /\ todo' = Tail(todo) /\ Head(todo) = "go"
      BY <1>0, <1>5 DEF PortStarted, Pop, Ordered
    <2>2. InOrder(todo') /\ Admits("go", todo')
      BY <2>1, DoneIs
    <2>3. ~Has(todo', "go") /\ \A op \in Dialogs : ~Has(todo', op)
      BY <2>2 DEF Admits
    <2> QED BY <1>0, <2>1, <2>2, <2>3, StaysOrdered
  <1>6. CASE PortPreparesParams
    <2>0. todo # <<>> /\ waiting' = "no" /\ PortHasLock /\ Head(todo) = "params"
            /\ acquiring' = acquiring /\ InOrder(todo)
      BY <1>6 DEF PortPreparesParams, PortHasLock, driver, Ordered
    <2>1. CASE acquiring = 1 /\ trigger = 1
      <3>1. todo' = <<"stop", "send", "arm", "start">> \o Tail(todo)
        BY <1>6, <2>1 DEF PortPreparesParams, Expand
      <3>2. ~Has(todo, "go") /\ \A op \in Dialogs : ~Has(todo, op)
        BY <2>0, <2>1 DEF Ordered, TalksWhenOff
      <3>3. todo' # <<>> /\ InOrder(todo') /\ Head(todo') = "stop"
        BY <1>0, <2>0, <3>1, <3>2, ParamsOrder
      <3> QED BY <1>0, <2>0, <3>3, StaysOrdered
    <2>2. CASE ~(acquiring = 1 /\ trigger = 1) /\ (acquiring = 1 \/ trigger = 1)
      <3>1. todo' = <<"stop", "send", "arm">> \o Tail(todo)
        BY <1>6, <2>2 DEF PortPreparesParams, Expand
      <3>2. todo' # <<>> /\ InOrder(todo') /\ Head(todo') = "stop"
        BY <1>0, <2>0, <3>1, ParamsOrder
      <3> QED BY <1>0, <2>0, <3>2, StaysOrdered
    <2>3. CASE ~(acquiring = 1 \/ trigger = 1)
      <3>1. todo' = <<"send", "arm">> \o Tail(todo)
        BY <1>6, <2>3 DEF PortPreparesParams, Expand
      <3>2. InOrder(todo')
        BY <1>0, <2>0, <3>1, ParamsOrder
      <3> QED BY <1>0, <2>0, <2>3, <3>2, StaysOrdered
    <2> QED BY <2>1, <2>2, <2>3
  <1>7. CASE PortPrepares
    <2>0. todo # <<>> /\ waiting' = "no" /\ PortHasLock
            /\ Head(todo) \in {"command", "status"}
            /\ acquiring' = acquiring /\ InOrder(todo)
      BY <1>7 DEF PortPrepares, PortHasLock, driver, Ordered
    <2> DEFINE ask == acquiring = 1
               query == acquiring = 1 \/ trigger = 1
    <2>1. ask \in BOOLEAN /\ query \in BOOLEAN
      OBVIOUS
    <2>2. CASE Head(todo) = "command" /\ todo' = Wrapped(<<"ask">>, ask) \o Tail(todo)
      <3>1. ask => \A op \in Dialogs : ~Has(Tail(todo), op)
        BY <2>0, <2>2, DoneIs DEF Ordered, TalksWhenOff
      <3>2. todo' # <<>> /\ InOrder(todo') /\ Head(todo') = (IF ask THEN "stop" ELSE "ask")
        <4> HIDE DEF ask
        <4> QED BY <1>0, <2>0, <2>1, <2>2, <3>1, WrappedOrder
      <3> QED BY <1>0, <2>0, <3>2, StaysOrdered
    <2>3. CASE Head(todo) = "status" /\ todo' = Wrapped(<<"query">>, query) \o Tail(todo)
      <3>1. Admits("status", Tail(todo))
        BY <2>0, <2>3, DoneIs
      <3>2. \A op \in Dialogs : ~Has(Tail(todo), op)
        BY <3>1 DEF Admits
      <3>3. todo' # <<>> /\ InOrder(todo') /\ Head(todo') = (IF query THEN "stop" ELSE "query")
        <4> HIDE DEF query
        <4> QED BY <1>0, <2>0, <2>1, <2>3, <3>2, WrappedOrder
      <3> QED BY <1>0, <2>0, <3>3, StaysOrdered
    <2> QED BY <1>7, <2>2, <2>3 DEF PortPrepares, Expand
  <1>8. ASSUME Head(todo) \in Dialogs, PortHasLock, acquiring' = acquiring PROVE acquiring' = 0
    <2>1. Has(todo, Head(todo)) /\ Head(todo) # "stop"
      BY <1>0, <1>8, HasTail DEF PortHasLock, Dialogs
    <2> QED BY <1>0, <1>8, <2>1 DEF Ordered, TalksWhenOff
  <1>9. CASE PortTalks
    <2>0. todo # <<>> /\ waiting' = "no" /\ PortHasLock /\ Head(todo) \in Dialogs
            /\ acquiring' = acquiring
      BY <1>9 DEF PortTalks, PortHasLock, driver, Dialogs
    <2>1. InOrder(Tail(todo)) /\ Tail(todo) \in Seq(Ops)
      BY <2>0, DoneIs
    <2>2. Len(todo) > 1 => InOrder(Tail(Tail(todo)))
      <3>1. Len(todo) > 1 => Tail(todo) # <<>>
        BY <1>0, <2>0, SkippedIs
      <3> QED BY <2>1, <3>1, OrderIs
    <2>3. InOrder(todo')
      BY <1>9, <2>1, <2>2 DEF PortTalks, Pop
    <2> QED BY <1>0, <1>8, <2>0, <2>3, StaysOrdered
  <1>10. CASE PortArms
    <2>0. todo # <<>> /\ waiting' = "no" /\ PortHasLock /\ Head(todo) \in Dialogs
            /\ acquiring' = acquiring /\ todo' = Tail(todo)
      BY <1>10 DEF PortArms, PortHasLock, driver, Dialogs, Pop
    <2> QED BY <1>0, <1>8, <2>0, DoneIs, StaysOrdered
  <1>11. CASE PortSets
    <2>0. todo # <<>> /\ waiting' = "no" /\ PortHasLock /\ Head(todo) \in {"resume", "clear"}
            /\ acquiring' = acquiring /\ InOrder(todo)
      BY <1>11 DEF PortSets, PortHasLock, driver, Ordered
    <2>1. acquiring = 1 => ~Has(todo, "go") /\ \A op \in Dialogs : ~Has(todo, op)
      BY <2>0 DEF Ordered, TalksWhenOff
    <2>2. CASE Head(todo) = "clear" /\ Pop
      <3>1. InOrder(todo') /\ \A op : Has(todo', op) => Has(todo, op)
        BY <2>0, <2>2, DoneIs DEF Pop
      <3> QED BY <1>0, <2>0, <2>1, <3>1, StaysOrdered
    <2>3. CASE Head(todo) = "resume" /\ Expand(<<IF acquire = 1 THEN "start" ELSE "stop">>)
      <3>1. PICK a : (a = "start" \/ a = "stop") /\ todo' = <<a>> \o Tail(todo)
        BY <2>3 DEF Expand
      <3>2. InOrder(todo') /\ \A op : Has(todo', op) <=> op = a \/ Has(Tail(todo), op)
        BY <1>0, <2>0, <2>3, <3>1, ResumeOrder
      <3>3. \A op : Has(todo', op) => op = a \/ Has(todo, op)
        BY <2>0, <3>2, DoneIs
      <3>4. acquiring' = 0 \/ (~Has(todo', "go") /\ \A op \in Dialogs : ~Has(todo', op))
        BY <1>0, <2>0, <2>1, <3>1, <3>3 DEF Dialogs
      <3> QED BY <1>0, <2>0, <3>2, <3>4, StaysOrdered
    <2> QED BY <1>11, <2>2, <2>3 DEF PortSets
  <1> QED BY <1>1, <1>2, <1>3, <1>4, <1>5, <1>6, <1>7, <1>9, <1>10, <1>11 DEF Port

LEMMA NextOrdered == Ordered /\ [Next]_vars => Ordered'
  <1> SUFFICES ASSUME Ordered, [Next]_vars PROVE Ordered'
    OBVIOUS
  <1>1. CASE UNCHANGED vars
    <2>1. TypeOK'
      BY NextType DEF Ordered
    <2> QED BY <1>1, <2>1 DEF vars, Ordered, TalksWhenOff, PortHasLock, driver, port
  <1> QED BY <1>1, ReaderOrdered, PortOrdered, ClientOrdered, TaskOrdered DEF Next, Reader

LEMMA InitOrdered == Init => Ordered
  BY InitType, EmptyOrder DEF Init, Ordered, TalksWhenOff, PortHasLock

\* Whatever fails, the steps of a call stay in their order, and no dialog is begun while
\* the driver acquires.
THEOREM CallsInOrder == Spec => []Ordered
  BY InitOrdered, NextOrdered, PTL DEF Spec

-----------------------------------------------------------------------------
(***************************************************************************)
(* No reading is sent to nobody.  What keeps a running meter from being    *)
(* forgotten is that somebody is still to look at it: the read thread, a   *)
(* setAcquire(0), or a step of the call under way that will start or stop  *)
(* what a trigger may have started.                                        *)
(***************************************************************************)
SomebodyMinds ==
  \/ event
  \/ reader = "woken"
  \/ reader = "reading" /\ acquiring = 1
  \/ task = "stop"
  \/ waiting = "stop"

\* sendCommand and readStatus may skip the restart that follows their dialog.
CallMinds ==
  \/ Has(todo, "stop")
  \/ /\ trigger = 1
     /\ \/ Has(todo, "go") \/ Has(todo, "status")
        \/ Has(todo, "start") /\ Head(todo) \notin {"ask", "query"}

Minded ==
  /\ Ordered
  /\ running /\ heard => SomebodyMinds \/ CallMinds
  /\ waiting = "start" => (running /\ heard => SomebodyMinds)
  /\ waiting = "failed" => ~(running /\ heard)
  /\ acquiring = 1 => event \/ reader # "asleep"

\* The dialog that turns the meter off leaves no meter that is known to run.
LEMMA TurnedOff == MeterOff => ~(running' /\ heard')
  BY DEF MeterOff

LEMMA ReaderMinded == ASSUME Minded, Reader PROVE Minded'
  <1> USE DEF Minded, SomebodyMinds, CallMinds, control, port, meter
  <1>0. Ordered'
    BY ReaderOrdered
  <1>1. CASE ReaderWakes
    BY <1>0, <1>1 DEF ReaderWakes
  <1>2. CASE ReaderStarts
    BY <1>0, <1>2 DEF ReaderStarts
  <1>3. CASE ReaderReads
    BY <1>0, <1>3 DEF ReaderReads, Ordered, TypeOK
  <1> QED BY <1>1, <1>2, <1>3 DEF Reader

LEMMA TaskMinded == ASSUME Minded, Task PROVE Minded'
  <1> USE DEF Minded, SomebodyMinds, CallMinds, control, port, meter, driver
  <1>0. Ordered'
    BY TaskOrdered
  <1>1. CASE TaskDelivers
    BY <1>0, <1>1 DEF TaskDelivers
  <1>2. CASE TaskStops
    BY <1>0, <1>2, TurnedOff DEF TaskStops
  <1>3. CASE TaskStopped
    <2>1. acquiring' = acquiring \/ acquiring' = 0
      BY <1>3 DEF TaskStopped, StopEnds
    <2>2. ~(running' /\ heard') /\ event' = event /\ reader' = reader
      BY <1>3, TurnedOff DEF TaskStopped, StopEnds
    <2> QED BY <1>0, <2>1, <2>2
  <1> QED BY <1>1, <1>2, <1>3 DEF Task

LEMMA ClientMinded == ASSUME Minded, Client PROVE Minded'
  <1>1. Ordered'
    BY ClientOrdered DEF Minded
  <1>2. todo = <<>> /\ waiting = "no" /\ waiting' = "no"
    BY ClientCalls DEF Minded, Ordered
  <1>3. ~CallMinds
    BY <1>2, EmptyOrder DEF CallMinds
  <1>4. UNCHANGED <<running, heard, event, reader, acquiring, task>>
    BY DEF Client, Call, WriteAcquire, WriteAcquireMode, WriteSetting, WriteBias, WriteReset,
       Report, WriteReadStatus, driver, meter
  <1> QED BY <1>1, <1>2, <1>3, <1>4 DEF Minded, SomebodyMinds

\* A step of the port thread that leaves the meter and the read thread as they are.
LEMMA StaysMinded ==
  ASSUME Minded, Ordered', waiting = "no", waiting' = "no", running' /\ heard' => running /\ heard,
         UNCHANGED <<acquiring, event, reader, task>>,
         CallMinds /\ running' /\ heard' => SomebodyMinds \/ CallMinds'
  PROVE  Minded'
  BY DEF Minded, SomebodyMinds

LEMMA PortMinded == ASSUME Minded, Port PROVE Minded'
  <1>0. /\ Ordered /\ Ordered' /\ todo \in Seq(Ops) /\ acquiring \in {0, 1}
        /\ (waiting # "no" => todo # <<>>) /\ waiting \in {"no", "stop", "start", "failed"}
        /\ trigger \in {0, 1}
    BY PortOrdered, ConstAssumption DEF Minded, Ordered, TypeOK
  <1> USE DEF driver, control, port, meter
  <1>1. CASE PortStop
    BY <1>0, <1>1, TurnedOff DEF PortStop, PortHasLock, Minded, SomebodyMinds
  <1>2. CASE PortStopped
    <2>1. acquiring' = acquiring \/ acquiring' = 0
      BY <1>2 DEF PortStopped, StopEnds
    <2>2. ~(running' /\ heard') /\ event' = event /\ reader' = reader /\ waiting' = "no"
      BY <1>2, TurnedOff DEF PortStopped, StopEnds
    <2> QED BY <1>0, <2>1, <2>2 DEF Minded
  <1>3. CASE PortStart
    <2>0. /\ todo # <<>> /\ waiting = "no" /\ waiting' = "no" /\ Head(todo) = "start"
          /\ UNCHANGED <<acquiring, event, reader, task, running, heard, trigger>>
      BY <1>3 DEF PortStart, PortHasLock
    <2>1. /\ Admits("start", Tail(todo))
          /\ \A op : Has(todo, op) <=> op = "start" \/ Has(Tail(todo), op)
      BY <1>0, <2>0, DoneIs
    <2>2. ~Has(todo, "stop")
      BY <2>1 DEF Admits
    <2>3. CASE acquiring = 1
      <3>1. reader \in {"asleep", "woken", "reading"}
        BY <1>0 DEF Ordered, TypeOK
      <3>2. SomebodyMinds
        BY <2>3, <3>1 DEF Minded, SomebodyMinds
      <3> QED BY <1>0, <2>0, <3>2, StaysMinded
    <2>4. CASE acquiring = 0 /\ Expand(<<"params", "go">>)
      <3>1. Has(todo', "go")
        BY <1>0, <2>0, <2>4, StartOrder DEF Expand, Ordered
      <3> QED BY <1>0, <2>0, <2>2, <3>1, StaysMinded DEF CallMinds
    <2> QED BY <1>3, <2>3, <2>4 DEF PortStart
  <1>4. CASE PortGoes
    <2>1. event' = TRUE /\ waiting = "no" /\ trigger' = trigger
      BY <1>4 DEF PortGoes, PortHasLock
    <2>2. waiting' = "failed" => ~heard'
      <3>1. PICK failed \in BOOLEAN :
              /\ failed => trigger = 0
              /\ heard' = IF trigger = 1 THEN heard ELSE ~failed
              /\ waiting' = "failed" => failed
        <4>1. \A failed \in {FALSE} \cup {trigger = 0} :
                failed \in BOOLEAN /\ (failed => trigger = 0)
          OBVIOUS
        <4>2. "start" # "failed" /\ (waiting = "no" => waiting # "failed")
          OBVIOUS
        <4> QED BY <1>4, <2>1, <4>1, <4>2 DEF PortGoes
      <3>2. ASSUME failed PROVE ~heard'
        <4>1. (trigger = 1) = FALSE
          BY <3>1, <3>2
        <4>2. heard' = ~failed
          BY <3>1, <4>1, Zenon
        <4> QED BY <3>2, <4>2, Zenon
      <3> QED BY <3>1, <3>2
    <2> QED BY <1>0, <2>1, <2>2 DEF Minded, SomebodyMinds
  <1>5. CASE PortStarted
    <2>1. /\ waiting' = "no" /\ waiting \in {"start", "failed"}
          /\ readingActive = 1
          /\ UNCHANGED <<event, reader, task, running, heard>>
          /\ acquiring' = IF waiting = "failed" THEN 0 ELSE acquiring
      BY <1>5 DEF PortStarted
    <2>2. reader = "reading"
      BY <1>0, <2>1 DEF Ordered, TypeOK
    <2> QED BY <1>0, <2>1, <2>2 DEF Minded, SomebodyMinds
  <1>6. CASE PortPreparesParams
    <2>0. /\ todo # <<>> /\ waiting = "no" /\ waiting' = "no" /\ Head(todo) = "params"
          /\ UNCHANGED <<acquiring, event, reader, task, running, heard, trigger>>
          /\ InOrder(todo)
      BY <1>0, <1>6 DEF PortPreparesParams, PortHasLock, Ordered
    <2>1. /\ Admits("params", Tail(todo))
          /\ \A op : Has(todo, op) <=> op = "params" \/ Has(Tail(todo), op)
      BY <1>0, <2>0, DoneIs
    <2>2. ~Has(todo, "stop")
      BY <2>1 DEF Admits
    <2>3. CASE acquiring = 1 /\ trigger = 1
      <3>1. ~Has(todo, "go") /\ \A op \in Dialogs : ~Has(todo, op)
        BY <1>0, <2>0, <2>3 DEF Ordered, TalksWhenOff, PortHasLock
      <3>2. Has(todo', "stop")
        BY <1>0, <1>6, <2>0, <2>3, <3>1, ParamsOrder DEF PortPreparesParams, Expand
      <3> QED BY <1>0, <2>0, <3>2, StaysMinded DEF CallMinds
    <2>4. CASE ~(acquiring = 1 /\ trigger = 1) /\ (acquiring = 1 \/ trigger = 1)
      <3>1. Has(todo', "stop")
        BY <1>0, <1>6, <2>0, <2>4, ParamsOrder DEF PortPreparesParams, Expand
      <3> QED BY <1>0, <2>0, <3>1, StaysMinded DEF CallMinds
    <2>5. CASE ~(acquiring = 1 \/ trigger = 1)
      BY <1>0, <2>0, <2>2, <2>5, StaysMinded DEF CallMinds
    <2> QED BY <2>3, <2>4, <2>5
  <1>7. CASE PortPrepares
    <2>0. /\ todo # <<>> /\ waiting = "no" /\ waiting' = "no"
          /\ Head(todo) \in {"command", "status"}
          /\ UNCHANGED <<acquiring, event, reader, task, running, heard, trigger>>
          /\ InOrder(todo)
      BY <1>0, <1>7 DEF PortPrepares, PortHasLock, Ordered
    <2> DEFINE ask == acquiring = 1
               query == acquiring = 1 \/ trigger = 1
    <2>1. /\ ask \in BOOLEAN /\ query \in BOOLEAN
          /\ Admits(Head(todo), Tail(todo))
          /\ \A op : Has(todo, op) <=> op = Head(todo) \/ Has(Tail(todo), op)
      BY <1>0, <2>0, DoneIs
    <2>2. ~Has(todo, "stop")
      BY <2>0, <2>1 DEF Admits
    <2>3. CASE Head(todo) = "command" /\ todo' = Wrapped(<<"ask">>, ask) \o Tail(todo)
      <3>1. ask => \A op \in Dialogs : ~Has(Tail(todo), op)
        BY <1>0, <2>0, <2>1, <2>3 DEF Ordered, TalksWhenOff, PortHasLock
      <3>2. Has(Tail(todo), "status")
        BY <2>1, <2>3 DEF Admits
      <3>3. Has(todo', "status")
        <4> HIDE DEF ask
        <4> QED BY <1>0, <2>0, <2>1, <2>3, <3>1, <3>2, WrappedOrder
      <3> QED BY <1>0, <2>0, <2>2, <3>3, StaysMinded DEF CallMinds
    <2>4. CASE Head(todo) = "status" /\ todo' = Wrapped(<<"query">>, query) \o Tail(todo)
      <3>1. \A op \in Dialogs : ~Has(Tail(todo), op)
        BY <2>1, <2>4 DEF Admits
      <3>2. query => Has(todo', "stop")
        <4> HIDE DEF query
        <4> QED BY <1>0, <2>0, <2>1, <2>4, <3>1, WrappedOrder
      <3> QED BY <1>0, <2>0, <2>2, <3>2, StaysMinded DEF CallMinds
    <2> QED BY <1>7, <2>3, <2>4 DEF PortPrepares, Expand
  <1>8. CASE PortTalks
    <2>0. /\ todo # <<>> /\ waiting = "no" /\ waiting' = "no"
          /\ Head(todo) \in {"send", "ask", "query"}
          /\ UNCHANGED <<acquiring, event, reader, task, running, heard, trigger>>
      BY <1>8 DEF PortTalks, PortHasLock
    <2> DEFINE t == Tail(todo)
    <2>1. /\ t \in Seq(Ops) /\ Admits(Head(todo), t)
          /\ \A op : Has(todo, op) <=> op = Head(todo) \/ Has(t, op)
      BY <1>0, <2>0, DoneIs
    <2>2. ~Has(todo, "stop")
      BY <2>0, <2>1 DEF Admits
    <2>3. CASE todo' = t
      <3>1. \A op \in {"go", "status", "start"} : Has(todo, op) => Has(todo', op)
        BY <2>0, <2>1, <2>3
      <3>2. Has(todo, "start") => todo' # <<>>
        BY <3>1, EmptyOrder
      <3>3. Has(todo, "start") /\ Head(todo) \notin {"ask", "query"} =>
              Head(todo') \notin {"ask", "query"}
        BY <2>0, <2>1, <2>3, <3>2 DEF Admits
      <3> QED BY <1>0, <2>0, <2>2, <3>1, <3>3, StaysMinded DEF CallMinds
    <2>4. CASE Head(todo) # "send" /\ Len(todo) > 1 /\ todo[2] = "start" /\ todo' = Tail(t)
      <3>1. t # <<>> /\ Head(t) = "start"
        BY <1>0, <2>0, <2>4, SkippedIs
      <3>2. \A op : Has(t, op) <=> op = "start" \/ Has(todo', op)
        BY <2>1, <2>4, <3>1, HasTail
      <3>3. \A op \in {"go", "status"} : Has(todo, op) => Has(todo', op)
        BY <2>0, <2>1, <3>2
      <3> QED BY <1>0, <2>0, <2>2, <2>4, <3>3, StaysMinded DEF CallMinds
    <2> QED BY <1>8, <2>3, <2>4 DEF PortTalks, Pop
  <1>9. CASE PortArms
    <2>0. /\ todo # <<>> /\ waiting = "no" /\ waiting' = "no" /\ Head(todo) = "arm"
          /\ UNCHANGED <<acquiring, event, reader, task, trigger>>
          /\ todo' = Tail(todo)
      BY <1>9 DEF PortArms, PortHasLock, Pop
    <2>1. /\ Admits("arm", todo')
          /\ \A op : Has(todo, op) <=> op = "arm" \/ Has(todo', op)
      BY <1>0, <2>0, DoneIs
    <2>2. ~Has(todo, "stop")
      BY <2>1 DEF Admits
    <2>3. CASE trigger = 1
      <3>1. CallMinds'
        BY <2>0, <2>1, <2>3 DEF CallMinds, Admits
      <3> QED BY <1>0, <2>0, <3>1 DEF Minded
    <2>4. CASE trigger # 1
      <3>1. running \in BOOLEAN /\ heard \in BOOLEAN
        BY <1>0 DEF Ordered, TypeOK
      <3>2. running' /\ heard' => running /\ heard
        BY <1>9, <2>4, <3>1 DEF PortArms
      <3>3. ~CallMinds
        BY <2>2, <2>4 DEF CallMinds
      <3> QED BY <1>0, <2>0, <3>2, <3>3, StaysMinded
    <2> QED BY <2>3, <2>4
  <1>10. CASE PortSets
    <2>0. /\ todo # <<>> /\ waiting = "no" /\ waiting' = "no" /\ Head(todo) \in {"resume", "clear"}
          /\ UNCHANGED <<acquiring, event, reader, task, running, heard, trigger>>
          /\ InOrder(todo)
      BY <1>0, <1>10 DEF PortSets, PortHasLock, Ordered
    <2>1. /\ Admits(Head(todo), Tail(todo))
          /\ \A op : Has(todo, op) <=> op = Head(todo) \/ Has(Tail(todo), op)
      BY <1>0, <2>0, DoneIs
    <2>2. ~Has(todo, "stop")
      BY <2>0, <2>1 DEF Admits
    <2>3. CASE Head(todo) = "clear" /\ Pop
      <3>1. ~Has(todo, "start") /\ ~Has(todo, "go")
        BY <2>1, <2>3 DEF Admits
      <3>2. Has(todo, "status") => Has(todo', "status")
        BY <2>1, <2>3 DEF Pop
      <3> QED BY <1>0, <2>0, <2>2, <3>1, <3>2, StaysMinded DEF CallMinds
    <2>4. CASE Head(todo) = "resume" /\ Expand(<<IF acquire = 1 THEN "start" ELSE "stop">>)
      <3>1. PICK a : (a = "start" \/ a = "stop") /\ todo' = <<a>> \o Tail(todo)
        BY <2>4 DEF Expand
      <3>2. Head(todo') = a /\ Has(todo', a)
        BY <1>0, <2>0, <2>4, <3>1, ResumeOrder
      <3> QED BY <1>0, <2>0, <2>2, <3>1, <3>2, StaysMinded DEF CallMinds
    <2> QED BY <1>10, <2>3, <2>4 DEF PortSets
  <1> QED BY <1>1, <1>2, <1>3, <1>4, <1>5, <1>6, <1>7, <1>8, <1>9, <1>10 DEF Port

LEMMA NextMinded == Minded /\ [Next]_vars => Minded'
  <1> SUFFICES ASSUME Minded, [Next]_vars PROVE Minded'
    OBVIOUS
  <1>1. CASE UNCHANGED vars
    <2>1. Ordered'
      BY NextOrdered DEF Minded
    <2> QED BY <1>1, <2>1 DEF vars, Minded, SomebodyMinds, CallMinds, driver, control, port, meter
  <1> QED BY <1>1, ReaderMinded, PortMinded, ClientMinded, TaskMinded DEF Next, Reader

\* Whatever fails, a meter whose last order was heard does not send with the read
\* thread asleep for good, in free run and by the external trigger.
THEOREM NoReadingUnread == Spec => []SendsToNobody
  <1>1. Init => Minded
    BY InitOrdered DEF Init, Minded
  <1>2. Minded => SendsToNobody
    <2>1. todo = <<>> => ~CallMinds
      BY EmptyOrder DEF CallMinds
    <2> QED BY <2>1 DEF Minded, SomebodyMinds, SendsToNobody, Ordered, TypeOK
  <1> QED BY <1>1, <1>2, NextMinded, PTL DEF Spec

-----------------------------------------------------------------------------
(***************************************************************************)
(* What holds as long as nothing fails and callbackTask and the port       *)
(* thread do not meet.                                                     *)
(***************************************************************************)
\* Where the read thread is: a wait of setAcquire finds it on its way to the state
\* that is waited for, and between waits it does what the driver takes it to do.
Settled ==
  /\ waiting = "no" /\ task = "idle" =>
       ~event /\ reader # "woken" /\ acquiring = readingActive
  /\ waiting # "failed"
  /\ waiting = "start" => task = "idle" /\ acquiring = 1 /\ (event <=> reader = "asleep")
  /\ waiting = "stop" => task = "idle" /\ acquiring = 0 /\ ~event /\ reader # "woken"
  /\ task = "stop" => todo = <<>> /\ acquiring = 0 /\ ~event /\ reader # "woken"

\* What was stopped for a dialog comes back: the step that starts it again is in the
\* list, and in free run only if Acquire says so.
Returns ==
  /\ (acquire = 1 /\ ~forgotten /\ task = "idle") =>
       \/ Has(todo, "start") \/ Has(todo, "go") \/ Has(todo, "resume") \/ Has(todo, "clear")
       \/ acquiring = 1 /\ ~Has(todo, "stop")
  /\ acquiring = 1 /\ trigger = 0 =>
       (acquire = 1 /\ running) \/ (todo # <<>> /\ Head(todo) \in {"params", "stop"})
  /\ trigger = 0 /\ (Has(todo, "start") \/ Has(todo, "go")) => acquire = 1
  /\ Has(todo, "go") => acquiring = 0 \/ waiting = "start"
  /\ Has(todo, "clear") => acquiring = 0 \/ Head(todo) = "stop"

\* A meter that runs is acquired from, or is about to be turned off, or waits for a
\* trigger that was armed for the next start.
Seen ==
  running =>
    \/ acquiring = 1 \/ task = "stop" \/ Has(todo, "stop")
    \/ /\ trigger = 1
       /\ Has(todo, "go") \/ Has(todo, "status") \/ Has(todo, "start")
       /\ Head(todo) \in {"go", "status", "start", "params"} \/ Has(todo, "resume")

Calm == Settled /\ Returns /\ Seen

Quiet == Ordered /\ (Undisturbed => Calm)

LEMMA StaysDisturbed == TypeOK /\ TypeOK' /\ [Next]_vars /\ Undisturbed' => Undisturbed
  <1> SUFFICES ASSUME TypeOK, TypeOK', [Next]_vars, Undisturbed' PROVE Undisturbed
    OBVIOUS
  <1>0. faults \in Nat /\ faults' \in Nat /\ faults' = 0 /\ ~overlapped' /\ MaxFaults \in Int
    BY ConstAssumption DEF Undisturbed, TypeOK
  <1>1. ASSUME Answered \/ Fails PROVE faults = 0
    BY <1>0, <1>1 DEF Answered, Fails
  <1>2. ASSUME MeterOff PROVE faults = 0
    BY <1>1, <1>2 DEF MeterOff
  <1>3. CASE Reader
    BY <1>0, <1>3 DEF Reader, ReaderWakes, ReaderStarts, ReaderReads, Undisturbed, meter
  <1>4. CASE Port
    <2>1. ~overlapped
      BY <1>0, <1>4 DEF Port, PortStop, PortStopped, PortStart, PortGoes, PortStarted,
         PortPreparesParams, PortPrepares, PortTalks, PortArms, PortSets
    <2>2. faults' = faults \/ Answered \/ Fails \/ MeterOff
      BY <1>4 DEF Port, PortStop, PortStopped, PortStart, PortGoes, PortStarted,
         PortPreparesParams, PortPrepares, PortTalks, PortArms, PortSets, StopEnds, meter
    <2> QED BY <1>0, <1>1, <1>2, <2>1, <2>2 DEF Undisturbed
  <1>5. CASE Client
    BY <1>0, <1>5 DEF Client, Call, WriteAcquire, WriteAcquireMode, WriteSetting, WriteBias,
       WriteReset, Report, WriteReadStatus, Undisturbed, meter
  <1>6. CASE Task
    <2>1. ~overlapped
      BY <1>0, <1>6 DEF Task, TaskDelivers, TaskStops, TaskStopped
    <2>2. faults' = faults \/ MeterOff
      BY <1>6 DEF Task, TaskDelivers, TaskStops, TaskStopped, StopEnds, meter
    <2> QED BY <1>0, <1>2, <2>1, <2>2 DEF Undisturbed
  <1>7. CASE UNCHANGED vars
    BY <1>0, <1>7 DEF vars, Undisturbed, meter
  <1> QED BY <1>3, <1>4, <1>5, <1>6, <1>7 DEF Next, Reader

\* A step in which nothing fails, from a state in which nothing has.
QuietStep ==
  /\ Ordered /\ Ordered' /\ Undisturbed /\ Undisturbed'
  /\ Settled /\ Returns /\ Seen

LEMMA NothingFails ==
  ASSUME QuietStep
  PROVE  /\ ~Fails
         /\ MeterOff => ~running' /\ heard'
         /\ trigger \in {0, 1} /\ acquire \in {0, 1} /\ acquiring \in {0, 1}
         /\ readingActive \in {0, 1} /\ (readingActive = 1 <=> reader = "reading")
         /\ reader \in {"asleep", "woken", "reading"} /\ task \in {"idle", "stop"}
         /\ waiting \in {"no", "stop", "start", "failed"} /\ (waiting # "no" => todo # <<>>)
         /\ event \in BOOLEAN /\ running \in BOOLEAN
         /\ todo \in Seq(Ops)
  <1>1. ~Fails
    BY DEF QuietStep, Undisturbed, Fails
  <1>2. MeterOff => ~running' /\ heard'
    BY <1>1 DEF MeterOff
  <1>3. TypeOK
    BY DEF QuietStep, Ordered
  <1> QED BY <1>1, <1>2, <1>3, ConstAssumption DEF TypeOK

\* The port thread's step, with callbackTask at rest and the read thread not concerned.
LEMMA PortAlone ==
  ASSUME QuietStep, todo # <<>>, waiting = "no"
  PROVE  /\ task = "idle" /\ ~event /\ reader # "woken" /\ acquiring = readingActive
         /\ (waiting' = "no" /\ UNCHANGED <<acquiring, readingActive, event, reader, task>>)
               => Settled'
  BY NothingFails DEF QuietStep, Settled

-----------------------------------------------------------------------------
LEMMA ReaderQuiet == ASSUME QuietStep, Reader PROVE Calm'
  <1> USE NothingFails DEF QuietStep, Calm
  <1>1. CASE ReaderWakes
    <2>1. waiting = "start"
      BY <1>1 DEF ReaderWakes, Settled
    <2> QED BY <1>1, <2>1 DEF ReaderWakes, Settled, Returns, Seen, control, port, meter
  <1>2. CASE ReaderStarts
    <2>1. waiting = "start"
      BY <1>2 DEF ReaderStarts, Settled
    <2>2. Settled'
      BY <1>2, <2>1 DEF ReaderStarts, Settled, control, port, meter
    <2>3. acquiring' = acquiring
      BY <1>2, <2>1 DEF ReaderStarts, Settled
    <2> QED BY <1>2, <2>2, <2>3 DEF ReaderStarts, Returns, Seen, control, port, meter
  <1>3. CASE ReaderReads
    <2>1. Settled'
      BY <1>3 DEF ReaderReads, Settled, control, port, meter
    <2> QED BY <1>3, <2>1 DEF ReaderReads, Returns, Seen, control, port, meter
  <1> QED BY <1>1, <1>2, <1>3 DEF Reader

LEMMA TaskQuiet == ASSUME QuietStep, Task PROVE Calm'
  <1> USE NothingFails, EmptyOrder DEF QuietStep, Calm
  <1>1. CASE TaskDelivers
    BY <1>1 DEF TaskDelivers, Settled, Returns, Seen, driver, port, meter
  <1>2. CASE TaskStops
    <2>1. waiting = "no" /\ todo = <<>> /\ waiting' = "no" /\ todo' = <<>> /\ task = "idle"
      BY <1>2 DEF TaskStops, Undisturbed, LockFree, PortHasLock, port
    <2>2. ~event /\ reader # "woken" /\ acquiring' = 0 /\ event' = event /\ reader' = reader
            /\ readingActive' = readingActive
      BY <1>2, <2>1 DEF TaskStops, Settled
    <2>3. \/ readingActive = 0 /\ MeterOff /\ acquire' = 0 /\ UNCHANGED task
          \/ readingActive = 1 /\ task' = "stop" /\ UNCHANGED <<acquire, meter>>
      BY <1>2 DEF TaskStops
    <2>4. Settled'
      BY <2>1, <2>2, <2>3 DEF Settled
    <2>5. Returns'
      BY <2>1, <2>2, <2>3 DEF Returns
    <2>6. Seen'
      BY <2>2, <2>3 DEF Seen
    <2> QED BY <2>4, <2>5, <2>6
  <1>3. CASE TaskStopped
    <2>1. todo = <<>> /\ acquiring = 0 /\ ~event /\ reader # "woken" /\ waiting = "no"
      BY <1>3 DEF TaskStopped, Settled
    <2>2. /\ readingActive = 0 /\ MeterOff /\ acquire' = 0 /\ task' = "idle"
          /\ acquiring' = 0
          /\ UNCHANGED <<readingActive, event, trigger, reader, todo, waiting>>
      BY <1>3, <2>1 DEF TaskStopped, StopEnds, port
    <2>3. Settled' /\ Seen'
      BY <2>1, <2>2 DEF Settled, Seen
    <2>4. Returns'
      BY <2>1, <2>2 DEF Returns
    <2> QED BY <2>3, <2>4
  <1> QED BY <1>1, <1>2, <1>3 DEF Task

-----------------------------------------------------------------------------
\* The list before and after a step that is done, in the words of the invariants.
LEMMA PortSteps ==
  ASSUME QuietStep, todo # <<>>
  PROVE  /\ Tail(todo) \in Seq(Ops) /\ InOrder(todo) /\ Admits(Head(todo), Tail(todo))
         /\ \A op : Has(todo, op) <=> (op = Head(todo) \/ Has(Tail(todo), op))
  BY DoneIs DEF QuietStep, Ordered

LEMMA StopQuiet ==
  ASSUME QuietStep, todo # <<>>, Head(todo) = "stop", task = "idle",
         todo' = Tail(todo), waiting' = "no", acquiring' = 0, ~running', readingActive = 0,
         ~event, reader # "woken",
         UNCHANGED <<readingActive, event, reader, task, acquire, trigger, forgotten>>
  PROVE  Calm'
  <1>1. \A op : Has(todo, op) <=> (op = "stop" \/ Has(todo', op))
    BY PortSteps
  <1>2. Settled' /\ Seen'
    BY DEF Settled, Seen
  <1>3. Returns'
    BY <1>1 DEF Returns, QuietStep
  <1> QED BY <1>2, <1>3 DEF Calm

LEMMA PortStopQuiet == ASSUME QuietStep, PortStop PROVE Calm'
  <1>0. /\ todo # <<>> /\ waiting = "no" /\ Head(todo) = "stop" /\ acquiring' = 0
        /\ UNCHANGED <<readingActive, event, reader, task, acquire, trigger, forgotten>>
    BY DEF PortStop, PortHasLock, control
  <1>1. task = "idle" /\ ~event /\ reader # "woken"
    BY <1>0, PortAlone
  <1>2. CASE readingActive = 0 /\ MeterOff /\ Pop /\ UNCHANGED waiting
    BY <1>0, <1>1, <1>2, NothingFails, StopQuiet DEF Pop
  <1>3. CASE readingActive = 1 /\ waiting' = "stop" /\ UNCHANGED <<todo, meter>>
    <2>1. Has(todo, "stop")
      BY <1>0, PortSteps
    <2>2. Settled' /\ Seen'
      BY <1>0, <1>1, <1>3, <2>1 DEF Settled, Seen
    <2>3. Returns'
      BY <1>0, <1>3, <2>1 DEF Returns, QuietStep
    <2> QED BY <2>2, <2>3 DEF Calm
  <1> QED BY <1>2, <1>3 DEF PortStop

LEMMA PortStoppedQuiet == ASSUME QuietStep, PortStopped PROVE Calm'
  <1>0. /\ todo # <<>> /\ waiting = "stop" /\ waiting' = "no" /\ todo' = Tail(todo)
        /\ readingActive = 0 /\ MeterOff
        /\ (acquiring' = acquiring \/ acquiring' = 0)
        /\ UNCHANGED <<readingActive, event, reader, task, acquire, trigger, forgotten>>
    BY NothingFails DEF PortStopped, StopEnds, Pop, control
  <1>1. task = "idle" /\ ~event /\ reader # "woken" /\ acquiring = 0
    BY <1>0 DEF QuietStep, Settled
  <1>2. Head(todo) = "stop"
    BY <1>0 DEF QuietStep, Ordered
  <1> QED BY <1>0, <1>1, <1>2, NothingFails, StopQuiet

LEMMA PortStartQuiet == ASSUME QuietStep, PortStart PROVE Calm'
  <1>0. /\ todo # <<>> /\ waiting = "no" /\ waiting' = "no" /\ Head(todo) = "start"
        /\ UNCHANGED <<acquiring, readingActive, event, reader, task, acquire, trigger,
                       forgotten, running>>
    BY DEF PortStart, PortHasLock, driver, meter
  <1>1. task = "idle" /\ Settled'
    BY <1>0, PortAlone
  <1> DEFINE t == Tail(todo)
  <1>2. /\ Admits("start", t)
        /\ \A op : Has(todo, op) <=> (op = "start" \/ Has(t, op))
    BY <1>0, PortSteps
  <1>3. ~Has(t, "stop") /\ ~Has(t, "go") /\ ~Has(t, "clear")
    BY <1>2 DEF Admits
  <1>4. CASE acquiring = 1 /\ todo' = t
    BY <1>0, <1>1, <1>2, <1>3, <1>4 DEF QuietStep, Calm, Returns, Seen
  <1>5. CASE acquiring = 0 /\ todo' = <<"params", "go">> \o t
    <2>1. /\ Head(todo') = "params"
          /\ \A op : Has(todo', op) <=> op \in {"params", "go"} \/ Has(t, op)
      BY <1>0, <1>5, NothingFails, PortSteps, StartOrder
    <2>2. Seen'
      BY <1>0, <1>1, <1>2, <1>3, <1>5, <2>1 DEF QuietStep, Seen
    <2>3. Returns'
      BY <1>0, <1>1, <1>2, <1>3, <1>5, <2>1 DEF QuietStep, Returns
    <2> QED BY <1>1, <2>2, <2>3 DEF Calm
  <1> QED BY <1>4, <1>5 DEF PortStart, Pop, Expand

LEMMA PortGoesQuiet == ASSUME QuietStep, PortGoes PROVE Calm'
  <1>0. /\ todo # <<>> /\ waiting = "no" /\ Head(todo) = "go" /\ event' = TRUE /\ forgotten' = FALSE
        /\ UNCHANGED <<readingActive, reader, task, acquire, trigger>>
    BY DEF PortGoes, PortHasLock, control
  <1>1. task = "idle" /\ ~event /\ reader # "woken" /\ acquiring = readingActive
    BY <1>0, PortAlone
  <1>2. Admits("go", Tail(todo)) /\ Has(todo, "go")
          /\ \A op : Has(todo, op) <=> (op = "go" \/ Has(Tail(todo), op))
    BY <1>0, PortSteps
  <1>3. acquiring = 0 /\ readingActive = 0
    BY <1>0, <1>1, <1>2 DEF QuietStep, Returns
  <1>4. reader = "asleep"
    BY <1>1, <1>3, NothingFails
  <1>5. /\ running' = IF trigger = 1 THEN running ELSE TRUE
        /\ acquiring' = 1 /\ waiting' = "start" /\ todo' = todo
    <2>1. PICK failed \in BOOLEAN :
            /\ IF failed THEN Fails ELSE Answered
            /\ running' = IF trigger = 1 THEN running ELSE IF failed THEN running ELSE TRUE
            /\ acquiring' = 1
            /\ waiting' = (IF failed THEN "failed" ELSE "start")
            /\ UNCHANGED todo
      <3>1. \A failed \in {FALSE} \cup {trigger = 0} : failed \in BOOLEAN
        OBVIOUS
      <3>2. readingActive # 1
        BY <1>3
      <3> QED BY <3>1, <3>2 DEF PortGoes
    <2>2. ~failed
      BY <2>1, NothingFails
    <2> QED BY <2>1, <2>2
  <1>6. Settled'
    BY <1>0, <1>1, <1>4, <1>5 DEF Settled
  <1>7. Seen'
    BY <1>5 DEF Seen
  <1>8. ~Has(todo, "clear")
    BY <1>2 DEF Admits
  <1>9. trigger = 0 => running'
    BY <1>5
  <1>10. Returns'
    BY <1>0, <1>2, <1>5, <1>8, <1>9 DEF Returns, QuietStep
  <1> QED BY <1>6, <1>7, <1>10 DEF Calm

LEMMA PortStartedQuiet == ASSUME QuietStep, PortStarted PROVE Calm'
  <1>0. /\ waiting = "start" /\ readingActive = 1 /\ waiting' = "no" /\ todo' = Tail(todo)
        /\ acquiring' = acquiring
        /\ UNCHANGED <<readingActive, event, reader, task, acquire, trigger, running, forgotten>>
    BY DEF PortStarted, QuietStep, Settled, Pop, control, meter
  <1>1. todo # <<>> /\ Head(todo) = "go" /\ reader = "reading"
    BY <1>0, NothingFails DEF QuietStep, Ordered
  <1>2. task = "idle" /\ acquiring = 1 /\ ~event
    BY <1>0, <1>1 DEF QuietStep, Settled
  <1>3. Admits("go", todo') /\ \A op : Has(todo, op) <=> (op = "go" \/ Has(todo', op))
    BY <1>0, <1>1, PortSteps
  <1>4. ~Has(todo', "go") /\ ~Has(todo', "clear") /\ ~Has(todo', "stop")
    BY <1>3 DEF Admits
  <1>5. Settled' /\ Seen'
    BY <1>0, <1>1, <1>2 DEF Settled, Seen
  <1>6. Returns'
    BY <1>0, <1>1, <1>2, <1>3, <1>4 DEF Returns, QuietStep
  <1> QED BY <1>5, <1>6 DEF Calm

LEMMA PortPreparesParamsQuiet == ASSUME QuietStep, PortPreparesParams PROVE Calm'
  <1>0. /\ todo # <<>> /\ waiting = "no" /\ waiting' = "no" /\ Head(todo) = "params"
        /\ UNCHANGED <<acquiring, readingActive, event, reader, task, acquire, trigger, running>>
        /\ forgotten' = (forgotten \/ (acquiring = 1 /\ trigger = 0))
    BY DEF PortPreparesParams, PortHasLock, driver, control, meter
  <1>1. task = "idle" /\ Settled'
    BY <1>0, PortAlone
  <1> DEFINE t == Tail(todo)
  <1>2. /\ Admits("params", t) /\ InOrder(todo) /\ todo \in Seq(Ops)
        /\ \A op : Has(todo, op) <=> (op = "params" \/ Has(t, op))
    BY <1>0, PortSteps, NothingFails
  <1>3. ~Has(t, "stop") /\ ~Has(t, "clear")
    BY <1>2 DEF Admits
  <1>4. trigger \in {0, 1} /\ acquiring \in {0, 1}
    BY NothingFails
  <1>5. CASE acquiring = 1 /\ trigger = 1
    <2>1. ~Has(todo, "go") /\ \A op \in Dialogs : ~Has(todo, op)
      BY <1>0, <1>5 DEF QuietStep, Ordered, TalksWhenOff, PortHasLock
    <2>2. todo' = <<"stop", "send", "arm", "start">> \o t
      BY <1>5 DEF PortPreparesParams, Expand
    <2>3. \A op : Has(todo', op) <=> op \in {"stop", "send", "arm", "start"} \/ Has(t, op)
      BY <1>0, <1>2, <2>1, <2>2, ParamsOrder
    <2>4. Seen'
      BY <2>3 DEF Seen
    <2>5. Returns'
      BY <1>0, <1>2, <1>3, <1>5, <2>1, <2>3 DEF Returns
    <2> QED BY <1>1, <2>4, <2>5 DEF Calm
  <1>6. CASE ~(acquiring = 1 /\ trigger = 1) /\ (acquiring = 1 \/ trigger = 1)
    <2>2. todo' = <<"stop", "send", "arm">> \o t
      BY <1>6 DEF PortPreparesParams, Expand
    <2>3. /\ todo' # <<>> /\ Head(todo') = "stop"
          /\ \A op : Has(todo', op) <=> op \in {"stop", "send", "arm"} \/ Has(t, op)
      BY <1>0, <1>2, <2>2, ParamsOrder
    <2>4. Seen'
      BY <2>3 DEF Seen
    <2>5. ~forgotten' => ~forgotten /\ acquiring = 0
      BY <1>0, <1>4, <1>6
    <2>6. Returns'
      BY <1>0, <1>2, <1>3, <1>6, <2>3, <2>5 DEF Returns, QuietStep
    <2> QED BY <1>1, <2>4, <2>6 DEF Calm
  <1>7. CASE ~(acquiring = 1 \/ trigger = 1)
    <2>2. todo' = <<"send", "arm">> \o t
      BY <1>7 DEF PortPreparesParams, Expand
    <2>3. /\ todo' # <<>> /\ Head(todo') = "send"
          /\ \A op : Has(todo', op) <=> op \in {"send", "arm"} \/ Has(t, op)
      BY <1>0, <1>2, <2>2, ParamsOrder
    <2>4. ~running
      BY <1>1, <1>2, <1>3, <1>7 DEF Seen, QuietStep
    <2>5. Seen'
      BY <1>0, <2>4 DEF Seen
    <2>6. ~forgotten' => ~forgotten
      BY <1>0, <1>7
    <2>7. Returns'
      BY <1>0, <1>2, <1>3, <1>7, <2>3, <2>6 DEF Returns, QuietStep
    <2> QED BY <1>1, <2>5, <2>7 DEF Calm
  <1> QED BY <1>5, <1>6, <1>7

LEMMA PortPreparesQuiet == ASSUME QuietStep, PortPrepares PROVE Calm'
  <1>0. /\ todo # <<>> /\ waiting = "no" /\ waiting' = "no" /\ Head(todo) \in {"command", "status"}
        /\ UNCHANGED <<acquiring, readingActive, event, reader, task, acquire, trigger, running,
                       forgotten>>
    BY DEF PortPrepares, PortHasLock, driver, control, meter
  <1>1. task = "idle" /\ Settled'
    BY <1>0, PortAlone
  <1> DEFINE t == Tail(todo)
             ask == acquiring = 1
             query == acquiring = 1 \/ trigger = 1
  <1>2. /\ Admits(Head(todo), t) /\ InOrder(todo) /\ todo \in Seq(Ops)
        /\ \A op : Has(todo, op) <=> (op = Head(todo) \/ Has(t, op))
    BY <1>0, PortSteps, NothingFails
  <1>3. /\ ~Has(t, "stop") /\ ~Has(t, "go") /\ ~Has(t, "clear")
        /\ Has(t, "resume") => Has(t, "status")
    BY <1>0, <1>2 DEF Admits
  <1>4. trigger \in {0, 1} /\ acquiring \in {0, 1} /\ ask \in BOOLEAN /\ query \in BOOLEAN
    BY NothingFails
  <1>5. acquiring = 1 /\ trigger = 0 => acquire = 1 /\ running
    BY <1>0 DEF QuietStep, Returns
  <1>6. ~Has(todo, "stop") /\ ~Has(todo, "go") /\ ~Has(todo, "clear")
    BY <1>0, <1>2, <1>3
  <1>7. ASSUME NEW due \in BOOLEAN, acquiring = 1 => due, NEW d, d \in {"ask", "query"},
               due => acquiring = 1 \/ trigger = 1,
               \A op : Has(todo', op) <=> \/ due /\ op \in {"stop", "start"}
                                         \/ op = d
                                         \/ Has(t, op)
        PROVE  Returns'
    <2>1. /\ Has(todo', "go") <=> Has(t, "go")
          /\ Has(todo', "resume") <=> Has(t, "resume")
          /\ Has(todo', "clear") <=> Has(t, "clear")
          /\ Has(todo', "start") <=> due \/ Has(t, "start")
          /\ Has(todo', "stop") <=> due \/ Has(t, "stop")
      BY <1>7
    <2>2. /\ Has(todo, "start") <=> Has(t, "start")
          /\ Has(todo, "resume") <=> Has(t, "resume")
      BY <1>0, <1>2
    <2>3. acquire = 1 /\ ~forgotten => Has(todo', "start") \/ Has(todo', "resume")
      BY <1>1, <1>4, <1>6, <1>7, <2>1, <2>2 DEF QuietStep, Returns
    <2>4. trigger = 0 /\ Has(todo', "start") => acquire = 1
      BY <1>5, <1>7, <2>1, <2>2 DEF QuietStep, Returns
    <2> QED BY <1>0, <1>3, <1>5, <2>1, <2>3, <2>4 DEF Returns
  <1>8. CASE Head(todo) = "command" /\ todo' = Wrapped(<<"ask">>, ask) \o t
    <2>1. ask => \A op \in Dialogs : ~Has(t, op)
      BY <1>0, <1>2, <1>8 DEF QuietStep, Ordered, TalksWhenOff, PortHasLock
    <2>2. \A op : Has(todo', op) <=> \/ ask /\ op \in {"stop", "start"}
                                     \/ op = "ask"
                                     \/ Has(t, op)
      <3> HIDE DEF ask
      <3> QED BY <1>0, <1>2, <1>4, <1>8, <2>1, WrappedOrder
    <2>3. Returns'
      BY <1>4, <1>7, <2>2
    <2>4. Seen'
      <3>1. CASE ask
        BY <2>2, <3>1 DEF Seen
      <3>2. CASE ~ask
        <4>1. running => trigger = 1 /\ Has(t, "resume")
          BY <1>1, <1>2, <1>6, <1>8, <3>2 DEF QuietStep, Seen
        <4> QED BY <1>0, <1>3, <2>2, <4>1 DEF Seen
      <3> QED BY <3>1, <3>2
    <2> QED BY <1>1, <2>3, <2>4 DEF Calm
  <1>9. CASE Head(todo) = "status" /\ todo' = Wrapped(<<"query">>, query) \o t
    <2>1. \A op \in Dialogs : ~Has(t, op)
      BY <1>2, <1>9 DEF Admits
    <2>2. \A op : Has(todo', op) <=> \/ query /\ op \in {"stop", "start"}
                                     \/ op = "query"
                                     \/ Has(t, op)
      <3> HIDE DEF query
      <3> QED BY <1>0, <1>2, <1>4, <1>9, <2>1, WrappedOrder
    <2>3. Returns'
      BY <1>4, <1>7, <2>2
    <2>4. Seen'
      <3>1. CASE query
        BY <2>2, <3>1 DEF Seen
      <3>2. CASE ~query
        <4>1. ~running
          BY <1>1, <1>6, <3>2 DEF QuietStep, Seen
        <4> QED BY <1>0, <4>1 DEF Seen
      <3> QED BY <3>1, <3>2
    <2> QED BY <1>1, <2>3, <2>4 DEF Calm
  <1> QED BY <1>8, <1>9 DEF PortPrepares, Expand

\* A dialog has been done: the driver does not acquire.
LEMMA DialogQuiet ==
  ASSUME QuietStep, todo # <<>>, waiting = "no", waiting' = "no", Head(todo) \in Dialogs,
         todo' = Tail(todo),
         UNCHANGED <<acquiring, readingActive, event, reader, task, acquire, trigger, forgotten>>
  PROVE  /\ Settled' /\ Returns'
         /\ running => trigger = 1 /\ Has(todo', "resume") /\ Has(todo', "status")
         /\ ~running' => Seen'
         /\ running' /\ running => Seen'
  <1>1. task = "idle" /\ Settled'
    BY PortAlone
  <1>2. /\ Admits(Head(todo), todo')
        /\ \A op : Has(todo, op) <=> (op = Head(todo) \/ Has(todo', op))
    BY PortSteps
  <1>3. acquiring = 0
    <2>1. Has(todo, Head(todo)) /\ Head(todo) # "stop"
      BY <1>2 DEF Dialogs
    <2> QED BY <2>1, NothingFails DEF QuietStep, Ordered, TalksWhenOff, PortHasLock
  <1>4. /\ \A op \in {"start", "go", "resume", "clear", "status", "stop"} :
             Has(todo, op) <=> Has(todo', op)
        /\ ~Has(todo, "stop")
    BY <1>2 DEF Dialogs, Admits
  <1>5. Returns'
    BY <1>1, <1>3, <1>4 DEF QuietStep, Returns
  <1>6. Head(todo) \notin {"go", "status", "start", "params"}
    BY DEF Dialogs
  <1>7. running => trigger = 1 /\ Has(todo', "resume")
    BY <1>1, <1>3, <1>4, <1>6 DEF QuietStep, Seen
  <1>8. Has(todo', "resume") => Has(todo', "status")
    BY <1>2 DEF Admits
  <1> QED BY <1>1, <1>5, <1>7, <1>8 DEF Seen

LEMMA PortTalksQuiet == ASSUME QuietStep, PortTalks PROVE Calm'
  <1>1. /\ todo # <<>> /\ waiting = "no" /\ waiting' = "no" /\ Head(todo) \in Dialogs
        /\ todo' = Tail(todo) /\ running' = running
        /\ UNCHANGED <<acquiring, readingActive, event, reader, task, acquire, trigger, forgotten>>
    BY NothingFails DEF PortTalks, PortHasLock, Pop, Dialogs, driver, control
  <1>2. running \in BOOLEAN
    BY NothingFails
  <1> QED BY <1>1, <1>2, DialogQuiet DEF Calm

LEMMA PortArmsQuiet == ASSUME QuietStep, PortArms PROVE Calm'
  <1>1. /\ todo # <<>> /\ waiting = "no" /\ waiting' = "no" /\ Head(todo) = "arm"
        /\ todo' = Tail(todo) /\ running' = (running \/ trigger = 1)
        /\ UNCHANGED <<acquiring, readingActive, event, reader, task, acquire, trigger, forgotten>>
    BY NothingFails DEF PortArms, PortHasLock, Pop, driver, control
  <1>2. Head(todo) \in Dialogs
    BY <1>1 DEF Dialogs
  <1>3. Settled' /\ Returns' /\ (~running' => Seen') /\ (running' /\ running => Seen')
    BY <1>1, <1>2, DialogQuiet
  <1>4. CASE trigger = 1
    <2>1. Admits("arm", todo')
      BY <1>1, PortSteps
    <2>2. Seen'
      BY <1>1, <1>4, <2>1 DEF Admits, Seen
    <2> QED BY <1>3, <2>2 DEF Calm
  <1>5. CASE trigger # 1
    <2>1. running' => running
      BY <1>1, <1>5
    <2> QED BY <1>3, <2>1 DEF Calm
  <1> QED BY <1>4, <1>5

LEMMA PortSetsQuiet == ASSUME QuietStep, PortSets PROVE Calm'
  <1>0. /\ todo # <<>> /\ waiting = "no" /\ waiting' = "no" /\ Head(todo) \in {"resume", "clear"}
        /\ UNCHANGED <<acquiring, readingActive, event, reader, task, trigger, running, forgotten>>
    BY DEF PortSets, PortHasLock, driver, control, meter
  <1>1. task = "idle" /\ Settled'
    BY <1>0, PortAlone
  <1> DEFINE t == Tail(todo)
  <1>2. /\ Admits(Head(todo), t) /\ InOrder(todo) /\ todo \in Seq(Ops)
        /\ \A op : Has(todo, op) <=> (op = Head(todo) \/ Has(t, op))
    BY <1>0, PortSteps, NothingFails
  <1>3. /\ ~Has(t, "stop") /\ ~Has(t, "go") /\ ~Has(t, "clear")
        /\ Has(t, "resume") => Has(t, "status")
    BY <1>0, <1>2 DEF Admits
  <1>4. CASE Head(todo) = "clear" /\ acquire' = 0 /\ todo' = t
    <2>1. acquiring = 0
      BY <1>0, <1>2, <1>4 DEF QuietStep, Returns
    <2>2. ~Has(t, "start")
      BY <1>2, <1>4 DEF Admits
    <2>3. Returns'
      BY <1>0, <1>3, <1>4, <2>1, <2>2 DEF Returns
    <2>4. running => trigger = 1 /\ Has(t, "resume")
      BY <1>1, <1>2, <1>3, <1>4, <2>1 DEF QuietStep, Seen
    <2>5. Seen'
      BY <1>0, <1>3, <1>4, <2>4 DEF Seen
    <2> QED BY <1>1, <2>3, <2>5 DEF Calm
  <1>5. CASE Head(todo) = "resume" /\ acquire' = acquire
               /\ todo' = <<IF acquire = 1 THEN "start" ELSE "stop">> \o t
    <2>1. PICK a : /\ a = "start" \/ a = "stop"
                   /\ a = "start" <=> acquire = 1
                   /\ todo' = <<a>> \o t
      BY <1>5
    <2>2. /\ todo' # <<>> /\ Head(todo') = a
          /\ \A op : Has(todo', op) <=> op = a \/ Has(t, op)
      BY <1>0, <1>2, <1>5, <2>1, ResumeOrder
    <2>3. acquiring = 1 /\ trigger = 0 => acquire = 1 /\ running
      BY <1>0 DEF QuietStep, Returns
    <2>4. trigger = 0 /\ Has(t, "start") => acquire = 1
      BY <1>2 DEF QuietStep, Returns
    <2>5. Returns'
      BY <1>0, <1>3, <1>5, <2>1, <2>2, <2>3, <2>4 DEF Returns
    <2>6. running => acquiring = 1 \/ trigger = 1
      BY <1>0, <1>1, <1>2, <1>3 DEF QuietStep, Seen
    <2>7. Seen'
      BY <1>0, <2>1, <2>2, <2>6 DEF Seen
    <2> QED BY <1>1, <2>5, <2>7 DEF Calm
  <1> QED BY <1>4, <1>5 DEF PortSets, Pop, Expand

-----------------------------------------------------------------------------
\* What a write finds, and what it leaves alone.
LEMMA ClientFinds ==
  ASSUME QuietStep, Client
  PROVE  /\ todo = <<>> /\ waiting = "no" /\ waiting' = "no" /\ task = "idle"
         /\ Settled' /\ acquiring \in {0, 1}
         /\ UNCHANGED <<acquiring, running, task, forgotten>>
         /\ running => acquiring = 1
         /\ acquire = 1 /\ ~forgotten => acquiring = 1
         /\ acquiring = 1 /\ trigger = 0 => acquire = 1 /\ running
  <1>1. todo = <<>> /\ waiting = "no" /\ waiting' = "no"
    BY ClientCalls DEF QuietStep, Ordered
  <1>2. /\ UNCHANGED <<acquiring, readingActive, event, reader, running, task, forgotten>>
        /\ overlapped' = (overlapped \/ task = "stop")
    BY DEF Client, Call, WriteAcquire, WriteAcquireMode, WriteSetting, WriteBias, WriteReset,
       Report, WriteReadStatus, driver, meter
  <1>3. task = "idle"
    BY <1>2, NothingFails DEF QuietStep, Undisturbed
  <1>4. Settled'
    BY <1>1, <1>2, <1>3 DEF QuietStep, Settled
  <1>5. \A op : ~Has(todo, op)
    BY <1>1, EmptyOrder
  <1>6. running => acquiring = 1
    BY <1>3, <1>5 DEF QuietStep, Seen
  <1>7. /\ acquire = 1 /\ ~forgotten => acquiring = 1
        /\ acquiring = 1 /\ trigger = 0 => acquire = 1 /\ running
    BY <1>1, <1>3, <1>5 DEF QuietStep, Returns
  <1> QED BY <1>1, <1>2, <1>3, <1>4, <1>6, <1>7, NothingFails

\* A list that begins with a stop, or keeps what acquires as it is.
LEMMA CallQuiet ==
  ASSUME QuietStep, Client, todo' # <<>>,
         ~Has(todo', "go"),
         Has(todo', "clear") => Head(todo') = "stop",
         acquire' = 1 /\ ~forgotten =>
           \/ Has(todo', "start") \/ Has(todo', "resume") \/ Has(todo', "clear")
           \/ acquiring = 1 /\ ~Has(todo', "stop"),
         acquiring = 1 /\ trigger' = 0 =>
           (acquire' = 1 /\ running) \/ Head(todo') \in {"params", "stop"},
         trigger' = 0 /\ Has(todo', "start") => acquire' = 1
  PROVE  Calm'
  <1>1. Seen'
    BY ClientFinds DEF Seen
  <1>2. Returns'
    BY ClientFinds DEF Returns
  <1> QED BY <1>1, <1>2, ClientFinds DEF Calm

LEMMA ClientQuiet == ASSUME QuietStep, Client PROVE Calm'
  <1> USE ClientFinds
  <1>1. ASSUME NEW v \in {0, 1}, WriteAcquire(v) PROVE Calm'
    <2>1. acquire' = v /\ trigger' = trigger /\ todo' = <<IF v = 1 THEN "start" ELSE "stop">>
      BY <1>1 DEF WriteAcquire, Call
    <2>2. CASE v = 1
      <3>1. todo' # <<>> /\ Head(todo') = "start" /\ \A op : Has(todo', op) <=> op \in {"start"}
        BY <2>1, <2>2, StartCall
      <3> QED BY <2>1, <2>2, <3>1, CallQuiet
    <2>3. CASE v = 0
      <3>1. todo' # <<>> /\ Head(todo') = "stop" /\ \A op : Has(todo', op) <=> op \in {"stop"}
        BY <2>1, <2>3, StopCall
      <3> QED BY <2>1, <2>3, <3>1, CallQuiet
    <2> QED BY <2>2, <2>3
  <1>2. ASSUME todo' = <<"params", "status">>, acquire' = acquire PROVE Calm'
    <2>1. todo' # <<>> /\ Head(todo') = "params"
            /\ \A op : Has(todo', op) <=> op \in {"params", "status"}
      BY <1>2, SettingCall
    <2> QED BY <1>2, <2>1, CallQuiet
  <1>3. ASSUME NEW m \in Modes, WriteAcquireMode(m) PROVE Calm'
    <2>1. acquire' = acquire /\ trigger' = trigger
            /\ (todo' = <<"params", "status">> \/ todo' = <<"stop", "clear", "params", "status">>)
      BY <1>3 DEF WriteAcquireMode, Call
    <2>2. CASE todo' = <<"stop", "clear", "params", "status">>
      <3>1. todo' # <<>> /\ Head(todo') = "stop"
              /\ \A op : Has(todo', op) <=> op \in {"stop", "clear", "params", "status"}
        BY <2>2, CountedCall
      <3> QED BY <2>1, <3>1, CallQuiet
    <2> QED BY <1>2, <2>1, <2>2
  <1>4. ASSUME NEW n \in 0..2, WriteBias(n) PROVE Calm'
    <2> DEFINE s == [i \in 1..n |-> "command"]
    <2>1. /\ s \in {<<>>, <<"command">>, <<"command", "command">>} /\ todo' = s \o <<"status">>
          /\ acquire' = acquire /\ trigger' = trigger
      BY <1>4, BiasIs DEF WriteBias, Call
    <2> HIDE DEF s
    <2>2. /\ todo' # <<>>
          /\ \A op : Has(todo', op) <=> op = "status" \/ (s # <<>> /\ op = "command")
      BY <2>1, BiasCall
    <2> QED BY <2>1, <2>2, CallQuiet
  <1>5. CASE WriteReset
    <2> DEFINE c == <<"stop", "command", "send", "params", "command", "status", "resume", "status">>
    <2>1. todo' = c /\ acquire' = acquire /\ trigger' = trigger
      BY <1>5 DEF WriteReset, Call
    <2>2. c # <<>> /\ Head(c) = "stop"
      OBVIOUS
    <2>3. \A op : Has(c, op) <=> op \in {"stop", "command", "send", "params", "status", "resume"}
      BY ResetCall
    <2> HIDE DEF c
    <2> QED BY <2>1, <2>2, <2>3, CallQuiet
  <1>6. CASE Report
    <2>1. PICK s : /\ s = <<>> \/ s = <<"start">>
                   /\ todo' = <<"stop", "send">> \o s
                   /\ s # <<>> <=> acquiring = 1
      <3>1. CASE acquiring = 1
        <4>1. <<"start">> # <<>>
          OBVIOUS
        <4> QED BY <1>6, <3>1, <4>1 DEF Report, Call
      <3>2. CASE acquiring # 1
        BY <1>6, <3>2 DEF Report, Call
      <3> QED BY <3>1, <3>2
    <2>2. acquire' = acquire /\ trigger' = trigger
      BY <1>6 DEF Report
    <2>3. /\ todo' # <<>> /\ Head(todo') = "stop"
          /\ \A op : Has(todo', op) <=> op \in {"stop", "send"} \/ (s # <<>> /\ op = "start")
      BY <2>1, ReportCall
    <2> QED BY <2>1, <2>2, <2>3, CallQuiet
  <1>7. CASE WriteReadStatus
    <2>1. acquiring = 0 /\ todo' = <<"status">> /\ acquire' = acquire /\ trigger' = trigger
      BY <1>7 DEF WriteReadStatus, Call
    <2>2. todo' # <<>> /\ Head(todo') = "status" /\ \A op : Has(todo', op) <=> op \in {"status"}
      BY <2>1, StatusCall
    <2> QED BY <2>1, <2>2, CallQuiet
  <1>8. ASSUME NEW t \in Triggers, NEW k \in NumAcquires, WriteSetting(t, k) PROVE Calm'
    BY <1>2, <1>8 DEF WriteSetting, Call
  <1> QED BY <1>1, <1>3, <1>4, <1>5, <1>6, <1>7, <1>8 DEF Client

LEMMA NextQuiet == Quiet /\ [Next]_vars => Quiet'
  <1> SUFFICES ASSUME Quiet, [Next]_vars PROVE Quiet'
    OBVIOUS
  <1>1. Ordered'
    BY NextOrdered DEF Quiet
  <1> SUFFICES ASSUME Undisturbed' PROVE Calm'
    BY <1>1 DEF Quiet
  <1>2. QuietStep
    BY <1>1, StaysDisturbed DEF Quiet, QuietStep, Ordered, Calm
  <1>3. CASE Port
    BY <1>2, <1>3, PortStopQuiet, PortStoppedQuiet, PortStartQuiet, PortGoesQuiet,
       PortStartedQuiet, PortPreparesParamsQuiet, PortPreparesQuiet, PortTalksQuiet,
       PortArmsQuiet, PortSetsQuiet DEF Port
  <1>4. CASE UNCHANGED vars
    BY <1>2, <1>4 DEF vars, QuietStep, Calm, Settled, Returns, Seen, driver, control, port, meter
  <1> QED BY <1>2, <1>3, <1>4, ReaderQuiet, ClientQuiet, TaskQuiet DEF Next, Reader

\* As long as no dialog fails and callbackTask and the port thread do not meet in
\* setAcquire, its waits find the read thread where they expect it, and every dialog
\* that stopped an acquisition has the step in its list that starts it again.
THEOREM QuietInvariance == Spec => []Quiet
  <1>1. Init => Quiet
    BY InitOrdered, EmptyOrder DEF Init, Quiet, Calm, Settled, Returns, Seen
  <1> QED BY <1>1, NextQuiet, PTL DEF Spec

\* What the meter sends is read by the read thread alone: no dialog of the port thread
\* meets a meter that still sends, and no meter is left sending to nobody.
THEOREM ReaderIsAlone == Spec => []OneReader
  <1>1. Quiet => NoCrossTalk
    <2> SUFFICES ASSUME Quiet, InDialog, Undisturbed, ~(Resetting /\ trigger = 1), running
                 PROVE  FALSE
      BY DEF NoCrossTalk
    <2>1. todo \in Seq(Ops) /\ todo # <<>> /\ Head(todo) \in Dialogs /\ waiting = "no"
      BY DEF Quiet, Ordered, TypeOK, InDialog, PortHasLock, Dialogs
    <2>2. Has(todo, Head(todo)) /\ Head(todo) # "stop" /\ Ordered
      BY <2>1, HasTail DEF Dialogs, Quiet
    <2>3. acquiring # 1
      BY <2>1, <2>2 DEF Ordered, TalksWhenOff, PortHasLock
    <2>4. ~Has(todo, "stop")
      BY <2>1, <2>2, DoneIs DEF Admits
    <2>5. task # "stop" /\ ~(Has(todo, "resume") /\ trigger = 1)
      BY <2>1 DEF Quiet, Calm, Settled, Has, Resetting
    <2> QED BY <2>1, <2>3, <2>4, <2>5 DEF Quiet, Calm, Seen, Dialogs
  <1> QED BY <1>1, QuietInvariance, NoReadingUnread, PTL DEF OneReader

\* At rest, Acquire says what the driver, the read thread and the meter do, in free run
\* and by the external trigger, whatever settings were written on the way, unless
\* setAcquireParams has left the acquisition stopped.
THEOREM AcquireTellsTheTruth == Spec => []AcquireIsTrue
  <1>1. Quiet => AcquireIsTrue
    <2> SUFFICES ASSUME Quiet, todo = <<>>, task = "idle", Undisturbed
                 PROVE  /\ acquiring = readingActive
                        /\ running => acquiring = 1
                        /\ acquire = 1 => acquiring = 1 \/ forgotten
                        /\ (acquiring = 1 /\ trigger = 0) => acquire = 1 /\ running
      BY DEF AcquireIsTrue
    <2>1. \A op : ~Has(todo, op)
      BY EmptyOrder
    <2>2. waiting = "no"
      BY DEF Quiet, Ordered, TypeOK
    <2> QED BY <2>1, <2>2 DEF Quiet, Calm, Settled, Returns, Seen
  <1> QED BY <1>1, QuietInvariance, PTL
=============================================================================
