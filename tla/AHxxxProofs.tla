---------------------------- MODULE AHxxxProofs -----------------------------
(***************************************************************************)
(* Proofs about AHxxx for every set of modes, of formats and of values     *)
(* that clients write, and every bound on faults and queued messages.      *)
(***************************************************************************)
EXTENDS AHxxx, SequenceTheorems, TLAPS

(***************************************************************************)
(* The steps that the port thread has still to do, as a list.              *)
(***************************************************************************)
\* A step done: the list without its head.
LEMMA TailIs ==
  ASSUME NEW Steps, NEW s \in Seq(Steps), s # <<>>
  PROVE  /\ Len(s) \in Nat \ {0}
         /\ Head(s) = s[1] /\ Head(s) \in Steps
         /\ Tail(s) \in Seq(Steps)
         /\ Len(Tail(s)) = Len(s) - 1
         /\ \A i \in 1..Len(s) - 1 : Tail(s)[i] = s[i + 1]
         /\ \A i \in 1..Len(s) : s[i] \in Steps
  <1>1. Len(s) \in Nat \ {0}
    BY EmptySeq
  <1>2. \A i \in 1..Len(s) : s[i] \in Steps
    BY ElementOfSeq
  <1>3. Head(s) = s[1]
    OBVIOUS
  <1> QED BY <1>1, <1>2, <1>3, HeadTailProperties

\* A list of more than one step.
LEMMA SkippedIs ==
  ASSUME NEW Steps, NEW s \in Seq(Steps), s # <<>>, Len(s) > 1
  PROVE  /\ Tail(s) # <<>> /\ Head(Tail(s)) = s[2]
         /\ Tail(Tail(s)) \in Seq(Steps)
  <1>1. /\ Tail(s) \in Seq(Steps) /\ Len(Tail(s)) = Len(s) - 1 /\ Len(s) \in Nat
        /\ \A i \in 1..Len(s) - 1 : Tail(s)[i] = s[i + 1]
    BY TailIs
  <1>2. Tail(s) # <<>>
    <2>1. Len(Tail(s)) # 0
      BY <1>1
    <2>2. Len(<<>>) = 0
      OBVIOUS
    <2> QED BY <2>1, <2>2
  <1>3. Tail(s)[1] = s[2]
    <2>1. 1 \in 1..Len(s) - 1 /\ 1 + 1 = 2
      BY <1>1
    <2> QED BY <1>1, <2>1
  <1>4. Head(Tail(s)) = Tail(s)[1] /\ Tail(Tail(s)) \in Seq(Steps)
    BY <1>1, <1>2, TailIs
  <1> QED BY <1>2, <1>3, <1>4

\* A step replaced by another.
LEMMA ReplacedIs ==
  ASSUME NEW Steps, NEW s \in Seq(Steps), s # <<>>, NEW a \in Steps
  PROVE  /\ <<a>> \o Tail(s) \in Seq(Steps)
         /\ <<a>> \o Tail(s) # <<>>
         /\ Len(<<a>> \o Tail(s)) = Len(s)
         /\ (<<a>> \o Tail(s))[1] = a
         /\ \A i \in 2..Len(s) : (<<a>> \o Tail(s))[i] = s[i]
  <1> DEFINE t == <<a>> \o Tail(s)
  <1>1. <<a>> \in Seq(Steps) /\ Len(<<a>>) = 1 /\ <<a>>[1] = a
    OBVIOUS
  <1>2. /\ t \in Seq(Steps)
        /\ Len(t) = 1 + Len(Tail(s))
        /\ \A i \in 1..1 + Len(Tail(s)) :
             t[i] = IF i <= 1 THEN <<a>>[i] ELSE Tail(s)[i - 1]
    BY <1>1, TailIs, ConcatProperties
  <1> HIDE DEF t
  <1>3. Len(t) = Len(s) /\ t # <<>>
    BY <1>2, TailIs, EmptySeq
  <1>4. t[1] = a
    BY <1>1, <1>2, TailIs
  <1>5. ASSUME NEW i \in 2..Len(s) PROVE t[i] = s[i]
    BY <1>2, TailIs
  <1> QED BY <1>2, <1>3, <1>4, <1>5 DEF t

\* A step replaced by three.
LEMMA ExpandedIs ==
  ASSUME NEW Steps, NEW s \in Seq(Steps), s # <<>>, NEW a \in Steps, NEW b \in Steps, NEW c \in Steps
  PROVE  /\ <<a, b, c>> \o Tail(s) \in Seq(Steps)
         /\ <<a, b, c>> \o Tail(s) # <<>>
         /\ Len(<<a, b, c>> \o Tail(s)) = Len(s) + 2
         /\ (<<a, b, c>> \o Tail(s))[1] = a
         /\ (<<a, b, c>> \o Tail(s))[2] = b
         /\ (<<a, b, c>> \o Tail(s))[3] = c
         /\ \A i \in 4..Len(s) + 2 : (<<a, b, c>> \o Tail(s))[i] = s[i - 2]
  <1> DEFINE u == <<a, b, c>>
  <1> DEFINE t == u \o Tail(s)
  <1>1. u \in Seq(Steps) /\ Len(u) = 3 /\ u[1] = a /\ u[2] = b /\ u[3] = c
    OBVIOUS
  <1> HIDE DEF u
  <1>0. Tail(s) \in Seq(Steps)
    BY TailIs
  <1>2. /\ t \in Seq(Steps)
        /\ Len(t) = 3 + Len(Tail(s))
        /\ \A i \in 1..3 + Len(Tail(s)) : t[i] = IF i <= 3 THEN u[i] ELSE Tail(s)[i - 3]
    <2>1. /\ t \in Seq(Steps)
          /\ Len(t) = Len(u) + Len(Tail(s))
          /\ \A i \in 1..Len(u) + Len(Tail(s)) :
               t[i] = IF i <= Len(u) THEN u[i] ELSE Tail(s)[i - Len(u)]
      BY <1>1, <1>0, ConcatProperties
    <2>2. Len(u) = 3
      BY <1>1
    <2> HIDE DEF t
    <2> QED BY <2>1, <2>2
  <1> HIDE DEF t
  <1>3. Len(t) = Len(s) + 2 /\ t # <<>>
    BY <1>2, TailIs, EmptySeq
  <1>4. t[1] = a /\ t[2] = b /\ t[3] = c
    BY <1>1, <1>2, TailIs
  <1>5. ASSUME NEW i \in 4..Len(s) + 2 PROVE t[i] = s[i - 2]
    <2>1. t[i] = Tail(s)[i - 3]
      BY <1>2, TailIs
    <2>2. i - 3 \in 1..Len(s) - 1
      BY TailIs
    <2> QED BY <2>1, <2>2, TailIs
  <1> QED BY <1>2, <1>3, <1>4, <1>5 DEF t, u

\* Whether a step is in the list.
Has(s, op) == \E i \in 1..Len(s) : s[i] = op

\* What is in a list is its first step or in the rest.
LEMMA HasTail ==
  ASSUME NEW Steps, NEW s \in Seq(Steps), s # <<>>, NEW op
  PROVE  Has(s, op) <=> (Head(s) = op \/ Has(Tail(s), op))
  <1>1. ASSUME Has(s, op), Head(s) # op PROVE Has(Tail(s), op)
    <2>1. PICK i \in 1..Len(s) : s[i] = op
      BY <1>1 DEF Has
    <2>2. i # 1 /\ Len(s) \in Nat
      BY <1>1, <2>1, TailIs
    <2>3. i - 1 \in 1..Len(Tail(s)) /\ Tail(s)[i - 1] = op
      BY <2>1, <2>2, TailIs
    <2> QED BY <2>3 DEF Has
  <1>2. ASSUME Has(Tail(s), op) PROVE Has(s, op)
    <2>1. PICK i \in 1..Len(Tail(s)) : Tail(s)[i] = op
      BY <1>2 DEF Has
    <2>2. i + 1 \in 1..Len(s) /\ s[i + 1] = op
      BY <2>1, TailIs
    <2> QED BY <2>2 DEF Has
  <1>3. Head(s) = op => Has(s, op)
    BY TailIs DEF Has
  <1> QED BY <1>1, <1>2, <1>3

\* What is in a list whose first step is replaced.
LEMMA HasReplaced ==
  ASSUME NEW Steps, NEW s \in Seq(Steps), s # <<>>, NEW a \in Steps, NEW op
  PROVE  Has(<<a>> \o Tail(s), op) <=> (a = op \/ Has(Tail(s), op))
  <1> DEFINE t == <<a>> \o Tail(s)
  <1>1. /\ t \in Seq(Steps) /\ t # <<>> /\ Len(t) = Len(s) /\ t[1] = a
        /\ \A i \in 2..Len(s) : t[i] = s[i]
    BY ReplacedIs
  <1> HIDE DEF t
  <1>2. Tail(t) = Tail(s)
    <2>1. \A i \in 1..Len(Tail(t)) : Tail(t)[i] = Tail(s)[i]
      BY <1>1, TailIs
    <2> QED BY <1>1, <2>1, TailIs, SeqEqual
  <1>3. Head(t) = a
    BY <1>1, TailIs
  <1> QED BY <1>1, <1>2, <1>3, HasTail DEF t

\* What is in a list whose first step is replaced by three.
LEMMA HasExpanded ==
  ASSUME NEW Steps, NEW s \in Seq(Steps), s # <<>>, NEW a \in Steps, NEW b \in Steps, NEW c \in Steps, NEW op
  PROVE  Has(<<a, b, c>> \o Tail(s), op) <=> (op \in {a, b, c} \/ Has(Tail(s), op))
  <1> DEFINE t == <<a, b, c>> \o Tail(s)
  <1>1. /\ t \in Seq(Steps) /\ Len(t) = Len(s) + 2 /\ t[1] = a /\ t[2] = b /\ t[3] = c
        /\ \A i \in 4..Len(s) + 2 : t[i] = s[i - 2]
    BY ExpandedIs
  <1> HIDE DEF t
  <1>2. ASSUME Has(t, op), op \notin {a, b, c} PROVE Has(Tail(s), op)
    <2>1. PICK i \in 1..Len(t) : t[i] = op
      BY <1>2 DEF Has
    <2>2. i \in 4..Len(s) + 2
      BY <1>1, <1>2, <2>1, TailIs
    <2>3. i - 3 \in 1..Len(Tail(s)) /\ Tail(s)[i - 3] = op
      BY <1>1, <2>1, <2>2, TailIs
    <2> QED BY <2>3 DEF Has
  <1>3. ASSUME op \in {a, b, c} PROVE Has(t, op)
    BY <1>1, <1>3, TailIs DEF Has
  <1>4. ASSUME Has(Tail(s), op) PROVE Has(t, op)
    <2>1. PICK i \in 1..Len(Tail(s)) : Tail(s)[i] = op
      BY <1>4 DEF Has
    <2>2. i + 3 \in 1..Len(t) /\ t[i + 3] = op
      BY <1>1, <2>1, TailIs
    <2> QED BY <2>2 DEF Has
  <1> QED BY <1>2, <1>3, <1>4 DEF t

-----------------------------------------------------------------------------
\* The functions that stop, talk and start again, and their dialogs.
LEMMA DialogValues ==
  /\ DOMAIN Dialog = {"command", "status"}
  /\ Dialog["command"] = "ask" /\ Dialog["status"] = "query"
  BY DEF Dialog

\* What the client's writes ask for.
LEMMA CallsAre ==
  /\ <<>> \in Seq(Ops)
  /\ <<"start">> \in Seq(Ops) /\ <<"stop">> \in Seq(Ops) /\ <<"status">> \in Seq(Ops)
  /\ <<"command", "status">> \in Seq(Ops) /\ <<"stop", "clear", "status">> \in Seq(Ops)
  /\ <<"stop", "send", "command", "status", "resume", "status">> \in Seq(Ops)
  BY DEF Ops

-----------------------------------------------------------------------------
(* Types.                                                                  *)

LEMMA MostIs ==
  /\ MostAcquired \in NumAcquires /\ MostAcquired \in Nat \ {0}
  /\ \A k \in NumAcquires : k \in Nat \ {0} /\ k <= MostAcquired
  BY ConstAssumption, MostAssumption DEF MostAcquired

LEMMA InitType == Init => TypeOK
  <1> SUFFICES ASSUME Init PROVE TypeOK
    OBVIOUS
  <1>1. todo \in Seq(Ops)
    BY CallsAre DEF Init
  <1>2. numAcquired \in 0..MostAcquired
    BY MostIs DEF Init
  <1>3. /\ event \in BOOLEAN /\ running \in BOOLEAN /\ online \in BOOLEAN
        /\ waiting \in BOOLEAN /\ heard \in BOOLEAN /\ overlapped \in BOOLEAN
        /\ whole \in BOOLEAN
    BY DEF Init
  <1>4. faults \in 0..MaxFaults /\ queued \in 0..MaxQueued
    BY ConstAssumption DEF Init
  <1>5. readingActive = 1 <=> reader = "reading"
    BY DEF Init
  <1>6. asked \in Nat /\ turn \in Nat /\ got \in 0..turn
    BY DEF Init
  <1> QED BY <1>1, <1>2, <1>3, <1>4, <1>5, <1>6 DEF Init, TypeOK

\* The end of a reading leaves the read thread asleep, or at the next reading.
LEMMA LoopType ==
  ASSUME TypeOK, reader = "reading", ReaderLoops
  PROVE  /\ readingActive' \in {0, 1} /\ reader' \in {"asleep", "reading"}
         /\ readingActive' = 1 <=> reader' = "reading"
         /\ format' = format
         /\ asked' \in Nat /\ turn' \in Nat /\ got' \in 0..turn'
  <1>1. valuesPerRead \in Nat
    BY ConstAssumption DEF TypeOK
  <1>2. CASE acquiring = 0
    <2>1. readingActive' = 0 /\ reader' = "asleep"
      BY <1>2 DEF ReaderLoops
    <2>2. asked' = 0 /\ turn' = 0 /\ got' = 0 /\ format' = format
      BY <1>2 DEF ReaderLoops
    <2> QED BY <2>1, <2>2
  <1>3. CASE acquiring = 1
    <2>1. UNCHANGED <<readingActive, reader, format>>
      BY <1>3 DEF ReaderLoops
    <2>2. asked' = valuesPerRead /\ turn' = 0 /\ got' = 0
      BY <1>3 DEF ReaderLoops, BeginReading
    <2> QED BY <1>1, <2>1, <2>2 DEF TypeOK
  <1> QED BY <1>2, <1>3 DEF TypeOK

LEMMA PutType ==
  ASSUME TypeOK, NEW isMean \in BOOLEAN, Put(isMean)
  PROVE  queued' \in 0..MaxQueued /\ whole' \in BOOLEAN
  <1>1. queued' \in 0..MaxQueued
    BY ConstAssumption DEF TypeOK, Put
  <1>2. whole' \in BOOLEAN
    BY DEF TypeOK, Put
  <1> QED BY <1>1, <1>2

LEMMA ReaderType ==
  ASSUME TypeOK, ReaderWakes \/ ReaderStarts \/ Reads
  PROVE  TypeOK'
  <1> USE DEF TypeOK, driver, settings, control, port, link, history
  <1>1. CASE ReaderWakes
    BY <1>1 DEF ReaderWakes
  <1>2. CASE ReaderStarts
    <2>1. asked' \in Nat /\ turn' = 0 /\ got' = 0
      BY <1>2, ConstAssumption DEF ReaderStarts, BeginReading
    <2> QED BY <1>2, <2>1 DEF ReaderStarts
  <1>3. CASE ReadsBlock
    <2>1. queued' \in 0..MaxQueued /\ whole' \in BOOLEAN
      <3>1. (valuesPerRead <= asked) \in BOOLEAN
        OBVIOUS
      <3> QED BY <1>3, <3>1, PutType DEF ReadsBlock
    <2> QED BY <1>3, <2>1, LoopType DEF ReadsBlock
  <1>4. CASE ReadsGateEnd
    <2>1. queued' \in 0..MaxQueued
      BY <1>4, ConstAssumption DEF ReadsGateEnd
    <2>2. whole' \in BOOLEAN
      BY <1>4 DEF ReadsGateEnd
    <2>3. faults' \in 0..MaxFaults
      BY <1>4, ConstAssumption DEF ReadsGateEnd
    <2> QED BY <1>4, <2>1, <2>2, <2>3, LoopType DEF ReadsGateEnd
  <1>5. CASE ReadsNoBlock
    BY <1>5, LoopType DEF ReadsNoBlock
  <1>6. CASE ReadsLine
    <2>1. PICK good \in {0, 1} :
            \/ /\ turn + 1 < valuesPerRead
               /\ turn' = turn + 1 /\ got' = got + good
               /\ UNCHANGED <<readingActive, reader, format, asked, queued, whole>>
            \/ /\ Put(got + good = valuesPerRead)
               /\ ReaderLoops
      BY <1>6 DEF ReadsLine
    <2>2. CASE ReaderLoops /\ Put(got + good = valuesPerRead)
      <3>1. queued' \in 0..MaxQueued /\ whole' \in BOOLEAN
        <4>1. (got + good = valuesPerRead) \in BOOLEAN
          OBVIOUS
        <4> QED BY <2>2, <4>1, PutType
      <3> QED BY <1>6, <2>2, <3>1, LoopType DEF ReadsLine
    <2>3. CASE /\ turn' = turn + 1 /\ got' = got + good
               /\ UNCHANGED <<readingActive, reader, format, asked, queued, whole>>
      <3>1. turn' \in Nat /\ got' \in 0..turn'
        BY <2>3
      <3> QED BY <1>6, <2>3, <3>1 DEF ReadsLine
    <2> QED BY <2>1, <2>2, <2>3
  <1>7. CASE ReadsAck
    <2>1. queued' \in 0..MaxQueued /\ whole' \in BOOLEAN
      <3>1. (got = valuesPerRead) \in BOOLEAN
        OBVIOUS
      <3> QED BY <1>7, <3>1, PutType DEF ReadsAck
    <2> QED BY <1>7, <2>1, LoopType DEF ReadsAck
  <1> QED BY <1>1, <1>2, <1>3, <1>4, <1>5, <1>6, <1>7 DEF Reads

LEMMA FailsType ==
  ASSUME TypeOK
  PROVE  /\ Answered => faults' = faults /\ faults' \in 0..MaxFaults
         /\ Fails => faults' \in 0..MaxFaults
  BY ConstAssumption DEF TypeOK, Answered, Fails

LEMMA MeterOffType ==
  ASSUME TypeOK, MeterOff
  PROVE  running' \in BOOLEAN /\ heard' \in BOOLEAN /\ faults' \in 0..MaxFaults
  <1>1. running \in BOOLEAN
    BY DEF TypeOK
  <1>2. CASE Answered /\ running' = FALSE /\ heard' = TRUE
    BY <1>2, FailsType
  <1>3. CASE Fails /\ running' \in {FALSE, running} /\ heard' = FALSE
    BY <1>1, <1>3, FailsType
  <1> QED BY <1>2, <1>3 DEF MeterOff

LEMMA StartType ==
  ASSUME TypeOK, Start
  PROVE  /\ acquiring' \in {0, 1} /\ event' \in BOOLEAN /\ numAcquired' \in 0..MostAcquired
         /\ running' \in BOOLEAN /\ heard' \in BOOLEAN /\ faults' \in 0..MaxFaults
  <1>0. /\ acquiring \in {0, 1} /\ event \in BOOLEAN /\ numAcquired \in 0..MostAcquired
        /\ running \in BOOLEAN /\ heard \in BOOLEAN /\ faults \in 0..MaxFaults
    BY DEF TypeOK
  <1>1. 0 \in 0..MostAcquired
    BY MostIs
  <1>2. CASE ~online
    BY <1>0, <1>2 DEF Start
  <1>3. CASE online
    <2>1. numAcquired' \in 0..MostAcquired /\ event' \in BOOLEAN
      BY <1>1, <1>3 DEF Start
    <2>2. CASE Answered /\ running' = TRUE /\ heard' = TRUE /\ acquiring' = 1
      BY <2>1, <2>2, FailsType
    <2>3. CASE Fails /\ running' \in {running, TRUE} /\ heard' = FALSE
                 /\ acquiring' = IF readFormat = "Binary" THEN 1 ELSE 0
      <3>1. running' \in BOOLEAN
        BY <1>0, <2>3
      <3> QED BY <2>1, <2>3, <3>1, FailsType
    <2> QED BY <1>3, <2>2, <2>3 DEF Start
  <1> QED BY <1>2, <1>3

LEMMA PortType == ASSUME TypeOK, Port PROVE TypeOK'
  <1> USE DEF TypeOK, driver, settings, control, reading, link, history
  <1>1. CASE PortStop
    <2>1. todo \in Seq(Ops) /\ todo # <<>> /\ Tail(todo) \in Seq(Ops) /\ ~waiting
      BY <1>1, TailIs DEF PortStop, PortHasLock
    <2>2. running' \in BOOLEAN /\ heard' \in BOOLEAN /\ faults' \in 0..MaxFaults
      BY <1>1, MeterOffType DEF PortStop
    <2>3. \/ waiting' = TRUE /\ todo' = todo
          \/ waiting' = waiting /\ (todo' = todo \/ Pop)
      BY <1>1 DEF PortStop
    <2>4. todo' \in Seq(Ops) /\ waiting' \in BOOLEAN /\ (waiting' => todo' # <<>>)
      <3>1. CASE waiting' = TRUE /\ todo' = todo
        BY <2>1, <3>1
      <3>2. CASE waiting' = waiting /\ (todo' = todo \/ Pop)
        <4>1. waiting \in BOOLEAN
          OBVIOUS
        <4> QED BY <2>1, <3>2, <4>1 DEF Pop
      <3> QED BY <2>3, <3>1, <3>2
    <2>5. acquiring' \in {0, 1}
      BY <1>1 DEF PortStop
    <2> QED BY <1>1, <2>2, <2>4, <2>5 DEF PortStop
  <1>2. CASE PortStopped
    <2>1. Tail(todo) \in Seq(Ops)
      BY <1>2, TailIs DEF PortStopped
    <2>2. running' \in BOOLEAN /\ heard' \in BOOLEAN /\ faults' \in 0..MaxFaults
      BY <1>2, MeterOffType DEF PortStopped, StopEnds
    <2> QED BY <1>2, <2>1, <2>2 DEF PortStopped, StopEnds, Pop
  <1>3. CASE PortStart
    <2>1. Tail(todo) \in Seq(Ops) /\ ~waiting
      BY <1>3, TailIs DEF PortStart, PortHasLock
    <2>2. /\ acquiring' \in {0, 1} /\ event' \in BOOLEAN /\ numAcquired' \in 0..MostAcquired
          /\ running' \in BOOLEAN /\ heard' \in BOOLEAN /\ faults' \in 0..MaxFaults
      BY <1>3, StartType DEF PortStart
    <2> QED BY <1>3, <2>1, <2>2 DEF PortStart, Pop
  <1>4. CASE PortPrepares
    <2>1. todo \in Seq(Ops) /\ todo # <<>> /\ Head(todo) \in {"command", "status"} /\ ~waiting
      BY <1>4, DialogValues DEF PortPrepares, PortHasLock
    <2>2. Dialog[Head(todo)] \in Ops /\ "stop" \in Ops /\ "start" \in Ops
      BY <2>1, DialogValues DEF Ops
    <2>3. todo' \in Seq(Ops)
      BY <1>4, <2>1, <2>2, ReplacedIs, ExpandedIs DEF PortPrepares
    <2> QED BY <1>4, <2>1, <2>3 DEF PortPrepares
  <1>5. CASE PortTalks
    <2>1. todo \in Seq(Ops) /\ todo # <<>> /\ ~waiting
      BY <1>5 DEF PortTalks, PortHasLock
    <2>2. Tail(todo) \in Seq(Ops)
      BY <2>1, TailIs
    <2>4. Len(todo) > 1 => Tail(Tail(todo)) \in Seq(Ops)
      BY <2>1, SkippedIs
    <2>5. todo' \in Seq(Ops)
      BY <1>5, <2>2, <2>4 DEF PortTalks, Pop
    <2>6. faults' \in 0..MaxFaults
      BY <1>5, FailsType DEF PortTalks
    <2> QED BY <1>5, <2>1, <2>5, <2>6 DEF PortTalks
  <1>6. CASE PortSets
    <2>1. todo \in Seq(Ops) /\ todo # <<>> /\ ~waiting
      BY <1>6 DEF PortSets, PortHasLock
    <2> DEFINE next == IF acquire = 1 THEN "start" ELSE "stop"
    <2>0. next \in Ops
      BY DEF Ops
    <2>2. todo' \in Seq(Ops)
      <3>1. todo' = <<next>> \o Tail(todo) \/ todo' = Tail(todo)
        BY <1>6 DEF PortSets, Pop
      <3> HIDE DEF next
      <3>2. <<next>> \o Tail(todo) \in Seq(Ops)
        BY <2>0, <2>1, ReplacedIs
      <3>3. Tail(todo) \in Seq(Ops)
        BY <2>1, TailIs
      <3> QED BY <3>1, <3>2, <3>3
    <2>3. acquire' \in {0, 1}
      BY <1>6 DEF PortSets
    <2> QED BY <1>6, <2>1, <2>2, <2>3 DEF PortSets
  <1> QED BY <1>1, <1>2, <1>3, <1>4, <1>5, <1>6 DEF Port

\* A call changes the list, and nothing else but the settings.
LEMMA CallType ==
  ASSUME TypeOK, NEW ops \in Seq(Ops), Call(ops),
         valuesPerRead' \in ValuesPerReads, readFormat' \in Formats,
         acquire' \in {0, 1}, mode' \in Modes, numAcquire' \in NumAcquires
  PROVE  TypeOK'
  <1>1. overlapped' \in BOOLEAN
    BY DEF TypeOK, Call
  <1>2. ~waiting /\ waiting' = waiting
    BY DEF TypeOK, Call
  <1>3. todo' \in Seq(Ops)
    BY DEF Call
  <1> QED BY <1>1, <1>2, <1>3 DEF TypeOK, Call, driver, reading, link

LEMMA ClientType == ASSUME TypeOK, Client PROVE TypeOK'
  <1>0. /\ valuesPerRead \in ValuesPerReads /\ readFormat \in Formats
        /\ acquire \in {0, 1} /\ mode \in Modes /\ numAcquire \in NumAcquires
    BY DEF TypeOK
  <1>1. ASSUME NEW v \in {0, 1}, WriteAcquire(v) PROVE TypeOK'
    <2> DEFINE a == IF v = 1 THEN "start" ELSE "stop"
    <2>1. <<a>> \in Seq(Ops) /\ Call(<<a>>)
      BY <1>1, CallsAre DEF WriteAcquire
    <2> HIDE DEF a
    <2> QED BY <1>0, <1>1, <2>1, CallType DEF WriteAcquire, settings
  <1>2. ASSUME NEW m \in Modes, WriteAcquireMode(m) PROVE TypeOK'
    <2> DEFINE ops == IF m = "Continuous" THEN <<"status">> ELSE <<"stop", "clear", "status">>
    <2>1. ops \in Seq(Ops) /\ Call(ops)
      BY <1>2, CallsAre DEF WriteAcquireMode
    <2> HIDE DEF ops
    <2> QED BY <1>0, <1>2, <2>1, CallType DEF WriteAcquireMode, settings
  <1>3. ASSUME NEW k \in NumAcquires, WriteNumAcquire(k) PROVE TypeOK'
    BY <1>0, <1>3, CallsAre, CallType DEF WriteNumAcquire, settings
  <1>4. ASSUME NEW v \in ValuesPerReads, WriteValuesPerRead(v) PROVE TypeOK'
    BY <1>0, <1>4, CallsAre, CallType DEF WriteValuesPerRead, control
  <1>5. ASSUME NEW f \in Formats, WriteReadFormat(f) PROVE TypeOK'
    BY <1>0, <1>5, CallsAre, CallType DEF WriteReadFormat, control
  <1>6. CASE WriteReset
    BY <1>0, <1>6, CallsAre, CallType DEF WriteReset, settings, control
  <1>7. CASE WriteReadStatus
    BY <1>0, <1>7, CallsAre, CallType DEF WriteReadStatus, settings, control
  <1> QED BY <1>1, <1>2, <1>3, <1>4, <1>5, <1>6, <1>7 DEF Client

LEMMA TaskType == ASSUME TypeOK, Task PROVE TypeOK'
  <1> USE DEF TypeOK, driver, settings, control, reading, port, link, history
  <1>1. CASE TaskDelivers
    <2>1. numAcquired' \in 0..MostAcquired /\ queued' \in 0..MaxQueued
      BY <1>1, ConstAssumption, MostIs DEF TaskDelivers
    <2> QED BY <1>1, <2>1 DEF TaskDelivers
  <1>2. CASE TaskStops
    <2>1. running' \in BOOLEAN /\ heard' \in BOOLEAN /\ faults' \in 0..MaxFaults
      BY <1>2, MeterOffType DEF TaskStops
    <2>2. numAcquired' \in 0..MostAcquired /\ queued' \in 0..MaxQueued
      BY <1>2, ConstAssumption, MostIs DEF TaskStops, Target
    <2>3. overlapped' \in BOOLEAN
      BY <1>2 DEF TaskStops
    <2>4. acquiring' \in {0, 1} /\ acquire' \in {0, 1} /\ task' \in {"idle", "stop"}
      BY <1>2 DEF TaskStops
    <2> QED BY <1>2, <2>1, <2>2, <2>3, <2>4 DEF TaskStops
  <1>3. CASE TaskStopped
    <2>1. running' \in BOOLEAN /\ heard' \in BOOLEAN /\ faults' \in 0..MaxFaults
      BY <1>3, MeterOffType DEF TaskStopped, StopEnds
    <2> QED BY <1>3, <2>1 DEF TaskStopped, StopEnds
  <1> QED BY <1>1, <1>2, <1>3 DEF Task

LEMMA NextType == TypeOK /\ [Next]_vars => TypeOK'
  <1> SUFFICES ASSUME TypeOK, [Next]_vars PROVE TypeOK'
    OBVIOUS
  <1> USE DEF TypeOK, driver, settings, control, reading, port, history
  <1>1. CASE MeterStops
    BY <1>1 DEF MeterStops, link
  <1>2. CASE LinkChanges
    <2>1. online' \in BOOLEAN /\ faults' \in 0..MaxFaults
      BY <1>2, ConstAssumption DEF LinkChanges
    <2> QED BY <1>2, <2>1 DEF LinkChanges
  <1>3. CASE UNCHANGED vars
    BY <1>3 DEF vars, link
  <1> QED BY <1>1, <1>2, <1>3, ReaderType, PortType, ClientType, TaskType DEF Next

\* The variables keep their types, and readingActive_ says just whether the read
\* thread is at its reads, whoever starts and stops it, and whatever fails.
THEOREM TypeCorrect == Spec => []TypeOK
  BY InitType, NextType, PTL DEF Spec

-----------------------------------------------------------------------------
(***************************************************************************)
(* No reading is sent to nobody.  What keeps a running meter from being    *)
(* forgotten is that the driver acquires, with the read thread awake or    *)
(* told to wake, or that somebody still waits to turn the meter off.       *)
(***************************************************************************)
SomebodyMinds ==
  \/ acquiring = 1 /\ (reader # "asleep" \/ event)
  \/ task = "stop"
  \/ waiting

Minded == TypeOK /\ (running /\ heard => SomebodyMinds)

\* The dialog that turns the meter off leaves no meter that is known to run.
LEMMA TurnedOff == MeterOff => ~(running' /\ heard')
  BY DEF MeterOff

\* The read thread changes only what is its own, and sleeps only when nothing is acquired.
LEMMA ReaderKeeps ==
  ASSUME TypeOK, ReaderWakes \/ ReaderStarts \/ Reads
  PROVE  /\ UNCHANGED <<acquiring, acquire, mode, todo, waiting, task, running, online,
                        heard, overlapped>>
         /\ acquiring = 1 => reader' # "asleep" \/ event'
  <1> USE DEF control, port, link, history
  <1>1. CASE ReaderWakes
    BY <1>1 DEF ReaderWakes
  <1>2. CASE ReaderStarts
    BY <1>2 DEF ReaderStarts
  <1>3. ReaderLoops /\ reader = "reading" /\ acquiring = 1 => reader' # "asleep"
    BY DEF ReaderLoops
  <1>4. CASE ReadsBlock
    BY <1>3, <1>4 DEF ReadsBlock
  <1>5. CASE ReadsGateEnd
    BY <1>3, <1>5 DEF ReadsGateEnd
  <1>6. CASE ReadsNoBlock
    BY <1>3, <1>6 DEF ReadsNoBlock
  <1>7. CASE ReadsLine
    BY <1>3, <1>7 DEF ReadsLine
  <1>8. CASE ReadsAck
    BY <1>3, <1>8 DEF ReadsAck
  <1> QED BY <1>1, <1>2, <1>4, <1>5, <1>6, <1>7, <1>8 DEF Reads

LEMMA PortMinded == ASSUME Minded, Port PROVE Minded'
  <1> USE PortType DEF Minded, SomebodyMinds, control, port, link, driver, reading, history
  <1>1. CASE PortStop
    <2>1. CASE NothingToStop
      BY <1>1, <2>1 DEF PortStop
    <2>2. CASE readingActive = 0 /\ MeterOff
      BY <1>1, <2>2, TurnedOff
    <2>3. CASE waiting' = TRUE
      BY <1>1, <2>3
    <2> QED BY <1>1, <2>1, <2>2, <2>3 DEF PortStop
  <1>2. CASE PortStopped
    BY <1>2, TurnedOff DEF PortStopped, StopEnds
  <1>3. CASE PortStart
    <2>1. Start /\ UNCHANGED <<reader, waiting, task>>
      BY <1>3 DEF PortStart
    <2>2. CASE ~online
      <3>1. UNCHANGED <<acquiring, event, running, heard>>
        BY <2>1, <2>2 DEF Start
      <3>2. TypeOK'
        BY <1>3 DEF Port
      <3> QED BY <2>1, <3>1, <3>2
    <2>3. CASE running' = TRUE /\ heard' = TRUE /\ acquiring' = 1 /\ event' = TRUE
      BY <2>3
    <2>4. CASE heard' = FALSE
      BY <2>4
    <2> QED BY <2>1, <2>2, <2>3, <2>4 DEF Start
  <1>4. CASE PortPrepares
    BY <1>4 DEF PortPrepares
  <1>5. CASE PortTalks
    BY <1>5 DEF PortTalks
  <1>6. CASE PortSets
    BY <1>6 DEF PortSets
  <1> QED BY <1>1, <1>2, <1>3, <1>4, <1>5, <1>6 DEF Port

\* What no call of a client changes.
LEMMA ClientKeeps ==
  ASSUME Client
  PROVE  /\ UNCHANGED <<acquiring, event, reader, waiting, task, running, online, faults,
                        heard, whole>>
         /\ todo = <<>> /\ overlapped' = (overlapped \/ task = "stop")
  <1>1. PICK ops : Call(ops)
    BY DEF Client, WriteAcquire, WriteAcquireMode, WriteNumAcquire, WriteValuesPerRead,
           WriteReadFormat, WriteReset, WriteReadStatus
  <1> QED BY <1>1 DEF Call, driver, reading, link

LEMMA TaskMinded == ASSUME Minded, Task PROVE Minded'
  <1> USE TaskType DEF Minded, SomebodyMinds, control, port, link, driver, reading, history
  <1>1. CASE TaskDelivers
    BY <1>1 DEF TaskDelivers
  <1>2. CASE TaskStops
    <2>1. CASE NothingToStop
      BY <1>2, <2>1 DEF TaskStops
    <2>2. CASE readingActive = 0 /\ MeterOff
      BY <1>2, <2>2, TurnedOff
    <2>3. CASE task' = "stop"
      BY <1>2, <2>3
    <2> QED BY <1>2, <2>1, <2>2, <2>3 DEF TaskStops
  <1>3. CASE TaskStopped
    BY <1>3, TurnedOff DEF TaskStopped, StopEnds
  <1> QED BY <1>1, <1>2, <1>3 DEF Task

LEMMA NextMinded == Minded /\ [Next]_vars => Minded'
  <1> SUFFICES ASSUME Minded, [Next]_vars PROVE Minded'
    OBVIOUS
  <1>0. TypeOK'
    BY NextType DEF Minded
  <1>1. CASE ReaderWakes \/ ReaderStarts \/ Reads
    BY <1>0, <1>1, ReaderKeeps DEF Minded, SomebodyMinds
  <1>2. CASE Client
    BY <1>0, <1>2, ClientKeeps DEF Minded, SomebodyMinds
  <1>3. CASE MeterStops
    BY <1>0, <1>3 DEF MeterStops, Minded
  <1>4. CASE LinkChanges
    BY <1>0, <1>4 DEF LinkChanges, Minded, SomebodyMinds, driver, port, reading, history
  <1>5. CASE UNCHANGED vars
    BY <1>0, <1>5 DEF vars, Minded, SomebodyMinds, driver, port, reading, history
  <1> QED BY <1>1, <1>2, <1>3, <1>4, <1>5, PortMinded, TaskMinded DEF Next

\* The meter does not send its readings to nobody, with any number of faults of the link
\* and of the dialogs, although setAcquire(1) waits for nobody and a Single acquisition
\* that seems over is not turned off again.
THEOREM NoReadingUnread == Spec => []SendsToNobody
  <1>1. Init => Minded
    BY InitType DEF Init, Minded
  <1>2. Minded => SendsToNobody
    BY DEF Minded, SomebodyMinds, SendsToNobody, TypeOK
  <1> QED BY <1>1, <1>2, NextMinded, PTL DEF Spec

-----------------------------------------------------------------------------
(***************************************************************************)
(* The order of what the port thread has to do.  A stop only begins a      *)
(* list; a start ends a dialog; dialogs, and the clearing of Acquire, come *)
(* first or after a stop; and what ends reset() is followed by no more     *)
(* than a look at the status.                                              *)
(***************************************************************************)
Dialogs == {"send", "ask", "query"}

InOrder(s) ==
  \A i \in 1..Len(s) :
    /\ s[i] = "stop" => i = 1
    /\ s[i] = "start" => i = 1 \/ s[i - 1] \in Dialogs
    /\ s[i] \in Dialogs \union {"clear"} => i = 1 \/ (i = 2 /\ s[1] = "stop")
    /\ s[i] = "resume" => \A j \in i + 1..Len(s) : s[j] = "status"
    /\ s[i] \in {"resume", "clear"} => ~Has(s, "start")

LEMMA TailInOrder ==
  ASSUME NEW s \in Seq(Ops), s # <<>>, InOrder(s)
  PROVE  InOrder(Tail(s))
  <1> DEFINE t == Tail(s)
  <1>1. /\ t \in Seq(Ops) /\ Len(t) = Len(s) - 1 /\ Len(s) \in Nat \ {0}
        /\ \A i \in 1..Len(s) - 1 : t[i] = s[i + 1]
    BY TailIs
  <1>2. Has(t, "start") => Has(s, "start")
    BY HasTail
  <1> HIDE DEF t
  <1>3. ASSUME NEW i \in 1..Len(t)
        PROVE  /\ t[i] # "stop"
               /\ t[i] = "start" => i = 1 \/ t[i - 1] \in Dialogs
               /\ t[i] \in Dialogs \union {"clear"} => i = 1
               /\ t[i] = "resume" => \A j \in i + 1..Len(t) : t[j] = "status"
               /\ t[i] \in {"resume", "clear"} => ~Has(t, "start")
    <2>1. i + 1 \in 1..Len(s) /\ t[i] = s[i + 1] /\ i + 1 # 1
      BY <1>1
    <2>2. i # 1 => t[i - 1] = s[i] /\ (i + 1) - 1 = i
      BY <1>1
    <2>3. t[i] # "stop"
      BY <2>1 DEF InOrder
    <2>4. t[i] = "start" => i = 1 \/ t[i - 1] \in Dialogs
      BY <2>1, <2>2 DEF InOrder
    <2>5. t[i] \in Dialogs \union {"clear"} => i = 1
      BY <2>1 DEF InOrder
    <2>6. t[i] = "resume" => \A j \in i + 1..Len(t) : t[j] = "status"
      <3> SUFFICES ASSUME t[i] = "resume", NEW j \in i + 1..Len(t) PROVE t[j] = "status"
        OBVIOUS
      <3>1. j + 1 \in (i + 1) + 1..Len(s) /\ t[j] = s[j + 1]
        BY <1>1
      <3> QED BY <2>1, <3>1 DEF InOrder
    <2>7. t[i] \in {"resume", "clear"} => ~Has(t, "start")
      BY <2>1, <1>2 DEF InOrder
    <2> QED BY <2>3, <2>4, <2>5, <2>6, <2>7
  <1> QED BY <1>3 DEF InOrder, t

\* A meter that is not acquiring: the function is replaced by its dialog.
LEMMA ReplacedInOrder ==
  ASSUME NEW s \in Seq(Ops), s # <<>>, InOrder(s), Head(s) \in DOMAIN Dialog
  PROVE  InOrder(<<Dialog[Head(s)]>> \o Tail(s))
  <1> DEFINE a == Dialog[Head(s)]
             t == <<a>> \o Tail(s)
  <1>1. a \in Dialogs /\ a \in Ops /\ s[1] \in {"command", "status"}
    BY DialogValues, TailIs DEF Dialogs, Ops
  <1>2. /\ t \in Seq(Ops) /\ Len(t) = Len(s) /\ Len(s) \in Nat \ {0} /\ t[1] = a
        /\ \A i \in 2..Len(s) : t[i] = s[i]
    BY <1>1, ReplacedIs, TailIs
  <1>3. Has(t, "start") <=> Has(s, "start")
    BY <1>1, HasReplaced, HasTail, TailIs DEF Dialogs
  <1> HIDE DEF t, a
  <1>4. ASSUME NEW i \in 1..Len(t)
        PROVE  /\ t[i] = "stop" => i = 1
               /\ t[i] = "start" => i = 1 \/ t[i - 1] \in Dialogs
               /\ t[i] \in Dialogs \union {"clear"} => i = 1 \/ (i = 2 /\ t[1] = "stop")
               /\ t[i] = "resume" => \A j \in i + 1..Len(t) : t[j] = "status"
               /\ t[i] \in {"resume", "clear"} => ~Has(t, "start")
    <2>1. CASE i = 1
      BY <1>1, <1>2, <2>1 DEF Dialogs
    <2>2. CASE i # 1
      <3>1. t[i] = s[i] /\ i \in 1..Len(s) /\ \A j \in i + 1..Len(t) : t[j] = s[j]
        BY <1>2, <2>2
      <3>2. i = 2 => t[i - 1] \in Dialogs
        BY <1>1, <1>2
      <3>3. i # 2 => t[i - 1] = s[i - 1]
        BY <1>2, <2>2
      <3>4. t[i] = "start" => t[i - 1] \in Dialogs
        BY <2>2, <3>1, <3>2, <3>3 DEF InOrder
      <3> QED BY <1>1, <1>2, <1>3, <2>2, <3>1, <3>4 DEF InOrder
    <2> QED BY <2>1, <2>2
  <1> QED BY <1>4 DEF InOrder, t, a

\* A meter that is acquiring: the dialog comes between a stop and a start.  Not while
\* reset() is at work, which restarts it at its end.
LEMMA ExpandedInOrder ==
  ASSUME NEW s \in Seq(Ops), s # <<>>, InOrder(s), Head(s) \in DOMAIN Dialog,
         ~Has(s, "resume")
  PROVE  InOrder(<<"stop", Dialog[Head(s)], "start">> \o Tail(s))
  <1> DEFINE a == Dialog[Head(s)]
             t == <<"stop", a, "start">> \o Tail(s)
  <1>1. a \in Dialogs /\ a \in Ops /\ s[1] \in {"command", "status"}
    BY DialogValues, TailIs DEF Dialogs, Ops
  <1>2. /\ t \in Seq(Ops) /\ Len(t) = Len(s) + 2 /\ Len(s) \in Nat \ {0}
        /\ t[1] = "stop" /\ t[2] = a /\ t[3] = "start"
        /\ \A i \in 4..Len(s) + 2 : t[i] = s[i - 2]
    <2>1. a \in Ops /\ "stop" \in Ops /\ "start" \in Ops
      BY <1>1 DEF Ops
    <2> HIDE DEF a
    <2> QED BY <2>1, ExpandedIs, TailIs
  <1> HIDE DEF t, a
  <1>3. ASSUME NEW i \in 2..Len(s)
        PROVE  s[i] \notin Dialogs \union {"stop", "clear", "resume"}
    <2>1. i \in 1..Len(s) /\ i # 1 /\ s[1] # "stop"
      BY <1>1, <1>2
    <2>2. s[i] # "resume"
      BY <2>1 DEF Has
    <2> QED BY <2>1, <2>2 DEF InOrder
  <1>4. ASSUME NEW i \in 2..Len(s) PROVE s[i] # "start"
    <2>1. i \in 1..Len(s) /\ i # 1
      BY <1>2
    <2>2. i = 2 => s[i - 1] \notin Dialogs
      BY <1>1 DEF Dialogs
    <2>3. i # 2 => s[i - 1] \notin Dialogs
      <3>1. i # 2 => i - 1 \in 2..Len(s)
        BY <1>2
      <3> QED BY <1>3, <3>1
    <2> QED BY <2>1, <2>2, <2>3 DEF InOrder
  <1>5. ASSUME NEW i \in 4..Len(t)
        PROVE  t[i] \notin Dialogs \union {"stop", "start", "clear", "resume"}
    <2>1. i - 2 \in 2..Len(s) /\ t[i] = s[i - 2]
      BY <1>2
    <2> QED BY <1>3, <1>4, <2>1
  <1>6. \A i \in 1..Len(t) : i = 1 \/ i = 2 \/ i = 3 \/ i \in 4..Len(t)
    BY <1>2
  <1> QED BY <1>1, <1>2, <1>5, <1>6 DEF InOrder, Dialogs, t, a

\* What ends reset() becomes a start or a stop.
LEMMA ResumedInOrder ==
  ASSUME NEW s \in Seq(Ops), s # <<>>, InOrder(s), Head(s) = "resume",
         NEW a \in {"start", "stop"}
  PROVE  /\ InOrder(<<a>> \o Tail(s))
         /\ \A op \in Ops : Has(Tail(s), op) => op = "status"
  <1> DEFINE t == <<a>> \o Tail(s)
  <1>1. a \in Ops /\ s[1] = "resume" /\ Len(s) \in Nat \ {0}
    BY TailIs DEF Ops
  <1>2. \A i \in 2..Len(s) : s[i] = "status"
    BY <1>1 DEF InOrder
  <1>3. Len(t) = Len(s) /\ t[1] = a /\ \A i \in 2..Len(s) : t[i] = "status"
    BY <1>1, <1>2, ReplacedIs
  <1> HIDE DEF t
  <1>4. InOrder(t)
    BY <1>1, <1>3 DEF InOrder, Dialogs
  <1>5. ASSUME NEW op \in Ops, Has(Tail(s), op) PROVE op = "status"
    <2>1. PICK i \in 1..Len(Tail(s)) : Tail(s)[i] = op
      BY <1>5 DEF Has
    <2> QED BY <1>1, <1>2, <2>1, TailIs
  <1> QED BY <1>4, <1>5 DEF t

\* Every call begins in order.
LEMMA CallsInOrder ==
  /\ InOrder(<<>>)
  /\ \A a \in {"start", "stop", "status"} : InOrder(<<a>>)
  /\ InOrder(<<"command", "status">>) /\ InOrder(<<"stop", "clear", "status">>)
  /\ InOrder(<<"stop", "send", "command", "status", "resume", "status">>)
  <1>1. InOrder(<<>>)
    BY DEF InOrder
  <1>2. \A a \in {"start", "stop", "status"} : InOrder(<<a>>)
    BY DEF InOrder, Has, Dialogs
  <1>3. InOrder(<<"command", "status">>) /\ InOrder(<<"stop", "clear", "status">>)
    BY DEF InOrder, Has, Dialogs
  <1>4. InOrder(<<"stop", "send", "command", "status", "resume", "status">>)
    <2> DEFINE s == <<"stop", "send", "command", "status", "resume", "status">>
    <2>1. /\ Len(s) = 6 /\ s[1] = "stop" /\ s[2] = "send" /\ s[3] = "command"
          /\ s[4] = "status" /\ s[5] = "resume" /\ s[6] = "status"
      OBVIOUS
    <2> HIDE DEF s
    <2>2. ~Has(s, "start")
      BY <2>1 DEF Has
    <2> QED BY <2>1, <2>2 DEF InOrder, Dialogs, s
  <1> QED BY <1>1, <1>2, <1>3, <1>4

\* What comes next when the head of the list is done.
LEMMA SecondIs ==
  ASSUME NEW s \in Seq(Ops), s # <<>>, InOrder(s), Tail(s) # <<>>
  PROVE  /\ Head(Tail(s)) # "stop"
         /\ Head(Tail(s)) \in Dialogs \union {"clear"} => Head(s) = "stop"
  <1>1. Tail(s) \in Seq(Ops) /\ Len(Tail(s)) = Len(s) - 1
    BY TailIs
  <1>2. Len(Tail(s)) \in Nat \ {0} /\ Head(Tail(s)) = Tail(s)[1]
    BY <1>1, TailIs
  <1>3. Head(s) = s[1] /\ Tail(s)[1] = s[2] /\ 2 \in 1..Len(s)
    BY <1>1, <1>2, TailIs
  <1> QED BY <1>2, <1>3 DEF InOrder

LEMMA StartOrResume ==
  ASSUME NEW s, InOrder(s), Has(s, "resume") \/ Has(s, "clear")
  PROVE  ~Has(s, "start")
  BY DEF InOrder, Has
-----------------------------------------------------------------------------
(***************************************************************************)
(* No crosstalk, and Acquire tells the truth.  While nothing is disturbed  *)
(* the driver and the meter are both off, or both on with the read thread  *)
(* awake or told to wake, save while somebody waits to turn them off.      *)
(***************************************************************************)
Off == acquiring = 0 /\ ~running

\* With a meter that does not stop by itself, it runs, or it is about to be told anew.
On ==
  /\ acquiring = 1 /\ (reader # "asleep" \/ event)
  /\ running \/ mode = "Single" \/ (todo # <<>> /\ Head(todo) \in {"status", "stop"})

HandOver ==
  /\ online
  /\ task = "stop" => todo = <<>> /\ acquiring = 0
  /\ waiting => Head(todo) = "stop" /\ acquiring = 0
  /\ (~waiting /\ task = "idle") => Off \/ On

TalksWhenOff ==
  (todo # <<>> /\ ~waiting /\ Head(todo) \in Dialogs \union {"clear"}) => Off

ResetsWhenOff == (todo # <<>> /\ Has(todo, "resume") /\ Head(todo) # "stop") => Off

\* Acquire is what the driver does, or what its list is to end in.
AcquireFollows ==
  (task = "idle" /\ ~Has(todo, "clear") /\ ~Has(todo, "resume")) =>
     (acquire = 1 <=> \/ acquiring = 1 /\ (todo = <<>> \/ Head(todo) # "stop")
                      \/ Has(todo, "start"))

Lists == InOrder(todo) /\ TalksWhenOff /\ ResetsWhenOff /\ AcquireFollows

Quiet == TypeOK /\ (Undisturbed => HandOver /\ Lists)

LEMMA FaultsStay ==
  ASSUME TypeOK, faults' = 0
  PROVE  MeterOff \/ Answered \/ Fails => faults = 0
  <1>1. faults \in Nat
    BY DEF TypeOK
  <1>2. Answered \/ Fails => faults = 0
    BY <1>1 DEF Answered, Fails
  <1> QED BY <1>2 DEF MeterOff

LEMMA ReadsFaults == ASSUME TypeOK, Reads, faults' = 0 PROVE faults = 0
  <1>1. faults \in Nat
    BY DEF TypeOK
  <1>2. faults' = faults \/ faults' = faults + 1
    BY DEF Reads, ReadsBlock, ReadsGateEnd, ReadsNoBlock, ReadsLine, ReadsAck, link
  <1> QED BY <1>1, <1>2

\* What is undisturbed after a step was so before it.
LEMMA StaysDisturbed ==
  ASSUME TypeOK, [Next]_vars, Undisturbed'
  PROVE  Undisturbed
  <1> USE DEF Undisturbed
  <1>1. CASE ReaderWakes \/ ReaderStarts
    <2>1. UNCHANGED <<faults, overlapped>>
      BY <1>1 DEF ReaderWakes, ReaderStarts, link, history
    <2> QED BY <2>1
  <1>2. CASE Reads
    BY <1>2, ReaderKeeps, ReadsFaults
  <1>3. CASE Port
    <2>1. CASE PortStop
      BY <2>1, FaultsStay DEF PortStop
    <2>2. CASE PortStopped
      BY <2>2, FaultsStay DEF PortStopped, StopEnds
    <2>3. CASE PortStart
      <3>1. faults' = 0 /\ (UNCHANGED faults \/ Answered \/ Fails)
        BY <2>3 DEF PortStart, Start
      <3>2. ~overlapped
        BY <2>3, Zenon DEF PortStart
      <3> QED BY <3>1, <3>2, FaultsStay
    <2>4. CASE PortPrepares \/ PortSets
      <3>1. UNCHANGED <<faults, overlapped>>
        BY <2>4 DEF PortPrepares, PortSets, link, history
      <3> QED BY <3>1
    <2>5. CASE PortTalks
      BY <2>5, FaultsStay DEF PortTalks, history
    <2> QED BY <1>3, <2>1, <2>2, <2>3, <2>4, <2>5 DEF Port
  <1>4. CASE Client
    BY <1>4, ClientKeeps
  <1>5. CASE Task
    <2>1. CASE TaskDelivers
      BY <2>1 DEF TaskDelivers, link, history
    <2>2. CASE TaskStops
      BY <2>2, FaultsStay DEF TaskStops
    <2>3. CASE TaskStopped
      BY <2>3, FaultsStay DEF TaskStopped, StopEnds
    <2> QED BY <1>5, <2>1, <2>2, <2>3 DEF Task
  <1>6. CASE MeterStops
    BY <1>6 DEF MeterStops, link, history
  <1>7. CASE LinkChanges
    BY <1>7 DEF LinkChanges, history, TypeOK
  <1>8. CASE UNCHANGED vars
    BY <1>8 DEF vars, link, history
  <1> QED BY <1>1, <1>2, <1>3, <1>4, <1>5, <1>6, <1>7, <1>8 DEF Next

\* While the link holds and no dialog fails, every dialog is answered.
LEMMA QuietDialogs ==
  ASSUME TypeOK, online, Undisturbed, Undisturbed'
  PROVE  ~Fails /\ (MeterOff => ~running' /\ heard')
  <1>1. ~Fails
    BY ConstAssumption DEF TypeOK, Undisturbed, Fails
  <1> QED BY <1>1 DEF MeterOff

\* A step between two undisturbed states.
QuietStep ==
  /\ TypeOK /\ Undisturbed /\ HandOver /\ Lists
  /\ TypeOK' /\ Undisturbed'

LEMMA ReaderQuiet ==
  ASSUME QuietStep, ReaderWakes \/ ReaderStarts \/ Reads
  PROVE  HandOver' /\ Lists'
  <1>1. /\ UNCHANGED <<acquiring, acquire, mode, todo, waiting, task, running, online>>
        /\ acquiring = 1 => reader' # "asleep" \/ event'
    BY ReaderKeeps DEF QuietStep
  <1>2. HandOver'
    BY <1>1 DEF QuietStep, HandOver, Off, On
  <1>3. Lists'
    BY <1>1 DEF QuietStep, Lists, TalksWhenOff, ResetsWhenOff, AcquireFollows, Off
  <1> QED BY <1>2, <1>3

LEMMA TaskQuiet == ASSUME QuietStep, Task PROVE HandOver' /\ Lists'
  <1>0. \A op : ~Has(<<>>, op)
    BY DEF Has
  <1> USE DEF driver, control, reading, port, link
  <1>1. CASE TaskDelivers
    BY <1>1 DEF QuietStep, HandOver, TaskDelivers, Lists, TalksWhenOff, ResetsWhenOff,
      AcquireFollows, Off, On
  \* With no call under way, all that matters is that the driver is off.
  <1>2. ASSUME todo = <<>>, todo' = todo, ~waiting', online', acquiring' = 0,
               task' = "stop" \/ (task' = "idle" /\ ~running' /\ acquire' = 0)
        PROVE  HandOver' /\ Lists'
    <2>1. HandOver'
      BY <1>2 DEF HandOver, Off
    <2>2. Lists'
      BY <1>0, <1>2, CallsInOrder
      DEF Lists, TalksWhenOff, ResetsWhenOff, AcquireFollows
    <2> QED BY <2>1, <2>2
  <1>3. CASE TaskStops
    <2>1. todo = <<>> /\ todo' = todo /\ ~waiting /\ ~waiting' /\ online /\ online'
            /\ (Off \/ On) /\ task = "idle"
      BY <1>3 DEF QuietStep, HandOver, TaskStops, Undisturbed, LockFree, PortHasLock
    <2>2. CASE NothingToStop
      <3>1. Off
        BY <2>1, <2>2 DEF NothingToStop, On
      <3>2. acquiring' = 0 /\ acquire' = 0 /\ task' = "idle" /\ ~running'
        BY <1>3, <2>1, <2>2, <3>1 DEF TaskStops, Off
      <3> QED BY <1>2, <2>1, <3>2
    <2>3. CASE ~NothingToStop /\ readingActive = 0
      <3>1. acquiring' = 0 /\ acquire' = 0 /\ task' = "idle" /\ MeterOff
        BY <1>3, <2>1, <2>3 DEF TaskStops
      <3>2. ~running'
        BY <2>1, <3>1, QuietDialogs DEF QuietStep
      <3> QED BY <1>2, <2>1, <3>1, <3>2
    <2>4. CASE ~NothingToStop /\ readingActive = 1
      <3>1. acquiring' = 0 /\ task' = "stop"
        BY <1>3, <2>4 DEF TaskStops
      <3> QED BY <1>2, <2>1, <3>1
    <2> QED BY <2>2, <2>3, <2>4 DEF QuietStep, TypeOK
  <1>4. CASE TaskStopped
    <2>1. todo = <<>> /\ todo' = todo /\ ~waiting' /\ online /\ online' /\ acquiring = 0
      BY <1>4 DEF QuietStep, HandOver, TaskStopped, TypeOK
    <2>2. MeterOff /\ (heard' => acquiring' = acquiring) /\ acquire' = 0 /\ task' = "idle"
      BY <1>4 DEF TaskStopped, StopEnds
    <2>3. ~running' /\ heard'
      BY <2>1, <2>2, QuietDialogs DEF QuietStep
    <2> QED BY <1>2, <2>1, <2>2, <2>3
  <1> QED BY <1>1, <1>3, <1>4 DEF Task

\* The list of the port thread: what it is after a step, and what then comes first.
LEMMA PoppedIs ==
  ASSUME QuietStep, todo # <<>>, Pop
  PROVE  /\ todo \in Seq(Ops) /\ todo' \in Seq(Ops) /\ InOrder(todo')
         /\ \A op : Has(todo, op) <=> (Head(todo) = op \/ Has(todo', op))
         /\ todo' # <<>> =>
              /\ Head(todo') # "stop"
              /\ Head(todo') \in Dialogs \union {"clear"} => Head(todo) = "stop"
  BY HasTail, TailInOrder, SecondIs, TailIs DEF QuietStep, TypeOK, Lists, Pop

\* setAcquire(0) has turned the meter off.
LEMMA StoppedQuiet ==
  ASSUME QuietStep, todo # <<>>, Head(todo) = "stop", Pop, task = "idle",
         Off', online', ~waiting', task' = "idle", acquire' = acquire
  PROVE  HandOver' /\ Lists'
  <1>1. HandOver'
    BY DEF HandOver
  <1>2. AcquireFollows'
    BY PoppedIs DEF QuietStep, Lists, AcquireFollows, Off
  <1> QED BY <1>1, <1>2, PoppedIs DEF Lists, TalksWhenOff, ResetsWhenOff

LEMMA PortStopQuiet == ASSUME QuietStep, PortStop PROVE HandOver' /\ Lists'
  <1>1. /\ todo # <<>> /\ ~waiting /\ task = "idle" /\ online /\ Head(todo) = "stop"
        /\ Off \/ On
    BY DEF QuietStep, HandOver, PortStop, PortHasLock, TypeOK
  <1>2. online' /\ task' = "idle" /\ acquire' = acquire
    BY <1>1 DEF PortStop, control
  <1>3. CASE NothingToStop
    <2>1. Off
      BY <1>1, <1>3 DEF NothingToStop, On
    <2>2. Pop /\ ~waiting' /\ Off'
      BY <1>1, <1>3, <2>1 DEF PortStop, Off
    <2> QED BY <1>1, <1>2, <2>2, StoppedQuiet
  <1>4. CASE ~NothingToStop /\ readingActive = 0
    <2>1. Pop /\ MeterOff /\ acquiring' = 0 /\ ~waiting'
      BY <1>1, <1>4 DEF PortStop
    <2>2. Off'
      BY <1>1, <2>1, QuietDialogs DEF QuietStep, Off
    <2> QED BY <1>1, <1>2, <2>1, <2>2, StoppedQuiet
  <1>5. CASE ~NothingToStop /\ readingActive = 1
    <2>1. waiting' /\ acquiring' = 0 /\ todo' = todo
      BY <1>5 DEF PortStop
    <2>2. HandOver'
      BY <1>1, <1>2, <2>1 DEF HandOver
    <2>3. Lists'
      BY <1>1, <1>2, <2>1
      DEF QuietStep, Lists, TalksWhenOff, ResetsWhenOff, AcquireFollows
    <2> QED BY <2>2, <2>3
  <1> QED BY <1>3, <1>4, <1>5 DEF QuietStep, TypeOK

LEMMA PortStoppedQuiet == ASSUME QuietStep, PortStopped PROVE HandOver' /\ Lists'
  <1>1. /\ todo # <<>> /\ task = "idle" /\ online /\ Head(todo) = "stop" /\ acquiring = 0
    BY DEF QuietStep, HandOver, PortStopped, TypeOK
  <1>2. /\ MeterOff /\ (heard' => acquiring' = acquiring)
        /\ Pop /\ ~waiting' /\ online' /\ task' = "idle" /\ acquire' = acquire
    BY <1>1 DEF PortStopped, StopEnds, control
  <1>3. Off'
    BY <1>1, <1>2, QuietDialogs DEF QuietStep, Off
  <1> QED BY <1>1, <1>2, <1>3, StoppedQuiet

LEMMA PortStartQuiet == ASSUME QuietStep, PortStart PROVE HandOver' /\ Lists'
  <1>1. /\ todo # <<>> /\ ~waiting /\ task = "idle" /\ online /\ Head(todo) = "start"
    BY DEF QuietStep, HandOver, PortStart, PortHasLock, TypeOK
  <1>2. Has(todo, "start") /\ ~Has(todo, "resume") /\ ~Has(todo, "clear")
    BY <1>1, HasTail, StartOrResume DEF QuietStep, TypeOK, Lists
  <1>3. /\ event' = TRUE /\ running' = TRUE /\ acquiring' = 1
        /\ Pop /\ ~waiting' /\ online' /\ task' = "idle" /\ acquire' = acquire
    BY <1>1, QuietDialogs DEF QuietStep, PortStart, Start
  <1>4. HandOver'
    BY <1>3 DEF HandOver, On
  <1>5. todo' # <<>> => Head(todo') \notin Dialogs \union {"stop", "clear"}
    BY <1>1, <1>3, PoppedIs
  <1>6. (InOrder(todo) /\ TalksWhenOff /\ ResetsWhenOff)'
    BY <1>1, <1>2, <1>3, <1>5, PoppedIs DEF TalksWhenOff, ResetsWhenOff
  <1>7. acquire = 1
    BY <1>1, <1>2 DEF QuietStep, Lists, AcquireFollows
  <1>8. AcquireFollows'
    BY <1>3, <1>5, <1>7 DEF AcquireFollows
  <1> QED BY <1>4, <1>6, <1>8 DEF Lists

LEMMA PortPreparesQuiet == ASSUME QuietStep, PortPrepares PROVE HandOver' /\ Lists'
  <1>1. /\ todo # <<>> /\ todo \in Seq(Ops) /\ ~waiting /\ task = "idle" /\ online
        /\ Head(todo) \in DOMAIN Dialog
        /\ Off \/ On
        /\ UNCHANGED <<running, mode, event, reader, acquiring, online, acquire>>
        /\ ~waiting' /\ task' = "idle"
    BY DEF QuietStep, HandOver, PortPrepares, PortHasLock, TypeOK, control, driver, link,
           reading
  <1>2. Head(todo) \in {"command", "status"} /\ InOrder(todo)
    BY <1>1, DialogValues DEF QuietStep, Lists
  <1> DEFINE a == Dialog[Head(todo)]
  <1>3. a \in Dialogs /\ a \in Ops
    BY <1>2, DialogValues DEF Dialogs, Ops
  <1>4. CASE acquiring = 1
    <2>1. On
      BY <1>1, <1>4 DEF Off
    <2>2. ~Has(todo, "resume")
      BY <1>1, <1>2, <1>4 DEF QuietStep, Lists, ResetsWhenOff, Off
    <2>3. todo' = <<"stop", a, "start">> \o Tail(todo)
      BY <1>4 DEF PortPrepares
    <2>4. "stop" \in Ops /\ "start" \in Ops
      BY DEF Ops
    <2> HIDE DEF a
    <2>5. todo' # <<>> /\ todo' \in Seq(Ops) /\ Head(todo') = "stop"
      BY <1>1, <1>3, <2>3, <2>4, ExpandedIs, TailIs
    <2>6. \A op : Has(todo', op) <=> (op \in {"stop", a, "start"} \/ Has(Tail(todo), op))
      BY <1>1, <1>3, <2>3, <2>4, HasExpanded
    <2>7. InOrder(todo')
      BY <1>1, <1>2, <2>2, <2>3, ExpandedInOrder DEF a
    <2>8. HandOver'
      BY <1>1, <2>1, <2>5 DEF HandOver, On
    <2>9. AcquireFollows'
      <3>1. ASSUME ~Has(todo', "clear"), ~Has(todo', "resume") PROVE acquire = 1
        <4>1. ~Has(todo, "clear") /\ ~Has(todo, "resume")
          BY <1>1, <1>2, <2>6, <3>1, HasTail
        <4> QED BY <1>1, <1>2, <1>4, <4>1 DEF QuietStep, Lists, AcquireFollows
      <3>2. Has(todo', "start")
        BY <2>6
      <3> QED BY <1>1, <3>1, <3>2 DEF AcquireFollows
    <2> QED BY <2>5, <2>7, <2>8, <2>9 DEF Lists, TalksWhenOff, ResetsWhenOff, Dialogs
  <1>5. CASE acquiring = 0
    <2>1. Off /\ Off'
      BY <1>1, <1>5 DEF On, Off
    <2>2. todo' = <<a>> \o Tail(todo)
      BY <1>5 DEF PortPrepares
    <2> HIDE DEF a
    <2>3. todo' # <<>> /\ todo' \in Seq(Ops) /\ Head(todo') = a
      BY <1>1, <1>3, <2>2, ReplacedIs, TailIs
    <2>4. \A op : Has(todo', op) <=> (op = a \/ Has(Tail(todo), op))
      BY <1>1, <1>3, <2>2, HasReplaced
    <2>5. \A op \in {"start", "clear", "resume"} : Has(todo', op) <=> Has(todo, op)
      BY <1>1, <1>2, <1>3, <2>4, HasTail DEF Dialogs
    <2>6. InOrder(todo')
      BY <1>1, <1>2, <2>2, ReplacedInOrder DEF a
    <2>7. HandOver'
      BY <1>1, <2>1 DEF HandOver
    <2>8. AcquireFollows'
      BY <1>1, <1>5, <2>5 DEF QuietStep, Lists, AcquireFollows
    <2> QED BY <2>1, <2>6, <2>7, <2>8 DEF Lists, TalksWhenOff, ResetsWhenOff
  <1> QED BY <1>4, <1>5 DEF QuietStep, TypeOK

LEMMA PortTalksQuiet == ASSUME QuietStep, PortTalks PROVE HandOver' /\ Lists'
  <1>1. /\ todo # <<>> /\ ~waiting /\ task = "idle" /\ online
        /\ Head(todo) \in Dialogs
        /\ UNCHANGED <<running, acquiring, online, acquire>>
        /\ ~waiting' /\ task' = "idle"
    BY DEF QuietStep, HandOver, PortTalks, PortHasLock, TypeOK, control, driver, Dialogs
  <1>2. Off /\ Off'
    BY <1>1 DEF QuietStep, Lists, TalksWhenOff, Off
  <1>3. Pop
    BY <1>1, QuietDialogs DEF QuietStep, PortTalks
  <1>4. HandOver'
    BY <1>1, <1>2 DEF HandOver
  <1>5. \A op \in {"start", "clear", "resume"} : Has(todo', op) <=> Has(todo, op)
    BY <1>1, <1>3, PoppedIs DEF Dialogs
  <1>6. AcquireFollows'
    BY <1>1, <1>2, <1>5 DEF QuietStep, Lists, AcquireFollows, Off
  <1> QED BY <1>1, <1>2, <1>3, <1>4, <1>6, PoppedIs DEF Lists, TalksWhenOff, ResetsWhenOff

LEMMA PortSetsQuiet == ASSUME QuietStep, PortSets PROVE HandOver' /\ Lists'
  <1>1. /\ todo # <<>> /\ todo \in Seq(Ops) /\ ~waiting /\ task = "idle" /\ online
        /\ InOrder(todo)
        /\ UNCHANGED <<running, acquiring, online>>
        /\ ~waiting' /\ task' = "idle"
    BY DEF QuietStep, HandOver, PortSets, PortHasLock, TypeOK, driver, link, Lists
  <1>2. CASE Head(todo) = "resume"
    <2>1. Has(todo, "resume")
      BY <1>1, <1>2, HasTail
    <2>2. Off /\ Off'
      BY <1>1, <1>2, <2>1 DEF QuietStep, Lists, ResetsWhenOff, Off
    <2> DEFINE a == IF acquire = 1 THEN "start" ELSE "stop"
    <2>3. a \in {"start", "stop"} /\ a \in Ops /\ (a = "start" <=> acquire = 1)
      BY DEF Ops
    <2>4. todo' = <<a>> \o Tail(todo) /\ acquire' = acquire
      BY <1>2 DEF PortSets
    <2> HIDE DEF a
    <2>5. todo' # <<>> /\ todo' \in Seq(Ops) /\ Head(todo') = a
      BY <1>1, <2>3, <2>4, ReplacedIs, TailIs
    <2>6. \A op : Has(todo', op) <=> (op = a \/ Has(Tail(todo), op))
      BY <1>1, <2>3, <2>4, HasReplaced
    <2>7. InOrder(todo') /\ \A op \in Ops : Has(Tail(todo), op) => op = "status"
      BY <1>1, <1>2, <2>3, <2>4, ResumedInOrder
    <2>8. ~Has(todo', "resume") /\ ~Has(todo', "clear") /\ (Has(todo', "start") <=> acquire = 1)
      BY <2>3, <2>6, <2>7 DEF Ops
    <2>9. HandOver'
      BY <1>1, <2>2 DEF HandOver
    <2>10. AcquireFollows'
      BY <2>2, <2>4, <2>8 DEF AcquireFollows, Off
    <2> QED BY <2>2, <2>7, <2>9, <2>10 DEF Lists, TalksWhenOff, ResetsWhenOff
  <1>3. CASE Head(todo) = "clear"
    <2>1. Pop /\ acquire' = 0
      BY <1>3 DEF PortSets
    <2>2. Off /\ Off'
      BY <1>1, <1>3 DEF QuietStep, Lists, TalksWhenOff, Off
    <2>3. ~Has(todo', "start")
      BY <1>1, <1>3, <2>1, PoppedIs, HasTail, StartOrResume
    <2>4. HandOver'
      BY <1>1, <2>2 DEF HandOver
    <2>5. AcquireFollows'
      BY <2>1, <2>2, <2>3 DEF AcquireFollows, Off
    <2> QED BY <1>1, <2>1, <2>2, <2>4, <2>5, PoppedIs DEF Lists, TalksWhenOff, ResetsWhenOff
  <1> QED BY <1>2, <1>3 DEF PortSets

\* A call that begins keeps the hand-overs: it finds all off or all on, and one that
\* changes the mode has the status to read, or a stop to do, first.
LEMMA CallQuiet ==
  ASSUME QuietStep, Client,
         mode' = mode \/ Head(todo') \in {"status", "stop"},
         todo' # <<>>, Head(todo') \notin Dialogs \union {"clear"}
  PROVE  /\ HandOver' /\ TalksWhenOff'
         /\ todo = <<>> /\ task = "idle" /\ acquiring' = acquiring /\ running' = running
         /\ acquire = 1 <=> acquiring = 1
         /\ Off \/ On
  <1>1. /\ UNCHANGED <<acquiring, event, reader, waiting, task, running, online>>
        /\ todo = <<>> /\ task = "idle"
    BY ClientKeeps DEF QuietStep, Undisturbed, TypeOK
  <1>2. ~waiting /\ ~waiting' /\ online /\ (Off \/ On)
    BY <1>1 DEF QuietStep, HandOver, TypeOK
  <1>3. \A op : ~Has(<<>>, op)
    BY DEF Has
  <1>4. acquire = 1 <=> acquiring = 1
    BY <1>1, <1>3 DEF QuietStep, Lists, AcquireFollows
  <1>5. HandOver'
    BY <1>1, <1>2 DEF HandOver, Off, On
  <1>6. TalksWhenOff'
    BY DEF TalksWhenOff
  <1> QED BY <1>1, <1>2, <1>4, <1>5, <1>6

\* What the calls begin with, and what is in them.
LEMMA CallsHave ==
  /\ \A a \in {"start", "stop", "status"} :
       /\ <<a>> # <<>> /\ Head(<<a>>) = a /\ \A op : Has(<<a>>, op) <=> op = a
  /\ LET s == <<"command", "status">>
     IN  s # <<>> /\ Head(s) = "command" /\ \A op : Has(s, op) <=> op \in {"command", "status"}
  /\ LET s == <<"stop", "clear", "status">>
     IN  s # <<>> /\ Head(s) = "stop" /\ Has(s, "clear") /\ ~Has(s, "resume")
  /\ LET s == <<"stop", "send", "command", "status", "resume", "status">>
     IN  s # <<>> /\ Head(s) = "stop" /\ Has(s, "resume")
  <1>1. ASSUME NEW a
        PROVE  <<a>> # <<>> /\ Head(<<a>>) = a /\ \A op : Has(<<a>>, op) <=> op = a
    BY DEF Has
  <1>2. LET s == <<"command", "status">>
        IN  s # <<>> /\ Head(s) = "command"
              /\ \A op : Has(s, op) <=> op \in {"command", "status"}
    BY DEF Has
  <1>3. LET s == <<"stop", "clear", "status">>
        IN  s # <<>> /\ Head(s) = "stop" /\ Has(s, "clear") /\ ~Has(s, "resume")
    BY DEF Has
  <1>4. LET s == <<"stop", "send", "command", "status", "resume", "status">>
        IN  s # <<>> /\ Head(s) = "stop" /\ Has(s, "resume")
    BY DEF Has
  <1> QED BY <1>1, <1>2, <1>3, <1>4

LEMMA ClientQuiet == ASSUME QuietStep, Client PROVE HandOver' /\ Lists'
  <1> USE DEF control
  <1>1. ASSUME NEW v \in {0, 1}, WriteAcquire(v) PROVE HandOver' /\ Lists'
    <2> DEFINE a == IF v = 1 THEN "start" ELSE "stop"
    <2>1. a \in {"start", "stop"} /\ (a = "start" <=> v = 1)
      OBVIOUS
    <2>2. todo' = <<a>> /\ acquire' = v /\ mode' = mode
      BY <1>1 DEF WriteAcquire, Call
    <2> HIDE DEF a
    <2>3. todo' # <<>> /\ Head(todo') = a /\ InOrder(todo') /\ \A op : Has(todo', op) <=> op = a
      BY <2>1, <2>2, CallsHave, CallsInOrder
    <2>4. HandOver' /\ TalksWhenOff'
      BY <2>1, <2>2, <2>3, CallQuiet DEF Dialogs
    <2>5. ResetsWhenOff'
      BY <2>1, <2>3 DEF ResetsWhenOff
    <2>6. AcquireFollows'
      <3>1. a = "stop" => Head(todo') = "stop" /\ ~Has(todo', "start") /\ acquire' = 0
        BY <2>1, <2>2, <2>3
      <3>2. a = "start" => Has(todo', "start") /\ acquire' = 1
        BY <2>1, <2>2, <2>3
      <3> QED BY <2>1, <2>3, <3>1, <3>2 DEF AcquireFollows
    <2> QED BY <2>3, <2>4, <2>5, <2>6 DEF Lists
  \* The calls that leave Acquire alone, and neither start nor stop.
  <1>2. ASSUME todo' = <<"status">> \/ (todo' = <<"command", "status">> /\ mode' = mode),
               acquire' = acquire
        PROVE  HandOver' /\ Lists'
    <2>1. /\ todo' # <<>> /\ Head(todo') \in {"command", "status"} /\ InOrder(todo')
          /\ Head(todo') = "status" \/ mode' = mode
          /\ \A op \in {"start", "clear", "resume"} : ~Has(todo', op)
      <3>1. CASE todo' = <<"status">>
        BY <3>1, CallsHave, CallsInOrder
      <3>2. CASE todo' = <<"command", "status">> /\ mode' = mode
        BY <3>2, CallsHave, CallsInOrder
      <3> QED BY <1>2, <3>1, <3>2
    <2>2. HandOver' /\ TalksWhenOff' /\ (acquire = 1 <=> acquiring = 1)
            /\ acquiring' = acquiring
      BY <2>1, CallQuiet DEF Dialogs
    <2>3. AcquireFollows' /\ ResetsWhenOff'
      BY <1>2, <2>1, <2>2 DEF AcquireFollows, ResetsWhenOff
    <2> QED BY <2>1, <2>2, <2>3 DEF Lists
  <1>3. ASSUME NEW m \in Modes, WriteAcquireMode(m) PROVE HandOver' /\ Lists'
    <2>1. CASE m = "Continuous"
      BY <1>2, <1>3, <2>1 DEF WriteAcquireMode, Call
    <2>2. CASE m # "Continuous"
      <3>1. todo' = <<"stop", "clear", "status">>
        BY <1>3, <2>2 DEF WriteAcquireMode, Call
      <3>2. todo' # <<>> /\ Head(todo') = "stop" /\ InOrder(todo')
              /\ Has(todo', "clear") /\ ~Has(todo', "resume")
        BY <3>1, CallsHave, CallsInOrder
      <3>3. HandOver' /\ TalksWhenOff'
        BY <3>2, CallQuiet DEF Dialogs
      <3> QED BY <3>2, <3>3 DEF Lists, AcquireFollows, ResetsWhenOff
    <2> QED BY <2>1, <2>2
  <1>4. ASSUME NEW k \in NumAcquires, WriteNumAcquire(k) PROVE HandOver' /\ Lists'
    BY <1>2, <1>4 DEF WriteNumAcquire, Call
  <1>5. ASSUME NEW v \in ValuesPerReads, WriteValuesPerRead(v) PROVE HandOver' /\ Lists'
    BY <1>2, <1>5 DEF WriteValuesPerRead, Call
  <1>6. ASSUME NEW f \in Formats, WriteReadFormat(f) PROVE HandOver' /\ Lists'
    BY <1>2, <1>6 DEF WriteReadFormat, Call
  <1>7. CASE WriteReset
    <2>1. todo' = <<"stop", "send", "command", "status", "resume", "status">>
      BY <1>7 DEF WriteReset, Call
    <2>2. todo' # <<>> /\ Head(todo') = "stop" /\ InOrder(todo') /\ Has(todo', "resume")
      BY <2>1, CallsHave, CallsInOrder
    <2>3. HandOver' /\ TalksWhenOff'
      BY <2>2, CallQuiet DEF Dialogs
    <2> QED BY <2>2, <2>3 DEF Lists, AcquireFollows, ResetsWhenOff
  <1>8. CASE WriteReadStatus
    BY <1>2, <1>8 DEF WriteReadStatus, Call
  <1> QED BY <1>1, <1>3, <1>4, <1>5, <1>6, <1>7, <1>8 DEF Client

LEMMA NextQuiet == Quiet /\ [Next]_vars => Quiet'
  <1> SUFFICES ASSUME Quiet, [Next]_vars PROVE Quiet'
    OBVIOUS
  <1>1. TypeOK'
    BY NextType DEF Quiet
  <1> SUFFICES ASSUME Undisturbed' PROVE HandOver' /\ Lists'
    BY <1>1 DEF Quiet
  <1>2. QuietStep
    BY <1>1, StaysDisturbed DEF Quiet, QuietStep
  <1>3. CASE Port
    BY <1>2, <1>3, PortStopQuiet, PortStoppedQuiet, PortStartQuiet, PortPreparesQuiet,
       PortTalksQuiet, PortSetsQuiet DEF Port
  <1>4. CASE MeterStops
    <2>1. /\ ~running' /\ mode = "Single"
          /\ UNCHANGED <<acquiring, event, acquire, mode, reader, todo, waiting, task, online>>
      BY <1>4 DEF MeterStops, driver, control, reading, port, link
    <2>2. Off => Off'
      BY <2>1 DEF Off
    <2>3. HandOver'
      BY <1>2, <2>1, <2>2 DEF QuietStep, HandOver, On
    <2> QED BY <1>2, <2>1, <2>2, <2>3
        DEF QuietStep, Lists, TalksWhenOff, ResetsWhenOff, AcquireFollows
  <1>5. CASE LinkChanges
    <2>1. online /\ faults \in Nat /\ faults' = 0
      BY <1>2 DEF QuietStep, HandOver, Undisturbed, TypeOK
    <2> QED BY <1>5, <2>1 DEF LinkChanges
  <1>6. CASE UNCHANGED vars
    <2>1. UNCHANGED <<acquiring, event, acquire, mode, reader, todo, waiting, task, running,
                      online>>
      BY <1>6 DEF vars, driver, control, reading, port, link
    <2> QED BY <1>2, <2>1 DEF QuietStep, HandOver, Lists, TalksWhenOff, ResetsWhenOff,
          AcquireFollows, Off, On
  <1> QED BY <1>2, <1>3, <1>4, <1>5, <1>6, ReaderQuiet, ClientQuiet, TaskQuiet DEF Next

\* The settled states and the order of the lists, as long as no dialog has failed, no link
\* has broken and callbackTask and the port thread have not met in setAcquire.
THEOREM QuietInvariance == Spec => []Quiet
  <1>1. Init => Quiet
    <2> SUFFICES ASSUME Init PROVE Quiet
      OBVIOUS
    <2>1. \A op : ~Has(<<>>, op)
      BY DEF Has
    <2> QED BY <2>1, InitType, CallsInOrder
        DEF Init, Quiet, HandOver, Lists, TalksWhenOff, ResetsWhenOff, AcquireFollows, Off
  <1> QED BY <1>1, NextQuiet, PTL DEF Spec

\* What the meter sends is read by the read thread alone: no dialog of the port thread
\* meets a meter that still sends, and no meter is left sending to nobody.
THEOREM ReaderIsAlone == Spec => []OneReader
  <1>1. Quiet => NoCrossTalk
    BY DEF Quiet, NoCrossTalk, InDialog, PortHasLock, Lists, TalksWhenOff, Off, Dialogs
  <1> QED BY <1>1, QuietInvariance, NoReadingUnread, PTL DEF OneReader

\* At rest, Acquire says what the driver and the meter do, and the read thread reads or is
\* about to, whatever settings were written, although setAcquire(1) waits for nobody.
THEOREM AcquireTellsTheTruth == Spec => []AcquireIsTrue
  <1>1. Quiet => AcquireIsTrue
    <2> SUFFICES ASSUME Quiet, todo = <<>>, task = "idle", Undisturbed
                 PROVE  /\ acquire = acquiring
                        /\ running => acquire = 1
                        /\ acquire = 1 => running \/ mode = "Single"
                        /\ acquire = 1 => reader # "asleep" \/ event
      BY DEF AcquireIsTrue
    <2>1. \A op : ~Has(<<>>, op)
      BY DEF Has
    <2>2. (Off \/ On) /\ acquire \in {0, 1} /\ acquiring \in {0, 1}
      BY DEF Quiet, HandOver, TypeOK
    <2>3. acquire = 1 <=> acquiring = 1
      BY <2>1 DEF Quiet, Lists, AcquireFollows
    <2> QED BY <2>2, <2>3 DEF Off, On
  <1> QED BY <1>1, QuietInvariance, PTL
=============================================================================
