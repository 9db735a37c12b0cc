--------------------------- MODULE NSLS_EMProofs ----------------------------
(***************************************************************************)
(* Proofs about NSLS_EM for every set of phases, of modes and of values    *)
(* that clients write, and every bound on failures and queued messages.    *)
(***************************************************************************)
EXTENDS NSLS_EM, SequenceTheorems, TLAPS

(***************************************************************************)
(* The steps that the port thread has still to do, as a list.              *)
(***************************************************************************)
\* A step done: the list without its head.
LEMMA TailIs ==
  ASSUME NEW Steps, NEW s \in Seq(Steps), s # <<>>
  PROVE  /\ Len(s) \in Nat \ {0}
         /\ Head(s) = s[1] /\ Head(s) \in Steps
         /\ Tail(s) \in Seq(Steps)
         /\ Len(Tail(s)) = Len(s) - 1
         /\ \A i \in 1..Len(s) - 1 : Tail(s)[i] = s[i + 1]
         /\ \A i \in 1..Len(s) : s[i] \in Steps
  <1>1. Len(s) \in Nat \ {0}
    BY EmptySeq
  <1>2. \A i \in 1..Len(s) : s[i] \in Steps
    BY ElementOfSeq
  <1>3. Head(s) = s[1]
    OBVIOUS
  <1> QED BY <1>1, <1>2, <1>3, HeadTailProperties

\* A step replaced by another.
LEMMA ReplacedIs ==
  ASSUME NEW Steps, NEW s \in Seq(Steps), s # <<>>, NEW a \in Steps
  PROVE  /\ <<a>> \o Tail(s) \in Seq(Steps)
         /\ <<a>> \o Tail(s) # <<>>
         /\ Len(<<a>> \o Tail(s)) = Len(s)
         /\ (<<a>> \o Tail(s))[1] = a
         /\ \A i \in 2..Len(s) : (<<a>> \o Tail(s))[i] = s[i]
  <1> DEFINE t == <<a>> \o Tail(s)
  <1>1. <<a>> \in Seq(Steps) /\ Len(<<a>>) = 1 /\ <<a>>[1] = a
    OBVIOUS
  <1>2. /\ t \in Seq(Steps)
        /\ Len(t) = 1 + Len(Tail(s))
        /\ \A i \in 1..1 + Len(Tail(s)) :
             t[i] = IF i <= 1 THEN <<a>>[i] ELSE Tail(s)[i - 1]
    BY <1>1, TailIs, ConcatProperties
  <1> HIDE DEF t
  <1>3. Len(t) = Len(s) /\ t # <<>>
    BY <1>2, TailIs, EmptySeq
  <1>4. t[1] = a
    BY <1>1, <1>2, TailIs
  <1>5. ASSUME NEW i \in 2..Len(s) PROVE t[i] = s[i]
    BY <1>2, TailIs
  <1> QED BY <1>2, <1>3, <1>4, <1>5 DEF t

\* Whether a step is in the list.
Has(s, op) == \E i \in 1..Len(s) : s[i] = op

\* What is in a list is its first step or in the rest.
LEMMA HasTail ==
  ASSUME NEW Steps, NEW s \in Seq(Steps), s # <<>>, NEW op
  PROVE  Has(s, op) <=> (Head(s) = op \/ Has(Tail(s), op))
  <1>1. ASSUME Has(s, op), Head(s) # op PROVE Has(Tail(s), op)
    <2>1. PICK i \in 1..Len(s) : s[i] = op
      BY <1>1 DEF Has
    <2>2. i # 1 /\ Len(s) \in Nat
      BY <1>1, <2>1, TailIs
    <2>3. i - 1 \in 1..Len(Tail(s)) /\ Tail(s)[i - 1] = op
      BY <2>1, <2>2, TailIs
    <2> QED BY <2>3 DEF Has
  <1>2. ASSUME Has(Tail(s), op) PROVE Has(s, op)
    <2>1. PICK i \in 1..Len(Tail(s)) : Tail(s)[i] = op
      BY <1>2 DEF Has
    <2>2. i + 1 \in 1..Len(s) /\ s[i + 1] = op
      BY <2>1, TailIs
    <2> QED BY <2>2 DEF Has
  <1>3. Head(s) = op => Has(s, op)
    BY TailIs DEF Has
  <1> QED BY <1>1, <1>2, <1>3

\* What is in a list whose first step is replaced.
LEMMA HasReplaced ==
  ASSUME NEW Steps, NEW s \in Seq(Steps), s # <<>>, NEW a \in Steps, NEW op
  PROVE  Has(<<a>> \o Tail(s), op) <=> (a = op \/ Has(Tail(s), op))
  <1> DEFINE t == <<a>> \o Tail(s)
  <1>1. /\ t \in Seq(Steps) /\ t # <<>> /\ Len(t) = Len(s) /\ t[1] = a
        /\ \A i \in 2..Len(s) : t[i] = s[i]
    BY ReplacedIs
  <1> HIDE DEF t
  <1>2. Tail(t) = Tail(s)
    <2>1. \A i \in 1..Len(Tail(t)) : Tail(t)[i] = Tail(s)[i]
      BY <1>1, TailIs
    <2> QED BY <1>1, <2>1, TailIs, SeqEqual
  <1>3. Head(t) = a
    BY <1>1, TailIs
  <1> QED BY <1>1, <1>2, <1>3, HasTail DEF t

-----------------------------------------------------------------------------
\* What the client's writes ask for.
LEMMA CallsAre ==
  /\ <<>> \in Seq(Ops)
  /\ <<"start">> \in Seq(Ops) /\ <<"stop">> \in Seq(Ops) /\ <<"status">> \in Seq(Ops)
  /\ <<"stop", "clear", "status">> \in Seq(Ops) /\ <<"mode", "status">> \in Seq(Ops)
  /\ <<"values", "mode", "status">> \in Seq(Ops) /\ <<"scale", "status">> \in Seq(Ops)
  /\ <<"scale", "values", "mode", "scale", "status", "resume", "status">> \in Seq(Ops)
  BY DEF Ops

-----------------------------------------------------------------------------
(* Types.                                                                  *)

LEMMA InitType == Init => TypeOK
  <1> SUFFICES ASSUME Init PROVE TypeOK
    OBVIOUS
  <1>1. todo \in Seq(Ops)
    BY CallsAre DEF Init
  <1>2. /\ event \in BOOLEAN /\ doubled \in BOOLEAN /\ waiting \in BOOLEAN
        /\ running \in BOOLEAN /\ phased \in BOOLEAN /\ heard \in BOOLEAN
        /\ disturbed \in BOOLEAN /\ wrong \in BOOLEAN /\ (waiting => todo # <<>>)
    BY DEF Init
  <1>3. faults \in 0..MaxFaults /\ queued \in 0..MaxQueued
    BY ConstAssumption DEF Init
  <1>4. /\ pingPong \in PingPongs /\ filter \in PingPongs /\ valuesPerRead \in ValuesPerReads
        /\ scaledFor \in ValuesPerReads /\ averaged \in ValuesPerReads
    BY ConstAssumption DEF Init
  <1> QED BY <1>1, <1>2, <1>3, <1>4 DEF Init, TypeOK

LEMMA LoopType ==
  ASSUME TypeOK, reader = "reading", ReaderLoops
  PROVE  /\ readingActive' \in {0, 1} /\ reader' \in {"asleep", "reading"}
         /\ readingActive' = 1 <=> reader' = "reading"
  BY DEF TypeOK, ReaderLoops

LEMMA ReaderType == ASSUME TypeOK, Reader PROVE TypeOK'
  <1> USE DEF TypeOK, driver, settings, control, port, module, history
  <1>1. CASE ReaderWakes
    <2>1. readingActive' = 0 /\ event' = FALSE /\ reader' = "woken"
      BY <1>1 DEF ReaderWakes
    <2>2. /\ doubled' \in BOOLEAN /\ running' \in BOOLEAN /\ phased' \in BOOLEAN
          /\ heard' \in BOOLEAN /\ disturbed' \in BOOLEAN /\ wrong' \in BOOLEAN
          /\ waiting' \in BOOLEAN /\ (waiting' => todo' # <<>>)
      BY <1>1 DEF ReaderWakes
    <2> QED BY <1>1, <2>1, <2>2 DEF ReaderWakes
  <1>2. CASE ReaderStarts
    BY <1>2 DEF ReaderStarts
  <1>3. CASE ReaderReads
    <2>1. phase' \in {0, 1, Unset}
      BY <1>3 DEF ReaderReads
    <2>2. wrong' \in BOOLEAN
      BY <1>3 DEF ReaderReads
    <2>3. queued' \in 0..MaxQueued
      BY <1>3, ConstAssumption DEF ReaderReads
    <2> QED BY <1>3, <2>1, <2>2, <2>3, LoopType DEF ReaderReads
  <1>4. CASE ReaderReadsNothing
    BY <1>4, LoopType DEF ReaderReadsNothing, reading
  <1> QED BY <1>1, <1>2, <1>3, <1>4 DEF Reader

LEMMA FailsType ==
  ASSUME TypeOK
  PROVE  /\ Answered => faults' = faults /\ faults' \in 0..MaxFaults
         /\ Fails => faults' \in 0..MaxFaults
  BY ConstAssumption DEF TypeOK, Answered, Fails

LEMMA SetModeType ==
  ASSUME TypeOK, NEW flag, SetMode(flag)
  PROVE  /\ pingPong' \in PingPongs /\ valuesPerRead' \in ValuesPerReads
         /\ scaledFor' \in ValuesPerReads /\ averaged' \in ValuesPerReads
         /\ doubled' \in BOOLEAN /\ running' \in BOOLEAN /\ phased' \in BOOLEAN
         /\ heard' \in BOOLEAN /\ faults' \in 0..MaxFaults
  <1>1. /\ running \in BOOLEAN /\ phased \in BOOLEAN /\ doubled \in BOOLEAN
        /\ pingPong \in PingPongs /\ Both \in PingPongs
    BY ConstAssumption DEF TypeOK
  <1>2. pingPong' \in PingPongs
    BY <1>1 DEF SetMode
  <1>3. UNCHANGED <<valuesPerRead, scaledFor, doubled, averaged>>
    BY DEF SetMode
  <1>4. heard' \in BOOLEAN /\ faults' \in 0..MaxFaults
    BY FailsType DEF SetMode
  <1>5. running' \in BOOLEAN /\ phased' \in BOOLEAN
    BY <1>1 DEF SetMode
  <1>6. doubled' \in BOOLEAN
    BY <1>1, <1>3
  <1> QED BY <1>2, <1>3, <1>4, <1>5, <1>6 DEF TypeOK

\* A step done or replaced leaves a list of steps.
LEMMA ListType ==
  ASSUME TypeOK, todo # <<>>
  PROVE  /\ Pop => todo' \in Seq(Ops)
         /\ \A op \in Ops : Expand(<<op>>) => todo' \in Seq(Ops) /\ todo' # <<>>
  <1>1. todo \in Seq(Ops)
    BY DEF TypeOK
  <1>2. Pop => todo' \in Seq(Ops)
    BY <1>1, TailIs DEF Pop
  <1>3. ASSUME NEW op \in Ops, Expand(<<op>>) PROVE todo' \in Seq(Ops) /\ todo' # <<>>
    <2>1. <<op>> \o Tail(todo) \in Seq(Ops) /\ <<op>> \o Tail(todo) # <<>>
      BY <1>1, ReplacedIs
    <2> QED BY <1>3, <2>1 DEF Expand
  <1> QED BY <1>2, <1>3

LEMMA PortType == ASSUME TypeOK, Port PROVE TypeOK'
  <1>0. todo # <<>> /\ "mode" \in Ops /\ "start" \in Ops /\ "stop" \in Ops
    BY DEF TypeOK, Port, PortSetsMode, PortSetsValues, PortReadsStatus, PortStop,
           PortStopped, PortStart, PortSets, PortHasLock, Ops
  <1> USE DEF TypeOK, driver, settings, control, reading, module, history
  <1>1. CASE PortSetsMode
    <2>1. ~waiting' /\ todo' \in Seq(Ops)
      BY <1>0, <1>1, ListType DEF PortSetsMode, PortHasLock
    <2>2. /\ pingPong' \in PingPongs /\ valuesPerRead' \in ValuesPerReads
          /\ scaledFor' \in ValuesPerReads /\ averaged' \in ValuesPerReads
          /\ doubled' \in BOOLEAN /\ running' \in BOOLEAN /\ phased' \in BOOLEAN
          /\ heard' \in BOOLEAN /\ faults' \in 0..MaxFaults
      BY <1>1, SetModeType DEF PortSetsMode
    <2> QED BY <1>1, <2>1, <2>2 DEF PortSetsMode
  <1>2. CASE PortSetsValues
    <2>1. ~waiting' /\ todo' \in Seq(Ops)
      BY <1>0, <1>2, ListType DEF PortSetsValues, PortHasLock
    <2>2. averaged' \in ValuesPerReads /\ scaledFor' \in ValuesPerReads /\ faults' \in 0..MaxFaults
      BY <1>2, FailsType DEF PortSetsValues
    <2> QED BY <1>2, <2>1, <2>2 DEF PortSetsValues
  <1>3. CASE PortReadsStatus
    <2>1. ~waiting' /\ todo' \in Seq(Ops)
      BY <1>0, <1>3, ListType DEF PortReadsStatus, PortHasLock
    <2>2. valuesPerRead' \in ValuesPerReads /\ doubled' \in BOOLEAN /\ faults' \in 0..MaxFaults
      BY <1>3, FailsType DEF PortReadsStatus
    <2> QED BY <1>3, <2>1, <2>2 DEF PortReadsStatus
  <1>4. CASE PortStop
    <2>1. todo' \in Seq(Ops) /\ todo' # <<>> /\ waiting' \in BOOLEAN
      BY <1>0, <1>4, ListType DEF PortStop
    <2> QED BY <1>4, <2>1 DEF PortStop
  <1>5. CASE PortStopped
    <2>1. todo' \in Seq(Ops) /\ ~waiting'
      BY <1>0, <1>5, ListType DEF PortStopped
    <2>2. /\ doubled' \in BOOLEAN /\ running' \in BOOLEAN /\ phased' \in BOOLEAN
          /\ heard' \in BOOLEAN /\ disturbed' \in BOOLEAN /\ wrong' \in BOOLEAN
          /\ event' \in BOOLEAN
      BY <1>5 DEF PortStopped
    <2> QED BY <1>5, <2>1, <2>2 DEF PortStopped
  <1>6. CASE PortStart
    <2>1. ~waiting' /\ todo' \in Seq(Ops)
      BY <1>0, <1>6, ListType DEF PortStart, PortHasLock
    <2>2. event' \in BOOLEAN /\ acquiring' \in {0, 1} /\ numAcquired' \in {0, 1}
      BY <1>6 DEF PortStart
    <2> QED BY <1>6, <2>1, <2>2 DEF PortStart
  <1>7. CASE PortSets
    <2> DEFINE next == IF acquire = 1 THEN "start" ELSE "stop"
    <2>1. Expand(<<next>>) \/ Pop
      BY <1>7 DEF PortSets
    <2>2. next \in Ops
      BY <1>0
    <2> HIDE DEF next
    <2>3. todo' \in Seq(Ops)
      BY <1>0, <2>1, <2>2, ListType
    <2>4. acquire' \in {0, 1} /\ ~waiting'
      BY <1>7 DEF PortSets, PortHasLock
    <2> QED BY <1>7, <2>3, <2>4 DEF PortSets
  <1> QED BY <1>1, <1>2, <1>3, <1>4, <1>5, <1>6, <1>7 DEF Port

LEMMA CallType ==
  ASSUME TypeOK, NEW ops \in Seq(Ops), NEW isSetting, Call(ops, isSetting),
         pingPong' \in PingPongs, valuesPerRead' \in ValuesPerReads,
         acquire' \in {0, 1}, mode' \in Modes
  PROVE  TypeOK'
  <1>1. disturbed' \in BOOLEAN
    BY DEF TypeOK, Call
  <1>2. ~waiting /\ waiting' = waiting
    BY DEF TypeOK, Call
  <1>3. todo' \in Seq(Ops)
    BY DEF Call
  <1> QED BY <1>1, <1>2, <1>3 DEF TypeOK, Call, driver, reading, module

LEMMA ClientType == ASSUME TypeOK, Client PROVE TypeOK'
  <1>0. /\ pingPong \in PingPongs /\ valuesPerRead \in ValuesPerReads
        /\ acquire \in {0, 1} /\ mode \in Modes
    BY DEF TypeOK
  <1>1. ASSUME NEW v \in {0, 1}, WriteAcquire(v) PROVE TypeOK'
    <2> DEFINE a == IF v = 1 THEN "start" ELSE "stop"
    <2>1. <<a>> \in Seq(Ops) /\ Call(<<a>>, FALSE)
      BY <1>1, CallsAre DEF WriteAcquire
    <2> HIDE DEF a
    <2> QED BY <1>0, <1>1, <2>1, CallType DEF WriteAcquire
  <1>2. ASSUME NEW m \in Modes, WriteAcquireMode(m) PROVE TypeOK'
    <2> DEFINE ops == IF m = "Continuous" THEN <<"status">> ELSE <<"stop", "clear", "status">>
    <2>1. ops \in Seq(Ops) /\ Call(ops, FALSE)
      BY <1>2, CallsAre DEF WriteAcquireMode
    <2> HIDE DEF ops
    <2> QED BY <1>0, <1>2, <2>1, CallType DEF WriteAcquireMode
  <1>3. ASSUME NEW p \in PingPongs, WritePingPong(p) PROVE TypeOK'
    BY <1>0, <1>3, CallsAre, CallType DEF WritePingPong
  <1>4. ASSUME NEW v \in ValuesPerReads, WriteValuesPerRead(v) PROVE TypeOK'
    BY <1>0, <1>4, CallsAre, CallType DEF WriteValuesPerRead
  <1>5. CASE WriteScale
    BY <1>0, <1>5, CallsAre, CallType DEF WriteScale
  <1>6. CASE WriteReset
    BY <1>0, <1>6, CallsAre, CallType DEF WriteReset
  <1> QED BY <1>1, <1>2, <1>3, <1>4, <1>5, <1>6 DEF Client

LEMMA TaskType == ASSUME TypeOK, Task PROVE TypeOK'
  <1> USE DEF TypeOK, driver, settings, control, reading, port, module, history
  <1>1. CASE TaskDelivers
    <2>1. queued' \in 0..MaxQueued /\ numAcquired' \in {0, 1}
      BY <1>1, ConstAssumption DEF TaskDelivers
    <2> QED BY <1>1, <2>1 DEF TaskDelivers
  <1>2. CASE TaskStops
    <2>1. queued' \in 0..MaxQueued /\ numAcquired' \in {0, 1} /\ disturbed' \in BOOLEAN
      BY <1>2, ConstAssumption DEF TaskStops
    <2>2. CASE SetMode(0) /\ acquire' = 0 /\ UNCHANGED task
      BY <1>2, <2>1, <2>2, SetModeType DEF TaskStops
    <2>3. CASE task' = "stop" /\ UNCHANGED <<acquire, settings, module, faults, heard>>
      BY <1>2, <2>1, <2>3 DEF TaskStops
    <2> QED BY <1>2, <2>2, <2>3 DEF TaskStops
  <1>3. CASE TaskStopped
    BY <1>3, SetModeType DEF TaskStopped
  <1> QED BY <1>1, <1>2, <1>3 DEF Task

LEMMA NextType == TypeOK /\ [Next]_vars => TypeOK'
  <1> SUFFICES ASSUME TypeOK, [Next]_vars PROVE TypeOK'
    OBVIOUS
  <1>1. CASE UNCHANGED vars
    BY <1>1 DEF vars, TypeOK, driver, settings, control, reading, port, module, history
  <1> QED BY <1>1, ReaderType, PortType, ClientType, TaskType DEF Next

\* The variables keep their types, and readingActive_ says just whether the read
\* thread is at its reads, whoever starts and stops it, and whatever fails.
THEOREM TypeCorrect == Spec => []TypeOK
  BY InitType, NextType, PTL DEF Spec
-----------------------------------------------------------------------------
(***************************************************************************)
(* What is in a list, and in which order: a stop or a start is the first   *)
(* thing a list does; the number of values is sent before the mode, which  *)
(* depends on it, and both before anything but the scale; and Acquire is   *)
(* cleared by no list that starts.                                         *)
(***************************************************************************)
InOrder(s) ==
  /\ \A j \in 1..Len(s) :
       /\ s[j] \in {"stop", "start"} => j = 1
       /\ s[j] = "values" => \A i \in 1..j - 1 : s[i] = "scale"
       /\ s[j] = "mode" => \A i \in 1..j - 1 : s[i] \in {"scale", "values"}
  /\ Has(s, "values") => Has(s, "mode")
  /\ Has(s, "clear") => ~Has(s, "start") /\ ~Has(s, "resume")

\* What may still follow is seen by the head of the list.
LEMMA HeadTells ==
  ASSUME NEW s \in Seq(Ops), s # <<>>, InOrder(s)
  PROVE  /\ Has(s, "values") => Head(s) \in {"scale", "values"}
         /\ Has(s, "mode") => Head(s) \in {"scale", "values", "mode"}
         /\ Has(Tail(s), "values") => Head(s) = "scale"
         /\ Has(Tail(s), "mode") => Head(s) \in {"scale", "values"}
         /\ ~Has(Tail(s), "stop") /\ ~Has(Tail(s), "start")
  <1>1. /\ Len(s) \in Nat \ {0} /\ Head(s) = s[1] /\ Tail(s) \in Seq(Ops)
        /\ Len(Tail(s)) = Len(s) - 1
        /\ \A i \in 1..Len(s) - 1 : Tail(s)[i] = s[i + 1]
    BY TailIs
  <1>2. ASSUME NEW op, Has(Tail(s), op) PROVE \E j \in 1..Len(s) : s[j] = op /\ 1 \in 1..j - 1
    <2>1. PICK i \in 1..Len(Tail(s)) : Tail(s)[i] = op
      BY <1>2 DEF Has
    <2>2. i + 1 \in 1..Len(s) /\ s[i + 1] = op /\ 1 \in 1..(i + 1) - 1
      BY <1>1, <2>1
    <2> QED BY <2>2
  <1>3. Has(Tail(s), "values") => Head(s) = "scale"
    BY <1>1, <1>2 DEF InOrder
  <1>4. Has(Tail(s), "mode") => Head(s) \in {"scale", "values"}
    BY <1>1, <1>2 DEF InOrder
  <1>5. ~Has(Tail(s), "stop") /\ ~Has(Tail(s), "start")
    BY <1>1, <1>2 DEF InOrder
  <1> QED BY <1>3, <1>4, <1>5, HasTail

LEMMA TailInOrder ==
  ASSUME NEW s \in Seq(Ops), s # <<>>, InOrder(s)
  PROVE  InOrder(Tail(s))
  <1> DEFINE t == Tail(s)
  <1>1. /\ t \in Seq(Ops) /\ Len(t) = Len(s) - 1 /\ Len(s) \in Nat \ {0}
        /\ \A i \in 1..Len(s) - 1 : t[i] = s[i + 1]
    BY TailIs
  <1>2. \A op : Has(s, op) <=> (Head(s) = op \/ Has(t, op))
    BY HasTail
  <1>3. /\ Has(t, "values") => Head(s) = "scale"
        /\ ~Has(t, "stop") /\ ~Has(t, "start")
    BY HeadTells
  <1> HIDE DEF t
  <1>4. ASSUME NEW j \in 1..Len(t)
        PROVE  /\ t[j] \notin {"stop", "start"}
               /\ t[j] = "values" => \A i \in 1..j - 1 : t[i] = "scale"
               /\ t[j] = "mode" => \A i \in 1..j - 1 : t[i] \in {"scale", "values"}
    <2>1. t[j] \notin {"stop", "start"}
      BY <1>3 DEF Has
    <2>2. j + 1 \in 1..Len(s) /\ t[j] = s[j + 1]
      BY <1>1
    <2>3. \A i \in 1..j - 1 : i + 1 \in 1..(j + 1) - 1 /\ t[i] = s[i + 1]
      BY <1>1
    <2> QED BY <2>1, <2>2, <2>3 DEF InOrder
  <1>5. Has(t, "values") => Has(t, "mode")
    BY <1>2, <1>3 DEF InOrder
  <1>6. Has(t, "clear") => ~Has(t, "resume")
    BY <1>2 DEF InOrder
  <1> QED BY <1>3, <1>4, <1>5, <1>6 DEF InOrder, t

\* setAcquire ends in setMode; what ends reset() becomes a setAcquire.
LEMMA ReplacedInOrder ==
  ASSUME NEW s \in Seq(Ops), s # <<>>, InOrder(s), NEW a \in Ops,
         \/ Head(s) \in {"stop", "start"} /\ a = "mode"
         \/ Head(s) = "resume" /\ a \in {"stop", "start"}
  PROVE  InOrder(<<a>> \o Tail(s))
  <1> DEFINE t == <<a>> \o Tail(s)
  <1>1. /\ t \in Seq(Ops) /\ Len(t) = Len(s) /\ Len(s) \in Nat \ {0} /\ t[1] = a
        /\ \A i \in 2..Len(s) : t[i] = s[i]
    BY ReplacedIs, TailIs
  <1>2. \A op : Has(t, op) <=> (a = op \/ Has(Tail(s), op))
    BY HasReplaced
  <1>3. /\ ~Has(Tail(s), "values") /\ ~Has(Tail(s), "mode")
        /\ ~Has(Tail(s), "stop") /\ ~Has(Tail(s), "start")
    BY HeadTells
  <1>4. \A op : Has(s, op) <=> (Head(s) = op \/ Has(Tail(s), op))
    BY HasTail
  <1>5. Tail(s) \in Seq(Ops) /\ Len(Tail(s)) = Len(s) - 1
          /\ \A i \in 1..Len(s) - 1 : Tail(s)[i] = s[i + 1]
    BY TailIs
  <1> HIDE DEF t
  <1>6. ASSUME NEW j \in 1..Len(t), j # 1
        PROVE  t[j] \notin {"stop", "start", "values", "mode"}
    <2>1. j - 1 \in 1..Len(Tail(s)) /\ Tail(s)[j - 1] = t[j]
      BY <1>1, <1>5, <1>6
    <2> QED BY <1>3, <2>1 DEF Has
  <1>7. \A i \in 1..1 - 1 : FALSE
    OBVIOUS
  <1>8. ASSUME NEW j \in 1..Len(t)
        PROVE  /\ t[j] \in {"stop", "start"} => j = 1
               /\ t[j] = "values" => \A i \in 1..j - 1 : t[i] = "scale"
               /\ t[j] = "mode" => \A i \in 1..j - 1 : t[i] \in {"scale", "values"}
    BY <1>6, <1>7
  <1>9. ~Has(t, "values")
    BY <1>2, <1>3
  <1>10. Has(t, "clear") => ~Has(t, "start") /\ ~Has(t, "resume")
    BY <1>2, <1>3, <1>4 DEF InOrder
  <1> QED BY <1>8, <1>9, <1>10 DEF InOrder, t

\* The calls: what is in them, what they begin with, and their order.
LEMMA CallsHave ==
  /\ InOrder(<<>>) /\ \A op : ~Has(<<>>, op)
  /\ \A a \in {"start", "stop", "status"} :
       LET s == <<a>>
       IN  s # <<>> /\ Head(s) = a /\ InOrder(s) /\ \A op : Has(s, op) <=> op = a
  /\ LET s == <<"stop", "clear", "status">>
     IN  s # <<>> /\ Head(s) = "stop" /\ InOrder(s)
           /\ \A op : Has(s, op) <=> op \in {"stop", "clear", "status"}
  /\ LET s == <<"mode", "status">>
     IN  s # <<>> /\ Head(s) = "mode" /\ InOrder(s)
           /\ \A op : Has(s, op) <=> op \in {"mode", "status"}
  /\ LET s == <<"values", "mode", "status">>
     IN  s # <<>> /\ Head(s) = "values" /\ InOrder(s)
           /\ \A op : Has(s, op) <=> op \in {"values", "mode", "status"}
  /\ LET s == <<"scale", "status">>
     IN  s # <<>> /\ Head(s) = "scale" /\ InOrder(s)
           /\ \A op : Has(s, op) <=> op \in {"scale", "status"}
  /\ LET s == <<"scale", "values", "mode", "scale", "status", "resume", "status">>
     IN  s # <<>> /\ Head(s) = "scale" /\ InOrder(s)
           /\ \A op : Has(s, op) <=> op \in {"scale", "values", "mode", "status", "resume"}
  <1>1. InOrder(<<>>) /\ \A op : ~Has(<<>>, op)
    BY DEF InOrder, Has
  <1>2. ASSUME NEW a \in {"start", "stop", "status"}
        PROVE  LET s == <<a>>
               IN  s # <<>> /\ Head(s) = a /\ InOrder(s) /\ \A op : Has(s, op) <=> op = a
    BY DEF InOrder, Has
  <1>3. LET s == <<"stop", "clear", "status">>
        IN  s # <<>> /\ Head(s) = "stop" /\ InOrder(s)
              /\ \A op : Has(s, op) <=> op \in {"stop", "clear", "status"}
    <2> DEFINE s == <<"stop", "clear", "status">>
    <2>1. Len(s) = 3 /\ s[1] = "stop" /\ s[2] = "clear" /\ s[3] = "status" /\ s # <<>> /\ Head(s) = "stop"
      OBVIOUS
    <2> HIDE DEF s
    <2>2. \A op : Has(s, op) <=> op \in {"stop", "clear", "status"}
      BY <2>1 DEF Has
    <2> QED BY <2>1, <2>2 DEF InOrder, s
  <1>4. LET s == <<"mode", "status">>
        IN  s # <<>> /\ Head(s) = "mode" /\ InOrder(s)
              /\ \A op : Has(s, op) <=> op \in {"mode", "status"}
    BY DEF InOrder, Has
  <1>5. LET s == <<"values", "mode", "status">>
        IN  s # <<>> /\ Head(s) = "values" /\ InOrder(s)
              /\ \A op : Has(s, op) <=> op \in {"values", "mode", "status"}
    <2> DEFINE s == <<"values", "mode", "status">>
    <2>1. Len(s) = 3 /\ s[1] = "values" /\ s[2] = "mode" /\ s[3] = "status" /\ s # <<>> /\ Head(s) = "values"
      OBVIOUS
    <2> HIDE DEF s
    <2>2. \A op : Has(s, op) <=> op \in {"values", "mode", "status"}
      BY <2>1 DEF Has
    <2> QED BY <2>1, <2>2 DEF InOrder, s
  <1>6. LET s == <<"scale", "status">>
        IN  s # <<>> /\ Head(s) = "scale" /\ InOrder(s)
              /\ \A op : Has(s, op) <=> op \in {"scale", "status"}
    BY DEF InOrder, Has
  <1>7. LET s == <<"scale", "values", "mode", "scale", "status", "resume", "status">>
        IN  s # <<>> /\ Head(s) = "scale" /\ InOrder(s)
              /\ \A op : Has(s, op) <=> op \in {"scale", "values", "mode", "status", "resume"}
    <2> DEFINE s == <<"scale", "values", "mode", "scale", "status", "resume", "status">>
    <2>1. /\ Len(s) = 7 /\ s[1] = "scale" /\ s[2] = "values" /\ s[3] = "mode" /\ s[4] = "scale"
          /\ s[5] = "status" /\ s[6] = "resume" /\ s[7] = "status"
          /\ s # <<>> /\ Head(s) = "scale"
      OBVIOUS
    <2> HIDE DEF s
    <2>2. \A op : Has(s, op) <=> op \in {"scale", "values", "mode", "status", "resume"}
      BY <2>1 DEF Has
    <2> QED BY <2>1, <2>2 DEF InOrder, s
  <1> QED BY <1>1, <1>2, <1>3, <1>4, <1>5, <1>6, <1>7
\* The list of the port thread after a step is done, or replaced by another.
LEMMA PoppedIs ==
  ASSUME TypeOK, InOrder(todo), todo # <<>>, Pop
  PROVE  /\ InOrder(todo')
         /\ \A op : Has(todo, op) <=> (Head(todo) = op \/ Has(todo', op))
         /\ Has(todo, "values") => Head(todo) \in {"scale", "values"}
         /\ Has(todo, "mode") => Head(todo) \in {"scale", "values", "mode"}
         /\ Has(todo', "values") => Head(todo) = "scale"
         /\ ~Has(todo', "stop") /\ ~Has(todo', "start")
         /\ todo' # <<>> => Head(todo') \notin {"stop", "start"}
  <1>1. todo \in Seq(Ops) /\ todo' = Tail(todo) /\ todo' \in Seq(Ops)
    BY TailIs DEF TypeOK, Pop
  <1>2. ~Has(todo', "stop") /\ ~Has(todo', "start")
    BY <1>1, HeadTells
  <1>3. todo' # <<>> => Head(todo') \notin {"stop", "start"}
    BY <1>1, <1>2, HasTail
  <1> QED BY <1>1, <1>2, <1>3, HasTail, HeadTells, TailInOrder

LEMMA ExpandIs ==
  ASSUME TypeOK, InOrder(todo), todo # <<>>, NEW a \in Ops, Expand(<<a>>),
         \/ Head(todo) \in {"stop", "start"} /\ a = "mode"
         \/ Head(todo) = "resume" /\ a \in {"stop", "start"}
  PROVE  /\ todo' # <<>> /\ Head(todo') = a /\ InOrder(todo')
         /\ \A op : Has(todo, op) <=> (Head(todo) = op \/ Has(Tail(todo), op))
         /\ \A op : Has(todo', op) <=> (a = op \/ Has(Tail(todo), op))
         /\ ~Has(Tail(todo), "values") /\ ~Has(Tail(todo), "mode")
         /\ ~Has(Tail(todo), "stop") /\ ~Has(Tail(todo), "start")
  <1>1. todo \in Seq(Ops) /\ todo' = <<a>> \o Tail(todo)
    BY DEF TypeOK, Expand
  <1>2. todo' # <<>> /\ todo' \in Seq(Ops) /\ Head(todo') = a
    BY <1>1, ReplacedIs, TailIs
  <1>3. InOrder(todo')
    BY <1>1, ReplacedInOrder
  <1>4. \A op : Has(todo', op) <=> (a = op \/ Has(Tail(todo), op))
    BY <1>1, HasReplaced
  <1>5. /\ ~Has(Tail(todo), "values") /\ ~Has(Tail(todo), "mode")
        /\ ~Has(Tail(todo), "stop") /\ ~Has(Tail(todo), "start")
    BY <1>1, HeadTells
  <1> QED BY <1>1, <1>2, <1>3, <1>4, <1>5, HasTail

-----------------------------------------------------------------------------
(***************************************************************************)
(* The scale factor and the phase.  What a list is still to send may be    *)
(* out of step; all else fits, and a read thread that reads lets through   *)
(* the phase that the client asked for.                                    *)
(***************************************************************************)
\* The phase is only known of single values.
Fitting == pingPong # Both => valuesPerRead = 1

Listed == InOrder(todo) /\ (waiting => Head(todo) = "stop")

Scales ==
  /\ ~Has(todo, "values") => valuesPerRead = averaged /\ scaledFor = averaged
  /\ ~Has(todo, "mode") => Fitting /\ phased = (pingPong # Both)
  /\ ~Has(todo, "status") => Fitting /\ doubled = (pingPong # Both)

Filters == reader = "reading" => Fitting /\ filter = pingPong

Scaled ==
  /\ TypeOK /\ Listed
  /\ faults = 0 => Scales
  /\ faults = 0 /\ ~disturbed => Filters
  /\ ~wrong

\* Without a failure every command is answered, and was before.
LEMMA NoFaults ==
  ASSUME TypeOK, faults' = 0
  PROVE  ~Fails /\ (Answered => faults = 0)
  BY DEF TypeOK, Fails, Answered

LEMMA ModeIsSet ==
  ASSUME TypeOK, NEW flag, SetMode(flag), faults' = 0
  PROVE  /\ faults = 0 /\ heard' /\ (running' <=> flag = 1)
         /\ pingPong' = IF valuesPerRead = 1 THEN pingPong ELSE Both
         /\ phased' = (pingPong' # Both)
  BY NoFaults DEF SetMode, Answered

\* Whoever finds the lock free finds no setting half made.
LEMMA NothingHalfMade ==
  ASSUME TypeOK, Listed, LockFree
  PROVE  ~Has(todo, "values") /\ ~Has(todo, "mode")
  <1>1. todo = <<>> \/ (todo # <<>> /\ todo \in Seq(Ops) /\ Head(todo) = "stop")
    BY DEF TypeOK, Listed, LockFree, PortHasLock
  <1> QED BY <1>1, HeadTells, CallsHave DEF Listed

LEMMA ReaderScaled == ASSUME Scaled, Reader PROVE Scaled'
  <1>0. TypeOK'
    BY ReaderType DEF Scaled
  <1> USE DEF Scaled, Listed, settings, control, port, module, history
  <1>1. CASE ReaderWakes
    BY <1>0, <1>1 DEF ReaderWakes, Scales, Filters, Fitting
  <1>2. CASE ReaderStarts
    <2>1. ~Has(todo, "mode")
      BY <1>2, NothingHalfMade DEF ReaderStarts
    <2>2. /\ UNCHANGED <<pingPong, valuesPerRead, scaledFor, doubled, averaged, phased, todo,
                         waiting, faults, disturbed, wrong>>
          /\ filter' = pingPong
      BY <1>2 DEF ReaderStarts
    <2>3. faults = 0 => Fitting
      BY <2>1 DEF Scales
    <2> QED BY <1>0, <2>2, <2>3 DEF Scales, Filters, Fitting
  <1>3. CASE ReaderReads
    <2>1. ~Has(todo, "mode") /\ reader = "reading"
      BY <1>3, NothingHalfMade DEF ReaderReads
    <2>2. /\ UNCHANGED <<pingPong, valuesPerRead, scaledFor, doubled, averaged, phased, todo,
                         waiting, faults, disturbed, filter>>
      BY <1>3 DEF ReaderReads
    <2>3. PICK p \in IF phased THEN {0, 1} ELSE {phase} :
          \E used \in IF p = Unset THEN BOOLEAN \cup {filter = Both} ELSE {filter \in {p, Both}} :
             wrong' = (wrong \/ (/\ used /\ pingPong # Both /\ ~(phased /\ p = pingPong)
                                 /\ faults = 0 /\ ~disturbed))
      BY <1>3 DEF ReaderReads
    <2>4. PICK used \in IF p = Unset THEN BOOLEAN \cup {filter = Both} ELSE {filter \in {p, Both}} :
             wrong' = (wrong \/ (/\ used /\ pingPong # Both /\ ~(phased /\ p = pingPong)
                                 /\ faults = 0 /\ ~disturbed))
      BY <2>3
    <2>5. ASSUME used, pingPong # Both, faults = 0, ~disturbed PROVE phased /\ p = pingPong
      <3>1. phased /\ filter = pingPong
        BY <2>1, <2>5 DEF Scales, Filters
      <3>2. p \in {0, 1}
        BY <3>1
      <3>3. p # Unset
        BY <3>2, ConstAssumption
      <3>4. filter \in {p, Both}
        BY <2>4, <2>5, <3>3
      <3> QED BY <2>5, <3>1, <3>4
    <2>6. ~wrong'
      BY <2>4, <2>5
    <2> QED BY <1>0, <2>1, <2>2, <2>6 DEF Scales, Filters, Fitting
  <1>4. CASE ReaderReadsNothing
    <2>1. /\ UNCHANGED <<pingPong, valuesPerRead, scaledFor, doubled, averaged, phased, todo,
                         waiting, faults, disturbed, filter, wrong>>
          /\ reader = "reading"
      BY <1>4 DEF ReaderReadsNothing
    <2> QED BY <1>0, <2>1 DEF Scales, Filters, Fitting
  <1> QED BY <1>1, <1>2, <1>3, <1>4 DEF Reader

\* setMode, when no list is about to call it, finds and leaves all as it should be.
LEMMA SetModeScaled ==
  ASSUME Scaled, TypeOK', NEW flag, SetMode(flag), ~Has(todo, "mode"),
         UNCHANGED <<todo, waiting, reader, filter, wrong>>, ~disturbed' => ~disturbed
  PROVE  Scaled'
  <1>1. UNCHANGED <<valuesPerRead, scaledFor, doubled, averaged>>
    BY DEF SetMode
  <1>2. ASSUME faults' = 0 PROVE faults = 0 /\ pingPong' = pingPong /\ phased' = phased
    <2>1. /\ faults = 0 /\ phased' = (pingPong' # Both)
          /\ pingPong' = IF valuesPerRead = 1 THEN pingPong ELSE Both
      BY <1>2, ModeIsSet DEF Scaled
    <2>2. Fitting /\ phased = (pingPong # Both)
      BY <2>1 DEF Scaled, Scales
    <2> QED BY <2>1, <2>2 DEF Fitting
  <1>3. faults' = 0 => Scales'
    BY <1>1, <1>2 DEF Scaled, Scales, Fitting
  <1>4. faults' = 0 /\ ~disturbed' => Filters'
    BY <1>1, <1>2 DEF Scaled, Filters, Fitting
  <1> QED BY <1>3, <1>4 DEF Scaled, Listed

LEMMA PortSetsModeScaled == ASSUME Scaled, TypeOK', PortSetsMode PROVE Scaled'
  <1>1. /\ todo # <<>> /\ Head(todo) = "mode" /\ Pop /\ SetMode(acquiring)
        /\ ~waiting' /\ UNCHANGED <<reader, filter, disturbed, wrong>>
    BY DEF PortSetsMode, PortHasLock, reading, TypeOK
  <1>2. /\ InOrder(todo') /\ ~Has(todo, "values") /\ ~Has(todo', "values")
        /\ Has(todo, "status") <=> Has(todo', "status")
    BY <1>1, PoppedIs DEF Scaled, Listed
  <1>3. UNCHANGED <<valuesPerRead, scaledFor, doubled, averaged>>
    BY <1>1 DEF SetMode
  <1>4. ASSUME faults' = 0
        PROVE  /\ faults = 0 /\ phased' = (pingPong' # Both)
               /\ pingPong' = IF valuesPerRead = 1 THEN pingPong ELSE Both
    BY <1>1, <1>4, ModeIsSet DEF Scaled
  <1>5. ASSUME faults' = 0 PROVE Scales'
    BY <1>2, <1>3, <1>4, <1>5 DEF Scaled, Scales, Fitting
  <1>6. ASSUME faults' = 0, ~disturbed' PROVE Filters'
    BY <1>1, <1>3, <1>4, <1>6 DEF Scaled, Filters, Fitting
  <1> QED BY <1>1, <1>2, <1>5, <1>6 DEF Scaled, Listed

LEMMA PortSetsValuesScaled == ASSUME Scaled, TypeOK', PortSetsValues PROVE Scaled'
  <1>1. /\ todo # <<>> /\ Head(todo) \in {"values", "scale"} /\ Pop
        /\ ~waiting' /\ scaledFor' = valuesPerRead
        /\ UNCHANGED <<pingPong, valuesPerRead, doubled, phased, reader, filter, disturbed, wrong>>
    BY DEF PortSetsValues, PortHasLock, reading, history, TypeOK
  <1>2. /\ InOrder(todo')
        /\ \A op : Has(todo, op) <=> (Head(todo) = op \/ Has(todo', op))
    BY <1>1, PoppedIs DEF Scaled, Listed
  <1>3. ASSUME faults' = 0
        PROVE  /\ faults = 0
               /\ averaged' = IF Head(todo) = "values" THEN valuesPerRead ELSE averaged
    BY <1>3, NoFaults DEF PortSetsValues, Scaled
  <1>4. ASSUME faults' = 0 PROVE Scales'
    <2>1. Scales
      BY <1>3, <1>4 DEF Scaled
    <2>2. ~Has(todo', "values") => valuesPerRead' = averaged' /\ scaledFor' = averaged'
      <3>1. CASE Head(todo) = "values"
        BY <1>1, <1>3, <1>4, <3>1
      <3>2. CASE Head(todo) = "scale"
        BY <1>1, <1>2, <1>3, <1>4, <2>1, <3>2 DEF Scales
      <3> QED BY <1>1, <3>1, <3>2
    <2> QED BY <1>1, <1>2, <2>1, <2>2 DEF Scales, Fitting
  <1>5. ASSUME faults' = 0, ~disturbed' PROVE Filters'
    BY <1>1, <1>3, <1>5 DEF Scaled, Filters, Fitting
  <1> QED BY <1>1, <1>2, <1>4, <1>5 DEF Scaled, Listed

LEMMA PortReadsStatusScaled == ASSUME Scaled, TypeOK', PortReadsStatus PROVE Scaled'
  <1>1. /\ todo # <<>> /\ Head(todo) = "status" /\ Pop /\ ~waiting'
        /\ UNCHANGED <<pingPong, scaledFor, averaged, phased, reader, filter, disturbed, wrong>>
    BY DEF PortReadsStatus, PortHasLock, reading, module, history, TypeOK
  <1>2. /\ InOrder(todo') /\ ~Has(todo, "values") /\ ~Has(todo, "mode")
        /\ ~Has(todo', "values") /\ ~Has(todo', "mode")
    BY <1>1, PoppedIs DEF Scaled, Listed
  <1>3. ASSUME faults' = 0
        PROVE  /\ faults = 0 /\ valuesPerRead' = averaged /\ doubled' = (pingPong # Both)
    BY <1>3, NoFaults DEF PortReadsStatus, Scaled
  <1>4. ASSUME faults' = 0 PROVE Scales' /\ valuesPerRead' = valuesPerRead
    BY <1>1, <1>2, <1>3, <1>4 DEF Scaled, Scales, Fitting
  <1>5. ASSUME faults' = 0, ~disturbed' PROVE Filters'
    BY <1>1, <1>3, <1>4, <1>5 DEF Scaled, Filters, Fitting
  <1> QED BY <1>1, <1>2, <1>4, <1>5 DEF Scaled, Listed

\* The steps of setAcquire and of what calls it touch no setting.
LEMMA PortAcquiresScaled ==
  ASSUME Scaled, TypeOK', PortStop \/ PortStopped \/ PortStart \/ PortSets
  PROVE  Scaled'
  <1>1. /\ todo # <<>>
        /\ UNCHANGED <<pingPong, valuesPerRead, scaledFor, doubled, averaged, phased,
                       reader, filter, faults, disturbed, wrong>>
    BY DEF PortStop, PortStopped, PortStart, PortSets, PortHasLock, settings, reading, module,
           history, Scaled, TypeOK
  <1>2. \/ UNCHANGED todo /\ waiting' /\ Head(todo) = "stop"
        \/ ~waiting' /\ Head(todo) \in {"start", "clear"} /\ Pop
        \/ ~waiting' /\ Head(todo) \in {"stop", "start"} /\ Expand(<<"mode">>)
        \/ ~waiting' /\ Head(todo) = "resume" /\ Expand(<<IF acquire = 1 THEN "start" ELSE "stop">>)
    BY DEF PortStop, PortStopped, PortStart, PortSets, PortHasLock, Scaled, Listed, TypeOK
  \* What is to be sent is still to be sent, save that a mode may come in.
  <1>3. /\ Listed'
        /\ ~Has(todo, "values") /\ ~Has(todo, "mode")
        /\ Has(todo, "status") <=> Has(todo', "status")
    <2>1. CASE UNCHANGED todo /\ waiting' /\ Head(todo) = "stop"
      BY <1>1, <2>1, HeadTells DEF Scaled, Listed, TypeOK
    <2>2. CASE ~waiting' /\ Head(todo) \in {"start", "clear"} /\ Pop
      BY <1>1, <2>2, PoppedIs DEF Scaled, Listed
    <2>3. CASE ~waiting' /\ Head(todo) \in {"stop", "start"} /\ Expand(<<"mode">>)
      <3>1. "mode" \in Ops
        BY DEF Ops
      <3> QED BY <1>1, <2>3, <3>1, ExpandIs DEF Scaled, Listed
    <2>4. CASE ~waiting' /\ Head(todo) = "resume" /\ Expand(<<IF acquire = 1 THEN "start" ELSE "stop">>)
      <3> DEFINE a == IF acquire = 1 THEN "start" ELSE "stop"
      <3>1. a \in Ops /\ a \in {"start", "stop"} /\ Expand(<<a>>)
        BY <2>4 DEF Ops
      <3> HIDE DEF a
      <3> QED BY <1>1, <2>4, <3>1, ExpandIs DEF Scaled, Listed
    <2> QED BY <1>2, <2>1, <2>2, <2>3, <2>4
  <1>4. faults' = 0 => Scales'
    BY <1>1, <1>3 DEF Scaled, Scales, Fitting
  <1>5. faults' = 0 /\ ~disturbed' => Filters'
    BY <1>1 DEF Scaled, Filters, Fitting
  <1> QED BY <1>1, <1>3, <1>4, <1>5 DEF Scaled

LEMMA CallScaled ==
  ASSUME Scaled, TypeOK', NEW ops, NEW isSetting \in BOOLEAN, Call(ops, isSetting), InOrder(ops),
         pingPong' = pingPong \/ (isSetting /\ Has(ops, "mode") /\ Has(ops, "status")),
         \/ valuesPerRead' = valuesPerRead
         \/ isSetting /\ Has(ops, "values") /\ Has(ops, "status")
  PROVE  Scaled'
  <1>1. /\ todo = <<>> /\ todo' = ops /\ waiting' = waiting /\ ~waiting
        /\ UNCHANGED <<scaledFor, doubled, averaged, phased, reader, filter, faults, wrong>>
        /\ ~disturbed' => ~disturbed /\ (isSetting => reader = "asleep")
    BY DEF Call, reading, module, Scaled, TypeOK
  <1>2. Has(ops, "values") => Has(ops, "mode")
    BY DEF InOrder
  <1>3. \A op : ~Has(todo, op)
    BY <1>1, CallsHave
  <1>4. faults' = 0 => Scales'
    <2> SUFFICES ASSUME faults' = 0 PROVE Scales'
      OBVIOUS
    <2>1. /\ valuesPerRead = averaged /\ scaledFor = averaged /\ Fitting
          /\ phased = (pingPong # Both) /\ doubled = (pingPong # Both)
      BY <1>1, <1>3 DEF Scaled, Scales
    <2>2. ~Has(ops, "values") => valuesPerRead' = averaged' /\ scaledFor' = averaged'
      BY <1>1, <2>1
    <2>3. ~Has(ops, "mode") => Fitting' /\ phased' = (pingPong' # Both)
      BY <1>1, <1>2, <2>1 DEF Fitting
    <2>4. ~Has(ops, "status") => Fitting' /\ doubled' = (pingPong' # Both)
      BY <1>1, <2>1 DEF Fitting
    <2> QED BY <1>1, <2>2, <2>3, <2>4 DEF Scales
  <1>5. faults' = 0 /\ ~disturbed' => Filters'
    BY <1>1 DEF Scaled, Filters, Fitting
  <1> QED BY <1>1, <1>4, <1>5 DEF Scaled, Listed

LEMMA ClientScaled == ASSUME Scaled, TypeOK', Client PROVE Scaled'
  <1>1. ASSUME NEW v \in {0, 1}, WriteAcquire(v) PROVE Scaled'
    <2> DEFINE a == IF v = 1 THEN "start" ELSE "stop"
    <2>1. a \in {"start", "stop"} /\ Call(<<a>>, FALSE) /\ UNCHANGED <<pingPong, valuesPerRead>>
      BY <1>1 DEF WriteAcquire
    <2> HIDE DEF a
    <2>2. InOrder(<<a>>)
      BY <2>1, CallsHave
    <2> QED BY <2>1, <2>2, CallScaled
  <1>2. ASSUME NEW m \in Modes, WriteAcquireMode(m) PROVE Scaled'
    <2> DEFINE ops == IF m = "Continuous" THEN <<"status">> ELSE <<"stop", "clear", "status">>
    <2>1. Call(ops, FALSE) /\ UNCHANGED <<pingPong, valuesPerRead>>
      BY <1>2 DEF WriteAcquireMode
    <2>2. InOrder(ops)
      BY CallsHave
    <2> HIDE DEF ops
    <2> QED BY <2>1, <2>2, CallScaled
  <1>3. ASSUME NEW p \in PingPongs, WritePingPong(p) PROVE Scaled'
    <2> DEFINE ops == <<"mode", "status">>
    <2>1. Call(ops, TRUE) /\ UNCHANGED valuesPerRead
      BY <1>3 DEF WritePingPong
    <2>2. InOrder(ops) /\ Has(ops, "mode") /\ Has(ops, "status")
      BY CallsHave
    <2> HIDE DEF ops
    <2> QED BY <2>1, <2>2, CallScaled
  <1>4. ASSUME NEW v \in ValuesPerReads, WriteValuesPerRead(v) PROVE Scaled'
    <2> DEFINE ops == <<"values", "mode", "status">>
    <2>1. Call(ops, TRUE) /\ UNCHANGED pingPong
      BY <1>4 DEF WriteValuesPerRead
    <2>2. InOrder(ops) /\ Has(ops, "values") /\ Has(ops, "status")
      BY CallsHave
    <2> HIDE DEF ops
    <2> QED BY <2>1, <2>2, CallScaled
  <1>5. CASE WriteScale
    <2> DEFINE ops == <<"scale", "status">>
    <2>1. Call(ops, FALSE) /\ UNCHANGED <<pingPong, valuesPerRead>>
      BY <1>5 DEF WriteScale
    <2>2. InOrder(ops)
      BY CallsHave
    <2> HIDE DEF ops
    <2> QED BY <2>1, <2>2, CallScaled
  <1>6. CASE WriteReset
    <2> DEFINE ops == <<"scale", "values", "mode", "scale", "status", "resume", "status">>
    <2>1. Call(ops, TRUE) /\ UNCHANGED <<pingPong, valuesPerRead>>
      BY <1>6 DEF WriteReset
    <2>2. InOrder(ops)
      BY CallsHave
    <2> HIDE DEF ops
    <2> QED BY <2>1, <2>2, CallScaled
  <1> QED BY <1>1, <1>2, <1>3, <1>4, <1>5, <1>6 DEF Client

LEMMA TaskScaled == ASSUME Scaled, TypeOK', Task PROVE Scaled'
  <1>1. LockFree => ~Has(todo, "mode")
    BY NothingHalfMade DEF Scaled
  <1>2. CASE TaskDelivers \/ (TaskStops /\ UNCHANGED <<settings, module, faults>>)
    <2>1. /\ UNCHANGED <<pingPong, valuesPerRead, scaledFor, doubled, averaged, phased, todo,
                         waiting, reader, filter, faults, wrong>>
          /\ ~disturbed' => ~disturbed
      BY <1>2 DEF TaskDelivers, TaskStops, settings, module, reading, port, history, Scaled, TypeOK
    <2> QED BY <2>1 DEF Scaled, Listed, Scales, Filters, Fitting
  <1>3. CASE TaskStops /\ SetMode(0)
    <2>1. UNCHANGED <<todo, waiting, reader, filter, wrong>> /\ (~disturbed' => ~disturbed)
      BY <1>3 DEF TaskStops, reading, port, Scaled, TypeOK
    <2>2. LockFree
      BY <1>3 DEF TaskStops
    <2> QED BY <1>1, <1>3, <2>1, <2>2, SetModeScaled
  <1>4. CASE TaskStopped
    <2>1. /\ UNCHANGED <<todo, waiting, reader, filter, wrong>> /\ (~disturbed' => ~disturbed)
          /\ LockFree /\ SetMode(acquiring)
      BY <1>4 DEF TaskStopped, reading, port, Scaled, TypeOK
    <2> QED BY <1>1, <2>1, SetModeScaled
  <1>5. TaskStops => SetMode(0) \/ UNCHANGED <<settings, module, faults>>
    BY DEF TaskStops
  <1> QED BY <1>2, <1>3, <1>4, <1>5 DEF Task

LEMMA NextScaled == Scaled /\ [Next]_vars => Scaled'
  <1> SUFFICES ASSUME Scaled, [Next]_vars PROVE Scaled'
    OBVIOUS
  <1>1. TypeOK'
    BY NextType DEF Scaled
  <1>2. CASE UNCHANGED vars
    <2>1. UNCHANGED <<pingPong, valuesPerRead, scaledFor, doubled, averaged, phased, todo,
                      waiting, reader, filter, faults, disturbed, wrong>>
      BY <1>2 DEF vars, settings, module, reading, port, history
    <2> QED BY <1>1, <2>1 DEF Scaled, Listed, Scales, Filters, Fitting
  <1> QED BY <1>1, <1>2, ReaderScaled, PortSetsModeScaled, PortSetsValuesScaled,
         PortReadsStatusScaled, PortAcquiresScaled, ClientScaled, TaskScaled DEF Next, Port

\* Whatever is written in whatever order, each list leaves the settings in step, and
\* a failed command is the only excuse.
THEOREM ScaledInvariance == Spec => []Scaled
  <1>1. Init => Scaled
    <2> SUFFICES ASSUME Init PROVE Scaled
      OBVIOUS
    <2> QED BY InitType, CallsHave
        DEF Init, Scaled, Listed, Scales, Filters, Fitting
  <1> QED BY <1>1, NextScaled, PTL DEF Spec

\* Between calls the scale factor, ValuesPerRead, SampleTime and the module agree, for
\* any values and phases, whoever calls setMode in between.
THEOREM SettingsAgree == Spec => []ScaleIsTrue
  <1>1. Scaled => ScaleIsTrue
    <2> SUFFICES ASSUME Scaled, todo = <<>>, faults = 0
                 PROVE  /\ scaledFor = averaged /\ valuesPerRead = averaged
                        /\ doubled = (pingPong # Both) /\ phased = doubled
                        /\ doubled => averaged = 1
      BY DEF ScaleIsTrue
    <2> QED BY CallsHave DEF Scaled, Scales, Fitting
  <1> QED BY <1>1, ScaledInvariance, PTL

\* No reading of another phase than the client's is used, although the read thread took
\* the phase when it woke: no list changes PingPong once its client has it.
THEOREM PhaseLetThrough == Spec => []PhaseIsTrue
  <1>1. Scaled => PhaseIsTrue
    BY DEF Scaled, PhaseIsTrue
  <1> QED BY <1>1, ScaledInvariance, PTL
-----------------------------------------------------------------------------
(***************************************************************************)
(* No reading is sent to nobody: a driver that acquires has its read       *)
(* thread awake or told to wake, and a module that runs while the driver   *)
(* does not acquire is about to be told.                                   *)
(***************************************************************************)
Awake == acquiring = 1 => reader # "asleep" \/ event

SomebodyMinds ==
  \/ acquiring = 1
  \/ task = "stop"
  \/ waiting
  \/ todo # <<>> /\ Head(todo) = "mode"

Minded == Scaled /\ Awake /\ (running /\ heard => SomebodyMinds)

\* What setMode is heard to say is what it was to say.
LEMMA SaidAndHeard ==
  ASSUME TypeOK, NEW flag, SetMode(flag), running', heard'
  PROVE  flag = 1
  BY DEF SetMode, Fails, TypeOK

LEMMA ReaderKeeps ==
  ASSUME Minded, Reader
  PROVE  /\ UNCHANGED <<acquiring, acquire, todo, waiting, task, running, heard, faults,
                        disturbed>>
         /\ Awake'
  <1> USE DEF Awake, Minded, control, port, module, history
  <1>1. CASE ReaderWakes
    BY <1>1 DEF ReaderWakes
  <1>2. CASE ReaderStarts
    BY <1>2 DEF ReaderStarts
  <1>3. CASE ReaderReads
    BY <1>3 DEF ReaderReads, ReaderLoops
  <1>4. CASE ReaderReadsNothing
    BY <1>4 DEF ReaderReadsNothing, ReaderLoops
  <1> QED BY <1>1, <1>2, <1>3, <1>4 DEF Reader

\* The port thread in setAcquire and in what calls it: the cases, and what they set.
LEMMA PortAcquires ==
  ASSUME Scaled, PortStop \/ PortStopped \/ PortStart \/ PortSets
  PROVE  /\ todo # <<>> /\ InOrder(todo)
         /\ UNCHANGED <<reader, task, running, heard, faults, disturbed>>
         /\ \/ /\ Head(todo) = "stop" /\ UNCHANGED todo /\ waiting' /\ ~waiting
               /\ acquiring' = 0 /\ UNCHANGED <<event, acquire>>
            \/ /\ Head(todo) = "stop" /\ Expand(<<"mode">>) /\ ~waiting'
               /\ acquiring' = 0 \/ (waiting /\ UNCHANGED acquiring)
               /\ UNCHANGED <<event, acquire>>
            \/ /\ Head(todo) = "start" /\ ~waiting /\ ~waiting' /\ UNCHANGED acquire
               /\ \/ acquiring = 1 /\ Pop /\ UNCHANGED <<acquiring, event>>
                  \/ acquiring = 0 /\ Expand(<<"mode">>) /\ event' /\ acquiring' = 1
            \/ /\ Head(todo) = "resume" /\ ~waiting /\ ~waiting'
               /\ Expand(<<IF acquire = 1 THEN "start" ELSE "stop">>)
               /\ UNCHANGED <<acquire, acquiring, event>>
            \/ /\ Head(todo) = "clear" /\ ~waiting /\ ~waiting' /\ Pop /\ acquire' = 0
               /\ UNCHANGED <<acquiring, event>>
  <1> USE DEF Scaled, Listed, TypeOK, control, driver, reading, module, history
  <1>1. CASE PortStop
    BY <1>1 DEF PortStop, PortHasLock
  <1>2. CASE PortStopped
    BY <1>2 DEF PortStopped
  <1>3. CASE PortStart
    BY <1>3 DEF PortStart, PortHasLock
  <1>4. CASE PortSets
    BY <1>4 DEF PortSets, PortHasLock
  <1> QED BY <1>1, <1>2, <1>3, <1>4

\* The port thread with the module.
LEMMA PortCommands ==
  ASSUME Scaled, PortSetsMode \/ PortSetsValues \/ PortReadsStatus
  PROVE  /\ todo # <<>> /\ InOrder(todo) /\ ~waiting /\ ~waiting' /\ Pop
         /\ UNCHANGED <<reader, event, task, acquiring, acquire, disturbed>>
         /\ \/ Head(todo) = "mode" /\ SetMode(acquiring)
            \/ Head(todo) \in {"values", "scale", "status"} /\ UNCHANGED <<running, heard>>
  BY DEF Scaled, Listed, TypeOK, control, driver, reading, module, history, PortSetsMode,
         PortSetsValues, PortReadsStatus, PortHasLock

\* What no call of a client changes.
LEMMA ClientKeeps ==
  ASSUME Client
  PROVE  /\ todo = <<>>
         /\ UNCHANGED <<acquiring, event, reader, waiting, task, running, heard, faults>>
         /\ ~disturbed' => ~disturbed /\ task # "stop"
  <1> DEFINE Kept ==
               /\ todo = <<>>
               /\ UNCHANGED <<acquiring, event, reader, waiting, task, running, heard, faults>>
               /\ ~disturbed' => ~disturbed /\ task # "stop"
  <1>1. ASSUME NEW ops, Call(ops, TRUE) \/ Call(ops, FALSE) PROVE Kept
    BY <1>1 DEF Call, driver, reading, module
  <1> HIDE DEF Kept
  <1>2. ASSUME NEW v \in {0, 1}, WriteAcquire(v) PROVE Kept
    BY <1>1, <1>2 DEF WriteAcquire
  <1>3. ASSUME NEW m \in Modes, WriteAcquireMode(m) PROVE Kept
    BY <1>1, <1>3 DEF WriteAcquireMode
  <1>4. ASSUME NEW p \in PingPongs, WritePingPong(p) PROVE Kept
    BY <1>1, <1>4 DEF WritePingPong
  <1>5. ASSUME NEW v \in ValuesPerReads, WriteValuesPerRead(v) PROVE Kept
    BY <1>1, <1>5 DEF WriteValuesPerRead
  <1>6. ASSUME WriteScale PROVE Kept
    BY <1>1, <1>6 DEF WriteScale
  <1>7. ASSUME WriteReset PROVE Kept
    BY <1>1, <1>7 DEF WriteReset
  <1>8. Kept
    BY <1>2, <1>3, <1>4, <1>5, <1>6, <1>7 DEF Client
  <1> QED BY <1>8 DEF Kept

LEMMA TaskKeeps ==
  ASSUME Scaled, Task
  PROVE  /\ LockFree /\ UNCHANGED <<todo, waiting, reader, event>>
         /\ \/ UNCHANGED <<acquiring, acquire, task, running, heard, faults, disturbed>>
            \/ /\ task = "idle" /\ acquiring' = 0 /\ (~disturbed' => ~disturbed /\ ~waiting)
               /\ \/ SetMode(0) /\ acquire' = 0 /\ UNCHANGED task
                  \/ task' = "stop" /\ UNCHANGED <<acquire, running, heard, faults>>
            \/ /\ task = "stop" /\ UNCHANGED <<acquiring, disturbed>>
               /\ SetMode(acquiring) /\ acquire' = 0 /\ task' = "idle"
  <1> USE DEF Scaled, TypeOK, control, driver, reading, port, module, history
  <1>1. CASE TaskDelivers
    BY <1>1 DEF TaskDelivers
  <1>2. CASE TaskStops
    BY <1>2 DEF TaskStops
  <1>3. CASE TaskStopped
    BY <1>3 DEF TaskStopped
  <1> QED BY <1>1, <1>2, <1>3 DEF Task

LEMMA NextMinded == Minded /\ [Next]_vars => Minded'
  <1> SUFFICES ASSUME Minded, [Next]_vars PROVE Minded'
    OBVIOUS
  <1>0. Scaled' /\ "mode" \in Ops /\ TypeOK
    BY NextScaled DEF Minded, Scaled, Ops
  <1> SUFFICES Awake' /\ (running' /\ heard' => SomebodyMinds')
    BY <1>0 DEF Minded
  <1> USE DEF Minded, Awake, SomebodyMinds
  <1>1. CASE Reader
    BY <1>1, ReaderKeeps
  <1>2. CASE PortStop \/ PortStopped \/ PortStart \/ PortSets
    <2>1. /\ todo # <<>> /\ InOrder(todo)
          /\ UNCHANGED <<reader, task, running, heard>>
          /\ acquiring' = 1 => event' \/ (acquiring = 1 /\ UNCHANGED event)
          /\ \/ waiting' \/ acquiring' = 1
             \/ Head(todo) \in {"stop", "start"} /\ Expand(<<"mode">>)
             \/ Head(todo) \in {"resume", "clear"} /\ ~waiting /\ UNCHANGED acquiring
      BY <1>2, PortAcquires DEF Scaled, TypeOK
    <2>2. Head(todo) \in {"stop", "start"} /\ Expand(<<"mode">>) => todo' # <<>> /\ Head(todo') = "mode"
      BY <1>0, <2>1, ExpandIs
    <2> QED BY <2>1, <2>2
  <1>3. CASE PortSetsMode \/ PortSetsValues \/ PortReadsStatus
    <2>1. /\ UNCHANGED <<reader, event, task, acquiring>> /\ ~waiting
          /\ SetMode(acquiring) \/ (Head(todo) # "mode" /\ UNCHANGED <<running, heard>>)
      BY <1>3, PortCommands
    <2> QED BY <1>0, <2>1, SaidAndHeard
  <1>4. CASE Client
    BY <1>4, ClientKeeps
  <1>5. CASE Task
    BY <1>0, <1>5, TaskKeeps, SaidAndHeard DEF LockFree, PortHasLock, Scaled, TypeOK
  <1>6. CASE UNCHANGED vars
    BY <1>6 DEF vars, driver, reading, port, module, history
  <1> QED BY <1>1, <1>2, <1>3, <1>4, <1>5, <1>6 DEF Next, Port

\* The module does not send its readings to nobody, whatever commands fail and whoever
\* meets in setAcquire: as long as it heard setMode last.
THEOREM NoReadingUnread == Spec => []SendsToNobody
  <1>1. Init /\ Scaled => Minded
    BY DEF Init, Minded, Awake
  <1>2. Minded => SendsToNobody
    BY DEF Minded, Scaled, Awake, SomebodyMinds, SendsToNobody, AtRest, TypeOK
  <1> QED BY <1>1, <1>2, ScaledInvariance, NextMinded, PTL DEF Spec

-----------------------------------------------------------------------------
(***************************************************************************)
(* Acquire tells the truth: while nothing is disturbed the module runs     *)
(* when the driver acquires, save where a mode is to be sent, and Acquire  *)
(* is what the driver does or what its list is to end in.                  *)
(***************************************************************************)
Agrees ==
  (task = "idle" /\ ~Has(todo, "clear")) =>
     (acquire = 1 <=> \/ acquiring = 1 /\ (todo = <<>> \/ Head(todo) # "stop")
                      \/ Has(todo, "start"))

Runs ==
  (task = "idle" /\ ~waiting /\ (todo = <<>> \/ Head(todo) # "mode")) =>
     (running <=> acquiring = 1)

Stopping ==
  /\ task = "stop" => todo = <<>> /\ acquiring = 0
  /\ waiting => acquiring = 0
  /\ Has(todo, "clear") /\ Head(todo) # "stop" => acquiring = 0

Quiet == Minded /\ (faults = 0 /\ ~disturbed => Agrees /\ Runs /\ Stopping)

\* A step between two states in which nothing has failed and nothing has met.
QuietStep ==
  /\ Scaled /\ faults = 0 /\ ~disturbed /\ Agrees /\ Runs /\ Stopping
  /\ Scaled' /\ faults' = 0 /\ ~disturbed'

LEMMA ReaderQuiet == ASSUME QuietStep, Minded, Reader PROVE (Agrees /\ Runs /\ Stopping)'
  BY ReaderKeeps DEF QuietStep, Agrees, Runs, Stopping

LEMMA PortAcquiresQuiet ==
  ASSUME QuietStep, PortStop \/ PortStopped \/ PortStart \/ PortSets
  PROVE  (Agrees /\ Runs /\ Stopping)'
  <1>1. /\ todo # <<>> /\ InOrder(todo) /\ TypeOK /\ task = "idle" /\ task' = "idle"
        /\ running' = running /\ todo \in Seq(Ops)
        /\ acquiring \in {0, 1} /\ acquire \in {0, 1}
    BY PortAcquires DEF QuietStep, Scaled, Stopping, TypeOK
  <1>2. /\ Has(todo, "clear") => ~Has(todo, "start") /\ ~Has(todo, "resume")
        /\ Has(todo, Head(todo))
    BY <1>1, HasTail DEF InOrder
  <1>3. /\ "mode" \in Ops
        /\ (IF acquire = 1 THEN "start" ELSE "stop") \in Ops \cap {"start", "stop"}
    BY DEF Ops
  <1>4. CASE Head(todo) = "stop"
    <2>1. acquiring' = 0 /\ acquire' = acquire
      BY <1>1, <1>4, PortAcquires DEF QuietStep, Stopping
    <2>2. CASE waiting'
      <3>1. UNCHANGED todo
        BY <1>4, <2>2, PortAcquires DEF QuietStep
      <3> QED BY <1>1, <1>4, <2>1, <2>2, <3>1 DEF QuietStep, Agrees, Runs, Stopping
    <2>3. CASE ~waiting'
      <3>1. Expand(<<"mode">>)
        BY <1>4, <2>3, PortAcquires DEF QuietStep
      <3>2. /\ todo' # <<>> /\ Head(todo') = "mode"
            /\ \A op \in {"clear", "start"} : Has(todo', op) <=> Has(todo, op)
        BY <1>1, <1>3, <1>4, <3>1, ExpandIs
      <3> QED BY <1>1, <1>4, <2>1, <2>3, <3>2 DEF QuietStep, Agrees, Runs, Stopping
    <2> QED BY <2>2, <2>3
  <1>5. CASE Head(todo) = "start"
    <2>1. Has(todo, "start") /\ ~Has(todo, "clear") /\ acquire = 1
      BY <1>1, <1>2, <1>5 DEF QuietStep, Agrees
    <2>2. ~waiting /\ ~waiting' /\ acquire' = 1 /\ acquiring' = 1
      BY <1>5, <2>1, PortAcquires DEF QuietStep
    <2>3. CASE acquiring = 1
      <3>1. Pop
        BY <1>5, <2>3, PortAcquires DEF QuietStep
      <3>2. ~Has(todo', "clear") /\ (todo' # <<>> => Head(todo') # "stop")
        BY <1>1, <2>1, <3>1, PoppedIs
      <3> QED BY <1>1, <1>5, <2>2, <2>3, <3>2 DEF QuietStep, Agrees, Runs, Stopping
    <2>4. CASE acquiring = 0
      <3>1. Expand(<<"mode">>)
        BY <1>5, <2>4, PortAcquires DEF QuietStep
      <3>2. todo' # <<>> /\ Head(todo') = "mode" /\ ~Has(todo', "clear")
        BY <1>1, <1>3, <1>5, <2>1, <3>1, ExpandIs
      <3> QED BY <1>1, <2>2, <3>2 DEF Agrees, Runs, Stopping
    <2> QED BY <1>1, <2>3, <2>4
  <1>6. CASE Head(todo) = "resume"
    <2> DEFINE a == IF acquire = 1 THEN "start" ELSE "stop"
    <2>1. /\ Expand(<<a>>) /\ a \in Ops /\ a \in {"start", "stop"} /\ (a = "start" <=> acquire = 1)
      BY <1>3, <1>6, PortAcquires DEF QuietStep
    <2>2. ~waiting /\ ~waiting' /\ acquire' = acquire /\ acquiring' = acquiring
      BY <1>6, PortAcquires DEF QuietStep
    <2> HIDE DEF a
    <2>3. /\ todo' # <<>> /\ Head(todo') = a /\ ~Has(todo, "start") /\ ~Has(todo, "clear")
          /\ ~Has(todo', "clear") /\ (Has(todo', "start") <=> a = "start")
      BY <1>1, <1>2, <1>6, <2>1, ExpandIs
    <2>4. acquire = 1 <=> acquiring = 1
      BY <1>1, <1>6, <2>3 DEF QuietStep, Agrees
    <2>5. Agrees'
      BY <2>1, <2>2, <2>3, <2>4 DEF Agrees
    <2>6. Runs'
      BY <1>1, <1>6, <2>2 DEF QuietStep, Runs
    <2> QED BY <1>1, <2>2, <2>3, <2>5, <2>6 DEF Stopping
  <1>7. CASE Head(todo) = "clear"
    <2>1. Pop /\ ~waiting /\ ~waiting' /\ acquire' = 0 /\ acquiring' = acquiring
      BY <1>7, PortAcquires DEF QuietStep
    <2>2. acquiring = 0 /\ ~Has(todo', "start")
      BY <1>1, <1>2, <1>7, <2>1, PoppedIs DEF QuietStep, Stopping
    <2> QED BY <1>1, <1>7, <2>1, <2>2 DEF QuietStep, Agrees, Runs, Stopping
  <1> QED BY <1>4, <1>5, <1>6, <1>7, PortAcquires DEF QuietStep

LEMMA PortCommandsQuiet ==
  ASSUME QuietStep, PortSetsMode \/ PortSetsValues \/ PortReadsStatus
  PROVE  (Agrees /\ Runs /\ Stopping)'
  <1>1. /\ todo # <<>> /\ InOrder(todo) /\ TypeOK /\ ~waiting /\ ~waiting' /\ Pop
        /\ task = "idle" /\ UNCHANGED <<task, acquiring, acquire>>
        /\ Head(todo) \in {"mode", "values", "scale", "status"}
    BY PortCommands DEF QuietStep, Scaled, Stopping, TypeOK
  <1>2. /\ \A op \in {"clear", "start"} : Has(todo', op) <=> Has(todo, op)
        /\ todo' # <<>> => Head(todo') # "stop"
    BY <1>1, PoppedIs
  <1>3. running' <=> acquiring = 1
    <2>1. CASE SetMode(acquiring)
      BY <1>1, <2>1, ModeIsSet DEF QuietStep
    <2>2. CASE Head(todo) # "mode" /\ UNCHANGED running
      BY <1>1, <2>2 DEF QuietStep, Runs
    <2> QED BY <2>1, <2>2, PortCommands DEF QuietStep
  <1>4. Agrees'
    BY <1>1, <1>2 DEF QuietStep, Agrees
  <1>5. Runs'
    BY <1>1, <1>3 DEF Runs
  <1>6. Stopping'
    BY <1>1, <1>2 DEF QuietStep, Stopping
  <1> QED BY <1>4, <1>5, <1>6

LEMMA ClientQuiet == ASSUME QuietStep, Client PROVE (Agrees /\ Runs /\ Stopping)'
  <1>1. /\ todo = <<>> /\ task = "idle" /\ ~waiting
        /\ ~waiting' /\ UNCHANGED <<acquiring, task, running>>
    BY ClientKeeps DEF QuietStep, Scaled, TypeOK
  <1>2. (acquire = 1 <=> acquiring = 1) /\ (running <=> acquiring = 1)
    BY <1>1, CallsHave DEF QuietStep, Agrees, Runs
  <1>3. Runs'
    BY <1>1, <1>2 DEF Runs
  \* A call that leaves Acquire alone, and neither starts nor stops.
  <1>4. ASSUME acquire' = acquire, todo' # <<>>, Head(todo') # "stop",
               ~Has(todo', "start"), ~Has(todo', "clear")
        PROVE  Agrees' /\ Stopping'
    BY <1>1, <1>2, <1>4 DEF Agrees, Stopping
  <1>5. ASSUME NEW v \in {0, 1}, WriteAcquire(v) PROVE Agrees' /\ Stopping'
    <2> DEFINE a == IF v = 1 THEN "start" ELSE "stop"
    <2>1. a \in {"start", "stop"} /\ (a = "start" <=> v = 1) /\ todo' = <<a>> /\ acquire' = v
      BY <1>5 DEF WriteAcquire, Call
    <2> HIDE DEF a
    <2>2. todo' # <<>> /\ Head(todo') = a /\ \A op : Has(todo', op) <=> op = a
      BY <2>1, CallsHave
    <2>3. Agrees'
      BY <2>1, <2>2 DEF Agrees
    <2> QED BY <1>1, <2>1, <2>2, <2>3 DEF Stopping
  <1>6. ASSUME NEW m \in Modes, WriteAcquireMode(m) PROVE Agrees' /\ Stopping'
    <2>1. CASE m = "Continuous"
      <3>1. todo' = <<"status">> /\ acquire' = acquire
        BY <1>6, <2>1 DEF WriteAcquireMode, Call
      <3> QED BY <1>4, <3>1, CallsHave
    <2>2. CASE m # "Continuous"
      <3>1. todo' = <<"stop", "clear", "status">>
        BY <1>6, <2>2 DEF WriteAcquireMode, Call
      <3>2. Head(todo') = "stop" /\ Has(todo', "clear")
        BY <3>1, CallsHave
      <3> QED BY <1>1, <3>2 DEF Agrees, Stopping
    <2> QED BY <2>1, <2>2
  <1>7. ASSUME NEW p \in PingPongs, WritePingPong(p) PROVE Agrees' /\ Stopping'
    <2>1. todo' = <<"mode", "status">> /\ acquire' = acquire
      BY <1>7 DEF WritePingPong, Call
    <2> QED BY <1>4, <2>1, CallsHave
  <1>8. ASSUME NEW v \in ValuesPerReads, WriteValuesPerRead(v) PROVE Agrees' /\ Stopping'
    <2>1. todo' = <<"values", "mode", "status">> /\ acquire' = acquire
      BY <1>8 DEF WriteValuesPerRead, Call
    <2> QED BY <1>4, <2>1, CallsHave
  <1>9. CASE WriteScale
    <2>1. todo' = <<"scale", "status">> /\ acquire' = acquire
      BY <1>9 DEF WriteScale, Call
    <2>2. LET s == <<"scale", "status">>
          IN  s # <<>> /\ Head(s) = "scale" /\ \A op : Has(s, op) <=> op \in {"scale", "status"}
      BY CallsHave
    <2>3. todo' # <<>> /\ Head(todo') = "scale" /\ ~Has(todo', "start") /\ ~Has(todo', "clear")
      BY <2>1, <2>2
    <2> QED BY <1>3, <1>4, <2>1, <2>3
  <1>10. CASE WriteReset
    <2>1. /\ todo' = <<"scale", "values", "mode", "scale", "status", "resume", "status">>
          /\ acquire' = acquire
      BY <1>10 DEF WriteReset, Call
    <2>2. LET s == <<"scale", "values", "mode", "scale", "status", "resume", "status">>
          IN  /\ s # <<>> /\ Head(s) = "scale"
              /\ \A op : Has(s, op) <=> op \in {"scale", "values", "mode", "status", "resume"}
      BY CallsHave
    <2>3. todo' # <<>> /\ Head(todo') = "scale" /\ ~Has(todo', "start") /\ ~Has(todo', "clear")
      BY <2>1, <2>2
    <2> QED BY <1>3, <1>4, <2>1, <2>3
  <1> QED BY <1>3, <1>5, <1>6, <1>7, <1>8, <1>9, <1>10 DEF Client

LEMMA TaskQuiet == ASSUME QuietStep, Task PROVE (Agrees /\ Runs /\ Stopping)'
  <1>1. LockFree /\ UNCHANGED <<todo, waiting>> /\ TypeOK
    BY TaskKeeps DEF QuietStep, Scaled
  <1>2. CASE UNCHANGED <<acquiring, acquire, task, running>>
    BY <1>1, <1>2 DEF QuietStep, Agrees, Runs, Stopping
  \* With no call under way, all that matters is that the driver is off.
  <1>3. ASSUME todo = <<>>, acquiring' = 0,
               task' = "stop" \/ (task' = "idle" /\ ~running' /\ acquire' = 0)
        PROVE  (Agrees /\ Runs /\ Stopping)'
    <2>1. todo' = <<>> /\ ~waiting'
      BY <1>1, <1>3 DEF TypeOK
    <2> QED BY <1>3, <2>1, CallsHave DEF Agrees, Runs, Stopping
  <1>4. CASE task = "idle" /\ acquiring' = 0 /\ ~waiting /\ SetMode(0) /\ acquire' = 0 /\ UNCHANGED task
    <2>1. ~running'
      BY <1>1, <1>4, ModeIsSet DEF QuietStep
    <2> QED BY <1>1, <1>3, <1>4, <2>1 DEF LockFree, PortHasLock
  <1>5. CASE task = "idle" /\ acquiring' = 0 /\ ~waiting /\ task' = "stop"
    BY <1>1, <1>3, <1>5 DEF LockFree, PortHasLock
  <1>6. CASE task = "stop" /\ UNCHANGED acquiring /\ SetMode(acquiring) /\ acquire' = 0 /\ task' = "idle"
    <2>1. todo = <<>> /\ acquiring = 0
      BY <1>6 DEF QuietStep, Stopping
    <2>2. ~running'
      BY <1>1, <1>6, <2>1, ModeIsSet DEF QuietStep
    <2> QED BY <1>3, <1>6, <2>1, <2>2
  <1> QED BY <1>2, <1>4, <1>5, <1>6, TaskKeeps DEF QuietStep

\* What has failed or met has done so for good.
LEMMA StaysDisturbed ==
  ASSUME TypeOK, [Next]_vars, faults' = 0, ~disturbed'
  PROVE  faults = 0 /\ ~disturbed
  <1> USE DEF TypeOK
  <1>1. ~Fails /\ (Answered => faults = 0)
    BY NoFaults
  <1>2. CASE Reader
    BY <1>2 DEF Reader, ReaderWakes, ReaderStarts, ReaderReads, ReaderReadsNothing, history
  <1>3. CASE PortSetsMode
    BY <1>1, <1>3 DEF PortSetsMode, SetMode, Answered
  <1>4. CASE PortSetsValues \/ PortReadsStatus
    BY <1>1, <1>4 DEF PortSetsValues, PortReadsStatus, history
  <1>5. CASE PortStop \/ PortStopped \/ PortStart \/ PortSets
    BY <1>5 DEF PortStop, PortStopped, PortStart, PortSets, history
  <1>6. CASE Client
    BY <1>6, ClientKeeps
  <1>7. CASE TaskDelivers
    BY <1>7 DEF TaskDelivers, history
  <1>8. CASE TaskStops
    BY <1>1, <1>8 DEF TaskStops, SetMode, Answered
  <1>9. CASE TaskStopped
    BY <1>1, <1>9 DEF TaskStopped, SetMode, Answered
  <1>10. CASE UNCHANGED vars
    BY <1>10 DEF vars, history
  <1> QED BY <1>2, <1>3, <1>4, <1>5, <1>6, <1>7, <1>8, <1>9, <1>10 DEF Next, Port, Task

LEMMA NextQuiet == Quiet /\ [Next]_vars => Quiet'
  <1> SUFFICES ASSUME Quiet, [Next]_vars PROVE Quiet'
    OBVIOUS
  <1>1. Minded'
    BY NextMinded DEF Quiet
  <1> SUFFICES ASSUME faults' = 0, ~disturbed' PROVE (Agrees /\ Runs /\ Stopping)'
    BY <1>1 DEF Quiet
  <1>2. QuietStep /\ Minded
    BY <1>1, StaysDisturbed DEF Quiet, QuietStep, Minded, Scaled
  <1>3. CASE UNCHANGED vars
    BY <1>2, <1>3 DEF vars, driver, control, port, module, QuietStep, Agrees, Runs, Stopping
  <1> QED BY <1>2, <1>3, ReaderQuiet, PortAcquiresQuiet, PortCommandsQuiet, ClientQuiet,
         TaskQuiet DEF Next, Port

\* At rest, Acquire says what the driver and the module do, and the read thread reads or
\* is about to, with any settings written while readings come: although a stop may
\* overtake the read thread's start.
THEOREM AcquireTellsTheTruth == Spec => []AcquireIsTrue
  <1>1. Init /\ Minded => Quiet
    BY CallsHave DEF Init, Quiet, Agrees, Runs, Stopping
  <1>2. Quiet => AcquireIsTrue
    <2> SUFFICES ASSUME Quiet, AtRest, faults = 0, ~disturbed
                 PROVE  /\ acquire = acquiring
                        /\ running <=> acquire = 1
                        /\ acquire = 1 => reader # "asleep" \/ event
      BY DEF AcquireIsTrue
    <2>1. /\ todo = <<>> /\ task = "idle" /\ ~waiting /\ Awake
          /\ acquiring \in {0, 1} /\ acquire \in {0, 1}
      BY DEF Quiet, Minded, Scaled, TypeOK, AtRest
    <2>2. (acquire = 1 <=> acquiring = 1) /\ (running <=> acquiring = 1)
      BY <2>1, CallsHave DEF Quiet, Agrees, Runs
    <2> QED BY <2>1, <2>2 DEF Awake
  <1>3. Init /\ Scaled => Minded
    BY DEF Init, Minded, Awake
  <1> QED BY <1>1, <1>2, <1>3, ScaledInvariance, NextQuiet, PTL DEF Spec
=============================================================================
