----------------------------- MODULE NSLS2Proofs -----------------------------
(***************************************************************************)
(* Proofs about NSLS2, for every number of readings and all the values     *)
(* that clients may write: the readings in the ring are spoken for, only   *)
(* callbacks under way at a stop come after it, a reading is scaled for    *)
(* the gain it was taken with, and the registers have what was asked.      *)
(***************************************************************************)
EXTENDS NSLS2, SequenceTheorems, FiniteSetTheorems, TLAPS

(***************************************************************************)
(* Lists of readings.                                                      *)
(***************************************************************************)
\* A step done: the list without its head.
LEMMA TailIs ==
  ASSUME NEW Steps, NEW s \in Seq(Steps), s # <<>>
  PROVE  /\ Len(s) \in Nat \ {0}
         /\ Head(s) = s[1] /\ Head(s) \in Steps
         /\ Tail(s) \in Seq(Steps)
         /\ Len(Tail(s)) = Len(s) - 1
         /\ \A i \in 1..Len(s) - 1 : Tail(s)[i] = s[i + 1]
         /\ \A i \in 1..Len(s) : s[i] \in Steps
  <1>1. Len(s) \in Nat \ {0}
    BY EmptySeq
  <1>2. \A i \in 1..Len(s) : s[i] \in Steps
    BY ElementOfSeq
  <1>3. Head(s) = s[1]
    OBVIOUS
  <1> QED BY <1>1, <1>2, <1>3, HeadTailProperties

-----------------------------------------------------------------------------
\* What the proofs use of the constants.
LEMMA Constants ==
  /\ MaxReadings \in Nat /\ MinTime \in Nat /\ MaxTime \in Nat /\ MinTime <= MaxTime
  /\ Voltages \subseteq Int /\ IntegrationTimes \subseteq Nat
  /\ 0 \in Ranges /\ 1 \in NumAverages /\ 0 \in EMRanges
  BY ConstAssumption DEF EMRanges

USE Constants DEF Threads

-----------------------------------------------------------------------------
(***************************************************************************)
(* What the calls of clients leave for the port thread to do.              *)
(***************************************************************************)
Lists ==
  {<<>>, <<"flush", "zero", "start">>, <<"zero", "start">>, <<"start">>, <<"stop">>,
   <<"stop", "clear">>, <<"clear">>, <<"gain">>, <<"trigger", "zero">>, <<"zero">>,
   <<"flush", "zero">>, <<"dac">>}

Zeroing(s) == s # <<>> /\ Head(s) = "zero"

LEMMA TailsAre ==
  /\ <<"flush", "zero", "start">> # <<>> /\ Head(<<"flush", "zero", "start">>) = "flush"
     /\ Tail(<<"flush", "zero", "start">>) = <<"zero", "start">>
  /\ <<"zero", "start">> # <<>> /\ Head(<<"zero", "start">>) = "zero"
     /\ Tail(<<"zero", "start">>) = <<"start">>
  /\ <<"stop", "clear">> # <<>> /\ Head(<<"stop", "clear">>) = "stop"
     /\ Tail(<<"stop", "clear">>) = <<"clear">>
  /\ <<"trigger", "zero">> # <<>> /\ Head(<<"trigger", "zero">>) = "trigger"
     /\ Tail(<<"trigger", "zero">>) = <<"zero">>
  /\ <<"flush", "zero">> # <<>> /\ Head(<<"flush", "zero">>) = "flush"
     /\ Tail(<<"flush", "zero">>) = <<"zero">>
  /\ \A op : <<op>> # <<>> /\ Head(<<op>>) = op /\ Tail(<<op>>) = <<>>
  OBVIOUS

\* A step done leaves such a list, and what steps come after which.
LEMMA ListsAre ==
  ASSUME NEW s \in Lists, s # <<>>
  PROVE  /\ Tail(s) \in Lists
         /\ Head(s) \in {"flush", "zero", "start", "stop", "clear", "gain", "trigger", "dac"}
         /\ Tail(s) # <<"gain">> /\ Tail(s) # <<"dac">>
         /\ Head(s) = "gain" <=> s = <<"gain">>
         /\ Head(s) = "dac" <=> s = <<"dac">>
         /\ Zeroing(Tail(s)) <=> Head(s) \in {"flush", "trigger"}
  <1>1. CASE s = <<"flush", "zero", "start">>
    BY <1>1, TailsAre DEF Lists, Zeroing
  <1>2. CASE s = <<"zero", "start">>
    BY <1>2, TailsAre DEF Lists, Zeroing
  <1>3. CASE s = <<"stop", "clear">>
    BY <1>3, TailsAre DEF Lists, Zeroing
  <1>4. CASE s = <<"trigger", "zero">>
    BY <1>4, TailsAre DEF Lists, Zeroing
  <1>5. CASE s = <<"flush", "zero">>
    BY <1>5, TailsAre DEF Lists, Zeroing
  <1>6. CASE s \in {<<"start">>, <<"stop">>, <<"clear">>, <<"zero">>, <<"gain">>, <<"dac">>}
    <2>1. PICK op \in {"start", "stop", "clear", "zero", "gain", "dac"} : s = <<op>>
      BY <1>6
    <2>2. Head(s) = op /\ Tail(s) = <<>> /\ (\A a : s = <<a>> <=> op = a)
      BY <2>1, TailsAre
    <2>3. <<>> \in Lists /\ ~Zeroing(<<>>) /\ <<>> # <<"gain">> /\ <<>> # <<"dac">>
      BY TailsAre DEF Lists, Zeroing
    <2> QED BY <2>1, <2>2, <2>3
  <1> QED BY <1>1, <1>2, <1>3, <1>4, <1>5, <1>6 DEF Lists

\* The lists that calls begin with.
LEMMA CallsAre ==
  /\ <<>> \in Lists /\ ~Zeroing(<<>>) /\ <<>> # <<"gain">> /\ <<>> # <<"dac">>
  /\ \A s \in {<<"flush", "zero", "start">>, <<"stop">>, <<"stop", "clear">>, <<"gain">>,
               <<"trigger", "zero">>, <<"flush", "zero">>, <<"dac">>} :
       s \in Lists /\ s # <<>> /\ ~Zeroing(s)
  /\ \A s \in {<<"flush", "zero", "start">>, <<"stop">>, <<"stop", "clear">>,
               <<"trigger", "zero">>, <<"flush", "zero">>} : s # <<"gain">> /\ s # <<"dac">>
  /\ <<"gain">> # <<"dac">>
  <1>1. \A s \in {<<"flush", "zero", "start">>, <<"stop">>, <<"stop", "clear">>, <<"gain">>,
                  <<"trigger", "zero">>, <<"flush", "zero">>, <<"dac">>} :
          s \in Lists /\ s # <<>> /\ Head(s) # "zero"
    BY TailsAre DEF Lists
  <1>2. \A s \in {<<"flush", "zero", "start">>, <<"stop">>, <<"stop", "clear">>,
                  <<"trigger", "zero">>, <<"flush", "zero">>} : Head(s) \notin {"gain", "dac"}
    BY TailsAre
  <1>3. /\ <<"gain">> # <<>> /\ Head(<<"gain">>) = "gain"
        /\ <<"dac">> # <<>> /\ Head(<<"dac">>) = "dac"
    BY TailsAre
  <1>4. <<>> \in Lists
    BY DEF Lists
  <1> QED BY <1>1, <1>2, <1>3, <1>4 DEF Zeroing

LEMMA ListsType == \A s \in Lists : s \in Seq(Ops)
  <1>1. <<"flush", "zero", "start">> \in Seq(Ops) /\ <<>> \in Seq(Ops)
    BY DEF Ops
  <1>2. /\ <<"zero", "start">> \in Seq(Ops) /\ <<"stop", "clear">> \in Seq(Ops)
        /\ <<"trigger", "zero">> \in Seq(Ops) /\ <<"flush", "zero">> \in Seq(Ops)
    BY DEF Ops
  <1>3. \A a \in Ops : <<a>> \in Seq(Ops)
    OBVIOUS
  <1> QED BY <1>1, <1>2, <1>3 DEF Lists, Ops
-----------------------------------------------------------------------------
(***************************************************************************)
(* Types, and what bounds the counts: the readings taken.                  *)
(***************************************************************************)
Typed == TypeOK /\ todo \in Lists /\ ring <= readings /\ rawCount <= readings

LEMMA HandlersFinite ==
  ASSUME NEW h \in SUBSET Threads
  PROVE  IsFiniteSet(h) /\ Cardinality(h) \in Nat
  <1> DEFINE one == {"port"}
             two == one \cup {"task"}
             three == two \cup {"other"}
  <1>1. IsFiniteSet(one)
    BY FS_Singleton
  <1> HIDE DEF one
  <1>2. IsFiniteSet(two)
    BY <1>1, FS_AddElement
  <1> HIDE DEF two
  <1>4. IsFiniteSet(three)
    BY <1>2, FS_AddElement
  <1>5. three = Threads
    BY DEF one, two
  <1>3. IsFiniteSet(h)
    BY <1>4, <1>5, FS_Subset
  <1> QED BY <1>3, FS_CardinalityType

LEMMA UnderWayType == ASSUME TypeOK PROVE UnderWay \in Int
  <1>1. Cardinality(handler) \in Nat
    BY HandlersFinite DEF TypeOK
  <1> QED BY <1>1 DEF UnderWay

LEMMA DacWordType == ASSUME NEW v \in Int PROVE DacWord(v) \in Nat /\ DacWord(v) < 65536
  BY DEF DacWord, Limited, Short

LEMMA GainType ==
  ASSUME Typed, NEW r \in Ranges, NEW t \in MinTime..MaxTime
  PROVE  [scaledFor EXCEPT ![r] = t] \in [Ranges -> MinTime..MaxTime]
  BY DEF Typed, TypeOK

LEMMA ReadingTyped ==
  ASSUME Typed, NEW t, Reading(t),
         pending' \in BOOLEAN, handler' \subseteq Threads, polled' \in BOOLEAN
  PROVE  Typed'
  <1>1. /\ rawCount \in Nat /\ ring \in Nat /\ readings \in Nat /\ MaxReadings \in Nat
        /\ ring <= readings /\ rawCount <= readings /\ readings < MaxReadings
        /\ owed \in Int /\ queued \in Seq(1..MaxReadings)
    BY DEF Typed, TypeOK, Reading
  <1>2. /\ ring' = ring + 1 /\ readings' = readings + 1
        /\ owed' \in {owed, owed - 1}
        /\ \/ queued' = Append(queued, rawCount + 1) /\ rawCount' = 0
           \/ queued' = queued /\ rawCount' = rawCount + 1
    BY DEF Reading
  <1>3. queued' \in Seq(1..MaxReadings)
    <2>1. rawCount + 1 \in 1..MaxReadings
      BY <1>1
    <2>2. Append(queued, rawCount + 1) \in Seq(1..MaxReadings)
      BY <1>1, <2>1, AppendProperties
    <2> QED BY <1>1, <1>2, <2>2
  <1>4. /\ ring' \in 0..MaxReadings /\ ring' <= readings' /\ owed' \in Int
        /\ rawCount' \in 0..MaxReadings /\ rawCount' <= readings' /\ readings' \in 0..MaxReadings
    BY <1>1, <1>2
  <1>5. torn' \in BOOLEAN /\ misscaled' \in BOOLEAN /\ uneven' \in BOOLEAN
    BY DEF Typed, TypeOK, Reading
  <1>6. UNCHANGED <<build, acquiring, irq, acquire, mode, numAcquired, range, gain, numAverage,
                    time, timeRegister, scaledFor, asked, dac, todo, task, inHand>>
    BY DEF Reading, control, settings
  <1> QED BY <1>3, <1>4, <1>5, <1>6 DEF Typed, TypeOK

LEMMA CallbackTyped == ASSUME Typed, Callback PROVE Typed'
  <1>1. CASE Interrupts
    <2>1. UNCHANGED <<build, acquiring, irq, acquire, mode, numAcquired, range,
                      gain, numAverage, time, timeRegister, scaledFor, asked,
                      dac, ring, rawCount, queued, handler, polled, readings,
                      owed, torn, uneven, misscaled, todo, task, inHand>>
      BY <1>1 DEF Interrupts, control, settings, data, history
    <2>2. pending' \in BOOLEAN
      BY <1>1, Zenon DEF Interrupts
    <2> QED BY <2>1, <2>2 DEF Typed, TypeOK
  <1>2. ASSUME NEW t \in Threads, SignalArrives(t) PROVE Typed'
    <2>1. UNCHANGED <<build, acquiring, irq, acquire, mode, numAcquired, range,
                      gain, numAverage, time, timeRegister, scaledFor, asked,
                      dac, ring, rawCount, queued, polled, readings, owed, torn,
                      uneven, misscaled, todo, task, inHand>>
      BY <1>2 DEF SignalArrives, control, settings, data, history
    <2>2. pending' \in BOOLEAN
      BY <1>2, Zenon DEF SignalArrives
    <2>3. handler' \subseteq Threads
      BY <1>2 DEF SignalArrives, Typed, TypeOK
    <2> QED BY <2>1, <2>2, <2>3 DEF Typed, TypeOK
  <1>3. ASSUME NEW t \in Threads, HandlerReads(t) PROVE Typed'
    <2>1. UNCHANGED <<pending, polled>> /\ handler' \subseteq handler
      BY <1>3 DEF HandlerReads
    <2>2. pending \in BOOLEAN /\ polled \in BOOLEAN /\ handler \subseteq Threads
      BY DEF Typed, TypeOK
    <2>3. pending' \in BOOLEAN /\ handler' \subseteq Threads /\ polled' \in BOOLEAN
      BY <2>1, <2>2
    <2> QED BY <1>3, <2>3, ReadingTyped DEF HandlerReads
  <1>4. CASE PollerLooks
    <2>1. UNCHANGED <<build, acquiring, irq, acquire, mode, numAcquired, range,
                      gain, numAverage, time, timeRegister, scaledFor, asked,
                      dac, ring, rawCount, queued, pending, handler, readings,
                      owed, torn, uneven, misscaled, todo, task, inHand>>
      BY <1>4 DEF PollerLooks, control, settings, data, history
    <2>2. polled' \in BOOLEAN
      BY <1>4, Zenon DEF PollerLooks
    <2> QED BY <2>1, <2>2 DEF Typed, TypeOK
  <1>5. CASE PollerReads
    <2>1. UNCHANGED <<pending, handler>>
      BY <1>5 DEF PollerReads
    <2>2. pending \in BOOLEAN /\ handler \subseteq Threads
      BY DEF Typed, TypeOK
    <2>3. polled' \in BOOLEAN
      BY <1>5, Zenon DEF PollerReads
    <2>4. pending' \in BOOLEAN /\ handler' \subseteq Threads
      BY <2>1, <2>2
    <2> QED BY <1>5, <2>3, <2>4, ReadingTyped DEF PollerReads
  <1> QED BY <1>1, <1>2, <1>3, <1>4, <1>5 DEF Callback

\* The port thread's list goes on as lists do.
LEMMA PopTyped ==
  ASSUME Typed, todo # <<>>, Pop
  PROVE  todo' \in Lists /\ todo' \in Seq(Ops)
  BY ListsAre, ListsType DEF Pop, Typed

\* The two counts are emptied one at a time.
LEMMA PortCountsIs ==
  ASSUME Typed, PortCounts
  PROVE  /\ todo # <<>> /\ Head(todo) \in {"flush", "trigger", "zero"}
         /\ Head(todo) = "flush" =>
              ring' = 0 /\ torn' = FALSE /\ uneven' \in BOOLEAN /\ (uneven' <=> Outstanding)
                /\ UNCHANGED <<rawCount, queued>> /\ Pop
         /\ Head(todo) = "trigger" =>
              /\ UNCHANGED <<ring, rawCount, torn, uneven>>
              /\ \/ rawCount = 0 /\ todo' = <<>> /\ UNCHANGED queued
                 \/ rawCount >= 1 /\ queued' = Append(queued, rawCount) /\ Pop
         /\ Head(todo) = "zero" =>
              rawCount' = 0 /\ UNCHANGED <<ring, queued, torn, uneven>> /\ Pop
  <1>0. rawCount \in Nat
    BY DEF Typed, TypeOK
  <1>1. todo # <<>> /\ Head(todo) \in {"flush", "trigger", "zero"}
    BY DEF PortCounts
  <1>2. ASSUME Head(todo) = "flush"
        PROVE  ring' = 0 /\ torn' = FALSE /\ uneven' = Outstanding
                 /\ UNCHANGED <<rawCount, queued>> /\ Pop
    BY <1>2 DEF PortCounts
  <1>3. ASSUME Head(todo) = "trigger"
        PROVE  /\ UNCHANGED <<ring, rawCount, torn, uneven>>
               /\ IF rawCount < 1 THEN todo' = <<>> /\ UNCHANGED queued
                                  ELSE queued' = Append(queued, rawCount) /\ Pop
    BY <1>3 DEF PortCounts
  <1>4. ASSUME Head(todo) = "zero"
        PROVE  rawCount' = 0 /\ UNCHANGED <<ring, queued, torn, uneven>> /\ Pop
    BY <1>4 DEF PortCounts
  <1>5. ASSUME uneven' = Outstanding PROVE uneven' \in BOOLEAN /\ (uneven' <=> Outstanding)
    BY <1>5, Zenon DEF Outstanding
  <1>6. CASE rawCount < 1
    <2>1. rawCount = 0
      BY <1>0, <1>6
    <2> QED BY <1>1, <1>2, <1>3, <1>4, <1>5, <1>6, <2>1
  <1>7. CASE ~(rawCount < 1)
    <2>1. rawCount >= 1
      BY <1>0, <1>7
    <2> QED BY <1>1, <1>2, <1>3, <1>4, <1>5, <1>7, <2>1
  <1> QED BY <1>6, <1>7

LEMMA PortTyped == ASSUME Typed, Port PROVE Typed'
  <1>1. todo' \in Lists /\ todo' \in Seq(Ops)
    BY PopTyped, CallsAre, ListsType
    DEF Port, PortSetsAcquire, PortCounts, PortSetsRegisters
  <1>2. CASE PortSetsAcquire
    <2>1. UNCHANGED <<build, mode, range, gain, numAverage, time, timeRegister,
                      scaledFor, asked, dac, ring, rawCount, queued, pending,
                      handler, polled, readings, torn, uneven, misscaled, task,
                      inHand>>
      BY <1>2 DEF PortSetsAcquire, settings, data, interrupt
    <2>2. /\ acquiring \in {0, 1} /\ irq \in {0, 1} /\ acquire \in {0, 1}
          /\ numAcquired \in {0, 1} /\ owed \in Int /\ UnderWay \in Int
      BY UnderWayType DEF Typed, TypeOK
    <2>3. /\ acquiring' \in {0, 1} /\ irq' \in {0, 1} /\ acquire' \in {0, 1}
          /\ numAcquired' \in {0, 1} /\ owed' \in Int
      BY <1>2, <2>2 DEF PortSetsAcquire, Starts, Stops
    <2> QED BY <1>1, <2>1, <2>3 DEF Typed, TypeOK
  <1>3. CASE PortCounts
    <2>1. UNCHANGED <<build, acquiring, irq, acquire, mode, numAcquired, range,
                      gain, numAverage, time, timeRegister, scaledFor, asked,
                      dac, pending, handler, polled, readings, owed, misscaled,
                      task, inHand>>
      BY <1>3 DEF PortCounts, control, settings, interrupt
    <2>2. /\ ring \in 0..MaxReadings /\ ring <= readings /\ rawCount \in 0..MaxReadings
          /\ rawCount <= readings /\ readings \in 0..MaxReadings /\ queued \in Seq(1..MaxReadings)
          /\ torn \in BOOLEAN /\ uneven \in BOOLEAN
      BY DEF Typed, TypeOK
    <2>3. /\ ring' \in {0, ring} /\ rawCount' \in {0, rawCount}
          /\ (queued' = queued \/ (rawCount >= 1 /\ queued' = Append(queued, rawCount)))
          /\ torn' \in BOOLEAN /\ uneven' \in BOOLEAN
      <3>1. CASE Head(todo) = "flush"
        BY <1>3, <2>2, <3>1, PortCountsIs
      <3>2. CASE Head(todo) = "trigger"
        BY <1>3, <2>2, <3>2, PortCountsIs
      <3>3. CASE Head(todo) = "zero"
        BY <1>3, <2>2, <3>3, PortCountsIs
      <3> QED BY <1>3, <3>1, <3>2, <3>3, PortCountsIs
    <2>4. rawCount >= 1 => Append(queued, rawCount) \in Seq(1..MaxReadings)
      <3>1. rawCount >= 1 => rawCount \in 1..MaxReadings
        BY <2>2
      <3> QED BY <2>2, <3>1, AppendProperties
    <2>5. /\ ring' \in 0..MaxReadings /\ ring' <= readings /\ rawCount' \in 0..MaxReadings
          /\ rawCount' <= readings
      BY <2>2, <2>3
    <2>6. queued' \in Seq(1..MaxReadings)
      BY <2>2, <2>3, <2>4
    <2> QED BY <1>1, <2>1, <2>3, <2>5, <2>6 DEF Typed, TypeOK
  <1>4. CASE PortSetsRegisters
    <2>1. UNCHANGED <<build, acquiring, irq, acquire, mode, numAcquired, range,
                      numAverage, time, timeRegister, asked, ring, rawCount,
                      queued, pending, handler, polled, readings, owed, torn,
                      uneven, misscaled, task, inHand>>
      BY <1>4 DEF PortSetsRegisters, control, data, interrupt, history
    <2>2. dac' \in Nat /\ dac' < 65536
      <3>1. asked \in Int /\ dac \in Nat /\ dac < 65536
        BY DEF Typed, TypeOK
      <3>2. dac' = dac \/ dac' = DacWord(asked)
        BY <1>4 DEF PortSetsRegisters
      <3> QED BY <3>1, <3>2, DacWordType
    <2>3. /\ gain' \in Ranges /\ (build # "IC" => gain' \in EMRanges)
          /\ scaledFor' \in [Ranges -> MinTime..MaxTime]
      <3>1. /\ range \in Ranges /\ gain \in Ranges /\ (build # "IC" => gain \in EMRanges)
            /\ time \in MinTime..MaxTime /\ scaledFor \in [Ranges -> MinTime..MaxTime]
        BY DEF Typed, TypeOK
      <3>2. [scaledFor EXCEPT ![range] = time] \in [Ranges -> MinTime..MaxTime]
        BY <3>1, GainType
      <3>3. SetsGain \/ UNCHANGED <<gain, scaledFor>>
        BY <1>4 DEF PortSetsRegisters
      <3> QED BY <3>1, <3>2, <3>3 DEF SetsGain
    <2> QED BY <1>1, <2>1, <2>2, <2>3 DEF Typed, TypeOK
  <1> QED BY <1>2, <1>3, <1>4 DEF Port

\* A call of a client: what it changes is the settings it writes.
LEMMA CallTyped ==
  ASSUME Typed, NEW ops \in Lists, Call(ops),
         acquire' \in {0, 1}, mode' \in {"Continuous", "Single"}, range' \in Ranges,
         numAverage' \in NumAverages, time' \in MinTime..MaxTime,
         timeRegister' \in MinTime..MaxTime, scaledFor' \in [Ranges -> MinTime..MaxTime],
         asked' \in Voltages \cup {0}
  PROVE  Typed'
  <1>1. todo' \in Lists /\ todo' \in Seq(Ops)
    BY ListsType DEF Call
  <1>2. UNCHANGED <<build, acquiring, irq, numAcquired, gain, dac, ring,
                    rawCount, queued, pending, handler, polled, readings, owed,
                    torn, uneven, misscaled, task, inHand>>
    BY DEF Call, data, interrupt, history
  <1>3. /\ build' \in Builds /\ acquiring' \in {0, 1} /\ irq' \in {0, 1} /\ acquire' \in {0, 1}
        /\ mode' \in {"Continuous", "Single"} /\ numAcquired' \in {0, 1}
        /\ range' \in Ranges /\ gain' \in Ranges /\ (build' # "IC" => gain' \in EMRanges)
        /\ numAverage' \in NumAverages
        /\ ring' \in 0..MaxReadings /\ rawCount' \in 0..MaxReadings
    BY <1>2 DEF Typed, TypeOK
  <1>4. /\ queued' \in Seq(1..MaxReadings) /\ inHand' \in 0..MaxReadings
        /\ asked' \in Voltages \cup {0} /\ dac' \in Nat /\ dac' < 65536
        /\ task' \in {"idle", "received", "delivered"}
    BY <1>2 DEF Typed, TypeOK
  <1>5. /\ pending' \in BOOLEAN /\ handler' \subseteq Threads /\ polled' \in BOOLEAN
        /\ readings' \in 0..MaxReadings /\ owed' \in Int
        /\ torn' \in BOOLEAN /\ uneven' \in BOOLEAN /\ misscaled' \in BOOLEAN
    BY <1>2 DEF Typed, TypeOK
  <1>7. /\ time' \in MinTime..MaxTime /\ timeRegister' \in MinTime..MaxTime
        /\ scaledFor' \in [Ranges -> MinTime..MaxTime]
    OBVIOUS
  <1>6. TypeOK'
    BY ONLY <1>1, <1>3, <1>4, <1>5, <1>7 DEF TypeOK
  <1> QED BY <1>1, <1>2, <1>6 DEF Typed

LEMMA ClientTyped == ASSUME Typed, Client PROVE Typed'
  <1>0. /\ acquire \in {0, 1} /\ mode \in {"Continuous", "Single"} /\ range \in Ranges
        /\ numAverage \in NumAverages /\ time \in MinTime..MaxTime
        /\ timeRegister \in MinTime..MaxTime /\ scaledFor \in [Ranges -> MinTime..MaxTime]
        /\ asked \in Voltages \cup {0}
    BY DEF Typed, TypeOK
  <1>1. \A t \in MinTime..MaxTime : Scaled(t) \in [Ranges -> MinTime..MaxTime]
    BY <1>0, GainType DEF Scaled
  <1>2. ASSUME NEW v \in {0, 1}, WriteAcquire(v) PROVE Typed'
    BY <1>0, <1>2, CallsAre, CallTyped DEF WriteAcquire
  <1>3. ASSUME NEW m \in {"Continuous", "Single"}, WriteAcquireMode(m) PROVE Typed'
    BY <1>0, <1>3, CallsAre, CallTyped DEF WriteAcquireMode
  <1>4. ASSUME NEW r \in Ranges, WriteRange(r) PROVE Typed'
    BY <1>0, <1>4, CallsAre, CallTyped DEF WriteRange
  <1>5. ASSUME NEW n \in NumAverages, WriteAveragingTime(n) PROVE Typed'
    BY <1>0, <1>1, <1>5, CallsAre, CallTyped DEF WriteAveragingTime
  <1>6. ASSUME NEW n \in NumAverages, WriteValuesPerRead(n) PROVE Typed'
    BY <1>0, <1>1, <1>6, CallsAre, CallTyped DEF WriteValuesPerRead
  <1>7. ASSUME NEW t \in IntegrationTimes, WriteIntegrationTime(t) PROVE Typed'
    <2>1. Clamped(t) \in MinTime..MaxTime
      BY DEF Clamped
    <2> QED BY <1>0, <1>1, <1>7, <2>1, CallsAre, CallTyped
            DEF WriteIntegrationTime, SetsIntegrationTime
  <1>8. ASSUME NEW v \in Voltages, WriteDAC(v) PROVE Typed'
    BY <1>0, <1>8, CallsAre, CallTyped DEF WriteDAC
  <1>9. CASE WriteReadData
    BY <1>0, <1>9, CallsAre, CallTyped DEF WriteReadData
  <1> QED BY <1>2, <1>3, <1>4, <1>5, <1>6, <1>7, <1>8, <1>9 DEF Client

LEMMA TaskTyped == ASSUME Typed, Task PROVE Typed'
  <1>0. /\ ring \in 0..MaxReadings /\ readings \in 0..MaxReadings /\ ring <= readings
        /\ inHand \in 0..MaxReadings /\ queued \in Seq(1..MaxReadings)
    BY DEF Typed, TypeOK
  <1>1. CASE TaskReceives
    <2>1. UNCHANGED <<build, acquiring, irq, acquire, mode, numAcquired, range,
                      gain, numAverage, time, timeRegister, scaledFor, asked,
                      dac, ring, rawCount, pending, handler, polled, readings,
                      owed, torn, uneven, misscaled, todo>>
      BY <1>1 DEF TaskReceives, control, settings, interrupt, history
    <2>2. inHand' \in 0..MaxReadings /\ queued' \in Seq(1..MaxReadings) /\ task' = "received"
      BY <1>0, <1>1, TailIs DEF TaskReceives
    <2> QED BY <2>1, <2>2 DEF Typed, TypeOK
  <1>2. CASE TaskDelivers
    <2>1. UNCHANGED <<build, acquiring, irq, acquire, mode, numAcquired, range,
                      gain, numAverage, time, timeRegister, scaledFor, asked,
                      dac, rawCount, queued, pending, handler, polled, readings,
                      owed, torn, misscaled, todo>>
      BY <1>2 DEF TaskDelivers, control, settings, interrupt
    <2>2. ring' \in 0..MaxReadings /\ ring' <= readings /\ inHand' = 0
          /\ task' \in {"idle", "delivered"}
      BY <1>0, <1>2 DEF TaskDelivers
    <2>3. uneven' = TRUE \/ UNCHANGED uneven
      BY <1>2 DEF TaskDelivers
    <2>4. uneven' \in BOOLEAN
      <3>1. uneven \in BOOLEAN
        BY DEF Typed, TypeOK
      <3> QED BY <2>3, <3>1, Zenon
    <2> QED BY <2>1, <2>2, <2>4 DEF Typed, TypeOK
  <1>3. CASE TaskCounts
    <2>1. UNCHANGED <<build, mode, range, gain, numAverage, time, timeRegister,
                      scaledFor, asked, dac, ring, rawCount, queued, pending,
                      handler, polled, readings, torn, uneven, misscaled, todo,
                      inHand>>
      BY <1>3 DEF TaskCounts, settings, data, interrupt
    <2>2. /\ acquiring \in {0, 1} /\ irq \in {0, 1} /\ acquire \in {0, 1}
          /\ owed \in Int /\ UnderWay \in Int
      BY UnderWayType DEF Typed, TypeOK
    <2>3. /\ acquiring' \in {0, 1} /\ irq' \in {0, 1} /\ acquire' \in {0, 1} /\ owed' \in Int
          /\ task' = "idle" /\ numAcquired' = 1
      BY <1>3, <2>2 DEF TaskCounts, Stops
    <2> QED BY <2>1, <2>3 DEF Typed, TypeOK
  <1> QED BY <1>1, <1>2, <1>3 DEF Task

LEMMA NextTyped == Typed /\ [Next]_vars => Typed'
  <1>1. ASSUME Typed, UNCHANGED vars PROVE Typed'
    <2>1. UNCHANGED <<build, acquiring, irq, acquire, mode, numAcquired, range,
                      gain, numAverage, time, timeRegister, scaledFor, asked,
                      dac, ring, rawCount, queued, pending, handler, polled,
                      readings, owed, torn, uneven, misscaled, todo, task,
                      inHand>>
      BY <1>1 DEF vars, control, settings, data, interrupt, history
    <2> QED BY <1>1, <2>1 DEF Typed, TypeOK
  <1> QED BY <1>1, CallbackTyped, PortTyped, ClientTyped, TaskTyped DEF Next

LEMMA TypedInvariance == Spec => []Typed
  <1>1. Init => Typed
    <2>1. <<>> \in Seq(1..MaxReadings) /\ <<>> \in Seq(Ops) /\ <<>> \in Lists
      BY ListsType, CallsAre
    <2>2. [r \in Ranges |-> MinTime] \in [Ranges -> MinTime..MaxTime]
      OBVIOUS
    <2> QED BY <2>1, <2>2 DEF Init, Typed, TypeOK
  <1> QED BY <1>1, NextTyped, PTL DEF Spec

\* Every variable keeps its type: no message is empty, and the ring, rawCount_ and the
\* messages hold no more readings than were taken.
THEOREM TypeCorrect == Spec => []TypeOK
  <1>1. Typed => TypeOK
    BY DEF Typed
  <1> QED BY <1>1, TypedInvariance, PTL
-----------------------------------------------------------------------------
(***************************************************************************)
(* The registers have what was asked, and the gain is the range's, but for *)
(* the time that a call has a register still to write.                     *)
(***************************************************************************)
GainFits ==
  /\ (build = "IC" \/ range \in EMRanges) => gain = range
  /\ build = "IC" => scaledFor[range] = time

DacFits == dac = DacWord(asked)

Matched ==
  /\ Typed /\ ~misscaled /\ timeRegister = time
  /\ todo # <<"gain">> => GainFits
  /\ todo # <<"dac">> => DacFits

\* A step that leaves the settings alone.
LEMMA SettingsKept ==
  ASSUME Matched, Typed', ~misscaled', UNCHANGED <<build, settings>>,
         todo' = todo \/ (todo # <<"gain">> /\ todo # <<"dac">>)
  PROVE  Matched'
  <1>1. UNCHANGED <<build, range, gain, time, timeRegister, scaledFor, asked, dac>>
    BY DEF settings
  <1>2. GainFits => GainFits'
    BY <1>1 DEF GainFits
  <1>3. DacFits => DacFits'
    BY <1>1 DEF DacFits, DacWord
  <1> QED BY <1>1, <1>2, <1>3 DEF Matched

\* While the range waits for its gain the port thread has the lock, and what reads is
\* its own handler.
LEMMA ReadingMatched ==
  ASSUME Matched, NEW t, Reading(t)
  PROVE  ~misscaled'
  <1>1. CASE todo = <<"gain">>
    <2>1. todo # <<>>
      BY <1>1, CallsAre
    <2>2. t = Owner
      BY <2>1 DEF Reading, MayRead, Owner
    <2> QED BY <2>2 DEF Reading, Matched
  <1>2. CASE todo # <<"gain">>
    BY <1>2 DEF Reading, Matched, GainFits
  <1> QED BY <1>1, <1>2

LEMMA CallbackMatched == ASSUME Matched, Callback PROVE Matched'
  <1>1. Typed'
    BY CallbackTyped DEF Matched
  <1>2. UNCHANGED <<build, settings, todo>>
    BY DEF Callback, Interrupts, SignalArrives, HandlerReads, PollerLooks, PollerReads, Reading
  <1>3. ~misscaled'
    <2>1. CASE Interrupts
      BY <2>1 DEF Interrupts, history, Matched
    <2>2. ASSUME NEW t \in Threads, SignalArrives(t) PROVE ~misscaled'
      BY <2>2 DEF SignalArrives, history, Matched
    <2>3. ASSUME NEW t \in Threads, HandlerReads(t) PROVE ~misscaled'
      BY <2>3, ReadingMatched DEF HandlerReads
    <2>4. CASE PollerLooks
      BY <2>4 DEF PollerLooks, history, Matched
    <2>5. CASE PollerReads
      BY <2>5, ReadingMatched DEF PollerReads
    <2> QED BY <2>1, <2>2, <2>3, <2>4, <2>5 DEF Callback
  <1> QED BY <1>1, <1>2, <1>3, SettingsKept

LEMMA PortMatched == ASSUME Matched, Port PROVE Matched'
  <1>0. Typed' /\ Typed /\ todo \in Lists
    BY PortTyped DEF Matched, Typed
  <1>1. CASE PortSetsAcquire \/ PortCounts
    <2>1. /\ UNCHANGED <<build, settings, misscaled>> /\ todo # <<>>
          /\ Head(todo) \in {"start", "stop", "clear", "flush", "trigger", "zero"}
      BY <1>1 DEF PortSetsAcquire, PortCounts
    <2>2. todo # <<"gain">> /\ todo # <<"dac">>
      BY <1>0, <2>1, ListsAre
    <2>3. todo' # <<"gain">> /\ todo' # <<"dac">>
      <3>1. todo' = Tail(todo) \/ todo' = <<>>
        BY <1>1 DEF PortSetsAcquire, PortCounts, Pop
      <3> QED BY <1>0, <2>1, <3>1, ListsAre, CallsAre
    <2> QED BY <1>0, <2>1, <2>2, SettingsKept DEF Matched
  <1>2. CASE PortSetsRegisters
    <2>1. /\ todo # <<>> /\ UNCHANGED <<build, range, time, timeRegister, asked, misscaled>>
          /\ Pop
      BY <1>2 DEF PortSetsRegisters, history
    <2>2. CASE Head(todo) = "gain"
      <3>1. SetsGain /\ UNCHANGED dac
        BY <1>2, <2>2 DEF PortSetsRegisters
      <3>2. todo # <<"dac">>
        BY <1>0, <2>1, <2>2, ListsAre
      <3>3. DacFits'
        BY <2>1, <3>1, <3>2 DEF Matched, DacFits, DacWord
      <3>4. GainFits'
        <4>1. range \in Ranges /\ scaledFor \in [Ranges -> MinTime..MaxTime]
          BY <1>0 DEF Typed, TypeOK
        <4> QED BY <2>1, <3>1, <4>1 DEF SetsGain, GainFits
      <3> QED BY <1>0, <2>1, <3>3, <3>4 DEF Matched
    <2>3. CASE Head(todo) = "dac"
      <3>1. dac' = DacWord(asked) /\ UNCHANGED <<gain, scaledFor>>
        BY <1>2, <2>3 DEF PortSetsRegisters
      <3>2. todo # <<"gain">>
        BY <1>0, <2>1, <2>3, ListsAre
      <3>3. DacFits'
        BY <2>1, <3>1 DEF DacFits, DacWord
      <3>4. GainFits'
        BY <2>1, <3>1, <3>2 DEF Matched, GainFits
      <3> QED BY <1>0, <2>1, <3>3, <3>4 DEF Matched
    <2> QED BY <1>2, <2>2, <2>3 DEF PortSetsRegisters
  <1> QED BY <1>1, <1>2 DEF Port

LEMMA ClientMatched == ASSUME Matched, Client PROVE Matched'
  <1>0. /\ Typed' /\ ~misscaled /\ timeRegister = time /\ <<"gain">> # <<"dac">>
        /\ range \in Ranges /\ scaledFor \in [Ranges -> MinTime..MaxTime]
    <2>1. Typed' /\ ~misscaled /\ timeRegister = time /\ Typed
      BY ClientTyped DEF Matched
    <2>2. range \in Ranges /\ scaledFor \in [Ranges -> MinTime..MaxTime]
      BY <2>1 DEF Typed, TypeOK
    <2> QED BY <2>1, <2>2, CallsAre
  <1>1. ASSUME NEW ops, Call(ops)
        PROVE  /\ GainFits /\ DacFits /\ UNCHANGED <<build, gain, dac, misscaled>>
               /\ todo' = ops /\ todo = <<>>
    BY <1>1, CallsAre DEF Matched, Call, Owner, history
  \* A call that leaves the range and the voltage alone.
  <1>2. ASSUME NEW ops, Call(ops), UNCHANGED <<range, asked>>, timeRegister' = time',
               \/ UNCHANGED <<time, scaledFor>>
               \/ scaledFor' = IF build = "IC" THEN [scaledFor EXCEPT ![range] = time']
                                               ELSE scaledFor
        PROVE  Matched'
    <2>1. /\ GainFits /\ DacFits /\ UNCHANGED <<build, gain, dac, misscaled>>
      BY <1>1, <1>2
    <2>2. GainFits'
      BY <1>0, <1>2, <2>1 DEF GainFits
    <2>3. DacFits'
      BY <1>2, <2>1 DEF DacFits, DacWord
    <2> QED BY <1>0, <1>2, <2>1, <2>2, <2>3 DEF Matched
  <1>3. ASSUME NEW v \in {0, 1}, WriteAcquire(v) PROVE Matched'
    BY <1>0, <1>2, <1>3 DEF WriteAcquire
  <1>4. ASSUME NEW m \in {"Continuous", "Single"}, WriteAcquireMode(m) PROVE Matched'
    BY <1>0, <1>2, <1>4 DEF WriteAcquireMode
  <1>5. ASSUME NEW r \in Ranges, WriteRange(r) PROVE Matched'
    <2>1. /\ DacFits /\ UNCHANGED <<build, dac, misscaled, asked, time, timeRegister>>
          /\ todo' = <<"gain">>
      BY <1>1, <1>5 DEF WriteRange
    <2>2. DacFits'
      BY <2>1 DEF DacFits, DacWord
    <2> QED BY <1>0, <2>1, <2>2 DEF Matched
  <1>6. ASSUME NEW n \in NumAverages, WriteAveragingTime(n) PROVE Matched'
    BY <1>0, <1>2, <1>6 DEF WriteAveragingTime, Scaled
  <1>7. ASSUME NEW n \in NumAverages, WriteValuesPerRead(n) PROVE Matched'
    BY <1>0, <1>2, <1>7 DEF WriteValuesPerRead, Scaled
  <1>8. ASSUME NEW t \in IntegrationTimes, WriteIntegrationTime(t) PROVE Matched'
    <2>1. /\ Call(<<>>) /\ UNCHANGED <<range, asked>> /\ timeRegister' = time'
          /\ scaledFor' = IF build = "IC" THEN [scaledFor EXCEPT ![range] = time'] ELSE scaledFor
      BY <1>8 DEF WriteIntegrationTime, SetsIntegrationTime, Scaled
    <2> QED BY <1>2, <2>1
  <1>9. ASSUME NEW v \in Voltages, WriteDAC(v) PROVE Matched'
    <2>1. /\ GainFits /\ todo' = <<"dac">>
          /\ UNCHANGED <<build, gain, misscaled, range, scaledFor, time, timeRegister>>
      BY <1>1, <1>9 DEF WriteDAC
    <2>2. GainFits'
      BY <2>1 DEF GainFits
    <2> QED BY <1>0, <2>1, <2>2 DEF Matched
  <1>10. ASSUME WriteReadData PROVE Matched'
    BY <1>0, <1>2, <1>10 DEF WriteReadData
  <1> QED BY <1>3, <1>4, <1>5, <1>6, <1>7, <1>8, <1>9, <1>10 DEF Client

LEMMA TaskMatched == ASSUME Matched, Task PROVE Matched'
  <1>1. Typed'
    BY TaskTyped DEF Matched
  <1>2. UNCHANGED <<build, settings, todo, misscaled>>
    BY DEF Task, TaskReceives, TaskDelivers, TaskCounts, history
  <1> QED BY <1>1, <1>2, SettingsKept DEF Matched

LEMMA MatchedInvariance == Spec => []Matched
  <1>1. Init /\ Typed => Matched
    <2> SUFFICES ASSUME Init, Typed PROVE Matched
      OBVIOUS
    <2>1. GainFits
      BY DEF Init, GainFits
    <2>2. DacFits
      BY DEF Init, DacFits, DacWord, Limited, Short
    <2>3. ~misscaled /\ timeRegister = time
      BY DEF Init
    <2> QED BY <2>1, <2>2, <2>3 DEF Matched
  <1>2. Matched /\ [Next]_vars => Matched'
    <2>1. ASSUME Matched, UNCHANGED vars PROVE Matched'
      <3>1. Typed' /\ UNCHANGED <<build, settings, todo, misscaled>>
        BY <2>1, NextTyped DEF Matched, vars, history
      <3> QED BY <2>1, <3>1, SettingsKept DEF Matched
    <2> QED BY <2>1, CallbackMatched, PortMatched, ClientMatched, TaskMatched DEF Next
  <1> QED BY <1>1, <1>2, TypedInvariance, PTL DEF Spec

\* A reading is scaled for the gain it was taken with, whichever thread's handler reads
\* it, unless that is the thread which is about to write the gain.
THEOREM GainIsTrue == Spec => []ScaledForGain
  <1>1. Matched => ScaledForGain
    BY DEF Matched, ScaledForGain
  <1> QED BY <1>1, MatchedInvariance, PTL

\* The word of a voltage that a short can hold is the nearest that the converter can make.
LEMMA DacWordIs ==
  ASSUME NEW v \in Int, -32768 <= v, v < 32768
  PROVE  DacWord(v) = IF build # "IC" THEN v % 65536
                      ELSE CHOOSE w \in {0, 4095, v} :
                             /\ 0 <= w /\ w <= 4095
                             /\ 0 <= v /\ v <= 4095 => w = v
                             /\ v < 0 => w = 0
                             /\ v > 4095 => w = 4095
  <1>1. Short(v) = v
    BY DEF Short
  <1> DEFINE Nearest(w) == /\ 0 <= w /\ w <= 4095
                           /\ 0 <= v /\ v <= 4095 => w = v
                           /\ v < 0 => w = 0
                           /\ v > 4095 => w = 4095
  <1>2. Limited(v) \in {0, 4095, v} /\ Nearest(Limited(v))
    BY DEF Limited
  <1>3. \A w \in {0, 4095, v} : Nearest(w) => w = Limited(v)
    BY DEF Limited
  <1> HIDE DEF Nearest
  <1>4. Limited(v) = CHOOSE w \in {0, 4095, v} : Nearest(w)
    BY <1>2, <1>3
  <1> QED BY <1>1, <1>4 DEF DacWord, Nearest

\* After each call the registers have what was asked, within their limits, and the ion
\* chamber's scale factor for the range in use has the integration time of the FPGA.
THEOREM SettingsReachRegisters == Spec => []SettingsAreTrue
  <1>1. Matched => ScaleIsTrue
    BY CallsAre DEF Matched, GainFits, ScaleIsTrue
  <1>2. Matched => DacIsTrue
    <2>1. Matched => asked \in Int
      BY DEF Matched, Typed, TypeOK
    <2>2. Matched /\ todo = <<>> => dac = DacWord(asked)
      BY CallsAre DEF Matched, DacFits
    <2> QED BY <2>1, <2>2, DacWordIs DEF DacIsTrue
  <1> QED BY <1>1, <1>2, MatchedInvariance, PTL DEF SettingsAreTrue
-----------------------------------------------------------------------------
(***************************************************************************)
(* A stop: what is still to come is what was under way.                    *)
(***************************************************************************)
Owing == irq = acquiring /\ (acquiring = 0 => owed = UnderWay)

\* Callbacks begin only while the driver acquires, and take what they owe when they end.
LEMMA CallbackOwing == ASSUME Typed, Owing, Callback PROVE Owing'
  <1>0. /\ acquiring \in {0, 1} /\ owed \in Int /\ handler \in SUBSET Threads
        /\ pending \in BOOLEAN /\ polled \in BOOLEAN
    BY DEF Typed, TypeOK
  <1>1. CASE Interrupts \/ PollerLooks
    <2>1. /\ irq = 1 \/ acquiring = 1
          /\ UNCHANGED <<irq, acquiring>>
      BY <1>1 DEF Interrupts, PollerLooks, control
    <2> QED BY <2>1 DEF Owing
  <1>2. ASSUME NEW t \in Threads, SignalArrives(t) PROVE Owing'
    <2>1. /\ t \notin handler /\ handler' = handler \cup {t}
          /\ UNCHANGED <<irq, acquiring, owed, polled>> /\ pending /\ ~pending'
      BY <1>2 DEF SignalArrives, Runs, control, history
    <2>2. Cardinality(handler') = Cardinality(handler) + 1 /\ Cardinality(handler) \in Nat
      BY <1>0, <2>1, HandlersFinite, FS_AddElement
    <2>3. UnderWay' = UnderWay
      BY <2>1, <2>2 DEF UnderWay
    <2> QED BY <2>1, <2>3 DEF Owing
  <1>3. ASSUME NEW t, Reading(t), UnderWay' = UnderWay - 1 PROVE Owing'
    <2>1. UNCHANGED <<irq, acquiring>> /\ owed' = IF acquiring = 0 THEN owed - 1 ELSE owed
      BY <1>3 DEF Reading, control
    <2> QED BY <1>0, <1>3, <2>1 DEF Owing
  <1>4. ASSUME NEW t \in Threads, HandlerReads(t) PROVE Owing'
    <2>1. t \in handler /\ handler' = handler \ {t} /\ UNCHANGED <<pending, polled>> /\ Reading(t)
      BY <1>4 DEF HandlerReads
    <2>2. Cardinality(handler') = Cardinality(handler) - 1 /\ Cardinality(handler) \in Nat
      BY <1>0, <2>1, HandlersFinite, FS_RemoveElement
    <2>3. UnderWay' = UnderWay - 1
      BY <2>1, <2>2 DEF UnderWay
    <2> QED BY <1>3, <2>1, <2>3
  <1>5. ASSUME PollerReads PROVE Owing'
    <2>1. polled /\ ~polled' /\ UNCHANGED <<pending, handler>> /\ Reading("poller")
      BY <1>5 DEF PollerReads
    <2>2. Cardinality(handler) \in Nat
      BY <1>0, HandlersFinite
    <2>3. UnderWay' = UnderWay - 1
      BY <2>1, <2>2 DEF UnderWay
    <2> QED BY <1>3, <2>1, <2>3
  <1> QED BY <1>1, <1>2, <1>4, <1>5 DEF Callback

\* A stop counts them; what else there is leaves them alone.
LEMMA OwingKept ==
  ASSUME Owing, UNCHANGED interrupt,
         \/ UNCHANGED <<acquiring, irq, owed>>
         \/ Stops
         \/ acquiring' = 1 /\ irq' = 1
  PROVE  Owing'
  <1>1. UnderWay' = UnderWay
    BY DEF UnderWay, interrupt
  <1> QED BY <1>1 DEF Owing, Stops

LEMMA NextOwing == ASSUME Typed, Owing, [Next]_vars PROVE Owing'
  <1>1. CASE Port
    <2>1. /\ UNCHANGED interrupt
          /\ \/ UNCHANGED <<acquiring, irq, owed>>
             \/ Stops
             \/ acquiring' = 1 /\ irq' = 1
      BY <1>1 DEF Port, PortSetsAcquire, PortCounts, PortSetsRegisters, Starts, control, history
    <2> QED BY <2>1, OwingKept
  <1>2. CASE Client
    <2> DEFINE Kept == UNCHANGED <<acquiring, irq, owed, interrupt>>
    <2>1. ASSUME NEW ops, Call(ops) PROVE Kept
      BY <2>1 DEF Call, history
    <2> HIDE DEF Kept
    <2>2. Kept
      BY <1>2, <2>1 DEF Client, WriteAcquire, WriteAcquireMode, WriteRange, WriteAveragingTime,
         WriteValuesPerRead, WriteIntegrationTime, WriteDAC, WriteReadData
    <2> QED BY <2>2, OwingKept DEF Kept
  <1>3. CASE Task
    <2>1. UNCHANGED interrupt /\ (UNCHANGED <<acquiring, irq, owed>> \/ Stops)
      BY <1>3 DEF Task, TaskReceives, TaskDelivers, TaskCounts, control, history
    <2> QED BY <2>1, OwingKept
  <1>4. CASE UNCHANGED vars
    <2>1. UNCHANGED interrupt /\ UNCHANGED <<acquiring, irq, owed>>
      BY <1>4 DEF vars, control, history
    <2> QED BY <2>1, OwingKept
  <1> QED BY <1>1, <1>2, <1>3, <1>4, CallbackOwing DEF Next

-----------------------------------------------------------------------------
(***************************************************************************)
(* The messages of a queue q and one of h readings speak for n readings:   *)
(* as Announced has it, with sums that do not fall.                        *)
(***************************************************************************)
SumsAre(s, q, h, n) ==
  /\ s[0] = h
  /\ \A i \in 1..Len(q) : s[i] = s[i - 1] + q[i]
  /\ \A i, j \in 0..Len(q) : i <= j => s[i] <= s[j]
  /\ s[Len(q)] = n

Told(q, h, n) == \E s \in [0..Len(q) -> Int] : SumsAre(s, q, h, n)

LEMMA NothingTold == Told(<<>>, 0, 0)
  <1> DEFINE s == [i \in 0..Len(<<>>) |-> 0]
  <1>1. Len(<<>>) = 0
    OBVIOUS
  <1>2. s \in [0..Len(<<>>) -> Int] /\ SumsAre(s, <<>>, 0, 0)
    BY <1>1 DEF SumsAre
  <1> QED BY <1>2 DEF Told

\* A message more.
LEMMA ToldMore ==
  ASSUME NEW q \in Seq(Nat), NEW h \in Int, NEW n \in Int, NEW k \in Nat, Told(q, h, n)
  PROVE  Told(Append(q, k), h, n + k)
  <1>1. PICK s \in [0..Len(q) -> Int] : SumsAre(s, q, h, n)
    BY DEF Told
  <1> DEFINE a == Append(q, k)
  <1>2. /\ Len(q) \in Nat /\ Len(a) = Len(q) + 1 /\ a[Len(q) + 1] = k
        /\ \A i \in 1..Len(q) : a[i] = q[i]
    BY AppendProperties, LenProperties
  <1> HIDE DEF a
  <1> DEFINE u == [i \in 0..Len(a) |-> IF i <= Len(q) THEN s[i] ELSE n + k]
  <1>3. u \in [0..Len(a) -> Int]
    BY <1>1, <1>2
  <1>4. \A i \in 0..Len(q) : u[i] = s[i] /\ s[i] \in Int /\ s[i] <= n
    <2> TAKE i \in 0..Len(q)
    <2>1. i <= Len(q) /\ i \in 0..Len(a) /\ Len(q) \in 0..Len(q)
      BY <1>2
    <2> QED BY <1>1, <1>2, <2>1 DEF SumsAre
  <1>5. u[Len(a)] = n + k
    BY <1>2
  <1> HIDE DEF u
  <1>6. \A i \in 1..Len(a) : u[i] = u[i - 1] + a[i]
    <2> TAKE i \in 1..Len(a)
    <2>1. CASE i <= Len(q)
      <3>1. i \in 1..Len(q) /\ i \in 0..Len(q) /\ i - 1 \in 0..Len(q)
        BY <1>2, <2>1
      <3>2. s[i] = s[i - 1] + q[i] /\ a[i] = q[i]
        BY <1>1, <1>2, <3>1 DEF SumsAre
      <3> QED BY <1>4, <3>1, <3>2
    <2>2. CASE i = Len(q) + 1
      <3>1. u[i - 1] = s[Len(q)] /\ s[Len(q)] = n
        BY <1>1, <1>2, <1>4, <2>2 DEF SumsAre
      <3> QED BY <1>2, <1>5, <2>2, <3>1
    <2> QED BY <1>2, <2>1, <2>2
  <1>7. \A i, j \in 0..Len(a) : i <= j => u[i] <= u[j]
    <2> SUFFICES ASSUME NEW i \in 0..Len(a), NEW j \in 0..Len(a), i <= j PROVE u[i] <= u[j]
      OBVIOUS
    <2>1. CASE j <= Len(q)
      <3>1. i \in 0..Len(q) /\ j \in 0..Len(q)
        BY <1>2, <2>1
      <3>2. s[i] <= s[j]
        BY <1>1, <3>1 DEF SumsAre
      <3> QED BY <1>4, <3>1, <3>2
    <2>2. CASE j = Len(a) /\ i <= Len(q)
      BY <1>2, <1>4, <1>5, <2>2
    <2>3. CASE j = Len(a) /\ i = Len(a)
      BY <1>5, <2>3
    <2> QED BY <1>2, <2>1, <2>2, <2>3
  <1>8. u[0] = h
    BY <1>1, <1>2, <1>4 DEF SumsAre
  <1> QED BY <1>3, <1>5, <1>6, <1>7, <1>8 DEF Told, SumsAre, a

\* The first message taken.
LEMMA ToldTaken ==
  ASSUME NEW q \in Seq(Nat), NEW n \in Int, q # <<>>, Told(q, 0, n)
  PROVE  Told(Tail(q), Head(q), n)
  <1>1. PICK s \in [0..Len(q) -> Int] : SumsAre(s, q, 0, n)
    BY DEF Told
  <1> DEFINE t == Tail(q)
  <1>2. /\ Len(q) \in Nat \ {0} /\ Len(t) = Len(q) - 1 /\ Head(q) = q[1] /\ q[1] \in Nat
        /\ \A i \in 1..Len(q) - 1 : t[i] = q[i + 1]
    BY TailIs
  <1> HIDE DEF t
  <1> DEFINE u == [i \in 0..Len(t) |-> s[i + 1]]
  <1>3. u \in [0..Len(t) -> Int] /\ \A i \in 0..Len(t) : u[i] = s[i + 1]
    BY <1>1, <1>2
  <1> HIDE DEF u
  <1>4. u[0] = Head(q)
    BY <1>1, <1>2, <1>3 DEF SumsAre
  <1>5. \A i \in 1..Len(t) : u[i] = u[i - 1] + t[i]
    <2> TAKE i \in 1..Len(t)
    <2>1. s[i + 1] = s[(i + 1) - 1] + q[i + 1]
      BY <1>1, <1>2 DEF SumsAre
    <2>2. u[i - 1] = s[i] /\ u[i] = s[i + 1] /\ t[i] = q[i + 1] /\ (i + 1) - 1 = i
      BY <1>2, <1>3
    <2> QED BY <2>1, <2>2
  <1>6. \A i, j \in 0..Len(t) : i <= j => u[i] <= u[j]
    BY <1>1, <1>2, <1>3 DEF SumsAre
  <1>7. u[Len(t)] = n
    BY <1>1, <1>2, <1>3 DEF SumsAre
  <1> QED BY <1>3, <1>4, <1>5, <1>6, <1>7 DEF Told, SumsAre, t

\* The message in hand done with.
LEMMA ToldDone ==
  ASSUME NEW q \in Seq(Nat), NEW h \in Int, NEW n \in Int, Told(q, h, n)
  PROVE  h <= n /\ Told(q, 0, n - h)
  <1>1. PICK s \in [0..Len(q) -> Int] : SumsAre(s, q, h, n)
    BY DEF Told
  <1>2. Len(q) \in Nat /\ \A i \in 1..Len(q) : q[i] \in Nat
    BY LenProperties, ElementOfSeq
  <1>3. h <= n
    BY <1>1, <1>2 DEF SumsAre
  <1> DEFINE u == [i \in 0..Len(q) |-> s[i] - h]
  <1>4. /\ u \in [0..Len(q) -> Int]
        /\ \A i \in 0..Len(q) : u[i] = s[i] - h /\ s[i] \in Int /\ u[i] \in Int
    BY <1>1, <1>2
  <1> HIDE DEF u
  <1>5. u[0] = 0 /\ u[Len(q)] = n - h
    <2>1. 0 \in 0..Len(q) /\ Len(q) \in 0..Len(q)
      BY <1>2
    <2>2. s[0] = h /\ s[Len(q)] = n
      BY <1>1 DEF SumsAre
    <2>3. u[0] = s[0] - h /\ u[Len(q)] = s[Len(q)] - h
      BY <1>4, <2>1
    <2> QED BY <2>2, <2>3
  <1>6. \A i \in 1..Len(q) : u[i] = u[i - 1] + q[i]
    <2> TAKE i \in 1..Len(q)
    <2>1. s[i] = s[i - 1] + q[i] /\ i \in 0..Len(q) /\ i - 1 \in 0..Len(q)
      BY <1>1, <1>2 DEF SumsAre
    <2>2. /\ u[i] = s[i] - h /\ u[i - 1] = s[i - 1] - h
          /\ s[i] \in Int /\ s[i - 1] \in Int /\ q[i] \in Nat
      BY <1>2, <1>4, <2>1
    <2> QED BY <2>1, <2>2
  <1>7. \A i, j \in 0..Len(q) : i <= j => u[i] <= u[j]
    BY <1>1, <1>4 DEF SumsAre
  <1> QED BY <1>3, <1>4, <1>5, <1>6, <1>7 DEF Told, SumsAre

LEMMA ToldIsAnnounced ==
  ASSUME Typed, NEW n \in Int, n <= MaxReadings, Told(queued, inHand, n)
  PROVE  Announced(n)
  <1>1. PICK s \in [0..Len(queued) -> Int] : SumsAre(s, queued, inHand, n)
    BY DEF Told
  <1>2. queued \in Seq(1..MaxReadings) /\ inHand \in 0..MaxReadings
    BY DEF Typed, TypeOK
  <1>3. Len(queued) \in Nat
    BY <1>2, LenProperties
  <1>4. \A i \in 0..Len(queued) : s[i] \in 0..MaxReadings
    <2> TAKE i \in 0..Len(queued)
    <2>1. s[0] <= s[i] /\ s[i] <= s[Len(queued)] /\ s[i] \in Int
      BY <1>1, <1>3 DEF SumsAre
    <2> QED BY <1>1, <1>2, <2>1 DEF SumsAre
  <1>5. s \in [0..Len(queued) -> 0..MaxReadings]
    BY <1>1, <1>4
  <1> QED BY <1>1, <1>5 DEF Announced, SumsAre
-----------------------------------------------------------------------------
(***************************************************************************)
(* The ring holds what rawCount_ and the messages speak for: less what     *)
(* rawCount_ counts, when a step is due that sets it to 0.                 *)
(***************************************************************************)
Spoken == IF Zeroing(todo) THEN ring ELSE ring - rawCount

Counted ==
  /\ Typed
  /\ task # "received" => inHand = 0
  /\ ~torn /\ ~uneven => Told(queued, inHand, Spoken)

LEMMA CountsType ==
  ASSUME Typed
  PROVE  /\ ring \in Nat /\ rawCount \in Nat /\ inHand \in Nat /\ Spoken \in Int
         /\ queued \in Seq(Nat) /\ todo \in Lists /\ ring <= MaxReadings
  <1>1. /\ ring \in Nat /\ rawCount \in Nat /\ inHand \in Nat /\ ring <= MaxReadings
        /\ queued \in Seq(1..MaxReadings) /\ todo \in Lists
    BY DEF Typed, TypeOK
  <1>2. queued \in Seq(Nat)
    BY <1>1, SeqMonotonic
  <1> QED BY <1>1, <1>2 DEF Spoken

\* A step that leaves the counts alone.
LEMMA CountsKept ==
  ASSUME Counted, Typed', UNCHANGED <<ring, rawCount, queued, inHand, torn, uneven>>,
         Zeroing(todo') <=> Zeroing(todo), task' = "received" <=> task = "received"
  PROVE  Counted'
  <1>1. Spoken' = Spoken
    BY DEF Spoken
  <1>2. Told(queued', inHand', Spoken') <=> Told(queued, inHand, Spoken)
    BY <1>1
  <1>3. (task # "received" => inHand = 0)'
    BY DEF Counted
  <1> QED BY <1>2, <1>3 DEF Counted

\* A reading in the midst of a step that sets rawCount_ to 0 comes from the port
\* thread's own handler, and tears the counts apart.
LEMMA ReadingCounted == ASSUME Counted, Typed', NEW t, Reading(t) PROVE Counted'
  <1>0. /\ UNCHANGED <<todo, task, inHand, uneven>> /\ ring' = ring + 1
        /\ \/ queued' = Append(queued, rawCount + 1) /\ rawCount' = 0
           \/ queued' = queued /\ rawCount' = rawCount + 1
    BY DEF Reading
  <1>1. ASSUME ~torn', ~uneven' PROVE Told(queued', inHand', Spoken')
    <2>1. ~torn /\ ~uneven /\ ~(t = Owner /\ t = "port" /\ Head(todo) = "zero")
      BY <1>1 DEF Reading
    <2>2. ~Zeroing(todo)
      BY <2>1 DEF Zeroing, Owner, Reading, MayRead
    <2>3. /\ Told(queued, inHand, ring - rawCount) /\ ring \in Nat /\ rawCount \in Nat
          /\ inHand \in Nat /\ queued \in Seq(Nat)
      BY <2>1, <2>2, CountsType DEF Counted, Spoken
    <2>4. Spoken' = (ring + 1) - rawCount'
      <3>1. ~Zeroing(todo') /\ ring' = ring + 1
        BY <1>0, <2>2
      <3> QED BY <3>1 DEF Spoken
    <2>5. CASE queued' = Append(queued, rawCount + 1) /\ rawCount' = 0
      <3>1. Told(queued', inHand, (ring - rawCount) + (rawCount + 1))
        BY <2>3, <2>5, ToldMore
      <3>2. (ring - rawCount) + (rawCount + 1) = Spoken'
        BY <2>3, <2>4, <2>5
      <3> QED BY <1>0, <3>1, <3>2
    <2>6. CASE queued' = queued /\ rawCount' = rawCount + 1
      <3>1. ring - rawCount = Spoken'
        BY <2>3, <2>4, <2>6
      <3> QED BY <1>0, <2>3, <2>6, <3>1
    <2> QED BY <1>0, <2>5, <2>6
  <1>2. (task # "received" => inHand = 0)'
    BY <1>0 DEF Counted
  <1> QED BY <1>1, <1>2 DEF Counted

LEMMA CallbackCounted == ASSUME Counted, Callback PROVE Counted'
  <1>1. Typed'
    BY CallbackTyped DEF Counted
  <1>2. \/ UNCHANGED <<ring, rawCount, queued, inHand, torn, uneven, todo, task>>
        \/ \E t : Reading(t)
    BY DEF Callback, Interrupts, SignalArrives, HandlerReads, PollerLooks, PollerReads,
           data, history
  <1> QED BY <1>1, <1>2, CountsKept, ReadingCounted

LEMMA PortCountsCounted == ASSUME Counted, Typed', PortCounts PROVE Counted'
  <1>0. /\ UNCHANGED <<task, inHand>> /\ todo \in Lists /\ todo # <<>>
        /\ Head(todo) \in {"flush", "trigger", "zero"}
        /\ ring \in Nat /\ rawCount \in Nat /\ inHand \in Nat /\ queued \in Seq(Nat)
    BY CountsType, PortCountsIs DEF Counted, PortCounts
  <1> SUFFICES ASSUME ~torn', ~uneven' PROVE Told(queued', inHand', Spoken')
    <2>1. (task # "received" => inHand = 0)'
      BY <1>0 DEF Counted
    <2> QED BY <2>1 DEF Counted
  <1>1. Pop => (Zeroing(todo') <=> Head(todo) \in {"flush", "trigger"})
    BY <1>0, ListsAre DEF Pop
  <1>2. CASE Head(todo) = "flush"
    <2>1. ring' = 0 /\ ~Outstanding /\ UNCHANGED queued /\ Pop
      <3>1. Outstanding \in BOOLEAN
        BY Zenon DEF Outstanding
      <3> QED BY <1>2, <3>1, PortCountsIs DEF Counted
    <2>2. inHand' = 0 /\ queued' = <<>>
      <3>1. ~(inHand > 0) /\ queued = <<>>
        BY <2>1 DEF Outstanding
      <3> QED BY <1>0, <2>1, <3>1
    <2>3. Spoken' = 0
      BY <1>1, <1>2, <2>1 DEF Spoken
    <2> QED BY <2>2, <2>3, NothingTold
  <1>3. ASSUME Head(todo) \in {"trigger", "zero"}
        PROVE  Told(queued, inHand, Spoken) /\ UNCHANGED ring
    BY <1>3, PortCountsIs DEF Counted
  <1>4. CASE Head(todo) = "trigger"
    <2>1. Told(queued, inHand, ring - rawCount)
      BY <1>3, <1>4 DEF Spoken, Zeroing
    <2>2. CASE rawCount = 0 /\ todo' = <<>> /\ UNCHANGED queued
      <3>1. Spoken' = ring - rawCount
        BY <1>0, <1>3, <1>4, <2>2, CallsAre, PortCountsIs DEF Spoken, Counted
      <3> QED BY <1>0, <2>1, <2>2, <3>1
    <2>3. CASE rawCount >= 1 /\ queued' = Append(queued, rawCount) /\ Pop
      <3>1. Told(queued', inHand, (ring - rawCount) + rawCount)
        BY <1>0, <2>1, <2>3, ToldMore
      <3>2. Spoken' = ring /\ (ring - rawCount) + rawCount = ring
        BY <1>0, <1>1, <1>3, <1>4, <2>3 DEF Spoken
      <3> QED BY <1>0, <3>1, <3>2
    <2> QED BY <1>4, <2>2, <2>3, PortCountsIs DEF Counted
  <1>5. CASE Head(todo) = "zero"
    <2>1. Spoken = ring
      BY <1>0, <1>5 DEF Spoken, Zeroing
    <2>2. rawCount' = 0 /\ Pop /\ UNCHANGED queued
      BY <1>5, PortCountsIs DEF Counted
    <2>3. Spoken' = ring
      BY <1>0, <1>1, <1>3, <1>5, <2>2 DEF Spoken
    <2> QED BY <1>0, <1>3, <1>5, <2>1, <2>2, <2>3
  <1> QED BY <1>0, <1>2, <1>4, <1>5

LEMMA PortCounted == ASSUME Counted, Port PROVE Counted'
  <1>0. Typed' /\ Typed /\ todo \in Lists
    BY PortTyped DEF Counted, Typed
  <1>1. CASE PortSetsAcquire \/ PortSetsRegisters
    <2>1. /\ UNCHANGED <<ring, rawCount, queued, inHand, torn, uneven, task>> /\ Pop
          /\ todo # <<>> /\ Head(todo) \in {"start", "stop", "clear", "gain", "dac"}
      BY <1>1 DEF PortSetsAcquire, PortSetsRegisters, data, history
    <2>2. ~Zeroing(todo) /\ ~Zeroing(todo')
      <3>1. ~Zeroing(Tail(todo))
        BY <1>0, <2>1, ListsAre
      <3> QED BY <2>1, <3>1 DEF Pop, Zeroing
    <2> QED BY <1>0, <2>1, <2>2, CountsKept
  <1>2. CASE PortCounts
    BY <1>0, <1>2, PortCountsCounted
  <1> QED BY <1>1, <1>2 DEF Port

LEMMA ClientCounted == ASSUME Counted, Client PROVE Counted'
  <1>0. Typed' /\ ~Zeroing(<<>>)
    BY ClientTyped, CallsAre DEF Counted
  <1> DEFINE Kept == UNCHANGED <<ring, rawCount, queued, inHand, torn, uneven, task>>
                       /\ todo = <<>> /\ ~Zeroing(todo')
  <1>1. ASSUME NEW ops, Call(ops), ~Zeroing(ops) PROVE Kept
    BY <1>1 DEF Call, Owner, data, history
  <1> HIDE DEF Kept
  <1>2. ASSUME NEW v \in {0, 1}, WriteAcquire(v) PROVE Kept
    BY <1>1, <1>2, CallsAre DEF WriteAcquire
  <1>3. ASSUME NEW m \in {"Continuous", "Single"}, WriteAcquireMode(m) PROVE Kept
    BY <1>1, <1>3, CallsAre DEF WriteAcquireMode
  <1>4. ASSUME NEW r \in Ranges, WriteRange(r) PROVE Kept
    BY <1>1, <1>4, CallsAre DEF WriteRange
  <1>5. ASSUME NEW n \in NumAverages, WriteAveragingTime(n) PROVE Kept
    BY <1>1, <1>5, CallsAre DEF WriteAveragingTime
  <1>6. ASSUME NEW n \in NumAverages, WriteValuesPerRead(n) PROVE Kept
    BY <1>1, <1>6, CallsAre DEF WriteValuesPerRead
  <1>7. ASSUME NEW t \in IntegrationTimes, WriteIntegrationTime(t) PROVE Kept
    BY <1>1, <1>7, CallsAre DEF WriteIntegrationTime
  <1>8. ASSUME NEW v \in Voltages, WriteDAC(v) PROVE Kept
    BY <1>1, <1>8, CallsAre DEF WriteDAC
  <1>9. ASSUME WriteReadData PROVE Kept
    BY <1>1, <1>9, CallsAre DEF WriteReadData
  <1>10. Kept
    BY <1>2, <1>3, <1>4, <1>5, <1>6, <1>7, <1>8, <1>9 DEF Client
  <1> QED BY <1>0, <1>10, CountsKept DEF Kept

LEMMA TaskCounted == ASSUME Counted, Task PROVE Counted'
  <1>0. /\ Typed' /\ ring \in Nat /\ rawCount \in Nat /\ inHand \in Nat /\ queued \in Seq(Nat)
        /\ Spoken \in Int
    BY TaskTyped, CountsType DEF Counted
  <1>1. CASE TaskReceives
    <2>1. /\ inHand = 0 /\ queued # <<>> /\ task' = "received"
          /\ inHand' = Head(queued) /\ queued' = Tail(queued)
          /\ UNCHANGED <<ring, rawCount, todo, torn, uneven>>
      BY <1>1 DEF TaskReceives, Counted, history
    <2>2. ASSUME ~torn, ~uneven PROVE Told(queued', inHand', Spoken)
      <3>1. Told(queued, 0, Spoken)
        BY <2>1, <2>2 DEF Counted
      <3> QED BY <1>0, <2>1, <3>1, ToldTaken
    <2>3. Spoken' = Spoken
      BY <2>1 DEF Spoken
    <2> QED BY <1>0, <2>1, <2>2, <2>3 DEF Counted
  <1>2. CASE TaskDelivers
    <2>1. /\ todo = <<>> /\ inHand' = 0 /\ UNCHANGED <<rawCount, queued, todo, torn>>
          /\ \/ uneven' = TRUE
             \/ UNCHANGED uneven /\ ring' = IF ring < inHand THEN ring ELSE ring - inHand
      BY <1>2 DEF TaskDelivers, Owner
    <2>2. ASSUME ~torn', ~uneven' PROVE Told(queued', 0, Spoken')
      <3>1. /\ ~torn /\ ~uneven /\ ~Zeroing(todo)
            /\ ring' = IF ring < inHand THEN ring ELSE ring - inHand
        BY <2>1, <2>2, CallsAre
      <3>2. Told(queued, inHand, ring - rawCount)
        BY <3>1 DEF Counted, Spoken
      <3>3. inHand <= ring - rawCount /\ Told(queued, 0, (ring - rawCount) - inHand)
        BY <1>0, <3>2, ToldDone
      <3>4. Spoken' = (ring - rawCount) - inHand
        BY <1>0, <2>1, <3>1, <3>3 DEF Spoken
      <3> QED BY <2>1, <3>3, <3>4
    <2> QED BY <1>0, <2>1, <2>2 DEF Counted
  <1>3. CASE TaskCounts
    <2>1. /\ UNCHANGED <<ring, rawCount, queued, inHand, torn, uneven, todo>>
          /\ task # "received" /\ task' # "received"
      BY <1>3 DEF TaskCounts, data
    <2> QED BY <1>0, <2>1, CountsKept
  <1> QED BY <1>1, <1>2, <1>3 DEF Task

LEMMA NextCounted == Counted /\ [Next]_vars => Counted'
  <1>1. ASSUME Counted, UNCHANGED vars PROVE Counted'
    <2>1. Typed' /\ UNCHANGED <<ring, rawCount, queued, inHand, torn, uneven, todo, task>>
      BY <1>1, NextTyped DEF Counted, vars, data, history
    <2> QED BY <1>1, <2>1, CountsKept
  <1> QED BY <1>1, CallbackCounted, PortCounted, ClientCounted, TaskCounted DEF Next

\* Each reading in the ring is spoken for by rawCount_ or by one message, whoever runs
\* callbackFunc and wherever a signal finds its threads, unless a handler ran inside a call
\* that was half through emptying the two; and after a stop come only the readings whose
\* callbacks were under way.
THEOREM ReadingsAccounted == Spec => []Accounted
  <1>1. Init /\ Typed => Counted /\ Owing
    <2> SUFFICES ASSUME Init, Typed PROVE Counted /\ Owing
      OBVIOUS
    <2>1. Spoken = 0 /\ queued = <<>> /\ inHand = 0
      BY CallsAre DEF Init, Spoken
    <2>2. UnderWay = 0
      BY FS_EmptySet DEF Init, UnderWay
    <2> QED BY <2>1, <2>2, NothingTold DEF Init, Counted, Owing
  <1>2. Counted /\ Owing /\ [Next]_vars => (Counted /\ Owing)'
    BY NextCounted, NextOwing DEF Counted
  <1>3. Counted /\ Owing => Accounted
    <2> SUFFICES ASSUME Counted, Owing PROVE Accounted
      OBVIOUS
    <2>1. ASSUME Owner = "none", ~torn, ~uneven PROVE Announced(ring - rawCount)
      <3>1. todo = <<>> /\ ~Zeroing(todo)
        BY <2>1, CallsAre DEF Owner
      <3>2. Told(queued, inHand, ring - rawCount)
        BY <2>1, <3>1 DEF Counted, Spoken
      <3>3. ring - rawCount \in Int /\ ring - rawCount <= MaxReadings
        BY CountsType DEF Counted
      <3> QED BY <3>2, <3>3, ToldIsAnnounced DEF Counted
    <2>2. ASSUME acquiring = 0 PROVE owed >= 0
      <3>1. handler \in SUBSET Threads
        BY DEF Counted, Typed, TypeOK
      <3>2. Cardinality(handler) \in Nat
        BY <3>1, HandlersFinite
      <3> QED BY <2>2, <3>2 DEF Owing, UnderWay
    <2> QED BY <2>1, <2>2 DEF Accounted
  <1> QED BY <1>1, <1>2, <1>3, TypedInvariance, PTL DEF Spec
=============================================================================
