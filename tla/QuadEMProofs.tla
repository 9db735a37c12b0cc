---------------------------- MODULE QuadEMProofs ----------------------------
(***************************************************************************)
(* Proofs about QuadEM for every ring size, every set of NumAverage and    *)
(* NumAcquire values, every content of uninitialised memory and every      *)
(* choice of the derived class.                                            *)
(***************************************************************************)
EXTENDS QuadEM, SequenceTheorems, TLAPS

(***************************************************************************)
(* The sequence of outstanding messages.                                   *)
(***************************************************************************)
\* The fields of a message of the queue.
LEMMA MessageFields ==
  ASSUME NEW m \in Message
  PROVE  m.n \in Nat \ {0} /\ m.upto \in Int /\ m.last \in Nat
  BY DEF Message

\* The position up to which readings are spoken for is a number.
LEMMA ClaimedType == ASSUME TypeOK PROVE Claimed \in Int
  <1>1. CASE msgs = <<>>
    BY <1>1 DEF Claimed, TypeOK, HistoryType
  <1>2. CASE msgs # <<>>
    <2>1. msgs \in Seq(Message)
      BY DEF TypeOK, QueueType
    <2>2. Len(msgs) \in 1..Len(msgs)
      BY <1>2, <2>1, EmptySeq
    <2>3. msgs[Len(msgs)] \in Message
      BY <2>1, <2>2, ElementOfSeq
    <2> QED BY <1>2, <2>3, MessageFields DEF Claimed
  <1> QED BY <1>1, <1>2

\* A message with a positive count is a Message.
LEMMA MessageType ==
  ASSUME TypeOK, NEW raw \in Nat \ {0}, NEW newest \in Nat
  PROVE  [n |-> raw, upto |-> Claimed + raw, last |-> newest] \in Message
  BY ClaimedType DEF Message

\* triggerCallbacks keeps the queue a queue of messages, and puts a thread to
\* sleep only over a positive count.
LEMMA TriggerType ==
  ASSUME TypeOK, ~blocked, NEW raw \in Int, NEW newest \in Nat,
         TriggerCallbacks(raw, newest)
  PROVE  /\ msgs' \in Seq(Message)
         /\ msgs # <<>> => msgs' # <<>>
         /\ rawCount' \in Int
         /\ blocked' \in BOOLEAN
         /\ blocked' => rawCount' >= 1
  <1> msgs \in Seq(Message) /\ blocked = FALSE
    BY DEF TypeOK, QueueType
  <1>1. CASE raw < 1 /\ rawCount' = raw /\ UNCHANGED <<msgs, blocked>>
    BY <1>1
  <1>2. CASE /\ raw >= 1
             /\ msgs' = Append(msgs, [n |-> raw, upto |-> Claimed + raw, last |-> newest])
             /\ rawCount' = 0
             /\ UNCHANGED blocked
    <2> DEFINE m == [n |-> raw, upto |-> Claimed + raw, last |-> newest]
    <2>1. m \in Message
      BY <1>2, MessageType
    <2>2. msgs' = Append(msgs, m)
      BY <1>2
    <2> HIDE DEF m
    <2>3. msgs' \in Seq(Message) /\ msgs' # <<>>
      BY <2>1, <2>2, AppendProperties
    <2>4. rawCount' \in Int
      BY <1>2
    <2>5. blocked' = FALSE
      BY <1>2
    <2> QED BY <2>3, <2>4, <2>5
  <1>3. CASE raw >= 1 /\ blocked' = TRUE /\ rawCount' = raw /\ UNCHANGED msgs
    BY <1>3
  <1> QED BY <1>1, <1>2, <1>3 DEF TriggerCallbacks

\* The readout of k readings leaves the rest of the ring.
LEMMA ReadoutType ==
  ASSUME NEW s \in Seq(Nat), NEW k \in Nat \ {0}, k <= Len(s)
  PROVE  /\ SubSeq(s, k + 1, Len(s)) \in Seq(Nat)
         /\ Len(SubSeq(s, k + 1, Len(s))) = Len(s) - k
         /\ s[k] \in Nat
         /\ \A i \in 1..Len(s) - k : SubSeq(s, k + 1, Len(s))[i] = s[k + i]
  <1>1. \A i \in (k + 1)..Len(s) : s[i] \in Nat
    OBVIOUS
  <1> QED BY <1>1, SubSeqProperties

\* doDataCallbacks keeps the ring a ring of readings.
LEMMA DoDataCallbacksType ==
  ASSUME TypeOK, NEW m \in Message, DoDataCallbacks(m)
  PROVE  /\ ring' \in Seq(Nat) /\ Len(ring') <= RingSize
         /\ ringCount' \in Int
         /\ lastOut' \in Nat
         /\ ringOverflows' \in Nat
         /\ callbacks' \in Nat
  <1>0. /\ ring \in Seq(Nat) /\ Len(ring) <= RingSize /\ Len(ring) \in Nat
        /\ ringCount \in Int /\ lastOut \in Nat /\ ringOverflows \in Nat
        /\ callbacks \in Nat /\ m.n \in Nat \ {0} /\ RingSize \in Nat
    BY MessageFields, ConstAssumption DEF TypeOK, RingType, HistoryType
  <1>1. CASE UNCHANGED <<ring, ringCount, lastOut, ringOverflows, callbacks>>
    BY <1>0, <1>1
  <1>2. CASE /\ Len(ring) >= m.n
             /\ ring' = SubSeq(ring, m.n + 1, Len(ring))
             /\ ringCount' = ringCount - m.n
             /\ lastOut' = ring[m.n]
             /\ ringOverflows' = 0
             /\ callbacks' = callbacks + 1
    <2> DEFINE k == m.n
    <2>1. /\ k \in Nat \ {0} /\ k <= Len(ring)
          /\ ring' = SubSeq(ring, k + 1, Len(ring)) /\ lastOut' = ring[k]
          /\ ringCount' = ringCount - k
      BY <1>0, <1>2
    <2> HIDE DEF k
    <2>2. ring' \in Seq(Nat) /\ Len(ring') = Len(ring) - k /\ lastOut' \in Nat
      BY <1>0, <2>1, ReadoutType
    <2>3. Len(ring') <= RingSize /\ ringCount' \in Int
      BY <1>0, <2>1, <2>2
    <2>4. ringOverflows' \in Nat /\ callbacks' \in Nat
      BY <1>0, <1>2
    <2> QED BY <2>2, <2>3, <2>4
  <1> QED BY <1>1, <1>2 DEF DoDataCallbacks

\* A reading put in the ring finds a place there.
LEMMA PutType ==
  ASSUME TypeOK, NEW r \in Nat
  PROVE  /\ RingAfterDrop \in Seq(Nat)
         /\ Append(RingAfterDrop, r) \in Seq(Nat)
         /\ Len(Append(RingAfterDrop, r)) = IF RingFull THEN RingSize ELSE Len(ring) + 1
         /\ Len(Append(RingAfterDrop, r)) <= RingSize
         /\ RawAfterDrop \in Int
  <1> USE ConstAssumption DEF TypeOK, RingType
  <1>1. CASE RingFull
    <2>1. ring # <<>>
      BY <1>1, EmptySeq DEF RingFull
    <2>2. Tail(ring) \in Seq(Nat) /\ Len(Tail(ring)) = RingSize - 1
      BY <1>1, <2>1, HeadTailProperties DEF RingFull
    <2> QED BY <1>1, <2>1, <2>2, AppendProperties DEF RingAfterDrop, RawAfterDrop
  <1>2. CASE ~RingFull
    BY <1>2, AppendProperties, LenProperties DEF RingAfterDrop, RawAfterDrop, RingFull
  <1> QED BY <1>1, <1>2

-----------------------------------------------------------------------------
(***************************************************************************)
(* Type correctness.                                                       *)
(***************************************************************************)
\* The constructor and the database give the variables their types, whatever the
\* uninitialised counters hold.
LEMMA InitType == Init => TypeOK
  <1> SUFFICES ASSUME Init PROVE TypeOK
    OBVIOUS
  <1>1. RingType
    BY ConstAssumption, EmptySeq DEF Init, RingType
  <1>2. QueueType
    BY EmptySeq DEF Init, QueueType
  <1>3. ControlType
    BY ConstAssumption DEF Init, ControlType
  <1>4. HistoryType
    <2>1. made \in Nat /\ consumed \in Int /\ callbacks \in Nat
      BY DEF Init
    <2>2. clean \in BOOLEAN /\ aligned \in BOOLEAN
      BY DEF Init
    <2> QED BY <2>1, <2>2 DEF HistoryType
  <1> QED BY <1>1, <1>2, <1>3, <1>4 DEF TypeOK

\* setAcquire leaves numAcquired_ an int.
LEMMA SetAcquireType ==
  ASSUME TypeOK, NEW v, NEW a, SetAcquire(v, a)
  PROVE  numAcquired' \in Int
  BY DEF SetAcquire, TypeOK, ControlType

\* So does readStatus, restart or not.
LEMMA ReadStatusType ==
  ASSUME TypeOK, NEW a, ReadStatus(a)
  PROVE  numAcquired' \in Int
  BY SetAcquireType DEF ReadStatus, TypeOK, ControlType

\* computePositions keeps the types, the overflow of ringBuffer_ included.
LEMMA SampleType == ASSUME TypeOK, Sample PROVE TypeOK'
  <1> DEFINE raw == RawAfterDrop + 1
  <1>1. /\ ring' \in Seq(Nat) /\ Len(ring') <= RingSize /\ raw \in Int
        /\ made \in Nat /\ made' = made + 1
    BY PutType DEF Sample, TypeOK, HistoryType
  <1>2. /\ msgs' \in Seq(Message)
        /\ msgs # <<>> => msgs' # <<>>
        /\ rawCount' \in Int /\ blocked' \in BOOLEAN /\ (blocked' => rawCount' >= 1)
    <2> HIDE DEF raw
    <2>1. CASE TriggerCallbacks(raw, made + 1)
      BY <1>1, <2>1, TriggerType DEF Sample, LockFree
    <2>2. CASE rawCount' = raw /\ UNCHANGED <<msgs, blocked>>
      BY <1>1, <2>2 DEF Sample, LockFree, TypeOK, QueueType
    <2> QED BY <2>1, <2>2 DEF Sample, raw
  <1>3. RingType'
    BY <1>1, <1>2 DEF Sample, TypeOK, RingType
  <1>4. QueueType'
    BY <1>2 DEF Sample, TypeOK, QueueType
  <1>5. ControlType'
    BY DEF Sample, TypeOK, ControlType, control
  <1>6. HistoryType'
    BY <1>1 DEF Sample, TypeOK, HistoryType
  <1> QED BY <1>3, <1>4, <1>5, <1>6 DEF TypeOK

\* So does a write of ReadData, which only calls triggerCallbacks.
LEMMA ReadDataType == ASSUME TypeOK, ReadData PROVE TypeOK'
  <1>1. rawCount \in Int /\ made \in Nat /\ ~blocked
    BY DEF ReadData, LockFree, TypeOK, RingType, HistoryType
  <1>2. /\ msgs' \in Seq(Message)
        /\ msgs # <<>> => msgs' # <<>>
        /\ rawCount' \in Int /\ blocked' \in BOOLEAN /\ (blocked' => rawCount' >= 1)
    BY <1>1, TriggerType DEF ReadData
  <1>3. RingType'
    BY <1>2 DEF ReadData, TypeOK, RingType
  <1>4. QueueType'
    BY <1>2 DEF ReadData, TypeOK, QueueType
  <1>5. ControlType' /\ HistoryType'
    BY DEF ReadData, TypeOK, ControlType, HistoryType, control, history
  <1> QED BY <1>3, <1>4, <1>5 DEF TypeOK

\* So does the end of an epicsMessageQueueSend that had to wait.
LEMMA UnblockType == ASSUME TypeOK, Unblock PROVE TypeOK'
  <1> DEFINE m == [n |-> rawCount, upto |-> Claimed + rawCount, last |-> made]
  <1>1. rawCount \in Nat \ {0} /\ made \in Nat
    BY DEF Unblock, TypeOK, QueueType, RingType, HistoryType
  <1>2. m \in Message
    BY <1>1, MessageType
  <1>3. msgs' = Append(msgs, m)
    BY DEF Unblock
  <1> HIDE DEF m
  <1>4. msgs' \in Seq(Message) /\ msgs' # <<>>
    BY <1>2, <1>3, AppendProperties DEF TypeOK, QueueType
  <1>5. RingType'
    BY DEF Unblock, TypeOK, RingType
  <1>6. QueueType'
    BY <1>4 DEF Unblock, TypeOK, QueueType
  <1>7. ControlType' /\ HistoryType'
    BY DEF Unblock, TypeOK, ControlType, HistoryType, control, history
  <1> QED BY <1>5, <1>6, <1>7 DEF TypeOK

\* What callbackTask holds is a message, and what is left are messages.
LEMMA HeadType ==
  ASSUME TypeOK, inHand
  PROVE  Head(msgs) \in Message /\ Tail(msgs) \in Seq(Message)
  BY HeadTailProperties DEF TypeOK, QueueType

\* What callbackTask leaves behind after a message is well typed.
LEMMA FinishType == ASSUME TypeOK, inHand, Finish, aligned' \in BOOLEAN, callbacks' \in Nat
                    PROVE  QueueType' /\ HistoryType'
  <1>1. QueueType'
    BY HeadType DEF Finish, TypeOK, QueueType
  <1>2. consumed' \in Int
    BY HeadType, MessageFields DEF Finish
  <1>3. HistoryType'
    BY <1>2 DEF Finish, TypeOK, HistoryType
  <1> QED BY <1>1, <1>3

\* epicsMessageQueueReceive leaves callbackTask with a message that is there.
LEMMA ReceiveType == ASSUME TypeOK, Receive PROVE TypeOK'
  <1>1. RingType' /\ ControlType' /\ HistoryType'
    BY DEF Receive, TypeOK, RingType, ControlType, HistoryType, data, control, history
  <1>2. QueueType'
    BY DEF Receive, TypeOK, QueueType, data
  <1> QED BY <1>1, <1>2 DEF TypeOK

\* callbackTask keeps the types when it counts an acquisition.
LEMMA DeliverType == ASSUME TypeOK, Deliver PROVE TypeOK'
  <1>1. /\ ring' \in Seq(Nat) /\ Len(ring') <= RingSize
        /\ ringCount' \in Int /\ lastOut' \in Nat
        /\ ringOverflows' \in Nat /\ callbacks' \in Nat
    BY HeadType, DoDataCallbacksType DEF Deliver
  <1>2. RingType'
    BY <1>1 DEF Deliver, Finish, TypeOK, RingType
  <1>3. QueueType' /\ HistoryType'
    BY <1>1, FinishType DEF Deliver, TypeOK, HistoryType
  <1>4. ControlType'
    BY DEF Deliver, Finish, TypeOK, ControlType
  <1> QED BY <1>2, <1>3, <1>4 DEF TypeOK

\* And when it drops a message that comes too late.
LEMMA DiscardType == ASSUME TypeOK, Discard PROVE TypeOK'
  <1>1. RingType'
    BY DEF Discard, Finish, TypeOK, RingType
  <1>2. QueueType' /\ HistoryType'
    BY FinishType DEF Discard, TypeOK, HistoryType
  <1>3. ControlType'
    BY DEF Discard, Finish, TypeOK, ControlType
  <1> QED BY <1>1, <1>2, <1>3 DEF TypeOK

\* A flush leaves an empty ring.
LEMMA FlushType ==
  ASSUME TypeOK, LockFree, Flush, UNCHANGED <<queue, ringOverflows>>
  PROVE  RingType' /\ QueueType' /\ consumed' \in Int
  <1>1. RingType'
    BY EmptySeq, ConstAssumption DEF Flush, TypeOK, RingType, HistoryType
  <1>2. QueueType'
    BY DEF Flush, TypeOK, QueueType, queue, LockFree
  <1>3. consumed' \in Int
    BY DEF Flush, TypeOK, HistoryType
  <1> QED BY <1>1, <1>2, <1>3

\* The writes that leave the readings alone.
LEMMA SettingType ==
  ASSUME TypeOK, UNCHANGED <<data, queue, history, ringOverflows>>
  PROVE  RingType' /\ QueueType' /\ HistoryType'
  <1>1. RingType'
    BY DEF TypeOK, RingType, data
  <1>2. QueueType'
    BY DEF TypeOK, QueueType, data, queue
  <1>3. HistoryType'
    BY DEF TypeOK, HistoryType, history
  <1> QED BY <1>1, <1>2, <1>3

\* A write of 1 to Acquire keeps the types.
LEMMA StartAcquireType == ASSUME TypeOK, StartAcquire PROVE TypeOK'
  <1>1. RingType' /\ QueueType' /\ consumed' \in Int
    BY FlushType DEF StartAcquire
  <1>2. ControlType'
    BY SetAcquireType DEF StartAcquire, TypeOK, ControlType
  <1>3. HistoryType'
    BY <1>1 DEF StartAcquire, TypeOK, HistoryType
  <1> QED BY <1>1, <1>2, <1>3 DEF TypeOK

\* A write of AveragingTime, which flushes, keeps the types.
LEMMA WriteAveragingTimeType ==
  ASSUME TypeOK, NEW avg \in NumAverages, WriteAveragingTime(avg)
  PROVE  TypeOK'
  <1>1. RingType' /\ QueueType' /\ consumed' \in Int
    BY FlushType DEF WriteAveragingTime
  <1>2. ControlType'
    BY ReadStatusType DEF WriteAveragingTime, TypeOK, ControlType
  <1>3. HistoryType'
    BY <1>1 DEF WriteAveragingTime, TypeOK, HistoryType
  <1> QED BY <1>1, <1>2, <1>3 DEF TypeOK

\* Every write of a client keeps the types.
LEMMA ClientType == ASSUME TypeOK, Client PROVE TypeOK'
  <1>1. CASE StopAcquire
    <2>1. ControlType'
      BY <1>1, SetAcquireType DEF StopAcquire, TypeOK, ControlType
    <2> QED BY <1>1, <2>1, SettingType DEF StopAcquire, TypeOK
  <1>2. ASSUME NEW m \in Modes, WriteAcquireMode(m) PROVE TypeOK'
    <2>1. ControlType'
      BY <1>2, ReadStatusType DEF WriteAcquireMode, TypeOK, ControlType
    <2> QED BY <1>2, <2>1, SettingType DEF WriteAcquireMode, TypeOK
  <1>3. ASSUME NEW k \in NumAcquires, WriteNumAcquire(k) PROVE TypeOK'
    <2>1. ControlType'
      BY <1>3, ReadStatusType DEF WriteNumAcquire, TypeOK, ControlType
    <2> QED BY <1>3, <2>1, SettingType DEF WriteNumAcquire, TypeOK
  <1>4. ASSUME NEW avg \in Regroupings, WriteSetting(avg) PROVE TypeOK'
    <2>1. ControlType'
      BY <1>4, ReadStatusType, ConstAssumption DEF WriteSetting, TypeOK, ControlType
    <2> QED BY <1>4, <2>1, SettingType DEF WriteSetting, TypeOK
  <1>5. ASSUME NEW avg \in Regroupings \cup {numAverage}, Reset(avg) PROVE TypeOK'
    <2>1. numAcquired' \in Int
      BY <1>5, SetAcquireType, ReadStatusType DEF Reset
    <2>2. ControlType'
      BY <1>5, <2>1, ConstAssumption DEF Reset, TypeOK, ControlType
    <2> QED BY <1>5, <2>2, SettingType DEF Reset, TypeOK
  <1> QED BY <1>1, <1>2, <1>3, <1>4, <1>5, StartAcquireType,
             WriteAveragingTimeType, ReadDataType DEF Client

\* Every step of every thread keeps the types.
LEMMA NextType == TypeOK /\ [Next]_vars => TypeOK'
  <1> SUFFICES ASSUME TypeOK, [Next]_vars PROVE TypeOK'
    OBVIOUS
  <1>1. CASE UNCHANGED vars
    <2>1. ControlType'
      BY <1>1 DEF vars, TypeOK, ControlType, control
    <2> QED BY <1>1, <2>1, SettingType DEF vars, TypeOK
  <1> QED BY <1>1, SampleType, UnblockType, ReceiveType, DeliverType, DiscardType,
             ClientType DEF Next, CallbackTask

\* The variables of drvQuadEM have their types in every reachable state: the
\* ring never holds more than ringBufferSize readings, callbackTask holds a
\* message only if there is one, and a blocked sender has something to send.
THEOREM TypeCorrect == Spec => []TypeOK
  BY InitType, NextType, PTL DEF Spec

-----------------------------------------------------------------------------
(***************************************************************************)
(* The inductive invariant.                                                *)
(***************************************************************************)
\* Every outstanding message speaks for a reading of its own.
LEMMA ClaimsExceedMessages ==
  ASSUME TypeOK, MessagesAdjoin
  PROVE  Claimed >= consumed + Len(msgs)
  <1>1. msgs \in Seq(Message) /\ Len(msgs) \in Nat /\ consumed \in Int
    BY LenProperties DEF TypeOK, QueueType, HistoryType
  <1>2. CASE msgs = <<>>
    BY <1>1, <1>2, EmptySeq DEF Claimed
  <1>3. CASE msgs # <<>>
    <2>1. Len(msgs) \in Nat \ {0} /\ 1 \in 1..Len(msgs) /\ Len(msgs) \in 1..Len(msgs)
      BY <1>1, <1>3, EmptySeq
    <2>2. msgs[1] \in Message /\ msgs[Len(msgs)] \in Message
      BY <1>1, <2>1, ElementOfSeq
    <2>3. /\ msgs[1].n \in Nat \ {0} /\ msgs[1].upto \in Int
          /\ msgs[Len(msgs)].upto \in Int
      BY <2>2, MessageFields
    <2>4. /\ msgs[1].upto = consumed + msgs[1].n
          /\ msgs[Len(msgs)].upto - msgs[1].upto >= Len(msgs) - 1
      BY <1>3, <2>1 DEF MessagesAdjoin
    <2> QED BY <1>1, <1>3, <2>1, <2>3, <2>4 DEF Claimed
  <1> QED BY <1>2, <1>3

\* The oldest message's readings are all in the ring.
LEMMA HeadIsCovered ==
  ASSUME TypeOK, MessagesAdjoin, RingCoversClaims, rawCount >= 0, msgs # <<>>
  PROVE  /\ Head(msgs) = msgs[1] /\ msgs[1] \in Message
         /\ msgs[1].upto = consumed + msgs[1].n
         /\ Claimed >= msgs[1].upto
         /\ msgs[1].n <= Len(ring)
  <1>1. /\ msgs \in Seq(Message) /\ consumed \in Int /\ rawCount \in Int
        /\ Len(ring) \in Nat
    BY DEF TypeOK, RingType, QueueType, HistoryType
  <1>2. Len(msgs) \in Nat \ {0} /\ 1 \in 1..Len(msgs) /\ Len(msgs) \in 1..Len(msgs)
    BY <1>1, EmptySeq
  <1>3. msgs[1] \in Message /\ msgs[Len(msgs)] \in Message
    BY <1>1, <1>2, ElementOfSeq
  <1>4. /\ msgs[1].n \in Nat \ {0} /\ msgs[1].upto \in Int
        /\ msgs[Len(msgs)].upto \in Int
    BY <1>3, MessageFields
  <1>5. /\ msgs[1].upto = consumed + msgs[1].n
        /\ msgs[Len(msgs)].upto - msgs[1].upto >= Len(msgs) - 1
    BY <1>2 DEF MessagesAdjoin
  <1>6. Claimed = msgs[Len(msgs)].upto /\ Claimed >= msgs[1].upto
    BY <1>2, <1>4, <1>5 DEF Claimed
  <1>7. msgs[1].n <= Len(ring)
    BY <1>1, <1>4, <1>5, <1>6 DEF RingCoversClaims
  <1>8. Head(msgs) = msgs[1]
    BY <1>1
  <1> QED BY <1>3, <1>5, <1>6, <1>7, <1>8

\* A message that speaks for a reading or more widens the span by one at least.
LEMMA OneMoreReading ==
  \A a, b, n, l, k \in Int : n >= 1 /\ a - b >= l - k => (a + n) - b >= (l + 1) - k
  OBVIOUS

\* A new message adjoins those that are waiting.
LEMMA AnnounceAdjoins ==
  ASSUME TypeOK, MessagesAdjoin, UNCHANGED consumed,
         NEW m \in Message, m.upto = Claimed + m.n,
         msgs' = Append(msgs, m)
  PROVE  MessagesAdjoin' /\ Claimed' = m.upto
  <1> DEFINE L == Len(msgs)
  <1>1. msgs \in Seq(Message) /\ L \in Nat /\ consumed \in Int
    BY LenProperties DEF TypeOK, QueueType, HistoryType
  <1>2. /\ msgs' \in Seq(Message) /\ msgs' # <<>> /\ Len(msgs') = L + 1
        /\ \A i \in 1..L : msgs'[i] = msgs[i]
        /\ msgs'[L + 1] = m
    BY <1>1, AppendProperties
  <1>3. m.n \in Nat \ {0} /\ m.upto \in Int
    BY MessageFields
  <1>4. \A i \in 1..L : msgs[i].n \in Nat \ {0} /\ msgs[i].upto \in Int
    BY <1>1, ElementOfSeq, MessageFields
  <1>5. Claimed' = m.upto
    BY <1>1, <1>2 DEF Claimed
  <1>6. CASE L = 0
    <2>1. msgs = <<>>
      BY <1>1, <1>6, EmptySeq
    <2>2. Claimed = consumed
      BY <2>1 DEF Claimed
    <2>3. Len(msgs') = 1 /\ msgs'[1] = m
      BY <1>2, <1>6
    <2>4. msgs'[1].upto = consumed' + msgs'[1].n
      BY <2>2, <2>3
    <2>5. \A i \in 1..Len(msgs') - 1 : FALSE
      BY <2>3
    <2>6. \A i, j \in 1..Len(msgs') : i <= j => msgs'[j].upto - msgs'[i].upto >= j - i
      BY <1>3, <2>3
    <2> QED BY <1>5, <2>4, <2>5, <2>6 DEF MessagesAdjoin
  <1>7. CASE L # 0
    <2>1. msgs # <<>> /\ L \in 1..L /\ 1 \in 1..L
      BY <1>1, <1>7, EmptySeq
    <2>2. Claimed = msgs[L].upto
      BY <2>1 DEF Claimed
    <2>3. msgs'[1].upto = consumed' + msgs'[1].n
      BY <1>2, <2>1 DEF MessagesAdjoin
    <2>4. ASSUME NEW i \in 1..Len(msgs') - 1
          PROVE  msgs'[i + 1].upto = msgs'[i].upto + msgs'[i + 1].n
      <3>1. CASE i = L
        BY <1>2, <2>1, <2>2, <3>1
      <3>2. CASE i # L
        <4>1. i \in 1..L - 1 /\ i \in 1..L /\ i + 1 \in 1..L
          BY <1>1, <1>2, <3>2
        <4> QED BY <1>2, <4>1 DEF MessagesAdjoin
      <3> QED BY <3>1, <3>2
    <2>5. ASSUME NEW i \in 1..Len(msgs'), NEW j \in 1..Len(msgs'), i <= j
          PROVE  msgs'[j].upto - msgs'[i].upto >= j - i
      <3>1. CASE j <= L
        <4>1. i \in 1..L /\ j \in 1..L
          BY <1>1, <1>2, <2>5, <3>1
        <4> QED BY <1>2, <2>5, <4>1 DEF MessagesAdjoin
      <3>2. CASE j > L /\ i <= L
        <4>1. i \in 1..L /\ j = L + 1
          BY <1>1, <1>2, <3>2
        <4>2. msgs[L].upto - msgs[i].upto >= L - i
          BY <1>1, <2>1, <4>1 DEF MessagesAdjoin
        <4>3. msgs'[j].upto = msgs[L].upto + m.n /\ msgs'[i].upto = msgs[i].upto
          BY <1>2, <2>2, <4>1
        <4>4. /\ L \in Int /\ i \in Int /\ m.n \in Int /\ m.n >= 1
              /\ msgs[L].upto \in Int /\ msgs[i].upto \in Int
          BY <1>1, <1>3, <1>4, <2>1, <4>1
        <4>5. (msgs[L].upto + m.n) - msgs[i].upto >= (L + 1) - i
          BY <4>2, <4>4, OneMoreReading
        <4> QED BY <4>1, <4>3, <4>5
      <3>3. CASE i > L
        <4>1. i = L + 1 /\ j = L + 1
          BY <1>1, <1>2, <2>5, <3>3
        <4> QED BY <1>2, <1>3, <4>1
      <3> QED BY <1>1, <1>2, <2>5, <3>1, <3>2, <3>3
    <2> QED BY <1>5, <2>3, <2>4, <2>5 DEF MessagesAdjoin
  <1> QED BY <1>6, <1>7

\* When the oldest message is done with, the rest start where it ended.
LEMMA FinishAdjoins ==
  ASSUME TypeOK, MessagesAdjoin, msgs # <<>>,
         msgs' = Tail(msgs), consumed' = Head(msgs).upto
  PROVE  MessagesAdjoin' /\ Claimed' = Claimed
  <1> DEFINE L == Len(msgs)
  <1>1. msgs \in Seq(Message) /\ L \in Nat \ {0}
    BY EmptySeq DEF TypeOK, QueueType
  <1>2. /\ msgs' \in Seq(Message) /\ Len(msgs') = L - 1
        /\ \A i \in 1..L - 1 : msgs'[i] = msgs[i + 1]
    BY <1>1, HeadTailProperties
  <1>3. consumed' = msgs[1].upto
    BY <1>1
  <1>4. CASE L = 1
    <2>1. msgs' = <<>>
      BY <1>2, <1>4, EmptySeq
    <2>2. Claimed' = Claimed
      BY <1>3, <1>4, <2>1 DEF Claimed
    <2>3. \A i \in 1..Len(msgs') : FALSE
      BY <1>2, <1>4
    <2>4. \A i \in 1..Len(msgs') - 1 : FALSE
      BY <1>2, <1>4
    <2> QED BY <2>1, <2>2, <2>3, <2>4 DEF MessagesAdjoin
  <1>5. CASE L # 1
    <2>0. Len(msgs') # 0 /\ Len(msgs') \in 1..L - 1 /\ 1 \in 1..L - 1
      BY <1>1, <1>2, <1>5
    <2>1. msgs' # <<>> /\ Len(msgs') \in 1..L - 1 /\ 1 \in 1..L - 1
      BY <2>0, EmptySeq
    <2>2. Claimed' = Claimed
      BY <1>1, <1>2, <2>1 DEF Claimed
    <2>3. msgs'[1].upto = consumed' + msgs'[1].n
      BY <1>2, <1>3, <2>1 DEF MessagesAdjoin
    <2>4. ASSUME NEW i \in 1..Len(msgs') - 1
          PROVE  msgs'[i + 1].upto = msgs'[i].upto + msgs'[i + 1].n
      <3> DEFINE k == i + 1
      <3>1. i \in 1..L - 1 /\ k \in 1..L - 1
        BY <1>1, <1>2
      <3>2. msgs'[i] = msgs[k] /\ msgs'[k] = msgs[k + 1]
        BY <1>2, <3>1
      <3> HIDE DEF k
      <3>3. msgs[k + 1].upto = msgs[k].upto + msgs[k + 1].n
        BY <1>1, <3>1 DEF MessagesAdjoin
      <3> QED BY <3>2, <3>3 DEF k
    <2>5. ASSUME NEW i \in 1..Len(msgs'), NEW j \in 1..Len(msgs'), i <= j
          PROVE  msgs'[j].upto - msgs'[i].upto >= j - i
      <3>1. i \in 1..L - 1 /\ j \in 1..L - 1 /\ i + 1 \in 1..L /\ j + 1 \in 1..L
        BY <1>1, <1>2
      <3>2. msgs[j + 1].upto - msgs[i + 1].upto >= (j + 1) - (i + 1)
        BY <2>5, <3>1 DEF MessagesAdjoin
      <3> QED BY <1>2, <3>1, <3>2
    <2> QED BY <2>2, <2>3, <2>4, <2>5 DEF MessagesAdjoin
  <1> QED BY <1>4, <1>5

\* computePositions and triggerCallbacks find room in the queue: r readings in
\* the ring cover all that was and is now spoken for.
LEMMA TriggerSound ==
  ASSUME TypeOK, ~blocked, MessagesAdjoin, UNCHANGED consumed,
         NEW raw \in Nat, NEW newest \in Nat, NEW r \in Nat,
         r <= RingSize, consumed + r >= Claimed + raw,
         TriggerCallbacks(raw, newest)
  PROVE  /\ MessagesAdjoin'
         /\ ~blocked'
         /\ rawCount' >= 0
         /\ consumed' + r >= Claimed' + rawCount'
  <1>1. Claimed \in Int /\ consumed \in Int /\ Len(msgs) \in Nat /\ RingSize \in Nat
    BY ClaimedType, ConstAssumption DEF TypeOK, QueueType, HistoryType
  <1>2. CASE raw < 1 /\ rawCount' = raw /\ UNCHANGED <<msgs, blocked>>
    <2>1. MessagesAdjoin' /\ Claimed' = Claimed
      BY <1>2 DEF MessagesAdjoin, Claimed
    <2>2. rawCount' >= 0 /\ consumed' + r >= Claimed' + rawCount'
      BY <1>1, <1>2, <2>1
    <2> QED BY <1>2, <2>1, <2>2
  <1>3. CASE /\ raw >= 1
             /\ msgs' = Append(msgs, [n |-> raw, upto |-> Claimed + raw, last |-> newest])
             /\ rawCount' = 0
             /\ UNCHANGED blocked
    <2> DEFINE m == [n |-> raw, upto |-> Claimed + raw, last |-> newest]
    <2>1. /\ m \in Message /\ m.n = raw /\ m.upto = Claimed + raw
          /\ msgs' = Append(msgs, m)
      BY <1>3, MessageType
    <2> HIDE DEF m
    <2>2. MessagesAdjoin' /\ Claimed' = Claimed + raw
      BY <2>1, AnnounceAdjoins
    <2>3. rawCount' >= 0 /\ consumed' + r >= Claimed' + rawCount'
      BY <1>1, <1>3, <2>2
    <2> QED BY <1>3, <2>2, <2>3
  <1>4. raw >= 1 => QueueHasRoom
    <2>1. Claimed >= consumed + Len(msgs)
      BY ClaimsExceedMessages
    <2>2. raw >= 1 => Len(msgs) < RingSize
      BY <1>1, <2>1
    <2> QED BY <1>1, <2>2 DEF QueueHasRoom, QueueLength
  <1> QED BY <1>2, <1>3, <1>4 DEF TriggerCallbacks

\* Before the first acquisition nothing is claimed of the counters.
LEMMA InitIInv == Init => IInv
  BY InitType DEF Init, IInv

\* The part of the invariant that counts readings survives whatever leaves
\* readings, messages and counts alone.
LEMMA SoundKept ==
  ASSUME Sound, UNCHANGED <<ring, ringCount, rawCount, msgs, consumed>>
  PROVE  Sound'
  BY DEF Sound, MessagesAdjoin, RingCoversClaims, Claimed

\* computePositions keeps the invariant: the dropped reading is taken off
\* ringCount_ and rawCount_ both.
LEMMA SampleIInv == ASSUME IInv, Sample PROVE IInv'
  <1>1. TypeOK /\ TypeOK'
    BY SampleType DEF IInv
  <1>2. CASE clean
    <2> DEFINE raw == RawAfterDrop + 1
    <2>1. /\ Sound /\ ~blocked /\ clean' = clean
          /\ UNCHANGED <<consumed, numAcquired, callbacks>>
      BY <1>2 DEF IInv, Sample, control
    <2>2. /\ ring \in Seq(Nat) /\ Len(ring) \in Nat /\ Len(ring) <= RingSize
          /\ ringCount \in Int /\ rawCount \in Int /\ made + 1 \in Nat /\ RingSize \in Nat
          /\ Claimed \in Int /\ consumed \in Int
      BY <1>1, ClaimedType, ConstAssumption DEF TypeOK, RingType, HistoryType
    <2>3. /\ Len(ring') \in Nat /\ Len(ring') <= RingSize
          /\ Len(ring') = IF RingFull THEN RingSize ELSE Len(ring) + 1
      <3>1. ring' = Append(RingAfterDrop, made + 1)
        BY DEF Sample
      <3> QED BY <1>1, <2>2, <3>1, PutType
    <2>4. /\ raw \in Nat
          /\ consumed + Len(ring') >= Claimed + raw
      BY <2>1, <2>2, <2>3 DEF Sound, RingCoversClaims, RawAfterDrop, RingFull
    <2>5. ringCount' = Len(ring')
      BY <2>1, <2>2, <2>3 DEF Sample, Sound, RingFull
    <2>6. /\ MessagesAdjoin' /\ ~blocked' /\ rawCount' >= 0
          /\ consumed' + Len(ring') >= Claimed' + rawCount'
      <3> HIDE DEF raw
      <3>1. CASE TriggerCallbacks(raw, made + 1)
        BY <1>1, <2>1, <2>2, <2>3, <2>4, <3>1, TriggerSound DEF Sound
      <3>2. CASE rawCount' = raw /\ UNCHANGED <<msgs, blocked>>
        <4>1. MessagesAdjoin' /\ Claimed' = Claimed
          BY <2>1, <3>2 DEF Sound, MessagesAdjoin, Claimed
        <4>2. rawCount' >= 0 /\ consumed' + Len(ring') >= Claimed' + rawCount'
          BY <2>1, <2>2, <2>4, <3>2, <4>1
        <4> QED BY <2>1, <3>2, <4>1, <4>2
      <3> QED BY <3>1, <3>2 DEF Sample, raw
    <2>7. Sound'
      BY <2>5, <2>6 DEF Sound, RingCoversClaims
    <2> QED BY <1>1, <1>2, <2>1, <2>6, <2>7 DEF IInv
  <1>3. CASE ~clean
    BY <1>1, <1>3 DEF IInv, Sample
  <1> QED BY <1>2, <1>3

\* triggerCallbacks by itself keeps the invariant.
LEMMA ReadDataIInv == ASSUME IInv, ReadData PROVE IInv'
  <1>1. TypeOK /\ TypeOK'
    BY ReadDataType DEF IInv
  <1>2. CASE clean
    <2>1. /\ Sound /\ ~blocked
          /\ UNCHANGED <<clean, ring, ringCount, consumed, numAcquired, callbacks>>
      BY <1>2 DEF IInv, ReadData, control, history
    <2>2. /\ Len(ring) \in Nat /\ Len(ring) <= RingSize
          /\ rawCount \in Nat /\ made \in Nat
      BY <1>1, <2>1 DEF TypeOK, RingType, HistoryType, Sound
    <2>3. /\ MessagesAdjoin' /\ ~blocked' /\ rawCount' >= 0
          /\ consumed' + Len(ring) >= Claimed' + rawCount'
      BY <1>1, <2>1, <2>2, TriggerSound DEF ReadData, Sound, RingCoversClaims
    <2>4. Sound'
      BY <2>1, <2>3 DEF Sound, RingCoversClaims
    <2> QED BY <1>1, <1>2, <2>1, <2>3, <2>4 DEF IInv
  <1>3. CASE ~clean
    BY <1>1, <1>3 DEF IInv, ReadData, history
  <1> QED BY <1>2, <1>3

\* A sender sleeps only where stale messages are about.
LEMMA UnblockIInv == ASSUME IInv, Unblock PROVE IInv'
  BY UnblockType DEF IInv, Unblock, history

\* Receiving a message disturbs nothing.
LEMMA ReceiveIInv == ASSUME IInv, Receive PROVE IInv'
  BY ReceiveType, SoundKept DEF IInv, Receive, data, control, history

\* callbackTask takes just what the oldest message speaks for.
LEMMA DeliverIInv == ASSUME IInv, Deliver PROVE IInv'
  <1>1. TypeOK /\ TypeOK' /\ msgs # <<>>
    BY DeliverType DEF IInv, Deliver, TypeOK, QueueType
  <1>2. CASE clean
    <2> DEFINE k == Head(msgs).n
    <2>1. /\ Sound /\ ~blocked
          /\ UNCHANGED <<clean, rawCount, blocked>>
          /\ msgs' = Tail(msgs) /\ consumed' = Head(msgs).upto
          /\ numAcquired' = numAcquired + 1
          /\ DoDataCallbacks(Head(msgs))
      BY <1>2 DEF IInv, Deliver, Finish
    <2>2. /\ ring \in Seq(Nat) /\ Len(ring) \in Nat /\ ringCount \in Int /\ rawCount \in Int
          /\ Claimed \in Int /\ consumed \in Int /\ callbacks \in Nat /\ numAcquired \in Int
      BY <1>1, ClaimedType DEF TypeOK, RingType, HistoryType, ControlType
    <2>3. /\ Head(msgs) \in Message /\ Head(msgs).upto = consumed + k
          /\ k <= Len(ring)
      BY <1>1, <2>1, HeadIsCovered DEF Sound
    <2>4. k \in Nat \ {0}
      BY <2>3, MessageFields
    <2>5. /\ ring' = SubSeq(ring, k + 1, Len(ring))
          /\ ringCount' = ringCount - k
          /\ callbacks' = callbacks + 1
      BY <2>1, <2>2, <2>3, <2>4 DEF DoDataCallbacks
    <2>6. consumed' = consumed + k
      BY <2>1, <2>3
    <2>7. MessagesAdjoin' /\ Claimed' = Claimed
      BY <1>1, <2>1, FinishAdjoins DEF Sound
    <2> HIDE DEF k
    <2>8. Len(ring') = Len(ring) - k
      BY <2>2, <2>3, <2>4, <2>5, ReadoutType
    <2>9. Sound'
      BY <2>1, <2>2, <2>4, <2>5, <2>6, <2>7, <2>8 DEF Sound, RingCoversClaims
    <2>10. (CallsBase => numAcquired <= callbacks) => (CallsBase => numAcquired' <= callbacks')
      BY <2>1, <2>2, <2>5
    <2> QED BY <1>1, <1>2, <2>1, <2>9, <2>10 DEF IInv
  <1>3. CASE ~clean
    BY <1>1, <1>3 DEF IInv, Deliver, Finish
  <1> QED BY <1>2, <1>3

\* A dropped message leaves its readings in the ring, for nobody to claim.
LEMMA DiscardIInv == ASSUME IInv, Discard PROVE IInv'
  <1>1. TypeOK /\ TypeOK' /\ msgs # <<>>
    BY DiscardType DEF IInv, Discard, TypeOK, QueueType
  <1>2. CASE clean
    <2>1. /\ Sound /\ ~blocked
          /\ UNCHANGED <<clean, ring, ringCount, rawCount, blocked, numAcquired, callbacks>>
          /\ msgs' = Tail(msgs) /\ consumed' = Head(msgs).upto
      BY <1>2 DEF IInv, Discard, Finish
    <2>2. /\ Len(ring) \in Nat /\ rawCount \in Int /\ Claimed \in Int /\ consumed \in Int
      BY <1>1, ClaimedType DEF TypeOK, RingType, HistoryType
    <2>3. /\ Head(msgs) \in Message /\ Head(msgs).upto = consumed + Head(msgs).n
      BY <1>1, <2>1, HeadIsCovered DEF Sound
    <2>4. consumed' >= consumed /\ consumed' \in Int
      BY <2>1, <2>2, <2>3, MessageFields
    <2>5. MessagesAdjoin' /\ Claimed' = Claimed
      BY <1>1, <2>1, FinishAdjoins DEF Sound
    <2>6. Sound'
      BY <2>1, <2>2, <2>4, <2>5 DEF Sound, RingCoversClaims
    <2> QED BY <1>1, <1>2, <2>1, <2>6 DEF IInv
  <1>3. CASE ~clean
    BY <1>1, <1>3 DEF IInv, Discard, Finish
  <1> QED BY <1>2, <1>3

\* A flush with no message outstanding leaves nothing to account for.
LEMMA FlushSound ==
  ASSUME Flush, msgs = <<>>, UNCHANGED msgs
  PROVE  Sound'
  <1>1. /\ ring' = <<>> /\ ringCount' = 0 /\ rawCount' = 0 /\ consumed' = 0
        /\ msgs' = <<>> /\ Len(ring') = 0 /\ Len(msgs') = 0
    BY EmptySeq DEF Flush
  <1>2. Claimed' = 0
    BY <1>1 DEF Claimed
  <1>3. MessagesAdjoin'
    <2>1. \A i \in 1..Len(msgs') : FALSE
      BY <1>1
    <2>2. \A i \in 1..Len(msgs') - 1 : FALSE
      BY <1>1
    <2> QED BY <1>1, <2>1, <2>2 DEF MessagesAdjoin
  <1> QED BY <1>1, <1>2, <1>3 DEF Sound, RingCoversClaims

\* A write of 1 to Acquire flushes, and so starts the accounts anew.
LEMMA StartAcquireIInv == ASSUME IInv, StartAcquire PROVE IInv'
  <1>1. TypeOK'
    BY StartAcquireType DEF IInv
  <1>2. CASE clean'
    <2>1. msgs = <<>> /\ (IgnoresRestart /\ acquire = 1 => clean)
      BY <1>2 DEF StartAcquire
    <2>2. Sound'
      BY <2>1, FlushSound DEF StartAcquire, queue
    <2>3. ~blocked'
      BY DEF StartAcquire, LockFree, queue
    <2>4. CallsBase => numAcquired' <= callbacks'
      <3>1. CASE IgnoresRestart /\ acquire = 1
        BY <2>1, <3>1 DEF StartAcquire, SetAcquire, IInv
      <3>2. CASE ~(IgnoresRestart /\ acquire = 1)
        BY <3>2 DEF StartAcquire, SetAcquire
      <3> QED BY <3>1, <3>2
    <2> QED BY <1>1, <2>2, <2>3, <2>4 DEF IInv
  <1>3. CASE ~clean'
    BY <1>1, <1>3 DEF IInv
  <1> QED BY <1>2, <1>3

\* A restart of the device only ever sets the count of acquisitions back.
LEMMA RestartIInv ==
  ASSUME IInv, NEW v, NEW a, SetAcquire(v, a) \/ ReadStatus(a), UNCHANGED callbacks, clean
  PROVE  CallsBase => numAcquired' <= callbacks'
  <1>1. callbacks \in Nat
    BY DEF IInv, TypeOK, HistoryType
  <1> QED BY <1>1 DEF IInv, SetAcquire, ReadStatus

\* A write that leaves readings and messages alone keeps the invariant.
LEMMA SettingIInv ==
  ASSUME IInv, LockFree, UNCHANGED <<data, queue, history>>, TypeOK',
         NEW v, NEW a, SetAcquire(v, a) \/ ReadStatus(a)
  PROVE  IInv'
  <1>1. CASE clean
    <2>1. Sound'
      BY <1>1, SoundKept DEF IInv, data, queue, history
    <2>2. CallsBase => numAcquired' <= callbacks'
      BY <1>1, RestartIInv DEF history
    <2> QED BY <1>1, <2>1, <2>2 DEF IInv, LockFree, queue, history
  <1>2. CASE ~clean
    BY <1>2 DEF IInv, history
  <1> QED BY <1>1, <1>2

\* A write of AveragingTime flushes as well.
LEMMA WriteAveragingTimeIInv ==
  ASSUME IInv, NEW avg \in NumAverages, WriteAveragingTime(avg)
  PROVE  IInv'
  <1>1. TypeOK'
    BY WriteAveragingTimeType DEF IInv
  <1>2. CASE clean /\ msgs = <<>>
    <2>1. Sound'
      BY <1>2, FlushSound DEF WriteAveragingTime, queue
    <2>2. ~blocked'
      BY DEF WriteAveragingTime, LockFree, queue
    <2>3. CallsBase => numAcquired' <= callbacks'
      BY <1>2, RestartIInv DEF WriteAveragingTime
    <2> QED BY <1>1, <2>1, <2>2, <2>3 DEF IInv
  <1>3. CASE ~(clean /\ msgs = <<>>)
    BY <1>1, <1>3 DEF IInv, WriteAveragingTime
  <1> QED BY <1>2, <1>3

\* Every write of a client keeps the invariant.
LEMMA ClientIInv == ASSUME IInv, Client PROVE IInv'
  <1>1. TypeOK'
    BY ClientType DEF IInv
  <1>2. CASE StopAcquire
    BY <1>1, <1>2, SettingIInv DEF StopAcquire
  <1>3. ASSUME NEW m \in Modes, WriteAcquireMode(m) PROVE IInv'
    BY <1>1, <1>3, SettingIInv DEF WriteAcquireMode
  <1>4. ASSUME NEW k \in NumAcquires, WriteNumAcquire(k) PROVE IInv'
    BY <1>1, <1>4, SettingIInv DEF WriteNumAcquire
  <1>5. ASSUME NEW avg \in Regroupings, WriteSetting(avg) PROVE IInv'
    BY <1>1, <1>5, SettingIInv DEF WriteSetting
  <1>6. ASSUME NEW avg \in Regroupings \cup {numAverage}, Reset(avg) PROVE IInv'
    BY <1>1, <1>6, SettingIInv DEF Reset
  <1> QED BY <1>2, <1>3, <1>4, <1>5, <1>6, StartAcquireIInv,
             WriteAveragingTimeIInv, ReadDataIInv DEF Client

\* Every step of every thread keeps the invariant: it is inductive.
LEMMA NextIInv == IInv /\ [Next]_vars => IInv'
  <1> SUFFICES ASSUME IInv, [Next]_vars PROVE IInv'
    OBVIOUS
  <1>1. CASE UNCHANGED vars
    <2>1. TypeOK'
      BY NextType DEF IInv
    <2>2. CASE clean
      <3>1. Sound'
        BY <1>1, <2>2, SoundKept DEF IInv, vars, data, queue, history
      <3> QED BY <1>1, <2>1, <2>2, <3>1 DEF IInv, vars, queue, control, history
    <2>3. CASE ~clean
      BY <1>1, <2>1, <2>3 DEF IInv, vars, history
    <2> QED BY <2>2, <2>3
  <1> QED BY <1>1, SampleIInv, UnblockIInv, ReceiveIInv, DeliverIInv, DiscardIInv,
             ClientIInv DEF Next, CallbackTask

\* The invariant of ringBuffer_, its counters and its messages holds throughout.
THEOREM Invariance == Spec => []IInv
  BY InitIInv, NextIInv, PTL DEF Spec

-----------------------------------------------------------------------------
(***************************************************************************)
(* What the invariant says of drvQuadEM.                                   *)
(***************************************************************************)
\* The counter ringCount_ that doDataCallbacks and computePositions keep by
\* hand never drifts from what epicsRingBytes holds.
THEOREM CountIsExact == Spec => []RingCountExact
  <1>1. IInv => RingCountExact
    BY DEF IInv, Sound, RingCountExact
  <1> QED BY <1>1, Invariance, PTL

\* callbackTask always finds the announced readings in the ring: the "not
\* enough bytes in ring buffer" branch of doDataCallbacks is dead, for every
\* interleaving of readings, overflows, client writes and callbacks.
THEOREM ReadingsAreThere == Spec => []EnoughInRing
  <1>1. IInv => EnoughInRing
    BY HeadIsCovered DEF IInv, TypeOK, QueueType, Sound, EnoughInRing
  <1> QED BY <1>1, Invariance, PTL

\* A message queue with as many places as the ring has readings never fills.
THEOREM ProducerRunsFree == Spec => []SendNeverBlocks
  <1>1. IInv => SendNeverBlocks
    BY DEF IInv, SendNeverBlocks
  <1> QED BY <1>1, Invariance, PTL

\* NumAcquired is never ahead of the callbacks.
THEOREM AcquisitionsAreReal == Spec => []NoPhantomAcquisition
  <1>1. IInv => NoPhantomAcquisition
    BY DEF IInv, NoPhantomAcquisition
  <1> QED BY <1>1, Invariance, PTL

-----------------------------------------------------------------------------
(***************************************************************************)
(* The driver implements ReadingsBuffer.                                   *)
(***************************************************************************)
\* The constructor leaves an empty window.
LEMMA BufferInit == Init => Buffer!Init
  BY DEF Init, Buffer!Init

\* computePositions puts one reading, at the end, over the oldest if need be.
LEMMA SampleStep ==
  ASSUME TypeOK, Sample
  PROVE  Buffer!Put \/ Buffer!PutOverOldest
  <1>1. Len(ring) \in Nat /\ Len(ring) <= RingSize /\ RingSize \in Nat
    BY ConstAssumption DEF TypeOK, RingType
  <1>2. CASE RingFull
    BY <1>2 DEF Sample, RingFull, RingAfterDrop, Buffer!PutOverOldest
  <1>3. CASE ~RingFull
    BY <1>1, <1>3 DEF Sample, RingFull, RingAfterDrop, Buffer!Put
  <1> QED BY <1>2, <1>3

\* doDataCallbacks reads out one or more of the oldest readings, or none.
LEMMA DeliverStep ==
  ASSUME TypeOK, Deliver
  PROVE  (\E k \in 1..Len(ring) : Buffer!ReadOut(k)) \/ UNCHANGED Buffer!bvars
  <1> DEFINE k == Head(msgs).n
  <1>1. DoDataCallbacks(Head(msgs)) /\ UNCHANGED made
    BY DEF Deliver, Finish
  <1>2. k \in Nat \ {0} /\ Len(ring) \in Nat
    BY HeadType, MessageFields DEF Deliver, TypeOK, RingType
  <1>3. CASE Len(ring) < k
    BY <1>1, <1>2, <1>3 DEF DoDataCallbacks, Buffer!bvars
  <1>4. CASE Len(ring) >= k
    <2>1. k \in 1..Len(ring)
      BY <1>2, <1>4
    <2>2. Buffer!ReadOut(k)
      BY <1>1, <1>2, <1>4 DEF DoDataCallbacks, Buffer!ReadOut
    <2> QED BY <2>1, <2>2
  <1> QED BY <1>2, <1>3, <1>4

\* A client write throws all readings away or leaves them alone.
LEMMA ClientStep ==
  ASSUME Client
  PROVE  Buffer!ThrowAway \/ UNCHANGED Buffer!bvars
  <1> USE DEF Buffer!ThrowAway, Buffer!bvars
  <1>1. CASE StartAcquire
    BY <1>1 DEF StartAcquire, Flush
  <1>2. CASE StopAcquire
    BY <1>2 DEF StopAcquire, data, history
  <1>3. ASSUME NEW m \in Modes, WriteAcquireMode(m) PROVE UNCHANGED Buffer!bvars
    BY <1>3 DEF WriteAcquireMode, data, history
  <1>4. ASSUME NEW n \in NumAcquires, WriteNumAcquire(n) PROVE UNCHANGED Buffer!bvars
    BY <1>4 DEF WriteNumAcquire, data, history
  <1>5. ASSUME NEW avg \in NumAverages, WriteAveragingTime(avg) PROVE Buffer!ThrowAway
    BY <1>5 DEF WriteAveragingTime, Flush
  <1>6. ASSUME NEW avg \in Regroupings, WriteSetting(avg) PROVE UNCHANGED Buffer!bvars
    BY <1>6 DEF WriteSetting, data, history
  <1>7. ASSUME NEW avg \in Regroupings \cup {numAverage}, Reset(avg) PROVE UNCHANGED Buffer!bvars
    BY <1>7 DEF Reset, data, history
  <1>8. CASE ReadData
    BY <1>8 DEF ReadData, history
  <1> QED BY <1>1, <1>2, <1>3, <1>4, <1>5, <1>6, <1>7, <1>8 DEF Client

\* Every step of every thread is a step of the buffer, or none.
LEMMA BufferStep == TypeOK /\ [Next]_vars => [Buffer!Next]_(Buffer!bvars)
  <1> SUFFICES ASSUME TypeOK, [Next]_vars PROVE Buffer!Next \/ UNCHANGED Buffer!bvars
    OBVIOUS
  <1>1. CASE UNCHANGED vars
    BY <1>1 DEF vars, data, history, Buffer!bvars
  <1>2. CASE Unblock
    BY <1>2 DEF Unblock, history, Buffer!bvars
  <1>3. CASE Receive \/ Discard
    BY <1>3 DEF Receive, Discard, Finish, data, history, Buffer!bvars
  <1>4. CASE Sample
    BY <1>4, SampleStep DEF Buffer!Next
  <1>5. CASE Deliver
    BY <1>5, DeliverStep DEF Buffer!Next
  <1>6. CASE Client
    BY <1>6, ClientStep DEF Buffer!Next
  <1> QED BY <1>1, <1>2, <1>3, <1>4, <1>5, <1>6 DEF Next, CallbackTask

\* Whatever the threads do, and however stale the messages are, the ring is a
\* sliding window over the device's readings that is only read at its old end.
THEOREM Implementation == Spec => ImplementsBuffer
  <1>1. Init => Buffer!Init
    BY BufferInit
  <1>2. TypeOK /\ [Next]_vars => [Buffer!Next]_(Buffer!bvars)
    BY BufferStep
  <1> QED BY <1>1, <1>2, TypeCorrect, PTL DEF Spec, ImplementsBuffer, Buffer!Spec

-----------------------------------------------------------------------------
(***************************************************************************)
(* What the buffer's steps keep: the ring is a stretch of the stream.      *)
(***************************************************************************)
\* A reading put at the end, over the oldest if need be, is the next of the
\* stream, and what it pushes out is counted.
LEMMA PutUnbroken ==
  ASSUME TypeOK, NothingGoesMissing, Buffer!Put \/ Buffer!PutOverOldest
  PROVE  NothingGoesMissing'
  <1> USE DEF NothingGoesMissing, Buffer!Unbroken
  <1>1. /\ ring \in Seq(Nat) /\ Len(ring) \in Nat /\ RingSize \in Nat \ {0}
        /\ made \in Nat /\ lastOut \in Nat /\ ringOverflows \in Nat
    BY ConstAssumption DEF TypeOK, RingType, HistoryType
  <1>2. CASE Buffer!Put
    <2>1. /\ Len(ring') = Len(ring) + 1 /\ made' = made + 1
          /\ \A i \in 1..Len(ring) : ring'[i] = ring[i]
          /\ ring'[Len(ring) + 1] = made + 1
          /\ lastOut' = lastOut /\ ringOverflows' = ringOverflows
      BY <1>1, <1>2 DEF Buffer!Put
    <2>2. \A i \in 1..Len(ring') : ring'[i] = made' - Len(ring') + i
      BY <1>1, <2>1
    <2> QED BY <1>1, <2>1, <2>2
  <1>3. CASE Buffer!PutOverOldest
    <2>1. /\ Len(ring') = Len(ring) /\ made' = made + 1
          /\ \A i \in 1..Len(ring) - 1 : ring'[i] = ring[i + 1]
          /\ ring'[Len(ring)] = made + 1
          /\ lastOut' = lastOut /\ ringOverflows' = ringOverflows + 1
      BY <1>1, <1>3 DEF Buffer!PutOverOldest
    <2>2. \A i \in 1..Len(ring') : ring'[i] = made' - Len(ring') + i
      <3> SUFFICES ASSUME NEW i \in 1..Len(ring')
                   PROVE  ring'[i] = made' - Len(ring') + i
        OBVIOUS
      <3>1. CASE i = Len(ring)
        BY <1>1, <2>1, <3>1
      <3>2. CASE i # Len(ring)
        <4>1. i + 1 \in 1..Len(ring)
          BY <1>1, <2>1, <3>2
        <4> QED BY <1>1, <2>1, <3>2, <4>1
      <3> QED BY <3>1, <3>2
    <2> QED BY <1>1, <2>1, <2>2
  <1> QED BY <1>2, <1>3

\* A readout of the k oldest leaves the stretch that follows them.
LEMMA ReadOutUnbroken ==
  ASSUME TypeOK, NothingGoesMissing, NEW k \in 1..Len(ring), Buffer!ReadOut(k)
  PROVE  NothingGoesMissing'
  <1> USE DEF NothingGoesMissing, Buffer!Unbroken
  <1>1. ring \in Seq(Nat) /\ Len(ring) \in Nat /\ made \in Nat /\ k \in 1..Len(ring)
    BY DEF TypeOK, RingType, HistoryType
  <1>2. /\ Len(ring') = Len(ring) - k
        /\ \A i \in 1..Len(ring) - k : ring'[i] = ring[k + i]
    BY <1>1, ReadoutType DEF Buffer!ReadOut
  <1>3. made' = made /\ lastOut' = ring[k] /\ ringOverflows' = 0
    BY DEF Buffer!ReadOut
  <1>4. \A i \in 1..Len(ring') : ring'[i] = made' - Len(ring') + i
    <2> SUFFICES ASSUME NEW i \in 1..Len(ring')
                 PROVE  ring'[i] = made' - Len(ring') + i
      OBVIOUS
    <2>1. k + i \in 1..Len(ring)
      BY <1>1, <1>2
    <2> QED BY <1>1, <1>2, <1>3, <2>1
  <1>5. ring[k] = made - Len(ring) + k
    BY <1>1
  <1> QED BY <1>1, <1>2, <1>3, <1>4, <1>5

\* The ring ringBuffer_ holds an unbroken stretch of the device's readings, and
\* P_RingOverflows accounts for every one that is missing before it.
THEOREM ReadingsAccountedFor == Spec => []NothingGoesMissing
  <1>1. Init => NothingGoesMissing
    <2> SUFFICES ASSUME Init PROVE NothingGoesMissing
      OBVIOUS
    <2>1. ring = <<>> /\ Len(ring) = 0 /\ made = 0 /\ lastOut = 0 /\ ringOverflows = 0
      BY DEF Init
    <2>2. \A i \in 1..Len(ring) : FALSE
      BY <2>1
    <2>3. made - Len(ring) - lastOut \in 0..ringOverflows
      <3>1. made - Len(ring) - lastOut = 0 - 0 - 0
        BY ONLY <2>1, Zenon
      <3>2. 0 - 0 - 0 \in 0..0
        OBVIOUS
      <3> QED BY ONLY <2>1, <3>1, <3>2, Zenon
    <2> QED BY <2>2, <2>3 DEF NothingGoesMissing, Buffer!Unbroken
  <1>2. TypeOK /\ NothingGoesMissing /\ [Next]_vars => NothingGoesMissing'
    <2> SUFFICES ASSUME TypeOK, NothingGoesMissing, [Next]_vars
                 PROVE  NothingGoesMissing'
      OBVIOUS
    <2>1. Buffer!Next \/ UNCHANGED Buffer!bvars
      BY BufferStep
    <2>2. CASE Buffer!ThrowAway
      <3>1. made \in Nat /\ ringOverflows \in Nat
        BY DEF TypeOK, RingType, HistoryType
      <3> QED BY <2>2, <3>1 DEF Buffer!ThrowAway, NothingGoesMissing, Buffer!Unbroken
    <2>3. CASE UNCHANGED Buffer!bvars
      BY <2>3 DEF Buffer!bvars, NothingGoesMissing, Buffer!Unbroken
    <2> QED BY <2>1, <2>2, <2>3, PutUnbroken, ReadOutUnbroken DEF Buffer!Next
  <1> QED BY <1>1, <1>2, TypeCorrect, PTL DEF Spec
-----------------------------------------------------------------------------
(***************************************************************************)
(* Batches end where they were announced.                                  *)
(***************************************************************************)
\* What InStep and the rest speak about are numbers.
LEMMA Numbers ==
  ASSUME TypeOK
  PROVE  /\ Claimed \in Int /\ consumed \in Int /\ rawCount \in Int /\ made \in Nat
         /\ ring \in Seq(Nat) /\ Len(ring) \in Nat /\ Len(msgs) \in Nat
         /\ msgs \in Seq(Message)
         /\ \A i \in 1..Len(msgs) : msgs[i].upto \in Int /\ msgs[i].last \in Nat
  <1>1. msgs \in Seq(Message)
    BY DEF TypeOK, QueueType
  <1>2. \A i \in 1..Len(msgs) : msgs[i].upto \in Int /\ msgs[i].last \in Nat
    BY <1>1, ElementOfSeq, MessageFields
  <1> QED BY <1>1, <1>2, ClaimedType DEF TypeOK, RingType, QueueType, HistoryType

\* triggerCallbacks announces just the readings that nothing spoke for yet, the
\* last of them the newest: r readings are in the ring, the newest is number m.
LEMMA TriggerInStep ==
  ASSUME TypeOK, UNCHANGED consumed,
         NEW raw \in Nat, NEW m \in Nat, NEW r \in Nat,
         consumed + r = Claimed + raw,
         \A i \in 1..Len(msgs) : msgs[i].last = m - r + (msgs[i].upto - consumed),
         TriggerCallbacks(raw, m), ~blocked'
  PROVE  /\ consumed' + r = Claimed' + rawCount'
         /\ \A i \in 1..Len(msgs') : msgs'[i].last = m - r + (msgs'[i].upto - consumed')
  <1>1. CASE rawCount' = raw /\ UNCHANGED msgs
    BY <1>1 DEF Claimed
  <1>2. CASE /\ raw >= 1
             /\ msgs' = Append(msgs, [n |-> raw, upto |-> Claimed + raw, last |-> m])
             /\ rawCount' = 0
    <2> DEFINE a == [n |-> raw, upto |-> Claimed + raw, last |-> m]
               L == Len(msgs)
    <2>1. a \in Message /\ a.upto = Claimed + raw /\ a.last = m /\ msgs' = Append(msgs, a)
      BY <1>2, MessageType
    <2> HIDE DEF a
    <2>2. /\ msgs' # <<>> /\ Len(msgs') = L + 1 /\ L \in Nat
          /\ \A i \in 1..L : msgs'[i] = msgs[i]
          /\ msgs'[L + 1] = a
      BY <2>1, Numbers, AppendProperties
    <2>3. Claimed' = Claimed + raw
      BY <2>1, <2>2 DEF Claimed
    <2>4. consumed' + r = Claimed' + rawCount'
      BY <1>2, <2>3, Numbers
    <2>5. ASSUME NEW i \in 1..Len(msgs')
          PROVE  msgs'[i].last = m - r + (msgs'[i].upto - consumed')
      <3>1. CASE i = L + 1
        BY <2>1, <2>2, <3>1, Numbers
      <3>2. CASE i # L + 1
        <4>1. i \in 1..L
          BY <2>2, <3>2
        <4> QED BY <2>2, <4>1
      <3> QED BY <3>1, <3>2
    <2> QED BY <2>4, <2>5
  <1> QED BY <1>1, <1>2 DEF TriggerCallbacks

\* Nothing is announced before the first acquisition.
LEMMA InitInStep == Init => InStep
  BY DEF Init, InStep

\* A reading that finds room keeps the steps even; one that pushes another out
\* ends the alignment.
LEMMA SampleInStep == ASSUME IInv, IInv', InStep, Sample PROVE InStep'
  <1> SUFFICES ASSUME aligned' PROVE InStep'
    BY DEF InStep
  <1> DEFINE raw == RawAfterDrop + 1
  <1>1. TypeOK /\ aligned /\ ~RingFull /\ clean /\ clean' /\ UNCHANGED consumed
    BY DEF IInv, InStep, Sample
  <1>2. Sound /\ ~blocked /\ ~blocked'
    BY <1>1 DEF IInv
  <1>3. raw = rawCount + 1 /\ rawCount \in Nat /\ raw \in Nat
    BY <1>1, <1>2, Numbers DEF RawAfterDrop, Sound
  <1>4. Len(ring') = Len(ring) + 1 /\ made' = made + 1
    BY <1>1, AppendProperties, Numbers DEF Sample, RingAfterDrop
  <1>5. consumed + Len(ring') = Claimed + raw
    BY <1>1, <1>3, <1>4, Numbers DEF InStep
  <1>6. \A i \in 1..Len(msgs) :
          msgs[i].last = (made + 1) - Len(ring') + (msgs[i].upto - consumed)
    BY <1>1, <1>4, Numbers DEF InStep
  <1> HIDE DEF raw
  <1>7. CASE TriggerCallbacks(raw, made + 1)
    <2>1. made + 1 \in Nat /\ Len(ring') \in Nat
      BY <1>1, <1>4, Numbers
    <2>2. /\ consumed' + Len(ring') = Claimed' + rawCount'
          /\ \A i \in 1..Len(msgs') :
               msgs'[i].last = (made + 1) - Len(ring') + (msgs'[i].upto - consumed')
      BY <1>1, <1>2, <1>3, <1>5, <1>6, <1>7, <2>1, TriggerInStep
    <2> QED BY <1>1, <1>4, <2>2 DEF InStep
  <1>8. CASE rawCount' = raw /\ UNCHANGED <<msgs, blocked>>
    <2>1. Claimed' = Claimed
      BY <1>1, <1>8 DEF Claimed
    <2> QED BY <1>1, <1>4, <1>5, <1>6, <1>8, <2>1 DEF InStep
  <1> QED BY <1>7, <1>8 DEF Sample, raw

\* So does a write of ReadData: all that rawCount_ counts ends at the newest.
LEMMA ReadDataInStep == ASSUME IInv, IInv', InStep, ReadData PROVE InStep'
  <1> SUFFICES ASSUME aligned' PROVE InStep'
    BY DEF InStep
  <1>1. /\ TypeOK /\ aligned /\ clean /\ clean'
        /\ UNCHANGED <<ring, consumed, made>>
    BY DEF IInv, InStep, ReadData, history
  <1>2. Sound /\ ~blocked /\ ~blocked' /\ TriggerCallbacks(rawCount, made)
    BY <1>1 DEF IInv, ReadData
  <1>3. rawCount \in Nat /\ made \in Nat /\ Len(ring) \in Nat
    BY <1>1, <1>2, Numbers DEF Sound
  <1>4. /\ consumed + Len(ring) = Claimed + rawCount
        /\ \A i \in 1..Len(msgs) : msgs[i].last = made - Len(ring) + (msgs[i].upto - consumed)
    BY <1>1 DEF InStep
  <1> QED BY <1>1, <1>2, <1>3, <1>4, TriggerInStep DEF InStep

\* A readout takes from the ring what its message spoke for.
LEMMA DeliverInStep == ASSUME IInv, InStep, Deliver PROVE InStep'
  <1> SUFFICES ASSUME aligned' PROVE InStep'
    BY DEF InStep
  <1> DEFINE k == Head(msgs).n
             L == Len(msgs)
  <1>1. /\ TypeOK /\ aligned /\ clean /\ clean' /\ msgs # <<>>
        /\ UNCHANGED <<rawCount, made>>
        /\ msgs' = Tail(msgs) /\ consumed' = Head(msgs).upto
        /\ DoDataCallbacks(Head(msgs))
    BY DEF IInv, InStep, Deliver, Finish, TypeOK, QueueType
  <1>2. Sound
    BY <1>1 DEF IInv
  <1>3. /\ Head(msgs) \in Message /\ Head(msgs).upto = consumed + k
        /\ k <= Len(ring)
    BY <1>1, <1>2, HeadIsCovered DEF Sound
  <1>4. k \in Nat \ {0}
    BY <1>3, MessageFields
  <1>5. ring' = SubSeq(ring, k + 1, Len(ring))
    BY <1>1, <1>3, <1>4, Numbers DEF DoDataCallbacks
  <1>6. consumed' = consumed + k
    BY <1>1, <1>3
  <1>7. Claimed' = Claimed
    BY <1>1, <1>2, FinishAdjoins DEF Sound
  <1>8. Len(msgs') = L - 1 /\ \A i \in 1..L - 1 : msgs'[i] = msgs[i + 1]
    BY <1>1, Numbers, HeadTailProperties
  <1> HIDE DEF k
  <1>9. Len(ring') = Len(ring) - k
    BY <1>1, <1>3, <1>4, <1>5, Numbers, ReadoutType
  <1>10. consumed' + Len(ring') = Claimed' + rawCount'
    <2>1. consumed + Len(ring) = Claimed + rawCount
      BY <1>1 DEF InStep
    <2>2. /\ Claimed \in Int /\ consumed \in Int /\ rawCount \in Int /\ Len(ring) \in Nat
      BY <1>1, Numbers
    <2>3. rawCount' = rawCount
      BY <1>1
    <2> QED BY ONLY <1>4, <1>6, <1>7, <1>9, <2>1, <2>2, <2>3
  <1>11. ASSUME NEW i \in 1..Len(msgs')
         PROVE  msgs'[i].last = made' - Len(ring') + (msgs'[i].upto - consumed')
    <2>1. i + 1 \in 1..L /\ msgs'[i] = msgs[i + 1]
      BY <1>1, <1>8, Numbers
    <2> DEFINE u == msgs'[i].upto
    <2>2. u \in Int /\ consumed \in Int /\ made \in Int /\ Len(ring) \in Int
      BY <1>1, <2>1, Numbers
    <2>3. msgs'[i].last = made - Len(ring) + (u - consumed)
      BY <1>1, <2>1 DEF InStep
    <2> HIDE DEF u
    <2>4. made - Len(ring) + (u - consumed) = made - (Len(ring) - k) + (u - (consumed + k))
      BY <1>4, <2>2
    <2>5. made' = made /\ Len(ring') = Len(ring) - k /\ consumed' = consumed + k
      BY <1>1, <1>6, <1>9
    <2>6. msgs'[i].last = made' - Len(ring') + (u - consumed')
      BY <2>3, <2>4, <2>5
    <2> QED BY <2>6 DEF u
  <1> QED BY <1>1, <1>10, <1>11 DEF InStep

\* A write that leaves readings and messages alone leaves them in step.
LEMMA InStepKept ==
  ASSUME InStep, UNCHANGED <<ring, rawCount, msgs, made, consumed, clean, aligned>>
  PROVE  InStep'
  BY DEF InStep, Claimed

\* A flush that meets no message leaves nothing to be in step with.
LEMMA FlushInStep ==
  ASSUME Flush, UNCHANGED msgs, msgs = <<>>, clean'
  PROVE  InStep'
  <1>1. /\ ring' = <<>> /\ rawCount' = 0 /\ consumed' = 0 /\ msgs' = <<>>
        /\ Len(ring') = 0 /\ Len(msgs') = 0
    BY EmptySeq DEF Flush
  <1>2. Claimed' = 0
    BY <1>1 DEF Claimed
  <1>3. \A i \in 1..Len(msgs') : FALSE
    BY <1>1
  <1> QED BY <1>1, <1>2, <1>3 DEF InStep

\* Every write of a client keeps messages and readings in step.
LEMMA ClientInStep == ASSUME IInv, IInv', InStep, Client PROVE InStep'
  <1> USE DEF data, queue, history
  <1>1. CASE StartAcquire
    <2>1. (clean' /\ msgs = <<>>) \/ ~aligned'
      BY <1>1 DEF StartAcquire
    <2>2. CASE ~aligned'
      BY <2>2 DEF InStep
    <2> QED BY <1>1, <2>1, <2>2, FlushInStep DEF StartAcquire
  <1>2. CASE StopAcquire
    BY <1>2, InStepKept DEF StopAcquire
  <1>3. ASSUME NEW m \in Modes, WriteAcquireMode(m) PROVE InStep'
    BY <1>3, InStepKept DEF WriteAcquireMode
  <1>4. ASSUME NEW n \in NumAcquires, WriteNumAcquire(n) PROVE InStep'
    BY <1>4, InStepKept DEF WriteNumAcquire
  <1>5. ASSUME NEW avg \in NumAverages, WriteAveragingTime(avg) PROVE InStep'
    <2>1. (clean' /\ msgs = <<>>) \/ ~aligned'
      BY <1>5 DEF WriteAveragingTime, InStep
    <2>2. CASE ~aligned'
      BY <2>2 DEF InStep
    <2> QED BY <1>5, <2>1, <2>2, FlushInStep DEF WriteAveragingTime
  <1>6. ASSUME NEW avg \in Regroupings, WriteSetting(avg) PROVE InStep'
    BY <1>6, InStepKept DEF WriteSetting
  <1>7. ASSUME NEW avg \in Regroupings \cup {numAverage}, Reset(avg) PROVE InStep'
    BY <1>7, InStepKept DEF Reset
  <1>8. CASE ReadData
    BY <1>8, ReadDataInStep
  <1> QED BY <1>1, <1>2, <1>3, <1>4, <1>5, <1>6, <1>7, <1>8 DEF Client

\* So does every step of every thread.
LEMMA NextInStep == IInv /\ IInv' /\ InStep /\ [Next]_vars => InStep'
  <1> SUFFICES ASSUME IInv, IInv', InStep, [Next]_vars PROVE InStep'
    OBVIOUS
  <1>1. CASE UNCHANGED vars
    BY <1>1, InStepKept DEF vars, data, queue, history
  <1>2. CASE Unblock
    BY <1>2 DEF IInv, InStep, Unblock, history
  <1>3. CASE Receive
    BY <1>3, InStepKept DEF Receive, data, history
  <1>4. CASE Discard
    BY <1>4 DEF Discard, InStep
  <1> QED BY <1>1, <1>2, <1>3, <1>4, SampleInStep, DeliverInStep, ClientInStep
      DEF Next, CallbackTask

\* While aligned, every reading of the ring is spoken for or counted in rawCount_.
LEMMA InStepAlways == Spec => []InStep
  BY Invariance, InitInStep, NextInStep, PTL DEF Spec

\* The position a message ends at lies within the ring.
LEMMA MessageIsCovered ==
  ASSUME TypeOK, Sound, NEW i \in 1..Len(msgs)
  PROVE  msgs[i].upto - consumed \in 1..Len(ring)
  <1> DEFINE L == Len(msgs)
  <1>1. L \in Nat \ {0} /\ 1 \in 1..L /\ L \in 1..L /\ i \in 1..L /\ msgs # <<>>
    BY Numbers, EmptySeq
  <1>2. msgs[1].upto = consumed + msgs[1].n /\ msgs[1].n \in Nat \ {0}
    BY <1>1, HeadIsCovered, MessageFields DEF Sound
  <1>3. Claimed = msgs[L].upto
    BY <1>1 DEF Claimed
  <1>4. msgs[i].upto - msgs[1].upto >= i - 1 /\ msgs[L].upto - msgs[i].upto >= L - i
    BY <1>1 DEF Sound, MessagesAdjoin
  <1>5. consumed + Len(ring) >= Claimed + rawCount /\ rawCount >= 0
    BY DEF Sound, RingCoversClaims
  <1>6. msgs[1].upto \in Int /\ msgs[i].upto \in Int /\ msgs[L].upto \in Int
    BY <1>1, Numbers
  <1>7. consumed \in Int /\ rawCount \in Int /\ Len(ring) \in Nat
    BY Numbers
  <1>8. msgs[i].upto - consumed >= 1
    <2> DEFINE first == msgs[1].upto
               n     == msgs[1].n
               mine  == msgs[i].upto
    <2>1. first = consumed + n /\ n \in Nat \ {0} /\ mine - first >= i - 1
      BY <1>2, <1>4
    <2>2. first \in Int /\ mine \in Int /\ i \in Nat \ {0}
      BY <1>1, <1>6
    <2> HIDE DEF first, n, mine
    <2>3. mine - consumed >= 1
      BY <1>7, <2>1, <2>2
    <2> QED BY <2>3 DEF mine
  <1>9. msgs[i].upto - consumed <= Len(ring)
    BY <1>1, <1>3, <1>4, <1>5, <1>6, <1>7
  <1> QED BY <1>6, <1>7, <1>8, <1>9

\* Without an overflow since the last start, the batch that a message announces
\* ends with the reading that was the newest when computePositions or a client
\* called triggerCallbacks, for every ring size and every grouping of readings:
\* a gate pulse's batch holds that pulse's readings and no others after them.
THEOREM BatchesEndRight == Spec => []BatchEndsWhereAnnounced
  <1>1. IInv /\ InStep /\ NothingGoesMissing => BatchEndsWhereAnnounced
    <2> SUFFICES ASSUME IInv, InStep, NothingGoesMissing, aligned, NEW i \in 1..Len(msgs)
                 PROVE  /\ msgs[i].upto - consumed \in 1..Len(ring)
                        /\ ring[msgs[i].upto - consumed] = msgs[i].last
      BY DEF BatchEndsWhereAnnounced
    <2> DEFINE p == msgs[i].upto - consumed
    <2>1. TypeOK /\ Sound
      BY DEF IInv, InStep
    <2>2. p \in 1..Len(ring)
      BY <2>1, MessageIsCovered
    <2>3. msgs[i].last = made - Len(ring) + p
      BY DEF InStep
    <2> HIDE DEF p
    <2>4. ring[p] = made - Len(ring) + p
      BY <2>2 DEF NothingGoesMissing, Buffer!Unbroken
    <2>5. ring[p] = msgs[i].last
      BY <2>3, <2>4
    <2> QED BY <2>2, <2>5 DEF p
  <1> QED BY <1>1, Invariance, InStepAlways, ReadingsAccountedFor, PTL

-----------------------------------------------------------------------------
(***************************************************************************)
(* A counted acquisition that runs comes to its end.                       *)
(***************************************************************************)
\* A driver whose setAcquire calls the base class's and whose readStatus, called
\* for every setting, stops and restarts a running device (TetrAMM, AHxxx).
LEMMA EndStaysAhead ==
  ASSUME CallsBase, Restarts, NumAcquires \subseteq Nat \ {0},
         TypeOK, TypeOK', StopIsAhead, [Next]_vars
  PROVE  StopIsAhead'
  <1> SUFFICES ASSUME acquire' = 1, acquireMode' # "Continuous"
               PROVE  numAcquired' < Target'
    BY DEF StopIsAhead
  <1> USE DEF data, queue, control, history
  <1>1. /\ numAcquired \in Int /\ numAcquire \in Int
        /\ numAcquire >= 1 /\ numAcquire' >= 1
        /\ Target >= 1 /\ Target' >= 1 /\ Target \in Int /\ Target' \in Int
    BY DEF TypeOK, ControlType, Target
  <1>2. CASE numAcquired' = 0
    BY <1>1, <1>2
  <1>3. CASE UNCHANGED <<acquire, acquireMode, numAcquire, numAcquired>>
    BY <1>3 DEF StopIsAhead, Target
  <1>4. ASSUME NEW a, ReadStatus(a), a = 1 PROVE numAcquired' = 0
    BY <1>4 DEF ReadStatus, SetAcquire
  <1>5. CASE UNCHANGED vars \/ Sample \/ Unblock \/ Receive \/ Discard \/ ReadData
    BY <1>3, <1>5 DEF vars, Sample, Unblock, Receive, Discard, Finish, ReadData
  <1>6. CASE Deliver
    <2>1. /\ UNCHANGED <<acquireMode, numAcquire>> /\ numAcquired' = numAcquired + 1
          /\ numAcquired < Target /\ Target' = Target
          /\ numAcquired' # Target
      BY <1>6 DEF Deliver, Finish, Target
    <2> QED BY <1>1, <2>1
  <1>7. CASE StartAcquire
    <2>1. CASE IgnoresRestart /\ acquire = 1
      BY <1>3, <1>7, <2>1 DEF StartAcquire, SetAcquire
    <2>2. CASE ~(IgnoresRestart /\ acquire = 1)
      BY <1>2, <1>7, <2>2 DEF StartAcquire, SetAcquire
    <2> QED BY <2>1, <2>2
  <1>8. CASE StopAcquire
    BY <1>8 DEF StopAcquire
  <1>9. ASSUME NEW m \in Modes, WriteAcquireMode(m) PROVE numAcquired' < Target'
    BY <1>2, <1>4, <1>9 DEF WriteAcquireMode
  <1>10. ASSUME NEW n \in NumAcquires, WriteNumAcquire(n) PROVE numAcquired' < Target'
    BY <1>2, <1>4, <1>10 DEF WriteNumAcquire
  <1>11. ASSUME NEW avg \in NumAverages, WriteAveragingTime(avg) PROVE numAcquired' < Target'
    BY <1>2, <1>4, <1>11 DEF WriteAveragingTime
  <1>12. ASSUME NEW avg, WriteSetting(avg) PROVE numAcquired' < Target'
    BY <1>2, <1>4, <1>12 DEF WriteSetting
  <1>13. ASSUME NEW avg, Reset(avg) PROVE numAcquired' < Target'
    BY <1>2, <1>4, <1>13 DEF Reset
  <1> QED BY <1>5, <1>6, <1>7, <1>8, <1>9, <1>10, <1>11, <1>12, <1>13
      DEF Next, CallbackTask, Client

\* With a driver of that kind, and a client that asks for one acquisition or
\* more, no sequence of settings, restarts and callbacks takes numAcquired_ of a
\* running counted acquisition to or past the number callbackTask waits for, so
\* the test for equality in callbackTask stops it.
THEOREM CountedRunsEnd ==
  ASSUME CallsBase, Restarts, NumAcquires \subseteq Nat \ {0}
  PROVE  Spec => []StopIsAhead
  <1>1. Init => StopIsAhead
    BY DEF Init, StopIsAhead
  <1>2. TypeOK /\ TypeOK' /\ StopIsAhead /\ [Next]_vars => StopIsAhead'
    BY EndStaysAhead
  <1> QED BY <1>1, <1>2, TypeCorrect, PTL DEF Spec
=============================================================================
