------------------------------- MODULE QuadEM -------------------------------
(***************************************************************************)
(* The base class drvQuadEM: the ring buffer of readings, the counters     *)
(* ringCount_ and rawCount_, the message queue that tells the callback     *)
(* thread how many readings to hand to the plugins, and the life cycle of  *)
(* an acquisition (Acquire, AcquireMode, NumAcquire, NumAcquired).         *)
(*                                                                         *)
(* Three kinds of thread meet here, all under the one lock of the asyn     *)
(* driver: the device's read thread (computePositions), the port thread    *)
(* that runs client writes (writeInt32, writeFloat64), and callbackTask.   *)
(* Only two steps happen outside the lock's atomicity: callbackTask takes  *)
(* a message off the queue BEFORE it asks for the lock, and a sender that  *)
(* finds the queue full sleeps in epicsMessageQueueSend WITH the lock.     *)
(*                                                                         *)
(* The derived class is abstracted to four facts about it, the constants   *)
(* CallsBase, IgnoresRestart, Restarts and AlwaysSamples; what a derived   *)
(* class does with its device is one step of the call that asks for it.    *)
(***************************************************************************)
EXTENDS Integers, Sequences

CONSTANTS
  RingSize,      \* ringBufferSize: readings in the ring, messages in the queue
  NumAverages,   \* values NumAverage can take; 0 disables automatic callbacks
  NumAcquires,   \* values a client can write to NumAcquire
  Garbage,       \* values an uninitialised int member of the object can hold
  CallsBase,     \* the derived setAcquire calls drvQuadEM::setAcquire
  IgnoresRestart,\* the derived setAcquire(1) does nothing while acquiring
  Restarts,      \* the derived readStatus stops and restarts a running device
  AlwaysSamples, \* readings come in after the device was told to stop
  Regroupings,   \* values a client's other settings (ValuesPerRead, NumChannels,
                 \* TriggerMode, ...) give NumAverage; {} if it makes none
  MaxSamples     \* bound: readings the device delivers in one behaviour

ASSUME ConstAssumption ==
  /\ RingSize \in Nat \ {0}
  /\ NumAverages \subseteq Nat /\ NumAverages # {}
  /\ NumAcquires \subseteq Int /\ NumAcquires # {}
  /\ Garbage \subseteq Int /\ Garbage # {}
  /\ CallsBase \in BOOLEAN
  /\ IgnoresRestart \in BOOLEAN
  /\ Restarts \in BOOLEAN
  /\ AlwaysSamples \in BOOLEAN
  /\ Regroupings \subseteq NumAverages
  /\ MaxSamples \in Nat

Modes == {"Continuous", "Multiple", "Single"}   \* QEAcquireMode_t

(***************************************************************************)
(* A message is the int rawCount_ (field n).  The fields upto and last are *)
(* history: upto is the position, counted from the last flush, of the last *)
(* reading the message speaks for, and last is that reading.               *)
(***************************************************************************)
Message == [n : Nat \ {0}, upto : Int, last : Nat]

VARIABLES
  \* what the driver object holds
  ring,          \* ringBuffer_, oldest reading first; a reading is its number
  ringCount,     \* ringCount_
  rawCount,      \* rawCount_: readings not yet spoken for by a message
  msgs,          \* messages sent and not yet acted on, oldest first
  inHand,        \* callbackTask has received Head(msgs) and wants the lock
  blocked,       \* a thread sleeps in epicsMessageQueueSend holding the lock
  acquire,       \* ADAcquire, and whether the device is running
  acquireMode,   \* P_AcquireMode
  numAcquire,    \* P_NumAcquire
  numAcquired,   \* numAcquired_ and P_NumAcquired
  numAverage,    \* P_NumAverage
  ringOverflows, \* P_RingOverflows
  \* history
  made,          \* readings delivered by the device so far
  lastOut,       \* the last reading that left the ring by a readout or flush
  consumed,      \* readings spoken for since the flush and already dealt with
  callbacks,     \* plugin callbacks (NDArrayCounter) since Acquire was set
  clean,         \* no message was outstanding at the start, or at a flush since
  aligned        \* clean, and neither an overflow nor a discarded message since

data    == <<ring, ringCount, rawCount, lastOut>>
queue   == <<msgs, inHand, blocked>>
control == <<acquire, acquireMode, numAcquire, numAcquired, numAverage>>
history == <<made, consumed, callbacks, clean, aligned>>
vars    == <<data, queue, control, history, ringOverflows>>

-----------------------------------------------------------------------------
(* The message queue.                                                      *)

QueueLength == Len(msgs) - (IF inHand THEN 1 ELSE 0)

QueueHasRoom == QueueLength < RingSize

\* The position up to which messages have spoken for the ring's readings.
Claimed == IF msgs = <<>> THEN consumed ELSE msgs[Len(msgs)].upto

\* How many acquisitions the mode asks for (callbackTask, numAcquire).
Target == IF acquireMode = "Single" THEN 1 ELSE numAcquire

\* Nobody sleeps with the lock, so a thread that wants it gets it.
LockFree == ~blocked

(***************************************************************************)
(* triggerCallbacks with raw readings counted and newest the last one put  *)
(* in the ring.  A full queue puts the caller to sleep with the lock held; *)
(* Unblock is the rest of the call.                                        *)
(***************************************************************************)
TriggerCallbacks(raw, newest) ==
  \/ /\ raw < 1
     /\ rawCount' = raw
     /\ UNCHANGED <<msgs, blocked>>
  \/ /\ raw >= 1
     /\ QueueHasRoom
     /\ msgs' = Append(msgs, [n |-> raw, upto |-> Claimed + raw, last |-> newest])
     /\ rawCount' = 0
     /\ UNCHANGED blocked
  \/ /\ raw >= 1
     /\ ~QueueHasRoom
     /\ blocked' = TRUE
     /\ rawCount' = raw
     /\ UNCHANGED msgs

Unblock ==
  /\ blocked
  /\ QueueHasRoom
  /\ msgs' = Append(msgs, [n |-> rawCount, upto |-> Claimed + rawCount, last |-> made])
  /\ rawCount' = 0
  /\ blocked' = FALSE
  /\ UNCHANGED <<ring, ringCount, lastOut, inHand, control, history, ringOverflows>>

-----------------------------------------------------------------------------
(***************************************************************************)
(* computePositions: one reading enters the ring, the oldest leaving it    *)
(* when it is full, and the callback thread is told when NumAverage        *)
(* readings have accumulated.                                              *)
(***************************************************************************)
RingFull == Len(ring) = RingSize

\* The oldest reading makes way, and nothing speaks for it any more.
DropNewest       == IF RingFull THEN SubSeq(ring, 1, RingSize - 1) ELSE ring  \* mutant
RingAfterDrop    == IF RingFull THEN Tail(ring) ELSE ring
RawNotDecremented == rawCount                                                 \* mutant
RawAfterDrop     == IF RingFull THEN rawCount - 1 ELSE rawCount

Sample ==
  LET raw    == RawAfterDrop + 1
      newest == made + 1
  IN
  /\ LockFree
  /\ acquire = 1 \/ AlwaysSamples
  /\ made < MaxSamples
  /\ made' = newest
  /\ ring' = Append(RingAfterDrop, newest)
  /\ ringCount' = (IF RingFull THEN ringCount - 1 ELSE ringCount) + 1
  /\ ringOverflows' = IF RingFull THEN ringOverflows + 1 ELSE ringOverflows
  /\ aligned' = (aligned /\ ~RingFull)
  /\ \/ /\ numAverage > 0
        /\ raw >= numAverage
        /\ TriggerCallbacks(raw, newest)
     \/ /\ ~(numAverage > 0 /\ raw >= numAverage)
        /\ rawCount' = raw
        /\ UNCHANGED <<msgs, blocked>>
  /\ UNCHANGED <<lastOut, inHand, control, consumed, callbacks, clean>>

(***************************************************************************)
(* triggerCallbacks called for its own sake: a client writes ReadData, or  *)
(* the read thread sees the end of a gate pulse.                           *)
(***************************************************************************)
ReadData ==
  /\ LockFree
  /\ TriggerCallbacks(rawCount, made)
  /\ UNCHANGED <<ring, ringCount, lastOut, inHand, control, history, ringOverflows>>

-----------------------------------------------------------------------------
(* callbackTask.                                                           *)

Receive ==
  /\ ~inHand
  /\ msgs # <<>>
  /\ inHand' = TRUE
  /\ UNCHANGED <<data, msgs, blocked, control, history, ringOverflows>>

\* mutant: one reading of the batch stays behind
ReadOneShort(m) ==
  \/ /\ Len(ring) < m.n
     /\ UNCHANGED <<ring, ringCount, lastOut, ringOverflows, callbacks>>
  \/ /\ Len(ring) >= m.n
     /\ ring' = SubSeq(ring, m.n, Len(ring))
     /\ ringCount' = ringCount - m.n + 1
     /\ lastOut' = ring[m.n]
     /\ ringOverflows' = 0
     /\ callbacks' = callbacks + 1

\* doDataCallbacks(m.n): all of the readings or, when too few are there, none.
DoDataCallbacks(m) ==
  \/ /\ Len(ring) < m.n
     /\ UNCHANGED <<ring, ringCount, lastOut, ringOverflows, callbacks>>
  \/ /\ Len(ring) >= m.n
     /\ ring' = SubSeq(ring, m.n + 1, Len(ring))
     /\ ringCount' = ringCount - m.n
     /\ lastOut' = ring[m.n]
     /\ ringOverflows' = 0
     /\ callbacks' = callbacks + 1

\* What callbackTask does with the message, once it has the lock.
Finish == /\ inHand' = FALSE
          /\ msgs' = Tail(msgs)
          /\ consumed' = Head(msgs).upto
          /\ UNCHANGED <<rawCount, blocked, acquireMode, numAcquire, numAverage, made, clean>>

Deliver ==
  /\ inHand
  /\ LockFree
  /\ acquireMode = "Continuous" \/ numAcquired < Target
  /\ DoDataCallbacks(Head(msgs))
  /\ numAcquired' = numAcquired + 1
  /\ acquire' = IF acquireMode # "Continuous" /\ numAcquired' = Target THEN 0 ELSE acquire
  /\ UNCHANGED aligned
  /\ Finish

\* mutant: only the message right after the last acquisition is dropped
DiscardAtTarget ==
  /\ inHand
  /\ LockFree
  /\ acquireMode # "Continuous"
  /\ numAcquired = Target
  /\ aligned' = FALSE
  /\ UNCHANGED <<ring, ringCount, lastOut, ringOverflows, callbacks, acquire, numAcquired>>
  /\ Finish

\* A message that comes after the last acquisition is dropped, its readings stay.
Discard ==
  /\ inHand
  /\ LockFree
  /\ acquireMode # "Continuous"
  /\ numAcquired >= Target
  /\ aligned' = FALSE
  /\ UNCHANGED <<ring, ringCount, lastOut, ringOverflows, callbacks, acquire, numAcquired>>
  /\ Finish

-----------------------------------------------------------------------------
(* The client writes.                                                      *)

\* epicsRingBytesFlush and the two counters; the message queue is left alone.
Flush ==
  /\ ring' = <<>>
  /\ ringCount' = 0
  /\ rawCount' = 0
  /\ lastOut' = made
  /\ consumed' = IF msgs = <<>> THEN 0 ELSE consumed

NeverReset(v, a) == UNCHANGED numAcquired   \* mutant

\* The derived setAcquire(v) of a device that runs if a = 1, as far as
\* numAcquired_ goes.
SetAcquire(v, a) ==
  numAcquired' = IF v = 1 /\ CallsBase /\ ~(IgnoresRestart /\ a = 1)
                 THEN 0 ELSE numAcquired

\* The derived readStatus: a device that runs is stopped and set going again.
ReadStatus(a) ==
  IF Restarts /\ a = 1 THEN SetAcquire(1, 0) ELSE UNCHANGED numAcquired

\* Writing 1 to Acquire flushes even where the running device ignores it; such
\* a write begins no new acquisition, as the history has it.
StartAcquire ==
  LET goesOn == IgnoresRestart /\ acquire = 1
  IN
  /\ LockFree
  /\ Flush
  /\ SetAcquire(1, acquire)
  /\ acquire' = 1
  /\ callbacks' = IF goesOn THEN callbacks ELSE 0
  /\ clean' = (msgs = <<>> /\ (goesOn => clean))
  /\ aligned' = (msgs = <<>> /\ (goesOn => clean))
  /\ UNCHANGED <<queue, acquireMode, numAcquire, numAverage, made, ringOverflows>>

StopAcquire ==
  /\ LockFree
  /\ SetAcquire(0, acquire)
  /\ acquire' = 0
  /\ UNCHANGED <<data, queue, acquireMode, numAcquire, numAverage, history, ringOverflows>>

WriteAcquireMode(m) ==
  /\ LockFree
  /\ acquireMode' = m
  /\ acquire' = IF m # "Continuous" THEN 0 ELSE acquire
  /\ ReadStatus(acquire')
  /\ UNCHANGED <<data, queue, numAcquire, numAverage, history, ringOverflows>>

WriteNumAcquire(k) ==
  /\ LockFree
  /\ numAcquire' = k
  /\ ReadStatus(acquire)
  /\ UNCHANGED <<data, queue, acquire, acquireMode, numAverage, history, ringOverflows>>

WriteAveragingTime(avg) ==
  /\ LockFree
  /\ numAverage' = avg
  /\ Flush
  /\ ReadStatus(acquire)
  /\ clean' = (clean /\ msgs = <<>>)
  /\ aligned' = (aligned /\ msgs = <<>>)
  /\ UNCHANGED <<queue, acquire, acquireMode, numAcquire, made, callbacks, ringOverflows>>

\* ValuesPerRead, NumChannels, TriggerMode, ...: the device is set up again,
\* and the new sample time gives a new NumAverage, with no flush.
WriteSetting(avg) ==
  /\ LockFree
  /\ numAverage' = avg
  /\ ReadStatus(acquire)
  /\ UNCHANGED <<data, queue, acquire, acquireMode, numAcquire, history, ringOverflows>>

\* reset(): every setting is downloaded, NumAverage computed again, and
\* setAcquire(ADAcquire) ends it.
Reset(avg) ==
  /\ LockFree
  /\ numAverage' = avg
  /\ IF Restarts THEN ReadStatus(acquire) ELSE SetAcquire(acquire, acquire)
  /\ UNCHANGED <<data, queue, acquire, acquireMode, numAcquire, history, ringOverflows>>

-----------------------------------------------------------------------------
(***************************************************************************)
(* The constructor leaves ringCount_, rawCount_ and numAcquired_ as they   *)
(* are.  The parameters get their values from the database at start-up.    *)
(***************************************************************************)
Init ==
  /\ ring = <<>> /\ msgs = <<>>
  /\ inHand = FALSE /\ blocked = FALSE
  /\ ringCount \in Garbage
  /\ rawCount \in Garbage
  /\ numAcquired \in Garbage
  /\ acquire = 0
  /\ acquireMode \in Modes
  /\ numAcquire \in NumAcquires
  /\ numAverage \in NumAverages
  /\ ringOverflows = 0
  /\ made = 0 /\ lastOut = 0 /\ consumed = 0 /\ callbacks = 0
  /\ clean = FALSE /\ aligned = FALSE

CallbackTask == Receive \/ Deliver \/ Discard

Client ==
  \/ StartAcquire
  \/ StopAcquire
  \/ \E m \in Modes : WriteAcquireMode(m)
  \/ \E k \in NumAcquires : WriteNumAcquire(k)
  \/ \E avg \in NumAverages : WriteAveragingTime(avg)
  \/ \E avg \in Regroupings : WriteSetting(avg)
  \/ \E avg \in Regroupings \cup {numAverage} : Reset(avg)
  \/ ReadData

Next == Sample \/ Unblock \/ CallbackTask \/ Client

Spec == Init /\ [][Next]_vars

(***************************************************************************)
(* Fairness: the threads are scheduled.  Every thread releases the lock,   *)
(* except one that sleeps in Send; the device delivers readings while it   *)
(* runs.  Clients are free to do nothing.                                  *)
(***************************************************************************)
Fairness == /\ WF_vars(Receive)
            /\ WF_vars(Deliver \/ Discard)
            /\ WF_vars(Unblock)
            /\ WF_vars(Sample)

FairSpec == Spec /\ Fairness

-----------------------------------------------------------------------------
(* Properties.                                                             *)

RingType == /\ ring \in Seq(Nat) /\ Len(ring) <= RingSize
            /\ ringCount \in Int /\ rawCount \in Int
            /\ lastOut \in Nat /\ ringOverflows \in Nat

\* callbackTask holds a message only if there is one, and a sender sleeps only
\* over a count to send.
QueueType == /\ msgs \in Seq(Message)
             /\ inHand \in BOOLEAN /\ (inHand => msgs # <<>>)
             /\ blocked \in BOOLEAN /\ (blocked => rawCount >= 1)

ControlType == /\ acquire \in {0, 1} /\ acquireMode \in Modes
               /\ numAcquire \in NumAcquires /\ numAcquired \in Int
               /\ numAverage \in NumAverages

HistoryType == /\ made \in Nat /\ consumed \in Int /\ callbacks \in Nat
               /\ clean \in BOOLEAN /\ aligned \in BOOLEAN

TypeOK == RingType /\ QueueType /\ ControlType /\ HistoryType

\* ringCount_ never drifts from the ring's contents once an acquisition has
\* been started (computePositions, doDataCallbacks and both flushes keep it).
RingCountExact == clean => ringCount = Len(ring)

\* A message's readings are in the ring when its turn comes: doDataCallbacks
\* does not meet "not enough bytes in ring buffer", overflow or no overflow.
EnoughInRing == (clean /\ inHand) => Head(msgs).n <= Len(ring)

\* The producer does not sleep in epicsMessageQueueSend with the driver locked:
\* the queue has as many places as the ring and each message speaks for one
\* reading or more of the ring.
SendNeverBlocks == clean => ~blocked

\* NumAcquired counts no acquisition whose callbacks were not done.
NoPhantomAcquisition == (clean /\ CallsBase) => numAcquired <= callbacks

\* Without an overflow each batch ends with the reading that was the newest
\* when the batch was announced, so a gate pulse's batch holds that pulse's
\* readings.
BatchEndsWhereAnnounced ==
  aligned => \A i \in 1..Len(msgs) :
    /\ msgs[i].upto - consumed \in 1..Len(ring)
    /\ ring[msgs[i].upto - consumed] = msgs[i].last

\* A running acquisition of a counted mode has its end still ahead of it.
StopIsAhead ==
  (acquire = 1 /\ acquireMode # "Continuous") => numAcquired < Target

\* What is left in the queue is always worked off, whatever the clients write.
MessagesAreHandled == (clean /\ msgs # <<>>) ~> (msgs = <<>> \/ ~clean)

\* The ring, with its counters and messages, is a ReadingsBuffer.
Buffer == INSTANCE ReadingsBuffer
            WITH Size <- RingSize, window <- ring, newest <- made,
                 out <- lastOut, lost <- ringOverflows

\* Every step of every thread puts one reading, reads out, throws away or
\* leaves the buffer alone, in particular when messages are stale.
ImplementsBuffer == Buffer!Spec

\* The readings in the ring are consecutive and end at the newest, and all that
\* is missing since the last readout or flush is accounted for in RingOverflows.
NothingGoesMissing == Buffer!Unbroken

-----------------------------------------------------------------------------
(***************************************************************************)
(* What the documentation says and the code does not always do.            *)
(***************************************************************************)

\* databases.rst: NumAcquired is "the number of acquisitions completed since
\* Acquire was set to 1", and "an acquisition is complete when the callbacks
\* are called".
AcquiredMeansCalledBack == acquire = 1 => numAcquired <= callbacks

-----------------------------------------------------------------------------
(***************************************************************************)
(* The inductive invariant behind the safety properties.  Positions make   *)
(* the sum of the outstanding counts a matter of neighbours: the messages  *)
(* speak for adjacent stretches of the ring, the first one starting at the *)
(* ring's head, and every message for one reading or more.                 *)
(***************************************************************************)
MessagesAdjoin ==
  /\ msgs # <<>> => msgs[1].upto = consumed + msgs[1].n
  /\ \A i \in 1..Len(msgs) - 1 : msgs[i + 1].upto = msgs[i].upto + msgs[i + 1].n
  /\ \A i, j \in 1..Len(msgs) : i <= j => msgs[j].upto - msgs[i].upto >= j - i

RingCoversClaims == consumed + Len(ring) >= Claimed + rawCount

Sound == /\ ringCount = Len(ring)
         /\ rawCount >= 0
         /\ MessagesAdjoin
         /\ RingCoversClaims

IInv == /\ TypeOK
        /\ clean => Sound /\ ~blocked /\ (CallsBase => numAcquired <= callbacks)

\* While aligned, every reading of the ring is spoken for or counted in rawCount_,
\* and a message's position and reading are as far from the newest ones.
InStep == aligned =>
  /\ clean
  /\ consumed + Len(ring) = Claimed + rawCount
  /\ \A i \in 1..Len(msgs) : msgs[i].last = made - Len(ring) + (msgs[i].upto - consumed)
=============================================================================
