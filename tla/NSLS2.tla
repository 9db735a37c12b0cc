-------------------------------- MODULE NSLS2 --------------------------------
(***************************************************************************)
(* The drivers of the NSLS2 electrometer and ion chamber, whose registers  *)
(* are mapped into memory.  Nothing is asked or answered here.  What is    *)
(* hard is who calls callbackFunc: in the embedded build of the            *)
(* electrometer the handler of SIGIO, which runs in the middle of whatever *)
(* thread it is delivered to and takes the driver's lock, a recursive one, *)
(* so that it waits when another thread has the lock and does not wait     *)
(* when its own thread has it; in the build on a workstation a thread that *)
(* polls; in the ion chamber nobody.  The ring is a number of readings and *)
(* a full ring or queue is the base class's affair.                        *)
(***************************************************************************)
EXTENDS Integers, Sequences, FiniteSets

CONSTANTS
  Builds,           \* the builds in use: "EM", "EM_polled", "IC"
  Ranges,           \* what clients write to Range
  NumAverages,      \* what their other settings make of NumAverage
  IntegrationTimes, \* what they write to IntegrationTime
  MinTime, MaxTime, \* MIN_INT_TIME and MAX_INT_TIME
  Voltages,         \* what they write to DAC, DACDouble
  MaxReadings       \* bound: readings taken

ASSUME ConstAssumption ==
  /\ Builds \subseteq {"EM", "EM_polled", "IC"}
  /\ Ranges \subseteq 0..7 /\ 0 \in Ranges
  /\ NumAverages \subseteq Nat /\ 1 \in NumAverages
  /\ IntegrationTimes \subseteq Nat
  /\ MinTime \in Nat \ {0} /\ MaxTime \in Nat /\ MinTime <= MaxTime
  /\ Voltages \subseteq Int /\ MaxReadings \in Nat

Threads == {"port", "task", "other"}

\* What a call has to do: to start or stop the acquisition, set ADAcquire to 0, empty the
\* ring, have a message sent, set rawCount_ to 0, write a register.
Ops == {"start", "stop", "clear", "flush", "trigger", "zero", "gain", "dac"}

VARIABLES
  build,         \* which driver, and how it was built
  \* the driver object and the registers
  acquiring,     \* acquiring_
  irq,           \* IRQ_ENABLE
  acquire, mode, numAcquired,
  range,         \* P_Range
  gain,          \* GAINREG, as the range it stands for
  numAverage, ring, rawCount,
  queued,        \* messages waiting for callbackTask
  \* the ion chamber
  time,          \* P_IntegrationTime
  timeRegister,  \* INTTIME
  scaledFor,     \* the integration time in each scaleFactor_[range]
  asked, dac,    \* P_DACDouble, and what the converter was given
  \* threads
  todo,          \* what the port thread's call has still to do
  task,          \* callbackTask is "idle", "received" or "delivered", with the lock
  inHand,        \* the message it received
  pending,       \* SIGIO is pending in the process
  handler,       \* threads that are in the handler
  polled,        \* the poller has seen acquiring_
  \* history
  readings,
  owed,          \* callbacks that were under way at the last stop
  torn,          \* the ring and rawCount_ were told apart by a nested handler
  uneven,        \* or by a flush or a message that was not acted on
  misscaled      \* a reading was scaled for another gain

settings  == <<range, gain, numAverage, time, timeRegister, scaledFor, asked, dac>>
control   == <<acquiring, irq, acquire, mode, numAcquired>>
data      == <<ring, rawCount, queued>>
interrupt == <<pending, handler, polled>>
history   == <<readings, owed, torn, uneven, misscaled>>
vars      == <<build, control, settings, data, interrupt, history, todo, task, inHand>>

EMRanges == 0..4

\* Who has the driver's lock.
Owner == IF todo # <<>> THEN "port" ELSE IF task = "delivered" THEN "task" ELSE "none"

\* A thread goes on only when no handler runs in it.
Runs(t) == t \notin handler

-----------------------------------------------------------------------------
(* callbackFunc, and computePositions.                                     *)

\* mutant: nobody waits for the lock
MayReadAlways(t) == t \in Threads \cup {"poller"}

MayRead(t) == Owner \in {"none", t}

\* Only the port thread takes two steps over what a reading changes.
Reading(t) ==
  /\ readings < MaxReadings
  /\ MayRead(t)
  /\ ring' = ring + 1
  /\ IF numAverage > 0 /\ rawCount + 1 >= numAverage
       THEN queued' = Append(queued, rawCount + 1) /\ rawCount' = 0
       ELSE rawCount' = rawCount + 1 /\ UNCHANGED queued
  /\ readings' = readings + 1
  /\ owed' = IF acquiring = 0 THEN owed - 1 ELSE owed
  /\ torn' = (torn \/ (t = Owner /\ t = "port" /\ Head(todo) = "zero"))
  /\ misscaled' = (misscaled \/ (t # Owner /\ range \in EMRanges /\ gain # range))
  /\ UNCHANGED <<build, control, settings, todo, task, inHand, uneven>>

\* The FPGA has a frame; a pending signal is not counted twice.
Interrupts ==
  /\ build = "EM" /\ irq = 1 /\ readings < MaxReadings
  /\ pending' = TRUE
  /\ UNCHANGED <<build, control, settings, data, handler, polled, history, todo, task,
                 inHand>>

\* frame_done begins in a thread that has not got the signal blocked by running it.
SignalArrives(t) ==
  /\ pending /\ Runs(t)
  /\ pending' = FALSE /\ handler' = handler \cup {t}
  /\ UNCHANGED <<build, control, settings, data, polled, history, todo, task, inHand>>

HandlerReads(t) ==
  /\ t \in handler
  /\ handler' = handler \ {t}
  /\ UNCHANGED <<pending, polled>>
  /\ Reading(t)

\* pollerThread looks at acquiring_ without the lock.
PollerLooks ==
  /\ build = "EM_polled" /\ ~polled /\ acquiring = 1
  /\ polled' = TRUE
  /\ UNCHANGED <<build, control, settings, data, pending, handler, history, todo, task,
                 inHand>>

PollerReads ==
  /\ polled /\ polled' = FALSE
  /\ UNCHANGED <<pending, handler>>
  /\ Reading("poller")

\* The ion chamber's thread waits for trig_ to change, and nothing changes it.
Callback ==
  \/ Interrupts
  \/ \E t \in Threads : SignalArrives(t) \/ HandlerReads(t)
  \/ PollerLooks
  \/ PollerReads

-----------------------------------------------------------------------------
(* setAcquire.                                                             *)

UnderWay == Cardinality(handler) + (IF pending THEN 1 ELSE 0) + (IF polled THEN 1 ELSE 0)

Stops == acquiring' = 0 /\ irq' = 0 /\ owed' = UnderWay

\* Only the ion chamber calls the base class, which resets numAcquired_.
Starts ==
  /\ acquiring' = 1 /\ irq' = 1
  /\ numAcquired' = IF build = "IC" /\ acquiring = 0 THEN 0 ELSE numAcquired
  /\ UNCHANGED <<acquire, owed>>

-----------------------------------------------------------------------------
(* writeInt32 and writeFloat64 on the port thread: the steps between which *)
(* a handler in this thread can tell a difference.                         *)

Pop == todo' = Tail(todo)

PortSetsAcquire ==
  /\ todo # <<>> /\ Runs("port")
  /\ \/ Head(todo) = "start" /\ Starts
     \/ Head(todo) = "stop" /\ Stops /\ UNCHANGED <<acquire, numAcquired>>
     \/ /\ Head(todo) = "clear" /\ acquire' = 0
        /\ UNCHANGED <<acquiring, irq, numAcquired, owed>>
  /\ Pop
  /\ UNCHANGED <<build, mode, settings, data, interrupt, readings, torn, uneven, misscaled,
                 task, inHand>>

\* Messages that have yet to take their readings off the ring.
Outstanding == inHand > 0 \/ queued # <<>>

\* Of the ring and of rawCount_ one is emptied at a time.
PortCounts ==
  /\ todo # <<>> /\ Runs("port")
  /\ \/ /\ Head(todo) = "flush"
        /\ ring' = 0
        /\ torn' = FALSE /\ uneven' = Outstanding
        /\ UNCHANGED <<rawCount, queued>>
        /\ Pop
     \/ /\ Head(todo) = "trigger"
        /\ IF rawCount < 1 THEN todo' = <<>> /\ UNCHANGED queued
                           ELSE queued' = Append(queued, rawCount) /\ Pop
        /\ UNCHANGED <<ring, rawCount, torn, uneven>>
     \/ /\ Head(todo) = "zero"
        /\ rawCount' = 0
        /\ UNCHANGED <<ring, queued, torn, uneven>>
        /\ Pop
  /\ UNCHANGED <<build, control, settings, interrupt, readings, owed, misscaled, task,
                 inHand>>

\* setRange.  The electrometer leaves the register when it has no such range.
SetsGain ==
  /\ gain' = IF build = "IC" \/ range \in EMRanges THEN range ELSE gain
  /\ scaledFor' = IF build = "IC" THEN [scaledFor EXCEPT ![range] = time] ELSE scaledFor

Short(v) == ((v + 32768) % 65536) - 32768

\* mutant: the word is cut to the width of the converter
Cut(v) == v % 4096

Limited(v) == IF v > 4095 THEN 4095 ELSE IF v < 0 THEN 0 ELSE v

\* setDAC: the ion chamber's word is made a short and then limited.
DacWord(v) == IF build = "IC" THEN Limited(Short(v)) ELSE v % 65536

PortSetsRegisters ==
  /\ todo # <<>> /\ Runs("port")
  /\ \/ Head(todo) = "gain" /\ SetsGain /\ UNCHANGED dac
     \/ Head(todo) = "dac" /\ dac' = DacWord(asked) /\ UNCHANGED <<gain, scaledFor>>
  /\ Pop
  /\ UNCHANGED <<build, control, range, numAverage, time, timeRegister, asked, data,
                 interrupt, history, task, inHand>>

Port == PortSetsAcquire \/ PortCounts \/ PortSetsRegisters

-----------------------------------------------------------------------------
(* The client's calls.                                                     *)

Call(ops) ==
  /\ Owner = "none" /\ Runs("port")
  /\ todo' = ops
  /\ UNCHANGED <<build, acquiring, irq, numAcquired, gain, dac, data, interrupt, history, task,
                 inHand>>

WriteAcquire(v) ==
  /\ Call(IF v = 1 THEN <<"flush", "zero", "start">> ELSE <<"stop">>)
  /\ acquire' = v
  /\ UNCHANGED <<mode, range, numAverage, time, timeRegister, scaledFor, asked>>

WriteAcquireMode(m) ==
  /\ Call(IF m = "Continuous" THEN <<>> ELSE <<"stop", "clear">>)
  /\ mode' = m
  /\ UNCHANGED <<acquire, range, numAverage, time, timeRegister, scaledFor, asked>>

WriteRange(r) ==
  /\ Call(<<"gain">>)
  /\ range' = r
  /\ UNCHANGED <<acquire, mode, numAverage, time, timeRegister, scaledFor, asked>>

WriteReadData ==
  /\ Call(<<"trigger", "zero">>)
  /\ UNCHANGED <<acquire, mode, range, numAverage, time, timeRegister, scaledFor, asked>>

\* setAcquireParams, which in the ion chamber ends with computeScaleFactor.
Scaled(t) == IF build = "IC" THEN [scaledFor EXCEPT ![range] = t] ELSE scaledFor

WriteAveragingTime(n) ==
  /\ Call(<<"flush", "zero">>)
  /\ numAverage' = n
  /\ scaledFor' = Scaled(time)
  /\ UNCHANGED <<acquire, mode, range, time, timeRegister, asked>>

WriteValuesPerRead(n) ==
  /\ Call(<<>>)
  /\ numAverage' = n
  /\ scaledFor' = Scaled(time)
  /\ UNCHANGED <<acquire, mode, range, time, timeRegister, asked>>

Clamped(t) == IF t <= MinTime THEN MinTime ELSE IF t >= MaxTime THEN MaxTime ELSE t

\* setIntegrationTime, of the ion chamber only.
SetsIntegrationTime(t) ==
  /\ time' = Clamped(t) /\ timeRegister' = Clamped(t) /\ scaledFor' = Scaled(Clamped(t))

WriteIntegrationTime(t) ==
  /\ build = "IC"
  /\ Call(<<>>)
  /\ SetsIntegrationTime(t)
  /\ numAverage' \in NumAverages
  /\ UNCHANGED <<acquire, mode, range, asked>>

\* DAC, and in the ion chamber also DACDouble.
WriteDAC(v) ==
  /\ Call(<<"dac">>)
  /\ asked' = v
  /\ UNCHANGED <<acquire, mode, range, numAverage, time, timeRegister, scaledFor>>

Client ==
  \/ \E v \in {0, 1} : WriteAcquire(v)
  \/ \E m \in {"Continuous", "Single"} : WriteAcquireMode(m)
  \/ \E r \in Ranges : WriteRange(r)
  \/ \E n \in NumAverages : WriteAveragingTime(n) \/ WriteValuesPerRead(n)
  \/ \E t \in IntegrationTimes : WriteIntegrationTime(t)
  \/ \E v \in Voltages : WriteDAC(v)
  \/ WriteReadData

-----------------------------------------------------------------------------
(* callbackTask.                                                           *)

TaskReceives ==
  /\ task = "idle" /\ queued # <<>> /\ Runs("task")
  /\ task' = "received" /\ inHand' = Head(queued) /\ queued' = Tail(queued)
  /\ UNCHANGED <<build, control, settings, ring, rawCount, interrupt, history, todo>>

\* A counted acquisition that has had its number takes the message and leaves the
\* readings.
TaskDelivers ==
  /\ task = "received" /\ Owner = "none" /\ Runs("task")
  /\ inHand' = 0
  /\ \/ /\ mode = "Single" /\ numAcquired >= 1
        /\ task' = "idle" /\ uneven' = TRUE
        /\ UNCHANGED ring
     \/ /\ mode = "Continuous" \/ numAcquired < 1
        /\ task' = "delivered"
        /\ ring' = IF ring < inHand THEN ring ELSE ring - inHand
        /\ UNCHANGED uneven
  /\ UNCHANGED <<build, control, settings, rawCount, queued, interrupt, readings, owed,
                 torn, misscaled, todo>>

TaskCounts ==
  /\ task = "delivered" /\ Runs("task")
  /\ task' = "idle"
  /\ numAcquired' = 1
  /\ IF mode = "Single"
       THEN Stops /\ acquire' = 0
       ELSE UNCHANGED <<acquiring, irq, owed, acquire>>
  /\ UNCHANGED <<build, mode, settings, data, interrupt, readings, torn, uneven, misscaled,
                 todo, inHand>>

Task == TaskReceives \/ TaskDelivers \/ TaskCounts

-----------------------------------------------------------------------------
\* Every setting has been written once, when the records were initialised.
Init ==
  /\ build \in Builds
  /\ acquiring = 0 /\ irq = 0 /\ acquire = 0 /\ mode \in {"Continuous", "Single"} /\ numAcquired = 0
  /\ range = 0 /\ gain = 0 /\ numAverage = 1 /\ ring = 0 /\ rawCount = 0 /\ queued = <<>>
  /\ time = MinTime /\ timeRegister = MinTime /\ scaledFor = [r \in Ranges |-> MinTime]
  /\ asked = 0 /\ dac = 0
  /\ todo = <<>> /\ task = "idle" /\ inHand = 0
  /\ pending = FALSE /\ handler = {} /\ polled = FALSE
  /\ readings = 0 /\ owed = 0 /\ torn = FALSE /\ uneven = FALSE /\ misscaled = FALSE

Next == Callback \/ Port \/ Client \/ Task

Spec == Init /\ [][Next]_vars

-----------------------------------------------------------------------------
(* Properties.                                                             *)

TypeOK ==
  /\ build \in Builds
  /\ acquiring \in {0, 1} /\ irq \in {0, 1} /\ acquire \in {0, 1}
  /\ mode \in {"Continuous", "Single"}
  /\ numAcquired \in {0, 1} /\ range \in Ranges /\ gain \in Ranges
  /\ (build # "IC" => gain \in EMRanges) /\ numAverage \in NumAverages
  /\ ring \in 0..MaxReadings /\ rawCount \in 0..MaxReadings
  /\ queued \in Seq(1..MaxReadings) /\ inHand \in 0..MaxReadings
  /\ time \in MinTime..MaxTime /\ timeRegister \in MinTime..MaxTime
  /\ scaledFor \in [Ranges -> MinTime..MaxTime]
  /\ asked \in Voltages \cup {0} /\ dac \in Nat /\ dac < 65536
  /\ task \in {"idle", "received", "delivered"} /\ todo \in Seq(Ops)
  /\ pending \in BOOLEAN /\ handler \subseteq Threads /\ polled \in BOOLEAN
  /\ readings \in 0..MaxReadings /\ owed \in Int
  /\ torn \in BOOLEAN /\ uneven \in BOOLEAN /\ misscaled \in BOOLEAN

\* The messages in hand and in the queue speak for n readings, as sums that run along
\* the queue tell.
Announced(n) ==
  \E sum \in [0..Len(queued) -> 0..MaxReadings] :
    /\ sum[0] = inHand
    /\ \A i \in 1..Len(queued) : sum[i] = sum[i - 1] + queued[i]
    /\ sum[Len(queued)] = n

\* Whoever runs callbackFunc, and wherever a signal finds its threads, each reading
\* in the ring is spoken for by rawCount_ or by one message: unless a handler ran
\* inside a call that was half through emptying the two.  And after a stop come only
\* the readings whose callbacks were under way: neither acquiring_ nor the lock is
\* looked at again by callbackFunc.
Accounted ==
  /\ (Owner = "none" /\ ~torn /\ ~uneven) => Announced(ring - rawCount)
  /\ acquiring = 0 => owed >= 0

\* A reading is scaled for the gain it was taken with, unless its handler ran inside
\* the very call that changes the range.
ScaledForGain == ~misscaled

\* Between calls the ion chamber's scale factor for the range in use has the
\* integration time that the FPGA uses and IntegrationTime shows.
ScaleIsTrue ==
  (build = "IC" /\ todo = <<>>) => timeRegister = time /\ scaledFor[range] = time

\* A voltage that a short can hold reaches the converter as asked or as the nearest
\* it can make, in two's complement where the voltages are signed.
DacIsTrue ==
  (todo = <<>> /\ -32768 <= asked /\ asked < 32768) =>
     dac = IF build # "IC" THEN asked % 65536
           ELSE CHOOSE w \in {0, 4095, asked} :
                  /\ 0 <= w /\ w <= 4095
                  /\ 0 <= asked /\ asked <= 4095 => w = asked
                  /\ asked < 0 => w = 0
                  /\ asked > 4095 => w = 4095

\* After each call the FPGA has what was asked, within its limits, and the driver's
\* scale factors go with what it has.
SettingsAreTrue == ScaleIsTrue /\ DacIsTrue
=============================================================================
