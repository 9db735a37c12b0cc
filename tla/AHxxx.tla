------------------------------- MODULE AHxxx --------------------------------
(***************************************************************************)
(* The driver of the AH401 and AH501 meters.  As in the TetrAMM's driver,  *)
(* the port thread and callbackTask start and stop the meter and the read  *)
(* thread; but setAcquire(1) does not wait for the read thread, sets       *)
(* acquiring_ itself, and does not mind if the meter is acquiring already. *)
(* What is more, the read thread gives up the lock in the middle of a      *)
(* reading: valuesPerRead_ may not be what it was when the read began.     *)
(***************************************************************************)
EXTENDS Integers, Sequences

CONSTANTS
  Modes,          \* the acquire modes clients use
  Formats,        \* the read formats clients use
  NumAcquires,    \* values a client can write to NumAcquire
  ValuesPerReads, \* values a client can write to ValuesPerRead
  MaxFaults,      \* bound: dialogs that fail, and times the link goes down
  MaxQueued       \* bound: messages waiting for callbackTask

ASSUME ConstAssumption ==
  /\ Modes \subseteq {"Continuous", "Multiple", "Single"} /\ Modes # {}
  /\ Formats \subseteq {"Binary", "ASCII"} /\ Formats # {}
  /\ NumAcquires \subseteq Nat \ {0} /\ NumAcquires # {}
  /\ ValuesPerReads \subseteq Nat \ {0} /\ ValuesPerReads # {}
  /\ MaxFaults \in Nat /\ MaxQueued \in Nat

ASSUME MostAssumption == \E k \in NumAcquires : \A l \in NumAcquires : l <= k

(***************************************************************************)
(* What a call of the port thread has to do: setAcquire(0), setAcquire(1), *)
(* sendCommand, readStatus, the setAcquire(ADAcquire) that ends reset,     *)
(* ADAcquire set to 0; and the dialogs: "send" (nobody looks at the        *)
(* answer), "ask" and "query" (an error ends sendCommand, readStatus).     *)
(***************************************************************************)
Ops == {"stop", "start", "command", "status", "resume", "clear",
        "send", "ask", "query"}

VARIABLES
  \* the driver object
  acquiring,     \* acquiring_
  readingActive, \* readingActive_
  event,         \* acquireStartEvent_ is signalled
  valuesPerRead, \* valuesPerRead_
  readFormat,    \* P_ReadFormat
  acquire,       \* ADAcquire
  mode,          \* P_AcquireMode
  numAcquire,    \* P_NumAcquire
  numAcquired,   \* numAcquired_
  queued,        \* messages waiting for callbackTask
  \* the read thread
  reader,        \* "asleep", "woken" (without the lock yet) or "reading"
  format,        \* the format it took when it woke
  asked,         \* values a block was asked to hold; 0 when nothing is read
  turn,          \* lines it has asked for in this reading (ASCII)
  got,           \* values among them
  \* the other threads
  todo,          \* what the port thread's call has still to do
  waiting,       \* the port thread waits in setAcquire(0)
  task,          \* callbackTask is "idle", or waits in setAcquire(0), "stop"
  \* the meter and its link
  running,       \* the meter sends readings, or will at a trigger
  online,        \* the link is up
  faults,        \* dialogs that have failed with the link up, and outages
  \* history
  heard,         \* the last dialog that turned the meter on or off succeeded
  overlapped,    \* port thread and callbackTask have been in each other's way
  whole          \* each reading was the mean of the values it was divided by

driver   == <<acquiring, readingActive, event>>
settings == <<valuesPerRead, readFormat>>
control  == <<acquire, mode, numAcquire, numAcquired>>
reading  == <<reader, format, asked, turn, got>>
port     == <<todo, waiting>>
link     == <<online, faults>>
history  == <<heard, overlapped, whole>>
vars     == <<driver, settings, control, queued, reading, port, task, running,
              link, history>>

\* The port thread holds the lock all through its call, save when it waits.
PortHasLock == todo # <<>> /\ ~waiting

LockFree == ~PortHasLock

-----------------------------------------------------------------------------
(* readThread.                                                             *)

\* epicsEventWait returns; the thread does not have the lock yet.
ReaderWakes ==
  /\ reader = "asleep" /\ event
  /\ event' = FALSE
  /\ reader' = "woken"
  /\ UNCHANGED <<acquiring, readingActive, settings, control, queued, format,
                 asked, turn, got, port, task, running, link, history>>

\* A reading is begun: the lock is given up until the meter has answered.
BeginReading == asked' = valuesPerRead /\ turn' = 0 /\ got' = 0

ReaderStarts ==
  /\ reader = "woken" /\ LockFree
  /\ readingActive' = 1
  /\ reader' = "reading"
  /\ format' = readFormat
  /\ BeginReading
  /\ UNCHANGED <<acquiring, event, settings, control, queued, port, task,
                 running, link, history>>

\* mutant: the reader goes to sleep without saying so
ReaderLoopsSilently ==
  \/ /\ acquiring = 0
     /\ reader' = "asleep"
     /\ asked' = 0 /\ turn' = 0 /\ got' = 0
     /\ UNCHANGED <<readingActive, format>>
  \/ /\ acquiring = 1
     /\ BeginReading
     /\ UNCHANGED <<readingActive, reader, format>>

\* The top of the loop, where the end of one reading leads.
ReaderLoops ==
  \/ /\ acquiring = 0
     /\ readingActive' = 0
     /\ reader' = "asleep"
     /\ asked' = 0 /\ turn' = 0 /\ got' = 0
     /\ UNCHANGED format
  \/ /\ acquiring = 1
     /\ BeginReading
     /\ UNCHANGED <<readingActive, reader, format>>

\* computePositions: the reading completes a batch or not.
Put(isMean) ==
  /\ queued' \in {queued, queued + 1} /\ queued' <= MaxQueued
  /\ whole' = (whole /\ isMean)

\* A block of binary values has been read, and is taken apart and averaged for
\* the valuesPerRead_ of now.
ReadsBlock ==
  /\ reader = "reading" /\ LockFree /\ format = "Binary"
  /\ running /\ online
  /\ Put(valuesPerRead <= asked)
  /\ ReaderLoops
  /\ UNCHANGED <<acquiring, event, settings, control, port, task, running, link,
                 heard, overlapped>>

\* A gate pulse of the AH501BE has ended: triggerCallbacks, and 5 bytes are to
\* follow, the block being used if they come or not; or nothing else was read.
ReadsGateEnd ==
  /\ reader = "reading" /\ LockFree /\ format = "Binary"
  /\ running /\ online
  /\ \/ /\ queued' = queued + 1 /\ queued' <= MaxQueued
        /\ UNCHANGED <<whole, faults>>
     \/ /\ queued' \in {queued + 1, queued + 2} /\ queued' <= MaxQueued
        /\ \/ whole' = (whole /\ valuesPerRead <= asked) /\ UNCHANGED faults
           \/ /\ faults < MaxFaults /\ faults' = faults + 1
              /\ whole' = FALSE
  /\ ReaderLoops
  /\ UNCHANGED <<acquiring, event, settings, control, port, task, running,
                 online, heard, overlapped>>

\* A timeout, a broken link, a read that is cut short: the reading is given up.
ReadsNoBlock ==
  /\ reader = "reading" /\ LockFree /\ format = "Binary"
  /\ ReaderLoops
  /\ UNCHANGED <<acquiring, event, settings, control, queued, port, task,
                 running, link, history>>

\* One line of an ASCII reading, or none by the timeout; the loop ends by the
\* valuesPerRead_ of now, and the sum is divided by it, whatever is in it.
ReadsLine ==
  /\ reader = "reading" /\ LockFree /\ format = "ASCII"
  /\ \E good \in {0, 1} :
       /\ good = 1 => running /\ online
       /\ \/ /\ turn + 1 < valuesPerRead
             /\ turn' = turn + 1 /\ got' = got + good
             /\ UNCHANGED <<readingActive, reader, format, asked, queued, whole>>
          \/ /\ turn + 1 >= valuesPerRead
             /\ Put(got + good = valuesPerRead)
             /\ ReaderLoops
  /\ UNCHANGED <<acquiring, event, settings, control, port, task, running, link,
                 heard, overlapped>>

\* The ACK of a meter that has sent all it was asked for ends the reading.
ReadsAck ==
  /\ reader = "reading" /\ LockFree /\ format = "ASCII"
  /\ running /\ online
  /\ Put(got = valuesPerRead)
  /\ ReaderLoops
  /\ UNCHANGED <<acquiring, event, settings, control, port, task, running, link,
                 heard, overlapped>>

Reads == ReadsBlock \/ ReadsGateEnd \/ ReadsNoBlock \/ ReadsLine \/ ReadsAck

-----------------------------------------------------------------------------
(* setAcquire.                                                             *)

\* A dialog is answered, or fails: the link is down, or the meter is silent.
Answered == online /\ UNCHANGED faults
Fails == \/ ~online /\ UNCHANGED faults
         \/ online /\ faults < MaxFaults /\ faults' = faults + 1

\* ACQ OFF, S and TRG OFF, until the meter is quiet; or an answer is lost.
MeterOff ==
  \/ Answered /\ running' = FALSE /\ heard' = TRUE
  \/ Fails /\ running' \in {FALSE, running} /\ heard' = FALSE

\* setAcquire(0) returns at once without a link, and where a Single acquisition
\* seems to have stopped by itself.
NothingToStop ==
  ~online \/ (acquiring = 0 /\ readingActive = 0 /\ mode = "Single")

Pop == todo' = Tail(todo)

PortStop ==
  /\ PortHasLock /\ Head(todo) = "stop"
  /\ \/ /\ NothingToStop
        /\ Pop
        /\ UNCHANGED <<acquiring, waiting, running, faults, heard>>
     \/ /\ ~NothingToStop
        /\ acquiring' = 0
        /\ \/ readingActive = 0 /\ MeterOff /\ Pop /\ UNCHANGED waiting
           \/ /\ readingActive = 1
              /\ waiting' = TRUE
              /\ UNCHANGED <<todo, running, faults, heard>>
  /\ UNCHANGED <<readingActive, event, settings, control, queued, reading, task,
                 online, overlapped, whole>>

\* A poll finds the read thread stopped; an error of TRG OFF clears the flag again.
StopEnds ==
  /\ readingActive = 0
  /\ MeterOff
  /\ acquiring' = IF heard' THEN acquiring ELSE 0

PortStopped ==
  /\ waiting
  /\ StopEnds
  /\ waiting' = FALSE
  /\ Pop
  /\ UNCHANGED <<readingActive, event, settings, control, queued, reading, task,
                 online, overlapped, whole>>

\* setAcquire(1): the meter is told and the read thread is told, whether they
\* acquire or not.  An error of the last dialog is overwritten in binary mode.
Start ==
  \/ /\ ~online
     /\ UNCHANGED <<acquiring, event, numAcquired, running, faults, heard>>
  \/ /\ online
     /\ numAcquired' = 0
     /\ event' = TRUE
     /\ \/ /\ Answered
           /\ running' = TRUE /\ heard' = TRUE
           /\ acquiring' = 1
        \/ /\ Fails
           /\ running' \in {running, TRUE} /\ heard' = FALSE
           /\ acquiring' = IF readFormat = "Binary" THEN 1 ELSE 0

PortStart ==
  /\ PortHasLock /\ Head(todo) = "start"
  /\ Start
  /\ Pop
  /\ UNCHANGED <<readingActive, settings, acquire, mode, numAcquire, queued,
                 reading, waiting, task, online, overlapped, whole>>

-----------------------------------------------------------------------------
(* The functions of the port thread that talk to the meter.                *)

\* sendCommand, readStatus: stop, talk, start again.
Dialog == [command |-> "ask", status |-> "query"]

\* mutants: the meter is talked to at once; what was acquiring is not started again
PortTalksAtOnce ==
  /\ PortHasLock /\ Head(todo) \in DOMAIN Dialog
  /\ todo' = <<Dialog[Head(todo)]>> \o Tail(todo)
  /\ UNCHANGED <<driver, settings, control, queued, reading, waiting, task,
                 running, link, history>>

PortForgets ==
  /\ PortHasLock /\ Head(todo) \in DOMAIN Dialog
  /\ todo' = (IF acquiring = 1 THEN <<"stop", Dialog[Head(todo)]>>
                               ELSE <<Dialog[Head(todo)]>>) \o Tail(todo)
  /\ UNCHANGED <<driver, settings, control, queued, reading, waiting, task,
                 running, link, history>>

PortPrepares ==
  /\ PortHasLock /\ Head(todo) \in DOMAIN Dialog
  /\ todo' = (IF acquiring = 1 THEN <<"stop", Dialog[Head(todo)], "start">>
                               ELSE <<Dialog[Head(todo)]>>) \o Tail(todo)
  /\ UNCHANGED <<driver, settings, control, queued, reading, waiting, task,
                 running, link, history>>

\* An error skips the restart that ends sendCommand and readStatus.
PortTalks ==
  /\ PortHasLock /\ Head(todo) \in {"send", "ask", "query"}
  /\ \/ Answered /\ Pop
     \/ Fails /\ Head(todo) = "send" /\ Pop
     \/ /\ Fails /\ Head(todo) # "send"
        /\ todo' = IF Len(todo) > 1 /\ todo[2] = "start"
                   THEN Tail(Tail(todo)) ELSE Tail(todo)
  /\ UNCHANGED <<driver, settings, control, queued, reading, waiting, task,
                 running, online, history>>

\* What ends reset(), and what a write of a counted mode does to ADAcquire.
PortSets ==
  /\ PortHasLock
  /\ \/ /\ Head(todo) = "resume"
        /\ todo' = <<IF acquire = 1 THEN "start" ELSE "stop">> \o Tail(todo)
        /\ UNCHANGED acquire
     \/ /\ Head(todo) = "clear"
        /\ acquire' = 0
        /\ Pop
  /\ UNCHANGED <<driver, settings, mode, numAcquire, numAcquired, queued, reading,
                 waiting, task, running, link, history>>

Port == PortStop \/ PortStopped \/ PortStart \/ PortPrepares \/ PortTalks \/ PortSets

-----------------------------------------------------------------------------
(* The client's writes; the port thread takes them one at a time.          *)

Call(ops) ==
  /\ todo = <<>> /\ todo' = ops
  /\ overlapped' = (overlapped \/ task = "stop")
  /\ UNCHANGED <<driver, numAcquired, queued, reading, waiting, task, running,
                 link, heard, whole>>

WriteAcquire(v) ==
  /\ Call(<<IF v = 1 THEN "start" ELSE "stop">>)
  /\ acquire' = v
  /\ UNCHANGED <<settings, mode, numAcquire>>

WriteAcquireMode(m) ==
  /\ Call(IF m = "Continuous" THEN <<"status">> ELSE <<"stop", "clear", "status">>)
  /\ mode' = m
  /\ UNCHANGED <<settings, acquire, numAcquire>>

\* NumAcquire, and with k = numAcquire any setting that only readStatus follows.
WriteNumAcquire(k) ==
  /\ Call(<<"status">>)
  /\ numAcquire' = k
  /\ UNCHANGED <<settings, acquire, mode>>

\* valuesPerRead_ changes first, whatever the read thread is doing.
WriteValuesPerRead(v) ==
  /\ Call(<<"status">>)
  /\ valuesPerRead' = v
  /\ UNCHANGED <<readFormat, control>>

\* ReadFormat, and with f = readFormat Range, NumChannels, Resolution, the bias,
\* PingPong and IntegrationTime, which go to the meter by sendCommand.
WriteReadFormat(f) ==
  /\ Call(<<"command", "status">>)
  /\ readFormat' = f
  /\ UNCHANGED <<valuesPerRead, control>>

WriteReset ==
  /\ Call(<<"stop", "send", "command", "status", "resume", "status">>)
  /\ UNCHANGED <<settings, control>>

\* A poll of the status, which is not done while acquiring.
WriteReadStatus ==
  /\ acquiring = 0
  /\ Call(<<"status">>)
  /\ UNCHANGED <<settings, control>>

Client ==
  \/ \E v \in {0, 1} : WriteAcquire(v)
  \/ \E m \in Modes : WriteAcquireMode(m)
  \/ \E k \in NumAcquires : WriteNumAcquire(k)
  \/ \E v \in ValuesPerReads : WriteValuesPerRead(v)
  \/ \E f \in Formats : WriteReadFormat(f)
  \/ WriteReset
  \/ WriteReadStatus

-----------------------------------------------------------------------------
(* callbackTask.                                                           *)

Counted == mode # "Continuous"

Target == IF mode = "Single" THEN 1 ELSE numAcquire

\* More than any client asks for: where the model stops counting.
MostAcquired == CHOOSE k \in NumAcquires : \A l \in NumAcquires : l <= k

\* A message that is not the last of its acquisition, or that comes too late.
TaskDelivers ==
  /\ task = "idle" /\ queued > 0 /\ LockFree
  /\ ~(Counted /\ numAcquired + 1 = Target)
  /\ queued' = queued - 1
  /\ numAcquired' = IF \/ Counted /\ numAcquired >= Target
                       \/ numAcquired = MostAcquired
                    THEN numAcquired ELSE numAcquired + 1
  /\ UNCHANGED <<driver, settings, acquire, mode, numAcquire, reading, port, task,
                 running, link, history>>

\* The last message: setAcquire(0), up to the wait for the read thread.
TaskStops ==
  /\ task = "idle" /\ queued > 0 /\ LockFree
  /\ Counted /\ numAcquired + 1 = Target
  /\ queued' = queued - 1
  /\ numAcquired' = numAcquired + 1
  /\ overlapped' = (overlapped \/ waiting)
  /\ \/ /\ NothingToStop
        /\ acquire' = 0
        /\ UNCHANGED <<acquiring, task, running, faults, heard>>
     \/ /\ ~NothingToStop
        /\ acquiring' = 0
        /\ \/ readingActive = 0 /\ MeterOff /\ acquire' = 0 /\ UNCHANGED task
           \/ /\ readingActive = 1
              /\ task' = "stop"
              /\ UNCHANGED <<acquire, running, faults, heard>>
  /\ UNCHANGED <<readingActive, event, settings, mode, numAcquire, reading, port,
                 online, whole>>

TaskStopped ==
  /\ task = "stop" /\ LockFree
  /\ StopEnds
  /\ acquire' = 0
  /\ task' = "idle"
  /\ UNCHANGED <<readingActive, event, settings, mode, numAcquire, numAcquired,
                 queued, reading, port, online, overlapped, whole>>

Task == TaskDelivers \/ TaskStops \/ TaskStopped

-----------------------------------------------------------------------------
(* The meter and its link.                                                 *)

\* A meter told by NAQ to take so many values stops by itself.
MeterStops ==
  /\ running /\ mode = "Single"
  /\ running' = FALSE
  /\ UNCHANGED <<driver, settings, control, queued, reading, port, task, link, history>>

LinkChanges ==
  /\ online => faults < MaxFaults
  /\ online' = ~online
  /\ faults' = IF online THEN faults + 1 ELSE faults
  /\ UNCHANGED <<driver, settings, control, queued, reading, port, task, running,
                 history>>

-----------------------------------------------------------------------------
Init ==
  /\ acquiring = 0 /\ readingActive = 0 /\ event = FALSE
  /\ valuesPerRead \in ValuesPerReads /\ readFormat \in Formats
  /\ acquire = 0 /\ mode \in Modes /\ numAcquire \in NumAcquires
  /\ numAcquired = 0 /\ queued = 0
  /\ reader = "asleep" /\ format = readFormat
  /\ asked = 0 /\ turn = 0 /\ got = 0
  /\ todo = <<>> /\ waiting = FALSE /\ task = "idle"
  /\ running = FALSE /\ online = TRUE /\ faults = 0
  /\ heard = TRUE /\ overlapped = FALSE /\ whole = TRUE

Next == ReaderWakes \/ ReaderStarts \/ Reads \/ Port \/ Client \/ Task
          \/ MeterStops \/ LinkChanges

Spec == Init /\ [][Next]_vars

(***************************************************************************)
(* Fairness: the threads run; a read ends by its timeout; a thread that    *)
(* polls every 10 ms sees what stays as it is.                             *)
(***************************************************************************)
Fairness ==
  /\ WF_vars(ReaderWakes) /\ WF_vars(ReaderStarts) /\ WF_vars(Reads)
  /\ WF_vars(Port)
  /\ WF_vars(Task)

FairSpec == Spec /\ Fairness

-----------------------------------------------------------------------------
(* Properties.                                                             *)

TypeOK ==
  /\ acquiring \in {0, 1} /\ readingActive \in {0, 1} /\ event \in BOOLEAN
  /\ valuesPerRead \in ValuesPerReads /\ readFormat \in Formats
  /\ acquire \in {0, 1} /\ mode \in Modes /\ numAcquire \in NumAcquires
  /\ numAcquired \in 0..MostAcquired /\ queued \in 0..MaxQueued
  /\ reader \in {"asleep", "woken", "reading"} /\ format \in Formats
  /\ readingActive = 1 <=> reader = "reading"
  /\ asked \in Nat /\ turn \in Nat /\ got \in 0..turn
  /\ todo \in Seq(Ops) /\ waiting \in BOOLEAN /\ (waiting => todo # <<>>)
  /\ task \in {"idle", "stop"}
  /\ running \in BOOLEAN /\ online \in BOOLEAN
  /\ faults \in 0..MaxFaults
  /\ heard \in BOOLEAN /\ overlapped \in BOOLEAN /\ whole \in BOOLEAN

\* The port thread is in a dialog that sets or queries the meter.
InDialog == PortHasLock /\ Head(todo) \in {"send", "ask", "query"}

Undisturbed == faults = 0 /\ ~overlapped

\* sendCommand and readStatus talk to a meter that has stopped sending data,
\* what it sent would be taken for the answer: in every mode, as long as
\* callbackTask is not stopping the meter at the same time.
NoCrossTalk == (InDialog /\ Undisturbed) => ~running

\* Between calls, with callbackTask at rest, the driver acquires just when
\* Acquire says so, the meter sends only then, and the read thread reads or is
\* about to: whatever was written on the way, and although setAcquire(1) waits
\* for nobody.
AcquireIsTrue ==
  (todo = <<>> /\ task = "idle" /\ Undisturbed) =>
     /\ acquire = acquiring
     /\ running => acquire = 1
     /\ acquire = 1 => running \/ mode = "Single"
     /\ acquire = 1 => reader # "asleep" \/ event

\* Whatever fails, a meter whose last order was heard does not send with the
\* read thread asleep for good.
SendsToNobody ==
  (todo = <<>> /\ task = "idle" /\ heard /\ running) => reader # "asleep" \/ event

\* What the meter sends is read by the read thread, and by no one else: not by a
\* dialog, and not by nobody, whoever stops and starts the meter in between.
OneReader == NoCrossTalk /\ SendsToNobody

\* A write ends, whatever fails, also when events left over from earlier starts
\* wake the read thread while it is waited for.
CallsReturn == todo # <<>> ~> todo = <<>>

-----------------------------------------------------------------------------
(***************************************************************************)
(* What comments and documentation say and the code does not always do.    *)
(***************************************************************************)

\* databases.rst: the ValuesPerRead values read "are averaged in the driver".
ReadingsAreMeans == whole

\* setAcquire: "Wait for the read thread to stop"; the wait of callbackTask ends.
TaskReturns == task = "stop" ~> task = "idle"
=============================================================================
