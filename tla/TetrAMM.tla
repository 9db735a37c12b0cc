------------------------------ MODULE TetrAMM -------------------------------
(***************************************************************************)
(* How the TetrAMM driver starts and stops its meter.  Four parties take   *)
(* part: the port thread that runs the client's writes, callbackTask that  *)
(* stops a counted acquisition, the driver's read thread, and the meter.   *)
(*                                                                         *)
(* The three threads share acquiring_, readingActive_ and the event        *)
(* acquireStartEvent_ under the driver's lock, but setAcquire gives the    *)
(* lock up while it waits for the read thread, and the read thread gives   *)
(* it up while it sleeps and while it reads the meter.  A call of the port *)
(* thread is the list of what it still has to do; it holds the lock until  *)
(* the list is empty, except while it waits.                               *)
(*                                                                         *)
(* The ring buffer and its counters are QuadEM's business: here a reading  *)
(* completes a batch or not, and a batch is one message to callbackTask.   *)
(***************************************************************************)
EXTENDS Integers, Sequences

CONSTANTS
  Modes,        \* the acquire modes clients use, of "Continuous", "Multiple"
  NumAcquires,  \* values a client can write to NumAcquire
  MaxFailures,  \* bound: dialogs that fail although the link is up
  MaxOutages,   \* bound: times the link to the meter goes down
  MaxQueued     \* bound: messages waiting for callbackTask

ASSUME ConstAssumption ==
  /\ Modes \subseteq {"Continuous", "Multiple"} /\ Modes # {}
  /\ NumAcquires \subseteq Nat \ {0} /\ NumAcquires # {}
  /\ MaxFailures \in Nat /\ MaxOutages \in Nat /\ MaxQueued \in Nat

ASSUME MostAssumption == \E k \in NumAcquires : \A l \in NumAcquires : l <= k

(***************************************************************************)
(* What a call of the port thread is made of: setAcquire(0), setAcquire(1),*)
(* setAcquireParams, sendCommand, readStatus, the reset's closing          *)
(* setAcquire(ADAcquire), ADAcquire set to 0; and the dialogs with the     *)
(* meter, once it is known not to be acquiring: "send" (no answer is       *)
(* looked at), "ask" and "query" (an error ends the function).             *)
(***************************************************************************)
Ops == {"stop", "start", "params", "command", "status", "resume", "clear",
        "send", "ask", "query"}

VARIABLES
  \* the driver object
  acquiring,      \* acquiring_
  readingActive,  \* readingActive_
  event,          \* acquireStartEvent_ is signalled
  acquire,        \* ADAcquire
  mode,           \* P_AcquireMode; Single is Multiple with NumAcquire 1
  numAcquire,     \* P_NumAcquire
  numAcquired,    \* numAcquired_
  queued,         \* messages waiting for callbackTask
  \* the threads
  reader,         \* the read thread is "asleep", "woken" or "reading"
  todo,           \* what the port thread's call has still to do
  waiting,        \* the port thread waits with the lock given up: "no"; "stop";
                  \* "start"; "failed", when ACQ:ON could not be written
  task,           \* callbackTask is "idle", or waits in setAcquire(0), "stop"
  \* the meter
  running,        \* it sends readings
  online,         \* the link is up
  failures,       \* dialogs that have failed with the link up
  outages,        \* times the link has gone down so far
  \* history
  heard,          \* the last ACQ:ON or ACQ:OFF was acknowledged
  overlapped      \* port thread and callbackTask have been in each other's way

driver  == <<acquiring, readingActive, event>>
control == <<acquire, mode, numAcquire, numAcquired>>
port    == <<todo, waiting>>
link    == <<online, failures, outages, heard>>
vars    == <<driver, control, queued, reader, port, task, running, link, overlapped>>

\* The port thread holds the lock all through its call, save when it waits.
PortHasLock == todo # <<>> /\ waiting = "no"

LockFree == ~PortHasLock

-----------------------------------------------------------------------------
(* readThread.                                                             *)

\* epicsEventWait returns; the thread does not have the lock yet.
ReaderWakes ==
  /\ reader = "asleep" /\ event
  /\ event' = FALSE
  /\ reader' = "woken"
  /\ UNCHANGED <<acquiring, readingActive, control, queued, port, task, running, link, overlapped>>

ReaderStarts ==
  /\ reader = "woken" /\ LockFree
  /\ acquiring' = 1
  /\ readingActive' = 1
  /\ reader' = "reading"
  /\ UNCHANGED <<event, control, queued, port, task, running, link, overlapped>>

\* mutant: the reader goes to sleep without saying so
ReaderLoopsSilently ==
  IF acquiring = 0
  THEN reader' = "asleep" /\ UNCHANGED readingActive
  ELSE UNCHANGED <<readingActive, reader>>

\* The top of the loop, after whatever the read has brought.
ReaderLoops ==
  IF acquiring = 0
  THEN readingActive' = 0 /\ reader' = "asleep"
  ELSE UNCHANGED <<readingActive, reader>>

\* A reading comes in, or the end of a gate pulse: it completes a batch or not.
ReaderReads ==
  /\ reader = "reading" /\ LockFree
  /\ running /\ online
  /\ queued' \in {queued, queued + 1}
  /\ queued' <= MaxQueued
  /\ ReaderLoops
  /\ UNCHANGED <<acquiring, event, control, port, task, running, link, overlapped>>

\* A timeout, a broken read, a trigger mark or a lost sync: no reading.
ReaderReadsNothing ==
  /\ reader = "reading" /\ LockFree
  /\ ReaderLoops
  /\ UNCHANGED <<acquiring, event, control, queued, port, task, running, link, overlapped>>

Reader == ReaderWakes \/ ReaderStarts \/ ReaderReads \/ ReaderReadsNothing

-----------------------------------------------------------------------------
(* setAcquire.                                                             *)

\* A dialog is answered, or fails: the link is down, or the meter is silent.
Answered == online /\ UNCHANGED failures
Fails == \/ ~online /\ UNCHANGED failures
         \/ online /\ failures < MaxFailures /\ failures' = failures + 1

\* The dialog that turns the meter off; the meter may act and its answer be lost.
AcqOff ==
  \/ Answered /\ running' = FALSE /\ heard' = TRUE
  \/ Fails /\ running' \in {FALSE, running} /\ heard' = FALSE

Pop == todo' = Tail(todo)

\* mutant: the flag is cleared before the link is looked at
PortStopClearsFirst ==
  /\ PortHasLock /\ Head(todo) = "stop"
  /\ acquiring' = 0
  /\ \/ /\ ~online
        /\ Pop
        /\ UNCHANGED <<waiting, running, failures, heard>>
     \/ /\ online /\ readingActive = 0
        /\ AcqOff
        /\ Pop
        /\ UNCHANGED waiting
     \/ /\ online /\ readingActive = 1
        /\ waiting' = "stop"
        /\ UNCHANGED <<todo, running, failures, heard>>
  /\ UNCHANGED <<readingActive, event, control, queued, reader, task, online, outages, overlapped>>

\* setAcquire(0): without a link it returns at once, with the flag untouched.
PortStop ==
  /\ PortHasLock /\ Head(todo) = "stop"
  /\ \/ /\ ~online
        /\ Pop
        /\ UNCHANGED <<acquiring, waiting, running, failures, heard>>
     \/ /\ online /\ readingActive = 0
        /\ acquiring' = 0
        /\ AcqOff
        /\ Pop
        /\ UNCHANGED waiting
     \/ /\ online /\ readingActive = 1
        /\ acquiring' = 0
        /\ waiting' = "stop"
        /\ UNCHANGED <<todo, running, failures, heard>>
  /\ UNCHANGED <<readingActive, event, control, queued, reader, task, online, outages, overlapped>>

\* The rest of setAcquire(0), once a poll finds the read thread stopped; an error
\* of the dialog clears the flag again.
AcqOffAndFlag ==
  /\ AcqOff
  /\ acquiring' = IF heard' THEN acquiring ELSE 0

PortStopped ==
  /\ waiting = "stop"
  /\ readingActive = 0
  /\ AcqOffAndFlag
  /\ waiting' = "no"
  /\ Pop
  /\ UNCHANGED <<readingActive, event, control, queued, reader, task, online, outages, overlapped>>

\* ACQ:ON is written; an error counts as such, unless a binary format makes the
\* next call overwrite the status.
AcqOn(failed) ==
  \/ Answered /\ running' = TRUE /\ ~failed /\ heard' = TRUE
  \/ Fails /\ UNCHANGED running /\ heard' = FALSE

\* mutant: the read thread is not told
PortStartUnsignalled ==
  /\ PortHasLock /\ Head(todo) = "start"
  /\ \/ /\ acquiring = 1 \/ ~online
        /\ Pop
        /\ UNCHANGED <<numAcquired, running, waiting, failures, heard>>
     \/ /\ acquiring = 0 /\ online
        /\ numAcquired' = 0
        /\ AcqOn(FALSE)
        /\ waiting' = "start"
        /\ UNCHANGED todo
  /\ UNCHANGED <<driver, acquire, mode, numAcquire, queued, reader, task, online,
                 outages, overlapped>>

\* setAcquire(1): nothing, if it acquires already or there is no link; else the
\* meter and the read thread are told, and the call waits for the read thread.
PortStart ==
  /\ PortHasLock /\ Head(todo) = "start"
  /\ \/ /\ acquiring = 1 \/ ~online
        /\ Pop
        /\ UNCHANGED <<event, numAcquired, running, waiting, failures, heard>>
     \/ /\ acquiring = 0 /\ online
        /\ numAcquired' = 0
        /\ event' = TRUE
        /\ \E failed \in BOOLEAN :
             /\ AcqOn(failed)
             /\ IF readingActive = 1
                THEN Pop /\ UNCHANGED waiting
                ELSE waiting' = (IF failed THEN "failed" ELSE "start") /\ UNCHANGED todo
  /\ UNCHANGED <<acquiring, readingActive, acquire, mode, numAcquire, queued,
                 reader, task, online, outages, overlapped>>

PortStarted ==
  /\ waiting \in {"start", "failed"}
  /\ readingActive = 1
  /\ acquiring' = IF waiting = "failed" THEN 0 ELSE acquiring
  /\ waiting' = "no"
  /\ Pop
  /\ UNCHANGED <<readingActive, event, control, queued, reader, task, running, link, overlapped>>

-----------------------------------------------------------------------------
(* The functions of the port thread that talk to the meter.                *)

\* setAcquireParams, sendCommand, readStatus: stop, talk, start again.
Dialog == [params |-> "send", command |-> "ask", status |-> "query"]

\* mutant: what was acquiring is not started again
PortForgets ==
  /\ PortHasLock /\ Head(todo) \in DOMAIN Dialog
  /\ todo' = (IF acquiring = 1 THEN <<"stop", Dialog[Head(todo)]>>
                               ELSE <<Dialog[Head(todo)]>>) \o Tail(todo)
  /\ UNCHANGED <<driver, control, queued, reader, waiting, task, running, link, overlapped>>

PortPrepares ==
  /\ PortHasLock /\ Head(todo) \in DOMAIN Dialog
  /\ todo' = (IF acquiring = 1 THEN <<"stop", Dialog[Head(todo)], "start">>
                               ELSE <<Dialog[Head(todo)]>>) \o Tail(todo)
  /\ UNCHANGED <<driver, control, queued, reader, waiting, task, running, link, overlapped>>

\* An error of a dialog whose answer is looked at skips the restart that ends
\* sendCommand and readStatus.
PortTalks ==
  /\ PortHasLock /\ Head(todo) \in {"send", "ask", "query"}
  /\ \/ Answered /\ Pop
     \/ Fails /\ Head(todo) = "send" /\ Pop
     \/ /\ Fails /\ Head(todo) # "send"
        /\ todo' = IF Len(todo) > 1 /\ todo[2] = "start"
                   THEN Tail(Tail(todo)) ELSE Tail(todo)
  /\ UNCHANGED <<driver, control, queued, reader, waiting, task, running, online,
                 outages, heard, overlapped>>

\* What ends reset(), and what ends a write of a counted mode.
PortSets ==
  /\ PortHasLock
  /\ \/ /\ Head(todo) = "resume"
        /\ todo' = <<IF acquire = 1 THEN "start" ELSE "stop">> \o Tail(todo)
        /\ UNCHANGED acquire
     \/ /\ Head(todo) = "clear"
        /\ acquire' = 0
        /\ Pop
  /\ UNCHANGED <<driver, mode, numAcquire, numAcquired, queued, reader, waiting,
                 task, running, link, overlapped>>

Port == PortStop \/ PortStopped \/ PortStart \/ PortStarted \/ PortPrepares
          \/ PortTalks \/ PortSets

-----------------------------------------------------------------------------
(* The client's writes; the port thread takes them one at a time.          *)

Call(ops) ==
  /\ todo = <<>> /\ todo' = ops
  /\ overlapped' = (overlapped \/ task = "stop")

WriteAcquire(v) ==
  /\ Call(<<IF v = 1 THEN "start" ELSE "stop">>)
  /\ acquire' = v
  /\ UNCHANGED <<driver, mode, numAcquire, numAcquired, queued, reader, waiting,
                 task, running, link>>

WriteAcquireMode(m) ==
  /\ Call(IF m = "Continuous" THEN <<"params", "status">>
                              ELSE <<"stop", "clear", "params", "status">>)
  /\ mode' = m
  /\ UNCHANGED <<driver, acquire, numAcquire, numAcquired, queued, reader, waiting,
                 task, running, link>>

\* NumAcquire, and with k = numAcquire any setting that setAcquireParams sends.
WriteSetting(k) ==
  /\ Call(<<"params", "status">>)
  /\ numAcquire' = k
  /\ UNCHANGED <<driver, acquire, mode, numAcquired, queued, reader, waiting,
                 task, running, link>>

\* BiasState, BiasVoltage, BiasInterlock.
WriteBias ==
  /\ Call(<<"command", "status">>)
  /\ UNCHANGED <<driver, control, queued, reader, waiting, task, running, link>>

WriteReset ==
  /\ Call(<<"stop", "command", "send", "params", "command", "status", "resume", "status">>)
  /\ UNCHANGED <<driver, control, queued, reader, waiting, task, running, link>>

\* report with details, from the shell: asyn gives it the port's lock; it is taken to
\* come between two writes.  It always stops, and starts again what acquired.
Report ==
  /\ Call(<<"stop", "send">> \o IF acquiring = 1 THEN <<"start">> ELSE <<>>)
  /\ UNCHANGED <<driver, control, queued, reader, waiting, task, running, link>>

\* A poll of the status, which is not done while acquiring.
WriteReadStatus ==
  /\ acquiring = 0
  /\ Call(<<"status">>)
  /\ UNCHANGED <<driver, control, queued, reader, waiting, task, running, link>>

Client ==
  \/ \E v \in {0, 1} : WriteAcquire(v)
  \/ \E m \in Modes : WriteAcquireMode(m)
  \/ \E k \in NumAcquires : WriteSetting(k)
  \/ WriteBias
  \/ WriteReset
  \/ Report
  \/ WriteReadStatus

-----------------------------------------------------------------------------
(* callbackTask.                                                           *)

Counted == mode # "Continuous"

\* More than any client asks for: where the model stops counting.
MostAcquired == CHOOSE k \in NumAcquires : \A l \in NumAcquires : l <= k

\* A message that is not the last of its acquisition, or that comes too late.
TaskDelivers ==
  /\ task = "idle" /\ queued > 0 /\ LockFree
  /\ ~(Counted /\ numAcquired + 1 = numAcquire)
  /\ queued' = queued - 1
  /\ numAcquired' = IF \/ Counted /\ numAcquired >= numAcquire
                       \/ numAcquired = MostAcquired
                    THEN numAcquired ELSE numAcquired + 1
  /\ UNCHANGED <<driver, acquire, mode, numAcquire, reader, port, task, running, link, overlapped>>

\* The last message: setAcquire(0), up to the wait for the read thread.
TaskStops ==
  /\ task = "idle" /\ queued > 0 /\ LockFree
  /\ Counted /\ numAcquired + 1 = numAcquire
  /\ queued' = queued - 1
  /\ numAcquired' = numAcquired + 1
  /\ overlapped' = (overlapped \/ waiting # "no")
  /\ \/ /\ ~online
        /\ acquire' = 0
        /\ UNCHANGED <<acquiring, task, running, failures, heard>>
     \/ /\ online /\ readingActive = 0
        /\ acquiring' = 0
        /\ AcqOff
        /\ acquire' = 0
        /\ UNCHANGED task
     \/ /\ online /\ readingActive = 1
        /\ acquiring' = 0
        /\ task' = "stop"
        /\ UNCHANGED <<acquire, running, failures, heard>>
  /\ UNCHANGED <<readingActive, event, mode, numAcquire, reader, port, online, outages>>

TaskStopped ==
  /\ task = "stop" /\ LockFree
  /\ readingActive = 0
  /\ AcqOffAndFlag
  /\ acquire' = 0
  /\ task' = "idle"
  /\ UNCHANGED <<readingActive, event, mode, numAcquire, numAcquired, queued, reader,
                 port, online, outages, overlapped>>

Task == TaskDelivers \/ TaskStops \/ TaskStopped

-----------------------------------------------------------------------------
(* The meter and its link.                                                 *)

\* A meter told to take NAQ samples, or NTRG triggers, stops by itself.
MeterStops ==
  /\ running /\ Counted
  /\ running' = FALSE
  /\ UNCHANGED <<driver, control, queued, reader, port, task, link, overlapped>>

LinkChanges ==
  /\ online => outages < MaxOutages
  /\ online' = ~online
  /\ outages' = IF online THEN outages + 1 ELSE outages
  /\ UNCHANGED <<driver, control, queued, reader, port, task, running, failures, heard, overlapped>>

-----------------------------------------------------------------------------
Init ==
  /\ acquiring = 0 /\ readingActive = 0 /\ event = FALSE
  /\ acquire = 0 /\ mode \in Modes /\ numAcquire \in NumAcquires
  /\ numAcquired = 0 /\ queued = 0
  /\ reader = "asleep" /\ todo = <<>> /\ waiting = "no" /\ task = "idle"
  /\ running = FALSE /\ online = TRUE /\ failures = 0 /\ outages = 0
  /\ heard = TRUE /\ overlapped = FALSE

Next == Reader \/ Port \/ Client \/ Task \/ MeterStops \/ LinkChanges

Spec == Init /\ [][Next]_vars

(***************************************************************************)
(* Fairness: each thread runs, reads end (they have a timeout), and a      *)
(* thread that polls every 10 ms sees what stays as it is: weak fairness,  *)
(* since a poll may miss what comes and goes between two looks.            *)
(***************************************************************************)
Fairness ==
  /\ WF_vars(ReaderWakes) /\ WF_vars(ReaderStarts)
  /\ WF_vars(ReaderReads \/ ReaderReadsNothing)
  /\ WF_vars(Port)
  /\ WF_vars(Task)

FairSpec == Spec /\ Fairness

-----------------------------------------------------------------------------
(* Properties.                                                             *)

TypeOK ==
  /\ acquiring \in {0, 1} /\ readingActive \in {0, 1} /\ event \in BOOLEAN
  /\ acquire \in {0, 1} /\ mode \in Modes /\ numAcquire \in NumAcquires
  /\ numAcquired \in 0..MostAcquired /\ queued \in 0..MaxQueued
  /\ reader \in {"asleep", "woken", "reading"}
  /\ readingActive = 1 <=> reader = "reading"
  /\ todo \in Seq(Ops) /\ waiting \in {"no", "stop", "start", "failed"}
  /\ waiting # "no" => todo # <<>>
  /\ task \in {"idle", "stop"}
  /\ running \in BOOLEAN /\ online \in BOOLEAN /\ heard \in BOOLEAN
  /\ overlapped \in BOOLEAN
  /\ failures \in 0..MaxFailures /\ outages \in 0..MaxOutages

\* The port thread is in a dialog with the meter.
InDialog == PortHasLock /\ Head(todo) \in {"send", "ask", "query"}

\* No dialog has failed, no link has broken, and callbackTask has not stopped the
\* meter while the port thread was in setAcquire, nor has a call begun meanwhile.
Undisturbed == failures = 0 /\ outages = 0 /\ ~overlapped

\* sendCommand, setAcquireParams and readStatus: a meter that is acquiring is
\* turned off and has stopped sending data before it is talked to; what it sent
\* would be taken for the answer.
NoCrossTalk == (InDialog /\ Undisturbed) => ~running

\* Between calls, with callbackTask at rest, the driver acquires just when Acquire
\* says so, the read thread reads then, and a meter that does not stop by itself
\* runs: every setting written during an acquisition finds its way back to it.
AcquireIsTrue ==
  (todo = <<>> /\ task = "idle" /\ Undisturbed) =>
     /\ acquire = acquiring /\ acquiring = readingActive
     /\ running => acquire = 1
     /\ (acquire = 1 /\ ~Counted) => running

\* The meter does not send its readings to nobody, whatever fails: when all
\* threads rest and the read thread sleeps, the meter is off, unless it did not
\* acknowledge what it was told last.  (setAcquire(0) that cannot reach the meter leaves the read
\* thread reading.)
SendsToNobody ==
  (todo = <<>> /\ task = "idle" /\ reader = "asleep" /\ ~event /\ heard) => ~running

\* What the meter sends is read by the read thread, and by no one else: not by a
\* dialog, and not by nobody, whoever stops and starts the meter in between.
OneReader == NoCrossTalk /\ SendsToNobody

\* A call of the port thread ends: setAcquire's waits are not for ever, whatever
\* the link does; a start that callbackTask overtakes may be missed, and so may
\* the stop after a dialog that failed.
CallsReturn == todo # <<>> ~> (todo = <<>> \/ overlapped \/ failures > 0)
=============================================================================
