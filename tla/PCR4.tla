-------------------------------- MODULE PCR4 --------------------------------
(***************************************************************************)
(* The driver of the SenSiC PCR4.  The hand-shake is the TetrAMM's, but    *)
(* the driver looks at no link, arms the external trigger from             *)
(* setAcquireParams, which setAcquire(1) calls and which may call          *)
(* setAcquire, and forgets a free-running acquisition it has stopped.      *)
(***************************************************************************)
EXTENDS Integers, Sequences

CONSTANTS
  Triggers,     \* the trigger modes in use: 0 free run, 1 external
  Modes,        \* the acquire modes clients use
  NumAcquires,  \* values a client can write to NumAcquire
  MaxFaults,    \* bound: dialogs that fail
  MaxQueued     \* bound: messages waiting for callbackTask

ASSUME ConstAssumption ==
  /\ Triggers \subseteq {0, 1} /\ Triggers # {}
  /\ Modes \subseteq {"Continuous", "Multiple"} /\ Modes # {}
  /\ NumAcquires \subseteq Nat \ {0} /\ NumAcquires # {}
  /\ MaxFaults \in Nat /\ MaxQueued \in Nat

ASSUME MostAssumption == \E k \in NumAcquires : \A l \in NumAcquires : l <= k

(***************************************************************************)
(* What a call has to do: setAcquire(0); setAcquire(1) and what follows    *)
(* its setAcquireParams, "go"; setAcquireParams, sendCommand, readStatus;  *)
(* reset's setAcquire(ADAcquire); ADAcquire set to 0; the dialogs "send"   *)
(* (the answer is not looked at), "ask" and "query" (an error ends the     *)
(* function), and "arm", which sets the external trigger.                  *)
(***************************************************************************)
Ops == {"stop", "start", "go", "params", "command", "status", "resume", "clear",
        "send", "ask", "query", "arm"}

VARIABLES
  \* the driver object
  acquiring,     \* acquiring_
  readingActive, \* readingActive_
  event,         \* acquireStartEvent_ is signalled
  trigger,       \* P_TriggerMode
  acquire,       \* ADAcquire
  mode,          \* P_AcquireMode; Single is Multiple with NumAcquire 1
  numAcquire,    \* P_NumAcquire
  numAcquired,   \* numAcquired_
  queued,        \* messages waiting for callbackTask
  \* the threads
  reader,        \* the read thread is "asleep", "woken" or "reading"
  todo,          \* what the port thread's call has still to do
  waiting,       \* the port thread waits: "no"; "stop"; "start"; "failed", when
                 \* ACQC:START could not be written
  task,          \* callbackTask is "idle", or waits in setAcquire(0), "stop"
  \* the meter
  running,       \* it sends readings, or will at a trigger
  faults,        \* dialogs that have failed
  \* history
  heard,         \* the last dialog that turned the meter on or off succeeded
  overlapped,    \* port thread and callbackTask have been in each other's way
  forgotten      \* setAcquireParams has left an acquisition stopped

driver  == <<acquiring, readingActive, event>>
control == <<trigger, acquire, mode, numAcquire, numAcquired>>
port    == <<todo, waiting>>
meter   == <<running, faults, heard>>
vars    == <<driver, control, queued, reader, port, task, meter, overlapped, forgotten>>

PortHasLock == todo # <<>> /\ waiting = "no"

LockFree == ~PortHasLock

-----------------------------------------------------------------------------
(* readThread.                                                             *)

\* epicsEventWait returns; the thread does not have the lock yet.
ReaderWakes ==
  /\ reader = "asleep" /\ event
  /\ event' = FALSE
  /\ reader' = "woken"
  /\ UNCHANGED <<acquiring, readingActive, control, queued, port, task, meter,
                 overlapped, forgotten>>

ReaderStarts ==
  /\ reader = "woken" /\ LockFree
  /\ acquiring' = 1
  /\ readingActive' = 1
  /\ reader' = "reading"
  /\ UNCHANGED <<event, control, queued, port, task, meter, overlapped, forgotten>>

\* A line is read, with the lock given up, and the loop looks at the flag: a
\* reading completes a batch or not; a trigger mark, an error, a timeout do not.
ReaderReads ==
  /\ reader = "reading" /\ LockFree
  /\ queued' \in IF running THEN {queued, queued + 1} ELSE {queued}
  /\ queued' <= MaxQueued
  /\ IF acquiring = 0
     THEN readingActive' = 0 /\ reader' = "asleep"
     ELSE UNCHANGED <<readingActive, reader>>
  /\ UNCHANGED <<acquiring, event, control, port, task, meter, overlapped, forgotten>>

-----------------------------------------------------------------------------
(* setAcquire.                                                             *)

Answered == UNCHANGED faults
Fails == faults < MaxFaults /\ faults' = faults + 1

\* TRIGGER:STOP and ACQC:STOP, until the ACK; or an answer is lost.
MeterOff ==
  \/ Answered /\ running' = FALSE /\ heard' = TRUE
  \/ Fails /\ running' \in {FALSE, running} /\ heard' = FALSE

Pop == todo' = Tail(todo)

\* Replace what is done first by a list of simpler things.
Expand(ops) == todo' = ops \o Tail(todo)

\* setAcquire(0), up to the wait for the read thread or, without one, to its end.
PortStop ==
  /\ PortHasLock /\ Head(todo) = "stop"
  /\ acquiring' = 0
  /\ \/ readingActive = 0 /\ MeterOff /\ Pop /\ UNCHANGED waiting
     \/ readingActive = 1 /\ waiting' = "stop" /\ UNCHANGED <<todo, meter>>
  /\ UNCHANGED <<readingActive, event, control, queued, reader, task, overlapped, forgotten>>

\* A poll finds the read thread stopped; a status that is an error clears the flag.
StopEnds ==
  /\ readingActive = 0
  /\ MeterOff
  /\ acquiring' = IF heard' THEN acquiring ELSE 0

PortStopped ==
  /\ waiting = "stop"
  /\ StopEnds
  /\ waiting' = "no"
  /\ Pop
  /\ UNCHANGED <<readingActive, event, control, queued, reader, task, overlapped, forgotten>>

\* setAcquire(1), as far as setAcquireParams.
PortStart ==
  /\ PortHasLock /\ Head(todo) = "start"
  /\ \/ acquiring = 1 /\ Pop /\ UNCHANGED numAcquired
     \/ acquiring = 0 /\ Expand(<<"params", "go">>) /\ numAcquired' = 0
  /\ UNCHANGED <<driver, trigger, acquire, mode, numAcquire, queued, reader,
                 waiting, task, meter, overlapped, forgotten>>

\* mutant: the read thread is not told
PortGoesUnsignalled ==
  /\ PortHasLock /\ Head(todo) = "go"
  /\ acquiring' = 1
  /\ forgotten' = FALSE
  /\ running' = TRUE /\ heard' = TRUE /\ UNCHANGED faults
  /\ waiting' = "start"
  /\ UNCHANGED <<readingActive, event, control, queued, reader, todo, task, overlapped>>

\* The rest of it: ACQC:START, if no trigger is waited for, is written and not
\* answered; the read thread is told, and waited for if it is not there yet.
PortGoes ==
  /\ PortHasLock /\ Head(todo) = "go"
  /\ event' = TRUE
  /\ forgotten' = FALSE
  /\ \E failed \in {FALSE} \cup {trigger = 0} :
       /\ IF failed THEN Fails ELSE Answered
       /\ running' = IF trigger = 1 THEN running ELSE IF failed THEN running ELSE TRUE
       /\ heard' = IF trigger = 1 THEN heard ELSE ~failed
       /\ IF readingActive = 1
          THEN /\ acquiring' = (IF failed THEN 0 ELSE 1)
               /\ Pop /\ UNCHANGED waiting
          ELSE /\ acquiring' = 1
               /\ waiting' = (IF failed THEN "failed" ELSE "start")
               /\ UNCHANGED todo
  /\ UNCHANGED <<readingActive, control, queued, reader, task, overlapped>>

PortStarted ==
  /\ waiting \in {"start", "failed"}
  /\ readingActive = 1
  /\ acquiring' = IF waiting = "failed" THEN 0 ELSE acquiring
  /\ waiting' = "no"
  /\ Pop
  /\ UNCHANGED <<readingActive, event, control, queued, reader, task, meter,
                 overlapped, forgotten>>

-----------------------------------------------------------------------------
(* The functions of the port thread that talk to the meter.                *)

\* Stop before, start again after; an acquisition is due in external trigger
\* mode even if there was none.
Wrapped(dialog, due) == IF due THEN <<"stop">> \o dialog \o <<"start">> ELSE dialog

\* setAcquireParams: stops what acquires and disarms the trigger; starts again only
\* what acquires by the external trigger.
PortPreparesParams ==
  /\ PortHasLock /\ Head(todo) = "params"
  /\ Expand(IF acquiring = 1 /\ trigger = 1 THEN <<"stop", "send", "arm", "start">>
            ELSE IF acquiring = 1 \/ trigger = 1 THEN <<"stop", "send", "arm">>
            ELSE <<"send", "arm">>)
  /\ forgotten' = (forgotten \/ (acquiring = 1 /\ trigger = 0))
  /\ UNCHANGED <<driver, control, queued, reader, waiting, task, meter, overlapped>>

\* mutant: what was acquiring is not started again
PortForgets ==
  /\ PortHasLock
  /\ \/ /\ Head(todo) = "command"
        /\ Expand(IF acquiring = 1 THEN <<"stop", "ask">> ELSE <<"ask">>)
     \/ /\ Head(todo) = "status"
        /\ Expand(Wrapped(<<"query">>, acquiring = 1 \/ trigger = 1))
  /\ UNCHANGED <<driver, control, queued, reader, waiting, task, meter, overlapped,
                 forgotten>>

\* sendCommand, readStatus.
PortPrepares ==
  /\ PortHasLock
  /\ \/ Head(todo) = "command" /\ Expand(Wrapped(<<"ask">>, acquiring = 1))
     \/ Head(todo) = "status" /\ Expand(Wrapped(<<"query">>, acquiring = 1 \/ trigger = 1))
  /\ UNCHANGED <<driver, control, queued, reader, waiting, task, meter, overlapped,
                 forgotten>>

\* An error skips the restart that ends sendCommand and readStatus.
PortTalks ==
  /\ PortHasLock /\ Head(todo) \in {"send", "ask", "query"}
  /\ \/ Answered /\ Pop
     \/ Fails /\ Head(todo) = "send" /\ Pop
     \/ /\ Fails /\ Head(todo) # "send"
        /\ todo' = IF Len(todo) > 1 /\ todo[2] = "start"
                   THEN Tail(Tail(todo)) ELSE Tail(todo)
  /\ UNCHANGED <<driver, control, queued, reader, waiting, task, running, heard,
                 overlapped, forgotten>>

\* TRIGGER:START, or TRIGGER:STOP, which free-running acquisition does not mind.
PortArms ==
  /\ PortHasLock /\ Head(todo) = "arm"
  /\ Pop
  /\ \/ Answered /\ running' = (running \/ trigger = 1) /\ heard' = (heard \/ trigger = 1)
     \/ /\ Fails
        /\ running' \in {running, running \/ trigger = 1}
        /\ heard' = (heard /\ trigger = 0)
  /\ UNCHANGED <<driver, control, queued, reader, waiting, task, overlapped, forgotten>>

\* What ends reset(), and what a write of a counted mode does to ADAcquire.
PortSets ==
  /\ PortHasLock
  /\ \/ /\ Head(todo) = "resume"
        /\ Expand(<<IF acquire = 1 THEN "start" ELSE "stop">>)
        /\ UNCHANGED acquire
     \/ Head(todo) = "clear" /\ acquire' = 0 /\ Pop
  /\ UNCHANGED <<driver, trigger, mode, numAcquire, numAcquired, queued, reader,
                 waiting, task, meter, overlapped, forgotten>>

Port == PortStop \/ PortStopped \/ PortStart \/ PortGoes \/ PortStarted
          \/ PortPreparesParams \/ PortPrepares \/ PortTalks \/ PortArms \/ PortSets

-----------------------------------------------------------------------------
(* The client's writes; the port thread takes them one at a time.          *)

Call(ops) ==
  /\ todo = <<>> /\ todo' = ops
  /\ overlapped' = (overlapped \/ task = "stop")
  /\ UNCHANGED <<driver, numAcquired, queued, reader, waiting, task, meter, forgotten>>

WriteAcquire(v) ==
  /\ Call(<<IF v = 1 THEN "start" ELSE "stop">>)
  /\ acquire' = v
  /\ UNCHANGED <<trigger, mode, numAcquire>>

WriteAcquireMode(m) ==
  /\ Call(IF m = "Continuous" THEN <<"params", "status">>
                              ELSE <<"stop", "clear", "params", "status">>)
  /\ mode' = m
  /\ UNCHANGED <<trigger, acquire, numAcquire>>

\* TriggerMode and NumAcquire, and with the values they have AveragingTime,
\* NumChannels, Range, TriggerPolarity and ValuesPerRead.
WriteSetting(t, k) ==
  /\ Call(<<"params", "status">>)
  /\ trigger' = t /\ numAcquire' = k
  /\ UNCHANGED <<acquire, mode>>

\* BiasState sends one command or two, BiasVoltage one or none; the settings the
\* PCR4 does not have only lead to readStatus.
WriteBias(commands) ==
  /\ Call([i \in 1..commands |-> "command"] \o <<"status">>)
  /\ UNCHANGED <<trigger, acquire, mode, numAcquire>>

\* reset, then the base class's, with each function it calls named once.
WriteReset ==
  /\ Call(<<"stop", "command", "send", "params", "command", "status", "resume", "status">>)
  /\ UNCHANGED <<trigger, acquire, mode, numAcquire>>

\* report with details, from the shell: asyn gives it the port's lock; it is taken to
\* come between two writes.  It always stops, and starts again what acquired.
Report ==
  /\ Call(<<"stop", "send">> \o IF acquiring = 1 THEN <<"start">> ELSE <<>>)
  /\ UNCHANGED <<trigger, acquire, mode, numAcquire>>

\* A poll of the status, which is not done while acquiring.
WriteReadStatus ==
  /\ acquiring = 0
  /\ Call(<<"status">>)
  /\ UNCHANGED <<trigger, acquire, mode, numAcquire>>

Client ==
  \/ \E v \in {0, 1} : WriteAcquire(v)
  \/ \E m \in Modes : WriteAcquireMode(m)
  \/ \E t \in Triggers, k \in NumAcquires : WriteSetting(t, k)
  \/ \E n \in 0..2 : WriteBias(n)
  \/ WriteReset
  \/ Report
  \/ WriteReadStatus

-----------------------------------------------------------------------------
(* callbackTask.                                                           *)

Counted == mode # "Continuous"

MostAcquired == CHOOSE k \in NumAcquires : \A l \in NumAcquires : l <= k

\* A message that is not the last of its acquisition, or that comes too late.
TaskDelivers ==
  /\ task = "idle" /\ queued > 0 /\ LockFree
  /\ ~(Counted /\ numAcquired + 1 = numAcquire)
  /\ queued' = queued - 1
  /\ numAcquired' = IF (Counted /\ numAcquired >= numAcquire) \/ numAcquired = MostAcquired
                    THEN numAcquired ELSE numAcquired + 1
  /\ UNCHANGED <<driver, trigger, acquire, mode, numAcquire, reader, port, task, meter,
                 overlapped, forgotten>>

\* The last message: setAcquire(0), up to the wait for the read thread.
TaskStops ==
  /\ task = "idle" /\ queued > 0 /\ LockFree
  /\ Counted /\ numAcquired + 1 = numAcquire
  /\ queued' = queued - 1
  /\ numAcquired' = numAcquired + 1
  /\ overlapped' = (overlapped \/ waiting # "no")
  /\ acquiring' = 0
  /\ \/ readingActive = 0 /\ MeterOff /\ acquire' = 0 /\ UNCHANGED task
     \/ readingActive = 1 /\ task' = "stop" /\ UNCHANGED <<acquire, meter>>
  /\ UNCHANGED <<readingActive, event, trigger, mode, numAcquire, reader, port, forgotten>>

TaskStopped ==
  /\ task = "stop" /\ LockFree
  /\ StopEnds
  /\ acquire' = 0
  /\ task' = "idle"
  /\ UNCHANGED <<readingActive, event, trigger, mode, numAcquire, numAcquired, queued,
                 reader, port, overlapped, forgotten>>

Task == TaskDelivers \/ TaskStops \/ TaskStopped

-----------------------------------------------------------------------------
\* The constructor turns the meter off, and asks for its version.
Init ==
  /\ acquiring = 0 /\ readingActive = 0 /\ event = FALSE
  /\ trigger \in Triggers
  /\ acquire = 0 /\ mode \in Modes /\ numAcquire \in NumAcquires
  /\ numAcquired = 0 /\ queued = 0
  /\ reader = "asleep" /\ todo = <<>> /\ waiting = "no" /\ task = "idle"
  /\ running = FALSE /\ faults = 0
  /\ heard = TRUE /\ overlapped = FALSE /\ forgotten = FALSE

Next == ReaderWakes \/ ReaderStarts \/ ReaderReads \/ Port \/ Client \/ Task

Spec == Init /\ [][Next]_vars

\* The threads run, a read ends by its timeout, a poll sees what stays as it is.
Fairness ==
  /\ WF_vars(ReaderWakes) /\ WF_vars(ReaderStarts) /\ WF_vars(ReaderReads)
  /\ WF_vars(Port)
  /\ WF_vars(Task)

FairSpec == Spec /\ Fairness

-----------------------------------------------------------------------------
(* Properties.                                                             *)

TypeOK ==
  /\ acquiring \in {0, 1} /\ readingActive \in {0, 1} /\ event \in BOOLEAN
  /\ trigger \in Triggers
  /\ acquire \in {0, 1} /\ mode \in Modes /\ numAcquire \in NumAcquires
  /\ numAcquired \in 0..MostAcquired /\ queued \in 0..MaxQueued
  /\ reader \in {"asleep", "woken", "reading"}
  /\ readingActive = 1 <=> reader = "reading"
  /\ todo \in Seq(Ops) /\ waiting \in {"no", "stop", "start", "failed"}
  /\ waiting # "no" => todo # <<>>
  /\ task \in {"idle", "stop"}
  /\ running \in BOOLEAN /\ faults \in 0..MaxFaults
  /\ heard \in BOOLEAN /\ overlapped \in BOOLEAN /\ forgotten \in BOOLEAN

InDialog == PortHasLock /\ Head(todo) \in {"send", "ask", "query", "arm"}

Undisturbed == faults = 0 /\ ~overlapped

\* reset() is under way.
Resetting == \E i \in 1..Len(todo) : todo[i] = "resume"

\* The meter is talked to when it has stopped sending: sendCommand, readStatus and
\* setAcquireParams see to it, in both trigger modes and however they call each
\* other; only the commands of a reset may meet a trigger it has armed already.
NoCrossTalk ==
  (InDialog /\ Undisturbed /\ ~(Resetting /\ trigger = 1)) => ~running

\* Between calls, with callbackTask at rest: the driver acquires only with the read
\* thread reading; the meter sends only to a driver that acquires; an acquisition
\* that Acquire announces goes on, unless setAcquireParams has stopped it; and
\* without an external trigger nothing acquires that Acquire does not announce.
AcquireIsTrue ==
  (todo = <<>> /\ task = "idle" /\ Undisturbed) =>
     /\ acquiring = readingActive
     /\ running => acquiring = 1
     /\ acquire = 1 => acquiring = 1 \/ forgotten
     /\ (acquiring = 1 /\ trigger = 0) => acquire = 1 /\ running

\* Whatever fails, a meter whose last order was heard does not send with the read
\* thread asleep for good.
SendsToNobody ==
  (todo = <<>> /\ task = "idle" /\ heard /\ running) => reader # "asleep" \/ event

\* What the meter sends is read by the read thread, and by no one else: not by a
\* dialog, and not by nobody, whoever stops and starts the meter in between.
OneReader == NoCrossTalk /\ SendsToNobody

\* A write ends, as long as nothing fails and callbackTask is not in the way: the
\* waits of setAcquire, called from within setAcquireParams called from within
\* setAcquire, find the read thread in the state they wait for.
CallsReturn == todo # <<>> ~> (todo = <<>> \/ ~Undisturbed)

-----------------------------------------------------------------------------
\* sendCommand: "If meter is acquiring turns it off and waits for it to stop
\* sending data".
CommandsMeetSilence == (PortHasLock /\ Head(todo) = "ask" /\ Undisturbed) => ~running
=============================================================================
