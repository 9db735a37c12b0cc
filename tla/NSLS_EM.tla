------------------------------ MODULE NSLS_EM -------------------------------
(***************************************************************************)
(* The driver of the NSLS precision integrator.  Commands go over one TCP  *)
(* connection and readings come over another, so that a setting need not   *)
(* stop the acquisition: what has to agree here is the phase that the read *)
(* thread lets through with the phase the client asks for, and the scale   *)
(* factor with the values the module averages.                             *)
(***************************************************************************)
EXTENDS Integers, Sequences

CONSTANTS
  PingPongs,      \* the phases clients ask for, of 0, 1 and Both
  Both,           \* PhaseBoth
  Unset,          \* the read thread has seen no phase yet
  Modes,          \* the acquire modes clients use
  ValuesPerReads, \* values a client can write to ValuesPerRead
  MaxFaults,      \* bound: commands that fail
  MaxQueued       \* bound: messages waiting for callbackTask

ASSUME ConstAssumption ==
  /\ PingPongs \subseteq {0, 1, Both} /\ Both \in PingPongs /\ Both \notin {0, 1}
  /\ Unset \notin {0, 1, Both}
  /\ Modes \subseteq {"Continuous", "Single"} /\ Modes # {}
  /\ ValuesPerReads \subseteq Nat \ {0} /\ 1 \in ValuesPerReads
  /\ MaxFaults \in Nat /\ MaxQueued \in Nat

(***************************************************************************)
(* What a call has to do: setAcquire(0), setAcquire(1), setMode, the "n"   *)
(* command, a command that changes no more than the scale factor, the "s"  *)
(* query of readStatus, reset's setAcquire(ADAcquire), ADAcquire set to 0. *)
(***************************************************************************)
Ops == {"stop", "start", "mode", "values", "scale", "status", "resume", "clear"}

VARIABLES
  \* the driver object
  acquiring,     \* acquiring_
  readingActive, \* readingActive_
  event,         \* acquireStartEvent_ is signalled
  pingPong,      \* P_PingPong
  valuesPerRead, \* P_ValuesPerRead
  scaledFor,     \* the values per read that scaleFactor_ divides by
  doubled,       \* P_SampleTime counts two integrations
  acquire,       \* ADAcquire
  mode,          \* P_AcquireMode
  numAcquired,   \* numAcquired_, of one
  queued,        \* messages waiting for callbackTask
  \* the read thread
  reader,        \* "asleep", "woken" (without the lock yet) or "reading"
  filter,        \* the PingPong it took when it woke
  phase,         \* the phase of the last reading that told it
  \* the other threads
  todo,          \* what the port thread's call has still to do
  waiting,       \* the port thread waits in setAcquire(0)
  task,          \* callbackTask is "idle", or waits in setAcquire(0), "stop"
  \* the module
  running,       \* it sends readings
  phased,        \* it tells their phase
  averaged,      \* values it averages into one
  faults,        \* commands that have failed
  \* history
  heard,         \* the last command of setMode succeeded
  disturbed,     \* the port thread and callbackTask, or a setting and a read
                 \* thread that is awake, have met
  wrong          \* a reading was used of another phase than the client's, although
                 \* nothing had failed and nothing had met

driver   == <<acquiring, readingActive, event>>
settings == <<pingPong, valuesPerRead, scaledFor, doubled>>
control  == <<acquire, mode, numAcquired>>
reading  == <<reader, filter, phase>>
port     == <<todo, waiting>>
module   == <<running, phased, averaged>>
history  == <<heard, disturbed, wrong>>
vars     == <<driver, settings, control, queued, reading, port, task, module,
              faults, history>>

PortHasLock == todo # <<>> /\ ~waiting

LockFree == ~PortHasLock

-----------------------------------------------------------------------------
(* readThread.                                                             *)

ReaderWakes ==
  /\ reader = "asleep" /\ event
  /\ event' = FALSE
  /\ reader' = "woken"
  /\ UNCHANGED <<acquiring, readingActive, settings, control, queued, filter, phase,
                 port, task, module, faults, history>>

\* mutant: the phase to let through is not looked at again
ReaderStartsAsBefore ==
  /\ reader = "woken" /\ LockFree
  /\ readingActive' = 1
  /\ reader' = "reading"
  /\ UNCHANGED <<acquiring, event, settings, control, queued, filter, phase, port, task,
                 module, faults, history>>

\* What the data connection holds from earlier is flushed.
ReaderStarts ==
  /\ reader = "woken" /\ LockFree
  /\ readingActive' = 1
  /\ reader' = "reading"
  /\ filter' = pingPong
  /\ UNCHANGED <<acquiring, event, settings, control, queued, phase, port, task,
                 module, faults, history>>

\* mutant: the reader goes to sleep without saying so
ReaderLoopsSilently ==
  IF acquiring = 0 THEN reader' = "asleep" /\ UNCHANGED readingActive
                   ELSE UNCHANGED <<readingActive, reader>>

ReaderLoops ==
  IF acquiring = 0 THEN readingActive' = 0 /\ reader' = "asleep"
                   ELSE UNCHANGED <<readingActive, reader>>

\* A line is read.  One without a phase is judged by the phase of an earlier line,
\* and if there was none by whatever the variable happens to hold.
ReaderReads ==
  /\ reader = "reading" /\ LockFree
  /\ running
  /\ \E p \in IF phased THEN {0, 1} ELSE {phase} :
     \E used \in IF p = Unset THEN BOOLEAN \cup {filter = Both} ELSE {filter \in {p, Both}} :
       /\ phase' = p
       /\ wrong' = (wrong \/ (/\ used /\ pingPong # Both /\ ~(phased /\ p = pingPong)
                              /\ faults = 0 /\ ~disturbed))
       /\ queued' \in IF used THEN {queued, queued + 1} ELSE {queued}
       /\ queued' <= MaxQueued
  /\ ReaderLoops
  /\ UNCHANGED <<acquiring, event, settings, control, filter, port, task, module,
                 faults, heard, disturbed>>

\* A timeout or a broken connection.
ReaderReadsNothing ==
  /\ reader = "reading" /\ LockFree
  /\ ReaderLoops
  /\ UNCHANGED <<acquiring, event, settings, control, queued, filter, phase, port,
                 task, module, faults, history>>

Reader == ReaderWakes \/ ReaderStarts \/ ReaderReads \/ ReaderReadsNothing

-----------------------------------------------------------------------------
(* Commands.                                                               *)

Answered == UNCHANGED faults
Fails == faults < MaxFaults /\ faults' = faults + 1

\* setMode: the phase is only known of single values; an error is not told to the
\* caller, and the module may have understood all the same.
SetMode(flag) ==
  LET pp == IF valuesPerRead = 1 THEN pingPong ELSE Both IN
  /\ pingPong' = pp
  /\ \/ /\ Answered \/ Fails
        /\ heard' = (faults' = faults)
        /\ running' = (flag = 1) /\ phased' = (pp # Both)
     \/ Fails /\ heard' = FALSE /\ UNCHANGED <<running, phased>>
  /\ UNCHANGED <<valuesPerRead, scaledFor, doubled, averaged>>

Pop == todo' = Tail(todo)

Expand(ops) == todo' = ops \o Tail(todo)

PortSetsMode ==
  /\ PortHasLock /\ Head(todo) = "mode"
  /\ SetMode(acquiring)
  /\ Pop
  /\ UNCHANGED <<driver, control, queued, reading, waiting, task, disturbed, wrong>>

\* mutant: the scale factor keeps what it was computed from
PortSetsValuesOnly ==
  /\ PortHasLock /\ Head(todo) \in {"values", "scale"}
  /\ \/ Answered /\ averaged' = IF Head(todo) = "values" THEN valuesPerRead ELSE averaged
     \/ Fails /\ UNCHANGED averaged
  /\ UNCHANGED scaledFor
  /\ Pop
  /\ UNCHANGED <<driver, pingPong, valuesPerRead, doubled, control, queued, reading,
                 waiting, task, running, phased, history>>

\* setValuesPerRead and, with the same values as before, setRange and
\* setIntegrationTime; computeScaleFactor does not ask if the command succeeded.
PortSetsValues ==
  /\ PortHasLock /\ Head(todo) \in {"values", "scale"}
  /\ \/ Answered /\ averaged' = IF Head(todo) = "values" THEN valuesPerRead ELSE averaged
     \/ Fails /\ UNCHANGED averaged
  /\ scaledFor' = valuesPerRead
  /\ Pop
  /\ UNCHANGED <<driver, pingPong, valuesPerRead, doubled, control, queued, reading,
                 waiting, task, running, phased, history>>

\* readStatus takes over what the module says.
PortReadsStatus ==
  /\ PortHasLock /\ Head(todo) = "status"
  /\ \/ Answered /\ valuesPerRead' = averaged /\ doubled' = (pingPong # Both)
     \/ Fails /\ UNCHANGED <<valuesPerRead, doubled>>
  /\ Pop
  /\ UNCHANGED <<driver, pingPong, scaledFor, control, queued, reading, waiting, task,
                 module, history>>

-----------------------------------------------------------------------------
(* setAcquire.                                                             *)

PortStop ==
  /\ PortHasLock /\ Head(todo) = "stop"
  /\ acquiring' = 0
  /\ IF readingActive = 0 THEN Expand(<<"mode">>) /\ UNCHANGED waiting
                          ELSE waiting' = TRUE /\ UNCHANGED todo
  /\ UNCHANGED <<readingActive, event, settings, control, queued, reading, task,
                 module, faults, history>>

PortStopped ==
  /\ waiting /\ readingActive = 0
  /\ waiting' = FALSE
  /\ Expand(<<"mode">>)
  /\ UNCHANGED <<driver, settings, control, queued, reading, task, module, faults,
                 history>>

\* The read thread is told, and gets the lock when the module has been told too.
PortStart ==
  /\ PortHasLock /\ Head(todo) = "start"
  /\ \/ acquiring = 1 /\ Pop /\ UNCHANGED <<acquiring, event, numAcquired>>
     \/ /\ acquiring = 0
        /\ event' = TRUE
        /\ acquiring' = 1
        /\ numAcquired' = 0
        /\ Expand(<<"mode">>)
  /\ UNCHANGED <<readingActive, settings, acquire, mode, queued, reading, waiting,
                 task, module, faults, history>>

\* What ends reset(), and what a write of a counted mode does to ADAcquire.
PortSets ==
  /\ PortHasLock
  /\ \/ /\ Head(todo) = "resume"
        /\ Expand(<<IF acquire = 1 THEN "start" ELSE "stop">>)
        /\ UNCHANGED acquire
     \/ Head(todo) = "clear" /\ acquire' = 0 /\ Pop
  /\ UNCHANGED <<driver, settings, mode, numAcquired, queued, reading, waiting, task,
                 module, faults, history>>

Port == PortSetsMode \/ PortSetsValues \/ PortReadsStatus \/ PortStop \/ PortStopped
          \/ PortStart \/ PortSets

-----------------------------------------------------------------------------
(* The client's writes; the port thread takes them one at a time.          *)

\* A setting that the reading depends on, made while the read thread reads.
Call(ops, isSetting) ==
  /\ todo = <<>> /\ todo' = ops
  /\ disturbed' = (disturbed \/ task = "stop" \/ (isSetting /\ reader # "asleep"))
  /\ UNCHANGED <<driver, scaledFor, doubled, numAcquired, queued, reading, waiting, task,
                 module, faults, heard, wrong>>

WriteAcquire(v) ==
  /\ Call(<<IF v = 1 THEN "start" ELSE "stop">>, FALSE)
  /\ acquire' = v
  /\ UNCHANGED <<pingPong, valuesPerRead, mode>>

WriteAcquireMode(m) ==
  /\ Call(IF m = "Continuous" THEN <<"status">> ELSE <<"stop", "clear", "status">>, FALSE)
  /\ mode' = m
  /\ UNCHANGED <<pingPong, valuesPerRead, acquire>>

WritePingPong(p) ==
  /\ Call(<<"mode", "status">>, TRUE)
  /\ pingPong' = p
  /\ UNCHANGED <<valuesPerRead, acquire, mode>>

WriteValuesPerRead(v) ==
  /\ Call(<<"values", "mode", "status">>, TRUE)
  /\ valuesPerRead' = v
  /\ UNCHANGED <<pingPong, acquire, mode>>

\* Range, IntegrationTime.
WriteScale ==
  /\ Call(<<"scale", "status">>, FALSE)
  /\ UNCHANGED <<pingPong, valuesPerRead, acquire, mode>>

\* The base class's reset, with the functions that NSLS_EM has.
WriteReset ==
  /\ Call(<<"scale", "values", "mode", "scale", "status", "resume", "status">>, TRUE)
  /\ UNCHANGED <<pingPong, valuesPerRead, acquire, mode>>

Client ==
  \/ \E v \in {0, 1} : WriteAcquire(v)
  \/ \E m \in Modes : WriteAcquireMode(m)
  \/ \E p \in PingPongs : WritePingPong(p)
  \/ \E v \in ValuesPerReads : WriteValuesPerRead(v)
  \/ WriteScale
  \/ WriteReset

-----------------------------------------------------------------------------
(* callbackTask.                                                           *)

\* A message that does not end an acquisition.
TaskDelivers ==
  /\ task = "idle" /\ queued > 0 /\ LockFree
  /\ ~(mode = "Single" /\ numAcquired = 0)
  /\ queued' = queued - 1
  /\ numAcquired' = 1
  /\ UNCHANGED <<driver, settings, acquire, mode, reading, port, task, module, faults,
                 history>>

\* The one message of a Single acquisition: setAcquire(0), up to the wait.
TaskStops ==
  /\ task = "idle" /\ queued > 0 /\ LockFree
  /\ mode = "Single" /\ numAcquired = 0
  /\ queued' = queued - 1
  /\ numAcquired' = 1
  /\ acquiring' = 0
  /\ disturbed' = (disturbed \/ waiting)
  /\ \/ readingActive = 0 /\ SetMode(0) /\ acquire' = 0 /\ UNCHANGED task
     \/ /\ readingActive = 1
        /\ task' = "stop"
        /\ UNCHANGED <<acquire, settings, module, faults, heard>>
  /\ UNCHANGED <<readingActive, event, mode, reading, port, wrong>>

TaskStopped ==
  /\ task = "stop" /\ LockFree
  /\ readingActive = 0
  /\ SetMode(acquiring)
  /\ acquire' = 0
  /\ task' = "idle"
  /\ UNCHANGED <<driver, mode, numAcquired, queued, reading, port, disturbed, wrong>>

Task == TaskDelivers \/ TaskStops \/ TaskStopped

-----------------------------------------------------------------------------
\* The module has been found and its settings written once.
Init ==
  /\ acquiring = 0 /\ readingActive = 0 /\ event = FALSE
  /\ pingPong = Both /\ valuesPerRead = 1 /\ scaledFor = 1 /\ doubled = FALSE
  /\ acquire = 0 /\ mode \in Modes /\ numAcquired = 0 /\ queued = 0
  /\ reader = "asleep" /\ filter = Both /\ phase = Unset
  /\ todo = <<>> /\ waiting = FALSE /\ task = "idle"
  /\ running = FALSE /\ phased = FALSE /\ averaged = 1 /\ faults = 0
  /\ heard = TRUE /\ disturbed = FALSE /\ wrong = FALSE

Next == Reader \/ Port \/ Client \/ Task

Spec == Init /\ [][Next]_vars

\* The threads run, a read ends by its timeout, a poll sees what stays as it is.
Fairness ==
  /\ WF_vars(ReaderWakes) /\ WF_vars(ReaderStarts)
  /\ WF_vars(ReaderReads \/ ReaderReadsNothing)
  /\ WF_vars(Port)
  /\ WF_vars(Task)

FairSpec == Spec /\ Fairness

-----------------------------------------------------------------------------
(* Properties.                                                             *)

TypeOK ==
  /\ acquiring \in {0, 1} /\ readingActive \in {0, 1} /\ event \in BOOLEAN
  /\ readingActive = 1 <=> reader = "reading"
  /\ pingPong \in PingPongs /\ filter \in PingPongs
  /\ valuesPerRead \in ValuesPerReads /\ scaledFor \in ValuesPerReads
  /\ averaged \in ValuesPerReads /\ doubled \in BOOLEAN
  /\ acquire \in {0, 1} /\ mode \in Modes /\ numAcquired \in {0, 1}
  /\ queued \in 0..MaxQueued
  /\ reader \in {"asleep", "woken", "reading"} /\ phase \in {0, 1, Unset}
  /\ todo \in Seq(Ops) /\ waiting \in BOOLEAN /\ (waiting => todo # <<>>)
  /\ task \in {"idle", "stop"}
  /\ running \in BOOLEAN /\ phased \in BOOLEAN /\ faults \in 0..MaxFaults
  /\ heard \in BOOLEAN /\ disturbed \in BOOLEAN /\ wrong \in BOOLEAN

AtRest == todo = <<>> /\ task = "idle"

\* Every reading used is of the phase that PingPong names, although the read thread
\* looks at PingPong only when it starts and setMode may change it: unless a
\* command fails, or a setting is changed under the read thread.  Not even a stop
\* that overtakes its start, whose event then stays behind, makes it wrong.
PhaseIsTrue == ~wrong

\* Between calls the scale factor divides by the number of values that the module
\* averages and ValuesPerRead shows, and SampleTime fits PingPong: in whichever
\* order they are written, since each may change another.
ScaleIsTrue ==
  (todo = <<>> /\ faults = 0) =>
     /\ scaledFor = averaged /\ valuesPerRead = averaged
     /\ doubled = (pingPong # Both) /\ phased = doubled
     /\ doubled => averaged = 1

\* Between calls the driver acquires, and the module sends, just when Acquire says
\* so, and the read thread reads or is about to.
AcquireIsTrue ==
  (AtRest /\ faults = 0 /\ ~disturbed) =>
     /\ acquire = acquiring
     /\ running <=> acquire = 1
     /\ acquire = 1 => reader # "asleep" \/ event

\* Whatever fails and whoever meets, a module that heard setMode last does not send
\* with the read thread asleep for good.
SendsToNobody == (AtRest /\ heard /\ running) => reader # "asleep" \/ event

\* A write ends, whatever fails and whoever meets: an event left behind wakes the
\* read thread for one read only.
CallsReturn == todo # <<>> ~> todo = <<>>

\* callbackTask comes out of setAcquire(0), unless a client meets it there and
\* starts a new acquisition.
TaskReturns == task = "stop" ~> (task = "idle" \/ disturbed)

\* Nobody waits for the read thread for ever: neither the writes of clients nor the
\* stop of callbackTask, whose waits cross.
WaitsEnd == CallsReturn /\ TaskReturns
=============================================================================
