------------------------------ MODULE T4UDirect ------------------------------
(***************************************************************************)
(* The driver of the T4U that talks to the electrometer itself.  Settings  *)
(* become commands in a ring buffer that writeInt32 and writeFloat64 fill. *)
(* The command thread empties it: it reads the answers byte by byte, and   *)
(* sends the next command after an answer or when it has had none for a    *)
(* while.  Readings and register values come in UDP packets, which the     *)
(* data thread reads; the values of registers it sets without the lock.    *)
(*                                                                         *)
(* The registers and what they stand for are T4URegisters'; what is       *)
(* computed from them here is the range the readings are scaled for, the   *)
(* calibration that goes with it, and what depends on the sampling rate.   *)
(* The T4U and the network are external: a command is answered by a line,  *)
(* which may come in pieces, be it one of the known commands or another    *)
(* text; a "tr" is answered by a packet of registers too; packets get lost *)
(* but keep their order.                                                   *)
(***************************************************************************)
EXTENDS T4URegisters, FiniteSets, SequencesExt

CONSTANTS
  Ranges, Rates, \* the registers the T4U may have at first
  QueueLen,    \* T4U_CMD_QUEUE_LEN
  TickLimit, AfterAnswer, AfterRate, \* of cmd_tick_count: 12, 10 and -40
  Slow, SlowRate, \* empty reads an answer takes at most, a change of the rate
  MaxErrors,   \* bound: commands answered by another text
  MaxPackets   \* bound: packets under way

ASSUME DirectAssumption ==
  /\ \A s \in Scenarios :
       /\ \A w \in s.settings : w[1] \in Settings /\ w[2] \in Int
       /\ s.emits \subseteq {"readings", "bad"}
  /\ Scenarios # {} /\ Ranges \subseteq 0..2 /\ Rates \subseteq Nat \ {0}
  /\ QueueLen \in Nat \ {0}
  /\ TickLimit \in Nat /\ AfterAnswer \in Nat /\ AfterRate \in Int
  /\ {Slow, SlowRate, MaxWrites, MaxErrors, MaxPackets} \subseteq Nat

\* parseConfigFile: the names of the calibrations of continuous wave and of pulsed
\* mode, the second, if the file has none, that of the first; the driver ends when
\* one is missing or incomplete.
Loaded(file) ==
  LET pulsed == IF file.pulsed = "" THEN file.selected ELSE file.pulsed
  IN IF {file.selected, pulsed} \subseteq file.complete THEN <<file.selected, pulsed>> ELSE <<>>

\* The parts of the registers that are read at a time.
Parts == <<0..49, 50..99, 100..107>>

VARIABLES
  calSet,       \* the calibration fullSlope_ and fullOffset_ hold
  cmd_queue,    \* the ring buffer of commands
  \* the command thread
  parse,        \* "ticking", or waiting for the "first" byte, the "second", the "rest"
  name,         \* the first byte
  ticks,        \* cmd_tick_count
  \* the wire: commands, what is still to come of the answers, what has come
  toDevice, coming, line,
  due,          \* empty reads before the answer has come
  \* packets that have come, the one taken, the next step with it, and the
  \* averaging time read on the way
  packets, taken, step, readTime,
  \* bounds and history
  errors,
  dropped,      \* commands that found the ring buffer full, by register
  cut,          \* an answer was flushed before its end had come
  wanted,       \* the values that the registers are to take
  synced,       \* the parts the driver knows, with nothing under way to change them
  touched,      \* a setting was written while a packet was applied
  misscaled     \* a reading was computed for another range

params  == <<range, currRange, sampleFreq, rate, averaging, numAverage, other, calSet, cal>>
parser  == <<parse, name, ticks>>
wire    == <<toDevice, coming, line, due>>
data    == <<packets, taken, step, readTime>>
bounds  == <<writes, errors>>
history == <<dropped, cut, wanted, synced, touched, misscaled>>
directVars == <<scenario, params, cmd_queue, parser, wire, regs, data, bounds, history>>

NoPacket == [kind |-> "bad", part |-> 0, regs |-> <<>>]

WrCal(range_, set) == [op |-> "wr", reg |-> 100, cal |-> <<range_, set>>]

-----------------------------------------------------------------------------
(* Settings: writeInt32 and writeFloat64, under the lock.                  *)

\* writeReadMeter: a command that finds the ring buffer full is dropped, and
\* nobody is told.
Push(commands) ==
  LET room == QueueLen - Len(cmd_queue)
      n    == IF Len(commands) <= room THEN Len(commands) ELSE room
  IN /\ cmd_queue' = cmd_queue \o SubSeq(commands, 1, n)
     /\ dropped' = dropped \cup
          {commands[i].reg : i \in {j \in (n + 1)..Len(commands) : commands[j].op # "tr"}}

Writes(p, v) ==
  /\ writes < MaxWrites /\ writes' = writes + 1
  /\ wanted' = [wanted EXCEPT ![p] = v]
  /\ synced' = {} /\ touched' = (step > 0)
  /\ UNCHANGED <<scenario, parser, wire, regs, data, errors, cut, misscaled>>

\* mutant: the calibration goes ahead of the range, whose old one it replaces
WriteRangeLast(v) ==
  /\ Writes("Range", Clip(v))
  /\ range' = Clip(v) /\ currRange' = Clip(v)
  /\ Push(<<WrCal(currRange, calSet), Wr(3, Clip(v))>>)
  /\ UNCHANGED <<sampleFreq, rate, averaging, numAverage, other, calSet, cal>>

\* The range and, channel by channel, its calibration.
WriteRange(v) ==
  /\ Writes("Range", Clip(v))
  /\ range' = Clip(v) /\ currRange' = Clip(v)
  /\ Push(<<Wr(3, Clip(v)), WrCal(Clip(v), calSet)>>)
  /\ UNCHANGED <<sampleFreq, rate, averaging, numAverage, other, calSet, cal>>

\* P_SampleTime stays as it is until the register is read back.
WriteSampleFreq(v) ==
  /\ Writes("SampleFreq", v)
  /\ sampleFreq' = v
  /\ \E commands \in Commands("SampleFreq", v) : Push(commands)
  /\ UNCHANGED <<range, currRange, rate, averaging, numAverage, other, calSet, cal>>

\* A bit or several of a register, the number of reads in a packet, counts of the
\* bias's pulses.
WriteInteger(p, v) ==
  /\ p \in BitParameters \cup NumbersTold \cup {"ReadsPerPacket"}
  /\ Writes(p, v)
  /\ other' = [other EXCEPT ![p] = v]
  /\ \E commands \in Commands(p, v) : Push(commands)
  /\ calSet' = IF p = "WaitStateMode" /\ v \in 0..2
                THEN Loaded(scenario.file)[IF v = 2 THEN 2 ELSE 1] ELSE calSet
  /\ UNCHANGED <<range, currRange, sampleFreq, rate, averaging, numAverage, cal>>

\* The PID's values and the voltages of the bias.
WriteDouble(p, v) ==
  /\ p \in DOMAIN PidRegisters \cup {"BiasNVoltage", "BiasPVoltage"}
  /\ Writes(p, v)
  /\ other' = [other EXCEPT ![p] = v]
  /\ \E commands \in Commands(p, v) : Push(commands)
  /\ UNCHANGED <<range, currRange, sampleFreq, rate, averaging, numAverage, calSet, cal>>

WriteAveragingTime(t) ==
  /\ Writes("AveragingTime", t)
  /\ averaging' = t /\ numAverage' = t * rate
  /\ UNCHANGED <<range, currRange, sampleFreq, rate, other, calSet, cal, cmd_queue, dropped>>

\* Updater: the registers are to be told, in three parts.
WriteUpdate ==
  /\ writes < MaxWrites /\ writes' = writes + 1
  /\ Push(<<Tr(1), Tr(2), Tr(3)>>)
  /\ UNCHANGED <<scenario, params, parser, wire, regs, data, errors, cut, wanted, synced,
                 touched, misscaled>>

Port ==
  \/ \E s \in scenario.settings :
       \/ s[1] = "Range" /\ WriteRange(s[2])
       \/ s[1] = "SampleFreq" /\ WriteSampleFreq(s[2])
       \/ s[1] = "AveragingTime" /\ WriteAveragingTime(s[2])
       \/ WriteInteger(s[1], s[2])
       \/ WriteDouble(s[1], s[2])
  \/ WriteUpdate

-----------------------------------------------------------------------------
(* The command thread.                                                     *)

\* mutant: a change of the rate is given no more time than other commands
TicksAfterAny(command) == 0

SetsRate(command) == command.op = "wr" /\ command.reg = 1

TicksAfter(command) == IF SetsRate(command) THEN AfterRate ELSE 0

\* A command has been executed, and its answer has come, before that many reads
\* have found nothing.
Patience(command) == IF SetsRate(command) THEN SlowRate ELSE Slow

Outstanding == toDevice # <<>> \/ coming # <<>>

\* A read that finds nothing counts twice.  At the limit the next command is sent.
CmdIdles ==
  /\ parse = "ticking" /\ line = <<>>
  /\ Outstanding => due > 0
  /\ LET t == ticks + 2 IN
     \/ /\ t >= TickLimit /\ cmd_queue # <<>>
        /\ toDevice' = Append(toDevice, Head(cmd_queue)) /\ cmd_queue' = Tail(cmd_queue)
        /\ ticks' = TicksAfter(Head(cmd_queue))
        /\ due' = Patience(Head(cmd_queue))
     \/ /\ t < TickLimit \/ cmd_queue = <<>>
        /\ ticks' = IF t < TickLimit THEN t ELSE TickLimit
        /\ due' = IF Outstanding THEN due - 1 ELSE 0
        /\ UNCHANGED <<toDevice, cmd_queue>>
  /\ UNCHANGED <<scenario, params, parse, name, coming, line, regs, data, bounds, history>>

\* mutant: look for the next answer at once
AnsweredFirst == parse' = "first" /\ ticks' = AfterAnswer

\* Look for the next answer, but check the ring buffer first.
Answered == parse' = "ticking" /\ ticks' = AfterAnswer

\* An answer is known by its first two bytes.  White space before them is skipped,
\* but once a byte has come only more of them end the wait.
CmdFirst ==
  /\ parse \in {"ticking", "first"} /\ line # <<>>
  /\ line' = Tail(line)
  /\ IF Head(line) = "end" THEN parse' = "first" /\ UNCHANGED name
                           ELSE parse' = "second" /\ name' = Head(line)
  /\ UNCHANGED <<scenario, params, cmd_queue, ticks, toDevice, coming, due, regs, data, bounds, history>>

\* An unknown answer is flushed, as far as it has come.
CmdSecond ==
  /\ parse = "second" /\ line # <<>>
  /\ IF name = "c1" /\ Head(line) = "c2"
     THEN /\ parse' = "rest" /\ line' = Tail(line)
          /\ UNCHANGED <<ticks, cut>>
     ELSE /\ line' = <<>>
          /\ cut' = (cut \/ (coming # <<>> /\ Head(coming) \notin {"c1", "u1"}))
          /\ Answered
  /\ UNCHANGED <<scenario, params, cmd_queue, name, toDevice, coming, due, regs, data, bounds,
                 dropped, wanted, synced, touched, misscaled>>

CmdRest ==
  /\ parse = "rest" /\ line # <<>>
  /\ line' = Tail(line)
  /\ IF Head(line) = "end" THEN Answered ELSE UNCHANGED <<parse, ticks>>
  /\ UNCHANGED <<scenario, params, cmd_queue, name, toDevice, coming, due, regs, data, bounds, history>>

CmdThread == CmdIdles \/ CmdFirst \/ CmdSecond \/ CmdRest

-----------------------------------------------------------------------------
(* The T4U and the wire.                                                   *)

Execute(command) ==
  IF command.op = "wr" /\ command.reg = 100 THEN [regs EXCEPT !.cal = command.cal]
                                           ELSE Executed(regs, command)

\* A "tr" is answered by a packet, which may get lost.
Executes ==
  /\ toDevice # <<>>
  /\ toDevice' = Tail(toDevice)
  /\ LET command == Head(toDevice) IN
     \/ /\ coming' = coming \o <<"c1", "c2", "end">>
        /\ regs' = Execute(command)
        /\ packets' \in {packets} \cup
             IF command.op = "tr" /\ Len(packets) < MaxPackets
             THEN {Append(packets, [kind |-> "regs", part |-> command.reg, regs |-> regs])} ELSE {}
        /\ UNCHANGED <<errors, dropped>>
     \/ /\ errors < MaxErrors /\ errors' = errors + 1
        /\ coming' = coming \o <<"u1", "u2", "end">>
        /\ dropped' = dropped \cup IF command.op = "tr" THEN {} ELSE {command.reg}
        /\ UNCHANGED <<regs, packets>>
  /\ UNCHANGED <<scenario, params, cmd_queue, parser, line, due, taken, step, readTime, writes,
                 cut, wanted, synced, touched, misscaled>>

Arrives ==
  /\ coming # <<>>
  /\ line' = Append(line, Head(coming)) /\ coming' = Tail(coming)
  /\ UNCHANGED <<scenario, params, cmd_queue, parser, toDevice, due, regs, data, bounds, history>>

\* Readings, and packets with a wrong type or end.
Emits ==
  /\ Len(packets) < MaxPackets
  /\ \E kind \in scenario.emits :
       packets' = Append(packets, IF kind = "bad" THEN NoPacket
                                  ELSE [kind |-> kind, part |-> 0, regs |-> regs])
  /\ UNCHANGED <<scenario, params, cmd_queue, parser, wire, regs, taken, step, readTime, bounds, history>>

-----------------------------------------------------------------------------
(* The data thread.                                                        *)

Waits == step = 0 /\ packets # <<>>

\* A bad packet has all that has come flushed.
DataFlushes ==
  /\ Waits /\ Head(packets).kind = "bad"
  /\ packets' = <<>>
  /\ UNCHANGED <<scenario, params, cmd_queue, parser, wire, regs, taken, step, readTime, bounds, history>>

\* Raw readings are computed, under the lock, for the range the driver knows.
DataReadings ==
  /\ Waits /\ Head(packets).kind = "readings"
  /\ packets' = Tail(packets)
  /\ misscaled' = (misscaled \/ (1 \in synced /\ Head(packets).regs.nums[3] # currRange))
  /\ UNCHANGED <<scenario, params, cmd_queue, parser, wire, regs, taken, step, readTime, bounds,
                 dropped, cut, wanted, synced, touched>>

\* Where the processing of a part begins, and where it ends.
PartBegins == <<1, 5, 6>>
PartEnds   == <<5, 5, 6>>

DataTakes ==
  /\ Waits /\ Head(packets).kind = "regs"
  /\ packets' = Tail(packets) /\ taken' = Head(packets)
  /\ step' = PartBegins[Head(packets).part] /\ touched' = FALSE
  /\ UNCHANGED <<scenario, params, cmd_queue, parser, wire, regs, readTime, bounds, dropped, cut,
                 wanted, synced, misscaled>>

\* mutant: what depends on the rate is left
ApplyRateOnly ==
  \/ /\ step = 1 /\ sampleFreq' = taken.regs.nums[1] /\ rate' = taken.regs.nums[1]
     /\ readTime' = averaging /\ UNCHANGED numAverage
  \/ step = 2 /\ UNCHANGED <<numAverage, sampleFreq, rate, readTime>>

\* processRegVal of the sampling rate: how many readings there are in a batch.
ApplyRate ==
  \/ /\ step = 1 /\ sampleFreq' = taken.regs.nums[1] /\ rate' = taken.regs.nums[1]
     /\ readTime' = averaging /\ UNCHANGED numAverage
  \/ /\ step = 2 /\ numAverage' = readTime * rate
     /\ readTime' = 0 /\ UNCHANGED <<sampleFreq, rate>>

\* processRegVal of the range.
ApplyRange ==
  \/ step = 3 /\ range' = taken.regs.nums[3] /\ UNCHANGED currRange
  \/ step = 4 /\ currRange' = taken.regs.nums[3] /\ UNCHANGED range

\* processRegVal of the registers that no more than a parameter depends on.
ApplyOthers == step = 5 /\ other' = ReadBack(other, taken.regs, Parts[taken.part])

\* Of the calibration.
ApplyCalibration == step = 6 /\ cal' = taken.regs.cal

\* The next step with the registers of a packet.  With the last of them the driver
\* knows what they are, if nothing is under way that changes them or was read
\* of other ones.
DataApplies ==
  /\ step > 0
  /\ \/ ApplyRate /\ UNCHANGED <<range, currRange, other, cal>>
     \/ ApplyRange /\ UNCHANGED <<sampleFreq, rate, numAverage, readTime, other, cal>>
     \/ ApplyOthers /\ UNCHANGED <<range, currRange, sampleFreq, rate, numAverage, readTime, cal>>
     \/ ApplyCalibration
        /\ UNCHANGED <<range, currRange, sampleFreq, rate, numAverage, readTime, other>>
  /\ IF step < PartEnds[taken.part]
     THEN step' = step + 1 /\ UNCHANGED <<taken, touched, synced>>
     ELSE /\ step' = 0 /\ taken' = NoPacket /\ touched' = FALSE
          /\ synced' = IF /\ ~touched /\ taken.regs = regs
                          /\ \A i \in DOMAIN packets : packets[i].kind = "bad" \/ packets[i].regs = regs
                          /\ \A i \in DOMAIN (cmd_queue \o toDevice) : (cmd_queue \o toDevice)[i].op = "tr"
                       THEN synced \cup {taken.part} ELSE synced \ {taken.part}
  /\ UNCHANGED <<scenario, averaging, calSet, cmd_queue, parser, wire, regs, packets, bounds, dropped,
                 cut, wanted, misscaled>>

DataThread == DataFlushes \/ DataReadings \/ DataTakes \/ DataApplies

-----------------------------------------------------------------------------
\* The parameters there are: those that share a register, and those written.
Others ==
  BitParameters \cup ({s[1] : s \in scenario.settings} \ {"Range", "SampleFreq", "AveragingTime"})

\* The T4U may have any range and rate when the driver starts, and some bits set.
DirectInit ==
  /\ scenario \in Scenarios /\ Loaded(scenario.file) # <<>>
  /\ range = 2 /\ currRange = 2
  /\ sampleFreq = 0 /\ rate = 1 /\ averaging = 0 /\ numAverage = 0
  /\ other = [p \in Others |-> 0]
  /\ calSet = Loaded(scenario.file)[1] /\ cal = <<-1, calSet>>
  /\ cmd_queue = <<>>
  /\ parse = "ticking" /\ name = "c1" /\ ticks = 0
  /\ toDevice = <<>> /\ coming = <<>> /\ line = <<>> /\ due = 0
  /\ \E r \in Ranges, f \in Rates :
       /\ regs = [bits |-> [reg \in {0, 19, 93} |-> IF reg = 0 THEN {10} ELSE IF reg = 19 THEN {0, 4} ELSE {}],
                  nums |-> [reg \in {1, 3} \cup {RegisterOf(p) : p \in Others \ BitParameters} |->
                              IF reg = 1 THEN f ELSE IF reg = 3 THEN r ELSE 0],
                  cal |-> <<r, calSet>>]
       /\ wanted = [p \in Others \cup {"Range", "SampleFreq", "AveragingTime"} |->
                      IF p = "Range" THEN r ELSE IF p = "SampleFreq" THEN f
                      ELSE IF IsTold(p) THEN Told(regs, p) ELSE 0]
  /\ packets = <<>> /\ taken = NoPacket /\ step = 0 /\ readTime = 0
  /\ writes = 0 /\ errors = 0
  /\ dropped = {} /\ cut = FALSE /\ synced = {} /\ touched = FALSE /\ misscaled = FALSE

DirectNext == Port \/ CmdThread \/ Executes \/ Arrives \/ Emits \/ DataThread

DirectSpec == DirectInit /\ [][DirectNext]_directVars

\* The threads run; the T4U executes commands and its answers come.
Fairness ==
  /\ WF_directVars(CmdThread) /\ WF_directVars(Executes) /\ WF_directVars(Arrives) /\ WF_directVars(DataThread)

FairSpec == DirectSpec /\ Fairness

-----------------------------------------------------------------------------
(* Properties.                                                             *)

DirectTypeOK ==
  /\ range \in 0..2 /\ currRange \in 0..2
  /\ rate \in Nat \ {0} /\ {sampleFreq, averaging, numAverage} \subseteq Nat
  /\ DOMAIN other = Others /\ calSet \in ToSet(Loaded(scenario.file))
  /\ Len(cmd_queue) <= QueueLen
  /\ parse \in {"ticking", "first", "second", "rest"}
  /\ ticks \in AfterRate..TickLimit \cup {AfterAnswer}
  /\ ToSet(line \o coming) \subseteq {"c1", "c2", "u1", "u2", "end"}
  /\ step \in 0..6 /\ synced \subseteq 1..3
  /\ {cut, touched, misscaled} \subseteq BOOLEAN

\* If the T4U is as fast as the waits assume, a command is sent only when the one
\* before it has been executed, though the thread never relates an answer to a
\* command.
OneAtATime == Len(toDevice) <= 1

Quiet == cmd_queue = <<>> /\ toDevice = <<>>

\* When all commands have been executed, each register has the values last written to
\* its parameters, to the nearest, unless a command to it was dropped: settings in one
\* register do not disturb each other, and the calibration is that of the range.
SettingsTake ==
  Quiet => /\ dropped \cap {3, 100} = {} => regs.cal[1] = regs.nums[3]
           /\ \A p \in DOMAIN wanted \ {"AveragingTime"} :
                RegisterOf(p) \notin dropped => Holds(regs, p, wanted[p])

\* Once a part of the registers, sent when nothing was under way, has been applied with
\* no write meanwhile, the driver's parameters are those of the T4U, and what it
\* computes from them too, whatever was dropped, lost or flushed before, and readings are
\* computed for the range they were made in.
InSync ==
  /\ ~misscaled
  /\ 1 \in synced => /\ range = regs.nums[3] /\ currRange = regs.nums[3]
                      /\ sampleFreq = regs.nums[1] /\ numAverage = averaging * regs.nums[1]
  /\ 3 \in synced => cal = regs.cal
  /\ \A part \in synced, p \in DOMAIN other :
       IsTold(p) /\ RegisterOf(p) \in Parts[part] =>
         IF p \in DOMAIN PidRegisters THEN other[p] = Told(regs, p) ELSE Holds(regs, p, other[p])

\* Commands go out as long as there are any: the command thread does not wait for a
\* byte that never comes, unless a text it does not know was cut in two.
KeepsSending == []<>(cut \/ cmd_queue = <<>> \/ (parse = "ticking" /\ toDevice # <<>>))

\* The comment of WaitStateMode: "Set calibration values to Pulsed".
CalibrationIsOfMode ==
  Quiet /\ dropped = {} /\ writes > 0 => regs.cal[2] = calSet
=============================================================================
