--------------------------------- MODULE T4U ---------------------------------
(***************************************************************************)
(* The driver of the T4U behind its Qt layer.  Settings are written to the *)
(* command socket at once, by the thread that holds the driver's lock.     *)
(* One thread reads the replies on that socket: lines, and the binary      *)
(* answers to "tr" whose registers it applies under the lock.  Another     *)
(* reads the data socket: a reading as text, or several in a binary block. *)
(* Both know where a message begins only by its first bytes; when one is   *)
(* not as expected, or a part does not come in time, they flush what has   *)
(* come and start anew.                                                    *)
(*                                                                         *)
(* The registers and what they stand for are T4URegisters'.  The Qt layer  *)
(* tells registers when it is asked, and of its own accord: the driver     *)
(* asks for the calibration only, and takes any that come.                 *)
(*                                                                         *)
(* A message is a sequence of parts, each with the message's number; bytes *)
(* come part by part, and more than one may have come when a thread looks. *)
(* The Qt layer is external.                                               *)
(***************************************************************************)
EXTENDS T4URegisters, FiniteSets, SequencesExt

CONSTANTS
  MaxTold,      \* bound: registers told of the Qt layer's own accord
  MaxFaults     \* bound: late parts, unknown texts, and writes that fail

ASSUME QtAssumption ==
  /\ Scenarios # {}
  /\ \A s \in Scenarios : \A w \in s.settings : w[1] \in Settings /\ w[2] \in Int
  /\ {MaxWrites, MaxTold, MaxFaults} \subseteq Nat

VARIABLES
  toQt,         \* commands on the socket
  replies, replyLine, \* parts of replies, still to come, and come
  cmd,          \* the command thread: in a "name", "line", "length", "payload"
  readings, dataLine, \* parts of data messages, still to come, and come
  dat,          \* the data thread: in a "header", "text", "block", "payload"
  \* bounds and history
  announced, replied, sent, faults,
  applied,      \* the number of the last reply to "tr" applied
  computed,     \* the number of the last data message computed
  unmade,       \* something was applied or computed that nobody sent
  missed,       \* a message was not
  known         \* what was written, or told, last of all

qtParams  == <<range, currRange, sampleFreq, rate, averaging, numAverage, other, cal>>
port    == <<qtParams, toQt>>
replyIn == <<replies, replyLine, cmd>>
dataIn  == <<readings, dataLine, dat>>
qtBounds  == <<writes, announced, replied, sent, faults>>
qtHistory == <<applied, computed, unmade, missed, known>>
qtVars    == <<scenario, port, regs, replyIn, dataIn, qtBounds, qtHistory>>

PartsOf(kinds, n, val) == [i \in DOMAIN kinds |-> [part |-> kinds[i], of |-> n, val |-> val]]

Fault == faults < MaxFaults /\ faults' = faults + 1

-----------------------------------------------------------------------------
(* Settings.                                                               *)

\* writeReadMeter, once for each command; whether a write has failed is not asked.
Written(commands) ==
  \/ toQt' = toQt \o commands /\ UNCHANGED faults
  \/ \E i \in DOMAIN commands : toQt' = toQt \o RemoveAt(commands, i) /\ Fault

Asks == Tr(100)

SetsParam(p) ==
  /\ writes < MaxWrites /\ writes' = writes + 1
  /\ known' = (known \cup {p}) \ (IF p = "Range" THEN {"Calibration"}
                                  ELSE IF p = "SampleFreq" THEN {"Rate"} ELSE {})
  /\ UNCHANGED <<scenario, regs, replyIn, dataIn, announced, replied, sent, applied, computed,
                 unmade, missed>>

SetRange(v) ==
  /\ SetsParam("Range")
  /\ range' = Clip(v) /\ currRange' = Clip(v)
  /\ Written(<<Wr(3, Clip(v))>>)
  /\ UNCHANGED <<sampleFreq, rate, averaging, numAverage, other, cal>>

\* P_SampleTime stays as it is.
SetSampleFreq(v) ==
  /\ SetsParam("SampleFreq")
  /\ sampleFreq' = v
  /\ Written(<<Wr(1, v)>>)
  /\ UNCHANGED <<range, currRange, rate, averaging, numAverage, other, cal>>

\* A bit or several of a register, counts of the bias's pulses.
SetInteger(p, v) ==
  /\ p \in DOMAIN Switches \cup DOMAIN Fields \cup NumbersTold
  /\ SetsParam(p)
  /\ other' = [other EXCEPT ![p] = v]
  /\ \E commands \in Commands(p, v) : Written(commands)
  /\ UNCHANGED <<range, currRange, sampleFreq, rate, averaging, numAverage, cal>>

\* The PID's values and the voltages of the bias.
SetDouble(p, v) ==
  /\ p \in DOMAIN PidRegisters \cup {"BiasNVoltage", "BiasPVoltage"}
  /\ SetsParam(p)
  /\ other' = [other EXCEPT ![p] = v]
  /\ \E commands \in Commands(p, v) : Written(commands)
  /\ UNCHANGED <<range, currRange, sampleFreq, rate, averaging, numAverage, cal>>

SetAveragingTime(t) ==
  /\ SetsParam("AveragingTime")
  /\ averaging' = t /\ numAverage' = t * rate
  /\ UNCHANGED <<range, currRange, sampleFreq, rate, other, cal, toQt, faults>>

\* Updater: the calibration is to be told.
SetUpdate ==
  /\ writes < MaxWrites /\ writes' = writes + 1
  /\ Written(<<Asks>>)
  /\ UNCHANGED <<scenario, qtParams, regs, replyIn, dataIn, announced, replied, sent, qtHistory>>

QtPort ==
  \/ \E s \in scenario.settings :
       \/ s[1] = "Range" /\ SetRange(s[2])
       \/ s[1] = "SampleFreq" /\ SetSampleFreq(s[2])
       \/ s[1] = "AveragingTime" /\ SetAveragingTime(s[2])
       \/ SetInteger(s[1], s[2])
       \/ SetDouble(s[1], s[2])
  \/ SetUpdate

-----------------------------------------------------------------------------
(* The Qt layer.                                                           *)

Tell(n, numbers) ==
  replies' = replies \o PartsOf(<<"tr", "length", "payload">>, n, [regs |-> regs, numbers |-> numbers])

\* A reply to "tr" is binary; to other commands a line, which may be of a text
\* that is not known.  The calibration goes with the range.
Replies ==
  /\ toQt # <<>> /\ toQt' = Tail(toQt)
  /\ replied' = replied + 1
  /\ LET n == replied + 1
         command == Head(toQt)
     IN
     IF command.op = "tr"
     THEN Tell(n, 100..107) /\ UNCHANGED <<regs, faults>>
     ELSE /\ regs' = IF command.reg = 3 THEN [Executed(regs, command) EXCEPT !.cal = command.num]
                                        ELSE Executed(regs, command)
          /\ \/ replies' = replies \o PartsOf(<<"wr", "end">>, n, {}) /\ UNCHANGED faults
             \/ replies' = replies \o PartsOf(<<"other", "end">>, n, {}) /\ Fault
  /\ UNCHANGED <<scenario, qtParams, replyLine, cmd, dataIn, writes, announced, sent, qtHistory>>

Tells ==
  /\ announced < MaxTold /\ announced' = announced + 1
  /\ replied' = replied + 1
  /\ Tell(replied + 1, 0..107)
  /\ UNCHANGED <<scenario, port, regs, replyLine, cmd, dataIn, writes, sent, faults, qtHistory>>

Sends ==
  /\ sent < scenario.messages /\ sent' = sent + 1
  /\ \E kinds \in {<<"r", "text">>, <<"B", "block", "payload">>} :
       readings' = readings \o PartsOf(kinds, sent + 1, {})
  /\ UNCHANGED <<scenario, port, regs, replyIn, dataLine, dat, writes, announced, replied, faults, qtHistory>>

PartArrives ==
  \/ /\ replies # <<>>
     /\ replyLine' = Append(replyLine, Head(replies)) /\ replies' = Tail(replies)
     /\ UNCHANGED <<scenario, port, regs, cmd, dataIn, qtBounds, qtHistory>>
  \/ /\ readings # <<>>
     /\ dataLine' = Append(dataLine, Head(readings)) /\ readings' = Tail(readings)
     /\ UNCHANGED <<scenario, port, regs, replyIn, dat, qtBounds, qtHistory>>

-----------------------------------------------------------------------------
(* The command thread.                                                     *)

\* Bytes in the midst of a binary answer may be any.
StatesAfter(part) ==
  CASE part = "tr" -> {"length"}
    [] part = "wr" -> {"line"}
    [] part = "payload" -> {"length", "line", "flush"}
    [] part = "end" -> {"name"}
    [] OTHER -> {"flush"}

CmdFlush == replyLine' = <<>> /\ cmd' = "name"

\* parseCmdName, after white space.
CmdName ==
  /\ cmd = "name" /\ replyLine # <<>>
  /\ \E next \in StatesAfter(Head(replyLine).part) :
       IF next = "flush" THEN CmdFlush
       ELSE cmd' = next /\ replyLine' = Tail(replyLine)
  /\ UNCHANGED <<scenario, port, regs, replies, dataIn, qtBounds, qtHistory>>

\* The rest of a line, up to its end.
CmdLine ==
  /\ cmd = "line" /\ replyLine # <<>>
  /\ replyLine' = Tail(replyLine)
  /\ cmd' = IF Head(replyLine).part = "end" THEN "name" ELSE "line"
  /\ UNCHANGED <<scenario, port, regs, replies, dataIn, qtBounds, qtHistory>>

CmdLength ==
  /\ cmd = "length" /\ replyLine # <<>>
  /\ replyLine' = Tail(replyLine) /\ cmd' = "payload"
  /\ UNCHANGED <<scenario, port, regs, replies, dataIn, qtBounds, qtHistory>>

\* mutant: the range of the readings is left
TakeRangeParam(file) == range' = file.nums[3] /\ UNCHANGED currRange

\* processRegVal of the range, and of the sampling rate.
TakeRange(file) == range' = file.nums[3] /\ currRange' = file.nums[3]

TakeRate(file) ==
  /\ sampleFreq' = file.nums[1] /\ rate' = file.nums[1]
  /\ numAverage' = averaging * file.nums[1]

\* processRegVal, of each register told, under the lock.
Apply(file, numbers) ==
  /\ IF 1 \in numbers THEN TakeRate(file) ELSE UNCHANGED <<sampleFreq, rate, numAverage>>
  /\ IF 3 \in numbers THEN TakeRange(file) ELSE UNCHANGED <<range, currRange>>
  /\ other' = ReadBack(other, file, numbers)
  /\ cal' = IF 100 \in numbers THEN file.cal ELSE cal
  /\ UNCHANGED averaging

\* What registers tell: if they are those of the T4U, and nothing is to change them, it
\* is known, and otherwise no more.
Tellable(numbers) ==
  {p \in DOMAIN other : IsTold(p) /\ RegisterOf(p) \in numbers}
    \cup {"Calibration"} \cup (IF 1 \in numbers THEN {"Range", "SampleFreq", "Rate"} ELSE {})

Learns(val) ==
  known' = IF val.regs = regs /\ \A i \in DOMAIN toQt : toQt[i].op = "tr"
           THEN known \cup Tellable(val.numbers) ELSE known \ Tellable(val.numbers)

\* mutant: the payload is left on the socket
CmdPayloadKept ==
  /\ cmd = "payload" /\ replyLine # <<>>
  /\ cmd' = "name"
  /\ IF Head(replyLine).part = "payload"
     THEN /\ Apply(Head(replyLine).val.regs, Head(replyLine).val.numbers)
          /\ Learns(Head(replyLine).val)
          /\ applied' = Head(replyLine).of
          /\ UNCHANGED unmade
     ELSE unmade' = TRUE /\ UNCHANGED <<qtParams, applied, known>>
  /\ UNCHANGED <<scenario, toQt, regs, replyLine, replies, dataIn, qtBounds, computed, missed>>

\* The registers of the payload, or what is taken for them.
CmdPayload ==
  /\ cmd = "payload" /\ replyLine # <<>>
  /\ replyLine' = Tail(replyLine) /\ cmd' = "name"
  /\ IF Head(replyLine).part = "payload"
     THEN /\ Apply(Head(replyLine).val.regs, Head(replyLine).val.numbers)
          /\ Learns(Head(replyLine).val)
          /\ applied' = Head(replyLine).of
          /\ UNCHANGED unmade
     ELSE /\ \E r \in 0..2 : Apply([regs EXCEPT !.nums[3] = r], {3})
          /\ unmade' = TRUE
          /\ UNCHANGED <<applied, known>>
  /\ UNCHANGED <<scenario, toQt, regs, replies, dataIn, qtBounds, computed, missed>>

\* A binary answer does not come in time.
CmdTimeout ==
  /\ cmd \in {"length", "payload"} /\ replyLine = <<>>
  /\ Fault
  /\ CmdFlush
  /\ UNCHANGED <<scenario, port, regs, replies, dataIn, writes, announced, replied, sent, qtHistory>>

CmdReadThread == CmdName \/ CmdLine \/ CmdLength \/ CmdPayload \/ CmdTimeout

-----------------------------------------------------------------------------
(* The data thread.                                                        *)

Headers(part) ==
  CASE part = "r" -> {"text"}
    [] part = "B" -> {"block"}
    [] part = "payload" -> {"text", "block", "flush"}
    [] OTHER -> {"flush"}

DataFlush == dat' = "header" /\ dataLine' = <<>>

DataHeader ==
  /\ dat = "header" /\ dataLine # <<>>
  /\ \E next \in Headers(Head(dataLine).part) :
       IF next = "flush" THEN DataFlush
       ELSE dat' = next /\ dataLine' = Tail(dataLine)
  /\ UNCHANGED <<scenario, port, regs, replyIn, readings, qtBounds, qtHistory>>

\* computePositions, under the lock.
Computes ==
  /\ computed' = Head(dataLine).of
  /\ missed' = (missed \/ Head(dataLine).of # computed + 1)
  /\ UNCHANGED unmade

Fails == DataFlush /\ UNCHANGED <<computed, missed, unmade>>

\* A line of four values, or it is flushed.
DataText ==
  /\ dat = "text" /\ dataLine # <<>>
  /\ IF Head(dataLine).part = "text"
     THEN Computes /\ dat' = "header" /\ dataLine' = Tail(dataLine)
     ELSE Fails
  /\ UNCHANGED <<scenario, port, regs, replyIn, readings, qtBounds, applied, known>>

\* The rest of a block's header.
DataBlock ==
  /\ dat = "block" /\ dataLine # <<>>
  /\ IF Head(dataLine).part = "block"
     THEN dat' = "payload" /\ dataLine' = Tail(dataLine)
     ELSE DataFlush
  /\ UNCHANGED <<scenario, port, regs, replyIn, readings, qtBounds, qtHistory>>

DataPayload ==
  /\ dat = "payload" /\ dataLine # <<>>
  /\ dat' = "header" /\ dataLine' = Tail(dataLine)
  /\ IF Head(dataLine).part = "payload" THEN Computes
                                        ELSE unmade' = TRUE /\ UNCHANGED <<computed, missed>>
  /\ UNCHANGED <<scenario, port, regs, replyIn, readings, qtBounds, applied, known>>

DataTimeout ==
  /\ dat # "header" /\ dataLine = <<>>
  /\ Fault
  /\ DataFlush
  /\ UNCHANGED <<scenario, port, regs, replyIn, readings, writes, announced, replied, sent, qtHistory>>

DataReadThread == DataHeader \/ DataText \/ DataBlock \/ DataPayload \/ DataTimeout

-----------------------------------------------------------------------------
\* The parameters there are: those that share a register, and those written.
QtOthers ==
  DOMAIN Switches \cup DOMAIN Fields \cup
    ({s[1] : s \in scenario.settings} \ {"Range", "SampleFreq", "AveragingTime"})

\* The T4U may have any range when the driver starts, and some bits set.
QtInit ==
  /\ scenario \in Scenarios
  /\ range = 0 /\ currRange = 0 /\ sampleFreq = 0 /\ rate = 10 /\ averaging = 0 /\ numAverage = 0
  /\ other = [p \in QtOthers |-> 0] /\ cal = -1
  /\ toQt = <<>>
  /\ \E r \in {0, 1} :
       regs = [bits |-> [reg \in {0, 19, 93} |-> IF reg = 19 THEN {0, 4} ELSE {}],
               nums |-> [reg \in {1, 3} \cup {RegisterOf(p) : p \in QtOthers \ BitParameters} |->
                           IF reg = 3 THEN r ELSE 1],
               cal |-> r]
  /\ replies = <<>> /\ replyLine = <<>> /\ cmd = "name"
  /\ readings = <<>> /\ dataLine = <<>> /\ dat = "header"
  /\ writes = 0 /\ announced = 0 /\ replied = 0 /\ sent = 0 /\ faults = 0
  /\ applied = 0 /\ computed = 0 /\ unmade = FALSE /\ missed = FALSE /\ known = {}

QtNext == QtPort \/ Replies \/ Tells \/ Sends \/ PartArrives \/ CmdReadThread \/ DataReadThread

QtSpec == QtInit /\ [][QtNext]_qtVars

-----------------------------------------------------------------------------
(* Properties.                                                             *)

QtTypeOK ==
  /\ range \in 0..2 /\ currRange \in 0..2 /\ cal \in -1..2
  /\ {sampleFreq, rate, averaging, numAverage} \subseteq Nat
  /\ DOMAIN other = QtOthers
  /\ cmd \in {"name", "line", "length", "payload"}
  /\ dat \in {"header", "text", "block", "payload"}
  /\ \A i \in DOMAIN toQt : toQt[i].op \in {"wr", "bs", "bc", "tr"}
  /\ writes \in 0..MaxWrites /\ announced \in 0..MaxTold /\ applied \in 0..replied
  /\ sent \in 0..scenario.messages /\ computed \in 0..sent /\ faults \in 0..MaxFaults
  /\ unmade \in BOOLEAN /\ missed \in BOOLEAN

\* However the bytes of the replies and readings are cut, if all of a message come in
\* time and every text is known, what is applied or computed was sent as it is, and no
\* reading is passed over, nor computed twice.
MessagesAreTaken == faults = 0 => ~unmade /\ ~missed

AtRest == toQt = <<>> /\ replies = <<>> /\ replyLine = <<>> /\ cmd = "name"

\* When all has been executed, answered and read, what was written last, or told with
\* nothing to change it under way, is so in the T4U and in the driver, with what the
\* driver computes from it.
KnownIsSo ==
  AtRest /\ faults = 0 =>
    /\ "Range" \in known => range = regs.nums[3] /\ currRange = regs.nums[3]
    /\ "SampleFreq" \in known => sampleFreq = regs.nums[1]
    /\ "Rate" \in known => numAverage = averaging * regs.nums[1]
    /\ "Calibration" \in known => cal = regs.cal
    /\ \A p \in DOMAIN other \cap known :
         \/ p \in DOMAIN PidRegisters /\ other[p] = Told(regs, p)
         \/ Holds(regs, p, other[p])
=============================================================================
