---------------------------- MODULE T4URegisters ----------------------------
(***************************************************************************)
(* The settings of the T4U and the registers they stand for, as both of    *)
(* its drivers have them: the commands a setting becomes, and the value    *)
(* that a register read back gives a parameter.                            *)
(*                                                                         *)
(* A register file has registers of bits, which "bs" and "bc" set and      *)
(* clear, and registers of numbers, which "wr" writes; the calibration,    *)
(* registers 100 to 107, counts as one.  Parameters of PID registers are   *)
(* in thousandths.                                                         *)
(***************************************************************************)
EXTENDS Integers, Sequences

CONSTANTS
  Word,       \* the values of a register when it is read back: 2^32
  Scenarios,  \* what clients may write, and what else may happen
  MaxWrites   \* bound: settings written

VARIABLES
  scenario,
  range,       \* P_Range
  currRange,   \* currRange_
  sampleFreq,  \* P_SampleFreq
  rate,        \* 1 / P_SampleTime
  averaging,   \* P_AveragingTime
  numAverage,  \* P_NumAverage
  other,       \* the other parameters: of a bit, of several, of a number, of the PID
  cal,         \* calSlope_ and calOffset_: of which range, and set of the file
  regs,        \* the T4U's registers
  writes       \* settings written

\* Parameters that are a bit of a register.
Switches ==
  [BiasN |-> <<0, 9>>, BiasP |-> <<0, 10>>, PulseBias |-> <<0, 18>>,
   PIDHystEn |-> <<19, 0>>, PIDCuEn |-> <<19, 1>>, PIDEn |-> <<19, 2>>,
   PIDCtrlPol |-> <<19, 6>>, PIDCtrlEx |-> <<19, 7>>]

\* Parameters that are several: the register, the lowest bit, their number.
Fields == [DACMode |-> <<93, 0, 3>>, PosTrackMode |-> <<19, 3, 2>>]

\* Parameters that are the number in a register; of those, the ones read back.
Numbers ==
  [SampleFreq |-> 1, Range |-> 3, BiasPVoltage |-> 4, BiasNVoltage |-> 5,
   PulseBiasOff |-> 22, PulseBiasOn |-> 23, ReadsPerPacket |-> 24]

NumbersTold == {"PulseBiasOff", "PulseBiasOn"}

Pid(reg, lo, hi, first, last) ==
  [reg |-> reg, lo |-> lo, hi |-> hi, first |-> first, last |-> last]

\* Parameters from lo to hi that a register has from first to last.
PidRegisters ==
  [PIDXSp        |-> Pid(50, -1000,  1000, -10000,  10000),
   PIDXKp        |-> Pid(51,     0,  1000,      0,  10000),
   PIDXKi        |-> Pid(52,     0,  1000,      0,  10000),
   PIDXKd        |-> Pid(53,     0,  1000,      0,  10000),
   PIDX_Scale    |-> Pid(54,     0,  1000,      0,      1),
   PIDX_VScale   |-> Pid(56, -5000,  5000, -50000,  50000),
   PIDX_VOffset  |-> Pid(57,     0, 10000,      0, 100000),
   PIDYSp        |-> Pid(60, -1000,  1000, -10000,  10000),
   PIDYKp        |-> Pid(61,     0,  1000,      0,  10000),
   PIDYKi        |-> Pid(62,     0,  1000,      0,  10000),
   PIDYKd        |-> Pid(63,     0,  1000,      0,  10000),
   PIDY_Scale    |-> Pid(64,     0,  1000,      0,      1),
   PIDY_VScale   |-> Pid(66, -5000,  5000, -50000,  50000),
   PIDY_VOffset  |-> Pid(67,     0, 10000,      0, 100000),
   PIDCutout     |-> Pid(90,     0,  1000,      0,   1000),
   PIDHyst       |-> Pid(91,     0,  1000,      0,   1000),
   DACItoV       |-> Pid(92,     0,  1000,      0,      1),
   DACItoVOffset |-> Pid(76,     0, 10000,      0, 100000),
   PosTrackRad   |-> Pid(20, -1000,  1000, -10000,  10000)]

RegisterOf(p) ==
  CASE p \in DOMAIN Switches -> Switches[p][1]
    [] p \in DOMAIN Fields -> Fields[p][1]
    [] p \in DOMAIN Numbers -> Numbers[p]
    [] p \in DOMAIN PidRegisters -> PidRegisters[p].reg
    [] p = "WaitStateMode" -> 0

BitParameters == DOMAIN Switches \cup DOMAIN Fields \cup {"WaitStateMode"}

\* Parameters that clients may write.
Settings == BitParameters \cup DOMAIN Numbers \cup DOMAIN PidRegisters \cup {"AveragingTime"}

-----------------------------------------------------------------------------
(* From a setting to commands.                                             *)

\* The range, when it is written.
Clip(v) == IF v < 0 THEN 0 ELSE IF v > 2 THEN 2 ELSE v

Wr(reg, num)  == [op |-> "wr", reg |-> reg, num |-> num]
Bs(reg, bits) == [op |-> "bs", reg |-> reg, bits |-> bits]
Bc(reg, bits) == [op |-> "bc", reg |-> reg, bits |-> bits]
Tr(reg)       == [op |-> "tr", reg |-> reg]

\* The fields have three bits at most.
Powers == <<1, 2, 4, 8>>

Bits(v, low, width) ==
  {low + i : i \in {j \in 0..(width - 1) : (v \div Powers[j + 1]) % 2 = 1}}

WaitStateBits == 12..14

\* None, inhibit, trigger.
WaitStates == <<{}, {12, 13}, {12, 14}>>

\* A parameter in parts of its range, and those in its register: both the products
\* of the two ranges.
Exact(pid, v) == (v - pid.lo) * (pid.last - pid.first) + pid.first * (pid.hi - pid.lo)

\* scaleParamToReg, without clipping, and the conversion to int, which truncates:
\* the last bit of a double may cost one more.
Scaled(pid, v) ==
  LET size == pid.hi - pid.lo
      n    == Exact(pid, v)
      down == IF n < 0 THEN -((-n) \div size) ELSE n \div size
  IN {down} \cup IF n % size = 0 /\ n # 0 THEN {IF n < 0 THEN down + 1 ELSE down - 1} ELSE {}

\* The commands a setting may become; a setting of several bits clears them first.
\* A wait state that is none of the three is no more than cleared.
Commands(p, v) ==
  CASE p \in DOMAIN Switches ->
         {<<IF v # 0 THEN Bs(Switches[p][1], {Switches[p][2]}) ELSE Bc(Switches[p][1], {Switches[p][2]})>>}
    [] p \in DOMAIN Fields ->
         LET f == Fields[p] IN {<<Bc(f[1], Bits(-1, f[2], f[3])), Bs(f[1], Bits(v, f[2], f[3]))>>}
    [] p = "WaitStateMode" ->
         {<<Bc(0, WaitStateBits)>> \o IF v \in {1, 2} THEN <<Bs(0, WaitStates[v + 1])>> ELSE <<>>}
    [] p \in DOMAIN Numbers -> {<<Wr(Numbers[p], v)>>}
    [] p \in DOMAIN PidRegisters -> {<<Wr(PidRegisters[p].reg, n)>> : n \in Scaled(PidRegisters[p], v)}

-----------------------------------------------------------------------------
(* The registers of the T4U.                                               *)

\* What a command does to a register file.
Executed(file, command) ==
  CASE command.op = "wr" -> [file EXCEPT !.nums[command.reg] = command.num]
    [] command.op = "bs" -> [file EXCEPT !.bits[command.reg] = @ \cup command.bits]
    [] command.op = "bc" -> [file EXCEPT !.bits[command.reg] = @ \ command.bits]
    [] OTHER -> file

\* The register of a parameter has the value v, as near as it can.
Holds(file, p, v) ==
  CASE p \in DOMAIN Switches -> (Switches[p][2] \in file.bits[Switches[p][1]]) = (v # 0)
    [] p \in DOMAIN Fields ->
         LET f == Fields[p] IN
         file.bits[f[1]] \cap (f[2]..(f[2] + f[3] - 1)) = Bits(v, f[2], f[3])
    [] p = "WaitStateMode" ->
         file.bits[0] \cap WaitStateBits = IF v \in {1, 2} THEN WaitStates[v + 1] ELSE {}
    [] p \in DOMAIN Numbers -> file.nums[Numbers[p]] = v
    [] p \in DOMAIN PidRegisters ->
         LET pid == PidRegisters[p]
             off == Exact(pid, v) - file.nums[pid.reg] * (pid.hi - pid.lo)
         IN off \in -(pid.hi - pid.lo)..(pid.hi - pid.lo)

-----------------------------------------------------------------------------
(* From registers to parameters: processRegVal.                            *)

\* A register is read as an unsigned number.
Unsigned(n) == IF n < 0 THEN n + Word ELSE n

Told(file, p) ==
  CASE p \in DOMAIN Switches -> IF Switches[p][2] \in file.bits[Switches[p][1]] THEN 1 ELSE 0
    [] p \in DOMAIN Fields ->
         LET f == Fields[p] IN
         CHOOSE v \in 0..(Powers[f[3] + 1] - 1) :
           Bits(v, f[2], f[3]) = file.bits[f[1]] \cap (f[2]..(f[2] + f[3] - 1))
    [] p \in NumbersTold -> file.nums[Numbers[p]]
    [] p \in DOMAIN PidRegisters ->
         LET pid == PidRegisters[p] IN
         ((Unsigned(file.nums[pid.reg]) - pid.first) * (pid.hi - pid.lo)) \div (pid.last - pid.first) + pid.lo

IsTold(p) == p \in DOMAIN Switches \cup DOMAIN Fields \cup NumbersTold \cup DOMAIN PidRegisters

\* The parameters after the registers of a packet; the wait state, the voltages and
\* the length of packets are not among those read back.
ReadBack(params, file, registers) ==
  [p \in DOMAIN params |->
     IF IsTold(p) /\ RegisterOf(p) \in registers THEN Told(file, p) ELSE params[p]]
=============================================================================
