------------------------------ MODULE MCNSLS2 -------------------------------
(* NSLS2 on a small instance: voltages at the edges of a word.             *)
EXTENDS NSLS2

MCVoltages == {-1, 4096}
=============================================================================
