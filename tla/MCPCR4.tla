------------------------------- MODULE MCPCR4 -------------------------------
(* PCR4 on a small instance: acquire modes in use.                         *)
EXTENDS PCR4

MCModes == {"Continuous", "Multiple"}
=============================================================================
