----------------------------- MODULE MCNSLS_EM ------------------------------
(* NSLS_EM on a small instance: acquire modes and phases in use.           *)
EXTENDS NSLS_EM

MCModes == {"Continuous", "Single"}
MCPingPongs == {0, Both}
=============================================================================
