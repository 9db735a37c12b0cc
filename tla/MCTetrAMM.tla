----------------------------- MODULE MCTetrAMM ------------------------------
(* TetrAMM on a small instance: the acquire modes in use.                  *)
EXTENDS TetrAMM

MCBoth == {"Continuous", "Multiple"}
=============================================================================
