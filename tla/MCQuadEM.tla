------------------------------ MODULE MCQuadEM ------------------------------
(* QuadEM on a small instance: values for the constants.                   *)
EXTENDS QuadEM

\* What an uninitialised int may hold: zero, a negative, a plausible count.
MCGarbage == {-1, 0, 2}

\* A setting may give any of the values NumAverage can take.
MCRegroupings == NumAverages
=============================================================================
