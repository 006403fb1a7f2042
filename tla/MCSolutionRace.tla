--------------------------- MODULE MCSolutionRace ---------------------------
(* SolutionRace with three workers. *)
EXTENDS SolutionRace

CONSTANTS w1, w2, w3

ThreeWorkers == {w1, w2, w3}
=============================================================================
