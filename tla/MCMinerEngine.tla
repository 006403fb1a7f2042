---------------------------- MODULE MCMinerEngine ----------------------------
(* MinerEngine with a small pool of solver slots. *)
EXTENDS MinerEngine

CONSTANTS k1

=============================================================================
