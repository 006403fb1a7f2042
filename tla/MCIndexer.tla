----------------------------- MODULE MCIndexer -----------------------------
(* Indexer with one miner, whose blocks alternate with empty transactions, *)
(* and pages of two signatures.                                           *)
EXTENDS Indexer

CONSTANTS m1, none

MCMiners == {m1}
MCCrashes == {"crash"}
=============================================================================
