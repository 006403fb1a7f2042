--------------------------- MODULE MCExplorerViews ---------------------------
(***************************************************************************)
(* The explorer's views while blocks are mined: a block is mined at the    *)
(* present time, and time passes.  (MCWebsite checks them over every list  *)
(* of blocks.)                                                             *)
(***************************************************************************)
EXTENDS ExplorerViews

CONSTANTS
  Miners,
  MAX_NOW,     \* bound of the model: the last time
  MAX_RECORDS  \* bound of the model: blocks mined

VARIABLES records, now
vars == <<records, now>>

Init == records = <<>> /\ now = 1

MineBlock(miner) ==
  /\ Len(records) < MAX_RECORDS
  /\ records' = <<[winner |-> miner, ts |-> now, height |-> Len(records), reward |-> 1]>> \o records
  /\ UNCHANGED now

Later == now < MAX_NOW /\ now' = now + 1 /\ UNCHANGED records

Next == Later \/ \E miner \in Miners : MineBlock(miner)

Spec == Init /\ [][Next]_vars

-----------------------------------------------------------------------------
\* What lib/rpc.ts says of the series: bucketTimestamps are "Bucket start
\* timestamps" (rpc.ts:715). So a bucket whose minute is over counts the blocks of
\* the minute that starts at its stamp, and no other.
StampsAreStarts ==
  \A i \in 1 .. BUCKET_COUNT :
    Stamp(now, i) + MINUTE <= now =>
      BlocksPerMinute(records, now)[i] =
        Cardinality({k \in DOMAIN records : /\ records[k].ts >= Stamp(now, i)
                                            /\ records[k].ts < Stamp(now, i) + MINUTE})
=============================================================================
