------------------------------ MODULE GpuWagner ------------------------------
(***************************************************************************)
(* One nonce on the GPU: WebGPUWagner.runNonce (lib/webgpu-wagner.ts) and  *)
(* the kernels it dispatches (public/shaders/rounds.wgsl), the same as the *)
(* native miner's.  K rounds pair the rows that agree in their first digit *)
(* and drop that digit; the rows left with a zero hash are solutions.      *)
(* Unlike the CPU solver the kernels keep at most MAX_PER_BUCKET rows of a *)
(* bucket and MAX_ROWS rows of a round.                                    *)
(*                                                                         *)
(* A hash is K + 1 digits, a digit is a set of bits, and their exclusive   *)
(* or is the symmetric difference.  A buffer is a set of rows: which row   *)
(* has which number depends on the order the threads run in, and nothing   *)
(* but the numbers does, except what a full bucket loses.                  *)
(***************************************************************************)
EXTENDS Naturals, Sequences, FiniteSets

CONSTANTS
  Leaf,            \* indices of the leaves, 0 .. 131071
  K,               \* rounds, 5; odd, for the last one must write to buffer B
  Bit,             \* bits of a digit, 16
  MAX_PER_BUCKET,  \* 16
  MAX_ROWS,        \* rows a buffer holds, 320000
  MAX_SOLUTIONS    \* 64

WagnerAssumption ==
  /\ Leaf \subseteq Nat /\ IsFiniteSet(Leaf)
  /\ K \in Nat /\ K % 2 = 1
  /\ {MAX_PER_BUCKET, MAX_ROWS, MAX_SOLUTIONS} \subseteq Nat \ {0}

VARIABLES
  leaves,  \* index -> hash, as leaves.wgsl computes them for input and nonce
  place,   \* where runNonce is
  round,   \* the loop's counter
  rows,    \* the row buffers A and B
  slots,   \* the rows entered in the bucket table
  full,    \* whether a bucket has turned rows away
  out      \* the candidates returned

vars == <<leaves, place, round, rows, slots, full, out>>

Digit == SUBSET Bit
Hash == [1 .. K + 1 -> Digit]

Xor(a, b) == (a \ b) \cup (b \ a)

Pow2[n \in Nat] == IF n = 0 THEN 1 ELSE 2 * Pow2[n - 1]

TypeOK ==
  /\ leaves \in [Leaf -> Hash]
  /\ place \in {"init", "count", "pair", "scan", "returned", "thrown"}
  /\ round \in 0 .. K
  /\ \A buffer \in {"A", "B"} : \A row \in rows[buffer] :
       row.hash \in Hash /\ Len(row.indices) \in {Pow2[r] : r \in 0 .. K}
  /\ Cardinality(rows.A) <= MAX_ROWS /\ Cardinality(rows.B) <= MAX_ROWS
  /\ full \in BOOLEAN

\* A call of runNonce on the leaves of an input and a nonce.
InitWith(hashes) ==
  /\ leaves = hashes
  /\ place = "init" /\ round = 0
  /\ rows = [A |-> {}, B |-> {}]
  /\ slots = {} /\ full = FALSE /\ out = {}

\* The buffers of a round: even ones read A and write B.
In == IF round % 2 = 0 THEN "A" ELSE "B"
Out == IF round % 2 = 0 THEN "B" ELSE "A"

\* leaves.wgsl and init_rows, which writes to A.
InitRows ==
  /\ place = "init"
  /\ rows' = [rows EXCEPT !.A = {[hash |-> leaves[i], indices |-> <<i>>] : i \in Leaf}]
  /\ place' = "count"
  /\ UNCHANGED <<leaves, round, slots, full, out>>

Bucket(x) == {y \in rows[In] : y.hash[1] = x.hash[1]}

\* count_buckets: every row claims a slot of its bucket; of a bucket with too
\* many, the first MAX_PER_BUCKET threads to arrive get one.
CountBuckets ==
  /\ place = "count"
  /\ LET crowded == {x \in rows[In] : Cardinality(Bucket(x)) > MAX_PER_BUCKET} IN
       /\ \E kept \in SUBSET crowded :
            /\ \A x \in crowded : Cardinality(kept \cap Bucket(x)) = MAX_PER_BUCKET
            /\ slots' = (rows[In] \ crowded) \cup kept
       /\ full' = (full \/ crowded # {})
  /\ place' = "pair"
  /\ UNCHANGED <<leaves, round, rows, out>>

Indices(x) == {x.indices[k] : k \in DOMAIN x.indices}

\* distinct_indices.
DistinctIndices(x, y) == Indices(x) \cap Indices(y) = {}

\* Mutant: the subtree with the smaller first index comes last.
MergeLargerFirst(x, y) ==
  [hash |-> Append(Tail([d \in 1 .. K + 1 |-> Xor(x.hash[d], y.hash[d])]), {}),
   indices |-> IF x.indices[1] > y.indices[1] THEN x.indices \o y.indices
               ELSE y.indices \o x.indices]

\* The row emitted for a pair: the digit they agree in is shifted out, and the
\* subtree with the smaller first index comes first.
Merge(x, y) ==
  [hash |-> Append(Tail([d \in 1 .. K + 1 |-> Xor(x.hash[d], y.hash[d])]), {}),
   indices |-> IF x.indices[1] < y.indices[1] THEN x.indices \o y.indices
               ELSE y.indices \o x.indices]

\* What pair_emit may pair: each row with each other one in its bucket's slots.
Pairs ==
  {p \in rows[In] \X slots :
     /\ p[1] # p[2] /\ p[1].hash[1] = p[2].hash[1]
     /\ DistinctIndices(p[1], p[2])}

\* pair_emit: a thread takes the peers of higher number only, so a pair in the
\* table is emitted once, and one with a row that was turned away depends on the
\* numbers. The host reads the count: none, it returns; too many, it throws.
PairEmit ==
  /\ place = "pair"
  /\ \E chance \in SUBSET {p \in Pairs : p[1] \notin slots} :
       LET emitted == {Merge(p[1], p[2]) : p \in {p \in Pairs : p[1] \in slots} \cup chance} IN
       IF Cardinality(emitted) > MAX_ROWS
       THEN place' = "thrown" /\ UNCHANGED <<round, rows>>
       ELSE /\ rows' = [rows EXCEPT ![Out] = emitted]
            /\ round' = round + 1
            /\ place' = IF emitted = {} THEN "returned"
                        ELSE IF round + 1 < K THEN "count" ELSE "scan"
  /\ UNCHANGED <<leaves, slots, full, out>>

\* solution_scan reads B; the host takes the first MAX_SOLUTIONS.
SolutionScan ==
  /\ place = "scan"
  /\ LET found == {x.indices : x \in {x \in rows.B : \A d \in 1 .. K + 1 : x.hash[d] = {}}} IN
       \E taken \in SUBSET found :
         /\ Cardinality(taken) = IF Cardinality(found) > MAX_SOLUTIONS THEN MAX_SOLUTIONS
                                 ELSE Cardinality(found)
         /\ out' = taken
  /\ place' = "returned"
  /\ UNCHANGED <<leaves, round, rows, slots, full>>

Next == InitRows \/ CountBuckets \/ PairEmit \/ SolutionScan

-----------------------------------------------------------------------------
\* Digit d of the exclusive or of the leaves at positions S of a list.
DigitOf(indices, S, d) ==
  {b \in Bit : Cardinality({k \in S : b \in leaves[indices[k]][d]}) % 2 = 1}

Block(r, n) == (n - 1) * Pow2[r] + 1 .. n * Pow2[r]

\* The tree of so many levels: no index twice, and at every level the left half
\* starts with the smaller index and the first digits cancel, one more each level.
IsTree(indices, levels) ==
  /\ \A j, k \in 1 .. Pow2[levels] : indices[j] = indices[k] => j = k
  /\ \A r \in 1 .. levels : \A n \in 1 .. Pow2[levels - r] :
       /\ indices[(n - 1) * Pow2[r] + 1] < indices[(n - 1) * Pow2[r] + Pow2[r - 1] + 1]
       /\ \A d \in 1 .. r : DigitOf(indices, Block(r, n), d) = {}

\* is_valid_solution of the equihash crate, as verify.rs uses it: a tree of K
\* levels, and at the root all digits cancel.
IsValidSolution(indices) ==
  /\ IsTree(indices, K)
  /\ \A d \in 1 .. K + 1 : DigitOf(indices, Block(K, 1), d) = {}

\* What the GPU returns the verifier accepts, whatever it lost to full buckets:
\* "overflow ... only loses pairs from that one bucket - never corrupts state"
\* (rounds.wgsl:24-27).
CandidatesAreValid == \A indices \in out : IsValidSolution(indices)
=============================================================================
