-------------------------- MODULE MCPoolCirculation --------------------------
(***************************************************************************)
(* Two sessions, epochs and receipts, two generations and two instants:    *)
(* a lease can be replaced by the next one, an epoch by the next one, a    *)
(* receipt by a fresh one, and a token can outlive any of them.            *)
(***************************************************************************)
EXTENDS PoolCirculation, TLC

Symmetry == Permutations(Sessions) \cup Permutations(Epochs) \cup Permutations(Receipts)
=============================================================================
