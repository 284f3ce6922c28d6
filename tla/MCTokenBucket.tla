---------------------------- MODULE MCTokenBucket ----------------------------
(***************************************************************************)
(* TokenBucket with two CPUs, a block and two limits.                      *)
(***************************************************************************)
EXTENDS TokenBucket, TLC

CONSTANTS c1, c2

MCCpu == {c1, c2}
MCSize == {1, 3}
MCParams == {[rate |-> 0, burst |-> 0], [rate |-> 1, burst |-> 1],
             [rate |-> 3, burst |-> 3]}
Symmetry == Permutations(MCCpu)
=============================================================================
