---------------------------- MODULE MCRedisTarget ----------------------------
(* A Redis target with two topologies.                                     *)
EXTENDS RedisTarget, TLC

Symmetry == Permutations(Commands)
=============================================================================
