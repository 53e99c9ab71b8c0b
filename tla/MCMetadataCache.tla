--------------------------- MODULE MCMetadataCache ---------------------------
(* The metadata cache with few keys, calls and schema versions.            *)
EXTENDS MetadataCache, TLC

AllSmall == [v \in Versions |-> 1]
Growing == [v \in Versions |-> v]

Symmetric == Permutations(Calls)
=============================================================================
