----------------------------- MODULE MCEsCursor -----------------------------
(* The cursor registry with few handles, calls and sessions.               *)
EXTENDS EsCursor, TLC

Calls == Permutations(Requests)
All == Permutations(Requests) \cup Permutations(Cursors)
=============================================================================
