----------------------------- MODULE MCSqlTarget -----------------------------
(* Two calls and the recheck of one SQL target.                            *)
EXTENDS SqlTarget
=============================================================================
