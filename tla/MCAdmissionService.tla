-------------------------- MODULE MCAdmissionService --------------------------
(* Small instances of AdmissionService for TLC.                            *)
EXTENDS AdmissionService, TLC

Classes == {"a"} \X {"metadata", "interactive", "batch", "maintenance"}

Symmetry == Permutations(Waiters)
=============================================================================
