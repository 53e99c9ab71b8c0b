----------------------------- MODULE MCAdmission -----------------------------
(* Small instances of the admission controller for TLC.                    *)
EXTENDS Admission, TLC

MixedRequests == {<<"a", "metadata">>, <<"a", "interactive">>, <<"b", "interactive">>,
                  <<"b", "batch">>, <<"b", "maintenance">>}

LiveRequests == {<<"a", "interactive">>, <<"a", "maintenance">>}

Symmetry == Permutations(Waiters)
=============================================================================
