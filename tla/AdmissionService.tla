--------------------------- MODULE AdmissionService ---------------------------
(***************************************************************************)
(* The service a workload class gets from the round robin of               *)
(* dispatchLocked.  The history variable passedOver counts, for each class *)
(* but maintenance (which has to yield as long as interactive work is      *)
(* waiting), the grants in a row that were made to other classes while the *)
(* class had a waiter that only the scheduling rules kept waiting.         *)
(***************************************************************************)
EXTENDS Admission

CONSTANT CountLimit     \* passedOver stops counting here

ASSUME CountAssumption == CountLimit \in Nat

VARIABLE passedOver

serviceVars == <<vars, passedOver>>

Served == Class \ {"maintenance"}

Backlogged(c) == \E w \in LiveQueued : class[w] = c
Servable(c) == \E w \in LiveQueued : class[w] = c /\ BelowCeilings(w)

GrantedClass == {class[w] : w \in {v \in Waiters : ~ready[v] /\ ready'[v]}}

ServiceInit == Init /\ passedOver = [c \in Served |-> 0]

ServiceNext ==
    /\ Next
    /\ passedOver' = [c \in Served |->
        CASE GrantedClass = {} /\ Backlogged(c) -> passedOver[c]
          [] GrantedClass # {} /\ c \notin GrantedClass /\ Servable(c) ->
                IF passedOver[c] < CountLimit THEN passedOver[c] + 1 ELSE CountLimit
          [] OTHER -> 0]

ServiceSpec == ServiceInit /\ [][ServiceNext]_serviceVars /\ Fairness
-----------------------------------------------------------------------------
(* Metadata work that can run is passed over at most three times in a row  *)
(* (interactive, batch and maintenance, once each); without a metadata     *)
(* reserve interactive work is passed over at most three times and batch   *)
(* work at most five times.                                                *)
WeightedService ==
    /\ passedOver["metadata"] <= 3
    /\ MetadataReserved = 0 => passedOver["interactive"] <= 3 /\ passedOver["batch"] <= 5
=============================================================================
