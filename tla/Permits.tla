------------------------------- MODULE Permits -------------------------------
(***************************************************************************)
(* What the admission controller promises the tools that call it, without  *)
(* queues, mutex, round robin or counters: a call asks for a permit for a  *)
(* target and a class, is granted one or withdraws, and returns it once.   *)
(* The limits are stated on the calls themselves.  Admission implements    *)
(* this specification.                                                     *)
(***************************************************************************)
EXTENDS Integers, FiniteSets

CONSTANTS Waiters, Targets, Class, Requests,
          Global, PerTarget, MaxQueued, BatchMax, MaintenanceMax

VARIABLES
    state,     \* call -> "none", "waiting" or "granted"
    asked      \* call -> the <<target, class>> of its last request

vars == <<state, asked>>

In(s) == {w \in Waiters : state[w] = s}

(* The permits in use for calls that satisfy a condition.                  *)
ForTarget(t) == {w \in In("granted") : asked[w][1] = t}
OfClass(c) == {w \in In("granted") : asked[w][2] = c}

Init ==
    /\ state = [w \in Waiters |-> "none"]
    /\ asked \in [Waiters -> Targets \X Class]

(* Acquire takes a place among at most MaxQueued waiting calls.            *)
Request(w, r) ==
    /\ state[w] = "none"
    /\ Cardinality(In("waiting")) < MaxQueued
    /\ state' = [state EXCEPT ![w] = "waiting"]
    /\ asked' = [asked EXCEPT ![w] = r]

(* A waiting call is granted a permit within every limit.                  *)
Grant(w) ==
    /\ state[w] = "waiting"
    /\ Cardinality(In("granted")) < Global
    /\ Cardinality(ForTarget(asked[w][1])) < PerTarget
    /\ asked[w][2] = "batch" => Cardinality(OfClass("batch")) < BatchMax
    /\ asked[w][2] = "maintenance" => Cardinality(OfClass("maintenance")) < MaintenanceMax
    /\ state' = [state EXCEPT ![w] = "granted"]
    /\ UNCHANGED asked

(* The wait ends without a permit, or the permit goes back.                *)
Finish(w) ==
    /\ state[w] \in {"waiting", "granted"}
    /\ state' = [state EXCEPT ![w] = "none"]
    /\ UNCHANGED asked

Next ==
    \E w \in Waiters : \/ \E r \in Requests : Request(w, r)
                       \/ Grant(w)
                       \/ Finish(w)

Spec == Init /\ [][Next]_vars
=============================================================================
