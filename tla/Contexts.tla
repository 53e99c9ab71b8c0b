------------------------------ MODULE Contexts ------------------------------
(***************************************************************************)
(* What the cursor registry promises the operator of the cluster and its   *)
(* clients, without gates, leases, timers, sweeps and retries.  A handle   *)
(* takes a slot and memory within the limits, has at most one context on   *)
(* the server in its life, and gives the reservation back once, when the   *)
(* server has nothing of it and can no longer create it; a client gets the *)
(* pages of a context one after the other.  EsCursor implements this       *)
(* specification.                                                          *)
(***************************************************************************)
EXTENDS Integers, FiniteSets

CONSTANTS
    Handles,
    Amounts,     \* the memory a query may cost
    MemoryLimit, SlotLimit, MaxOpenContexts

VARIABLES
    state,     \* handle -> "unused", "reserved", "open" or "released"
    share,     \* handle -> the memory it holds
    context,   \* handle -> "none", "coming", "there" or "gone" on the server
    place,     \* handle -> the page its context has come to
    pages      \* handle -> the pages its client has got

vars == <<state, share, context, place, pages>>

Open == {c \in Handles : state[c] = "open"}
Taken == {c \in Handles : state[c] \in {"reserved", "open"}}
Units == UNION {{c} \X (1..share[c]) : c \in Handles}

Init ==
    /\ state = [c \in Handles |-> "unused"]
    /\ share = [c \in Handles |-> 0]
    /\ context = [c \in Handles |-> "none"]
    /\ place = [c \in Handles |-> 0] /\ pages = [c \in Handles |-> 0]

(* A slot and memory are taken, within the limits of the process.          *)
Reserve(c, n) ==
    /\ state[c] = "unused"
    /\ Cardinality(Taken) < SlotLimit /\ Cardinality(Units) + n <= MemoryLimit
    /\ state' = [state EXCEPT ![c] = "reserved"]
    /\ share' = [share EXCEPT ![c] = n]
    /\ UNCHANGED <<context, place, pages>>

(* The target refuses: everything goes back.                               *)
Withdraw(c) ==
    /\ state[c] = "reserved"
    /\ state' = [state EXCEPT ![c] = "unused"]
    /\ share' = [share EXCEPT ![c] = 0]
    /\ UNCHANGED <<context, place, pages>>

Publish(c) ==
    /\ state[c] = "reserved" /\ Cardinality(Open) < MaxOpenContexts
    /\ state' = [state EXCEPT ![c] = "open"]
    /\ UNCHANGED <<share, context, place, pages>>

(* Another query costs another amount of memory.                           *)
Charge(c, n) ==
    /\ state[c] = "open"
    /\ n <= share[c] \/ Cardinality(Units) - share[c] + n <= MemoryLimit
    /\ share' = [share EXCEPT ![c] = n]
    /\ UNCHANGED <<state, context, place, pages>>

(* The server is asked for the context, once in the life of the handle, or *)
(* will never be.                                                          *)
Ask(c) ==
    /\ state[c] = "open" /\ context[c] = "none"
    /\ \E next \in {"coming", "gone"} : context' = [context EXCEPT ![c] = next]
    /\ UNCHANGED <<state, share, place, pages>>

(* The server works on a request: it creates the context or goes on with   *)
(* it, may turn a page, and may be done with the context.                  *)
Work(c) ==
    /\ state[c] = "open" /\ context[c] \in {"coming", "there"}
    /\ \E next \in {"there", "gone"}, turned \in {0, 1} :
          /\ context' = [context EXCEPT ![c] = next]
          /\ place' = [place EXCEPT ![c] = @ + turned]
    /\ UNCHANGED <<state, share, pages>>

(* The client's side turns the page of a search.                           *)
Turn(c) ==
    /\ state[c] = "open" /\ context[c] # "none"
    /\ place' = [place EXCEPT ![c] = @ + 1]
    /\ UNCHANGED <<state, share, context, pages>>

(* Contexts expire or are cleared, and requests for one are lost.          *)
Lapse(C) ==
    /\ \A c \in C : context[c] \in {"coming", "there"}
    /\ context' = [c \in Handles |-> IF c \in C THEN "gone" ELSE context[c]]
    /\ UNCHANGED <<state, share, place, pages>>

(* The client gets the page after the last one it got.                     *)
Deliver(c) ==
    /\ state[c] = "open" /\ place[c] = pages[c] + 1
    /\ pages' = [pages EXCEPT ![c] = @ + 1]
    /\ UNCHANGED <<state, share, context, place>>

(* The reservation goes back: the context is gone, by this step at the     *)
(* latest, and none is coming.                                             *)
Return(c) ==
    /\ state[c] = "open" /\ context[c] # "coming"
    /\ state' = [state EXCEPT ![c] = "released"]
    /\ share' = [share EXCEPT ![c] = 0]
    /\ context' = [context EXCEPT ![c] = "gone"]
    /\ UNCHANGED <<place, pages>>

Next ==
    \/ \E c \in Handles : \/ \E n \in Amounts : Reserve(c, n) \/ Charge(c, n)
                          \/ Withdraw(c) \/ Publish(c) \/ Ask(c) \/ Work(c)
                          \/ Turn(c) \/ Deliver(c) \/ Return(c)
    \/ \E C \in SUBSET Handles : Lapse(C)

Spec == Init /\ [][Next]_vars
=============================================================================
