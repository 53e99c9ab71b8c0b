------------------------------ MODULE Admission ------------------------------
(***************************************************************************)
(* The admission controller shared by every database-backed tool           *)
(* (internal/admission/admission.go).                                      *)
(*                                                                         *)
(* A call of Acquire is named by its *waiter: a member of Waiters that is  *)
(* in use from the call until its permit is released or its wait has been  *)
(* given up, and that is free for another call once no queue holds it.     *)
(* The controller's mutex is explicit: a critical section changes the      *)
(* controller and then runs dispatchLocked, one grant per step, until it   *)
(* unlocks.  A waiter parked in its select runs concurrently with that.    *)
(***************************************************************************)
EXTENDS Integers, Sequences, FiniteSets

CONSTANTS
    Waiters,          \* the calls of Acquire that may be in progress
    Targets,          \* the configured databases
    Requests,         \* the <<target, class>> pairs callers ask for
    Global, PerTarget, MaxQueued,                 \* admission.Config
    MetadataReserved, BatchMax, MaintenanceMax,
    NoWaiter          \* the mutex is free

Class == {"metadata", "interactive", "batch", "maintenance"}

(* What config.validate accepts (internal/config/config.go:602-647).       *)
ASSUME ConfigAssumption ==
    /\ Global \in Nat \ {0} /\ PerTarget \in 1..Global
    /\ MaxQueued \in Nat \ {0}
    /\ MetadataReserved \in 0..Global
    /\ BatchMax \in 1..Global /\ MaintenanceMax \in 1..Global

ASSUME CallsAssumption ==
    /\ IsFiniteSet(Waiters) /\ NoWaiter \notin Waiters
    /\ Targets # {} /\ Requests \subseteq Targets \X Class

VARIABLES
    queues,     \* Controller.queues: class -> FIFO of waiters
    active,     \* Controller.active
    byTarget,   \* Controller.byTarget
    byClass,    \* Controller.byClass
    next,       \* Controller.next: where the round-robin scan starts
    mutex,      \* the waiter whose call is inside Controller.mu, or NoWaiter
    target, class,      \* waiter.target, waiter.class
    ready,      \* waiter.ready is closed: the waiter has been granted
    canceled,   \* waiter.canceled
    pc          \* where each call is

ctrl == <<queues, active, byTarget, byClass, next>>
vars == <<queues, active, byTarget, byClass, next, mutex,
          target, class, ready, canceled, pc>>

(* acquiring, canceling, releasing: inside the mutex, in dispatchLocked.   *)
(* select: parked between the grant, ctx.Done and the timer.               *)
(* givingUp: ctx.Done or the timer won, c.cancel(w) not yet entered.       *)
PcSet == {"idle", "acquiring", "select", "givingUp", "canceling",
          "holding", "releasing", "released"}
Waiting == {"acquiring", "select", "givingUp"}

(* New *)
Init ==
    /\ queues = [c \in Class |-> <<>>]
    /\ active = 0
    /\ byTarget = [t \in Targets |-> 0]
    /\ byClass = [c \in Class |-> 0]
    /\ next = 0
    /\ mutex = NoWaiter
    /\ target = [w \in Waiters |-> CHOOSE t \in Targets : TRUE]
    /\ class = [w \in Waiters |-> "metadata"]
    /\ ready = [w \in Waiters |-> FALSE]
    /\ canceled = [w \in Waiters |-> FALSE]
    /\ pc = [w \in Waiters |-> "idle"]
-----------------------------------------------------------------------------
(* The queues.                                                             *)

Elems(q) == {q[i] : i \in DOMAIN q}
Distinct(q) == \A i, j \in DOMAIN q : q[i] = q[j] => i = j

Queued(c) == Elems(queues[c])

LiveQueued == {w \in Waiters : ~canceled[w] /\ \E c \in Class : w \in Queued(c)}

totalQueuedLocked == Cardinality(LiveQueued)

(* Mutant: the queue limit is compared with > instead of >=.               *)
OverloadedLate == totalQueuedLocked > MaxQueued

Overloaded == totalQueuedLocked >= MaxQueued

(* Mutant: a waiter on a saturated target counts as runnable.              *)
hasAnyLocked(c) == \E w \in Queued(c) : ~canceled[w]

hasRunnableLocked(c) ==
    \E w \in Queued(c) : ~canceled[w] /\ byTarget[target[w]] < PerTarget

(* Mutant: the per-target ceiling is off by one.                           *)
BelowCeilingsOffByOne(w) ==
    /\ byTarget[target[w]] <= PerTarget
    /\ class[w] = "batch" => byClass["batch"] < BatchMax
    /\ class[w] = "maintenance" => byClass["maintenance"] < MaintenanceMax

(* The ceilings no waiter may pass, whatever else is queued.               *)
BelowCeilings(w) ==
    /\ byTarget[target[w]] < PerTarget
    /\ class[w] = "batch" => byClass["batch"] < BatchMax
    /\ class[w] = "maintenance" => byClass["maintenance"] < MaintenanceMax

(* Mutant: no capacity is kept for queued metadata work.                   *)
canRunUnreserved(w) ==
    /\ BelowCeilings(w)
    /\ ~(class[w] = "maintenance" /\ hasRunnableLocked("interactive") /\ active >= Global - 1)

canRunLocked(w) ==
    /\ BelowCeilings(w)
    /\ ~ /\ class[w] # "metadata"
         /\ MetadataReserved > 0
         /\ hasRunnableLocked("metadata")
         /\ active >= Global - MetadataReserved
    /\ ~ /\ class[w] = "maintenance"
         /\ hasRunnableLocked("interactive")
         /\ active >= Global - 1

(* The weighted round robin of classes.                                    *)
order == <<"metadata", "interactive", "metadata", "interactive",
           "batch", "maintenance">>

classAt(n) == order[((next + n) % 6) + 1]

(* Mutants: the scan start runs past the order; it never moves.            *)
nextUnwrapped(n) == next + n + 1
nextStuck(n) == 0 * n

(* The class after the one just granted is scanned first next time.        *)
nextAfter(n) == (next + n + 1) % 6

(* The queue without the canceled waiters at its front.                    *)
LiveFrom(q) ==
    {k \in 1..(Len(q) + 1) :
        /\ \A i \in 1..(k - 1) : canceled[q[i]]
        /\ k <= Len(q) => ~canceled[q[k]]}

Pruned(q) == SubSeq(q, CHOOSE k \in LiveFrom(q) : TRUE, Len(q))

(* Mutant: the granted waiter stays in its queue.                          *)
WithoutOffByOne(q, i) == SubSeq(q, 1, i) \o SubSeq(q, i + 1, Len(q))

Without(q, i) == SubSeq(q, 1, i - 1) \o SubSeq(q, i + 1, Len(q))

(* Mutant: only the front of the queue is checked for cancellation.        *)
CandidatesUnchecked(c) ==
    LET q == Pruned(queues[c])
    IN  {i \in DOMAIN q : canRunLocked(q[i])}

(* The positions of a pruned queue whose waiter can run now.               *)
Candidates(c) ==
    LET q == Pruned(queues[c])
    IN  {i \in DOMAIN q : ~canceled[q[i]] /\ canRunLocked(q[i])}
-----------------------------------------------------------------------------
(* dispatchLocked: one iteration of its outer loop is one step.            *)

(* The scan stops at its n-th class, and grants that class's first waiter  *)
(* that can run.                                                           *)
ScanStopsAt(n) ==
    /\ Candidates(classAt(n)) # {}
    /\ \A m \in 0..(n - 1) : Candidates(classAt(m)) = {}

(* Mutant: the last waiter that can run is granted.                        *)
Last(S) == CHOOSE i \in S : \A j \in S : i >= j

First(S) == CHOOSE i \in S : \A j \in S : i <= j

DispatchGrant ==
    /\ mutex # NoWaiter
    /\ active < Global
    /\ \E n \in 0..5 :
        /\ ScanStopsAt(n)
        /\ LET c == classAt(n)
               i == First(Candidates(c))
               w == Pruned(queues[c])[i]
               passed == {classAt(m) : m \in 0..(n - 1)}
           IN  /\ queues' = [d \in Class |->
                                CASE d = c -> Without(Pruned(queues[d]), i)
                                  [] d \in passed \ {c} -> Pruned(queues[d])
                                  [] OTHER -> queues[d]]
               /\ active' = active + 1
               /\ byTarget' = [byTarget EXCEPT ![target[w]] = @ + 1]
               /\ byClass' = [byClass EXCEPT ![c] = @ + 1]
               /\ next' = nextAfter(n)
               /\ ready' = [ready EXCEPT ![w] = TRUE]
    /\ UNCHANGED <<mutex, target, class, canceled, pc>>

Unlocked(p) == CASE p = "acquiring" -> "select"
                 [] p = "canceling" -> "idle"
                 [] p = "releasing" -> "released"

(* Nothing more can be granted: the mutex is unlocked and the call that    *)
(* held it goes on.                                                        *)
DispatchReturn ==
    /\ mutex # NoWaiter
    /\ \/ active >= Global /\ UNCHANGED queues
       \/ /\ active < Global
          /\ \A c \in Class : Candidates(c) = {}
          /\ queues' = [c \in Class |-> Pruned(queues[c])]
    /\ mutex' = NoWaiter
    /\ pc' = [pc EXCEPT ![mutex] = Unlocked(@)]
    /\ UNCHANGED <<active, byTarget, byClass, next, target, class, ready, canceled>>
-----------------------------------------------------------------------------
(* The calls.                                                              *)

Free(w) == pc[w] \in {"idle", "released"} /\ \A c \in Class : w \notin Queued(c)

AcquireQueue(w, t, c) ==
    /\ mutex = NoWaiter
    /\ Free(w)
    /\ ~Overloaded
    /\ target' = [target EXCEPT ![w] = t]
    /\ class' = [class EXCEPT ![w] = c]
    /\ ready' = [ready EXCEPT ![w] = FALSE]
    /\ canceled' = [canceled EXCEPT ![w] = FALSE]
    /\ queues' = [queues EXCEPT ![c] = Append(@, w)]
    /\ mutex' = w
    /\ pc' = [pc EXCEPT ![w] = "acquiring"]
    /\ UNCHANGED <<active, byTarget, byClass, next>>

(* Acquire returns ErrOverloaded without having queued.                    *)
AcquireReject(w) ==
    /\ mutex = NoWaiter
    /\ Free(w)
    /\ Overloaded
    /\ UNCHANGED vars

(* The select takes <-w.ready: Acquire returns the permit.                 *)
Admit(w) ==
    /\ pc[w] = "select"
    /\ ready[w]
    /\ pc' = [pc EXCEPT ![w] = "holding"]
    /\ UNCHANGED <<ctrl, mutex, target, class, ready, canceled>>

(* Mutant: no queue timer and no deadline ends the wait.                   *)
GiveUpNever(w) == pc[w] = "idle" /\ pc[w] = "select" /\ UNCHANGED vars

(* The select takes <-ctx.Done() or <-timer.C, which it may do even when   *)
(* w.ready is closed as well.                                              *)
GiveUp(w) ==
    /\ pc[w] = "select"
    /\ pc' = [pc EXCEPT ![w] = "givingUp"]
    /\ UNCHANGED <<ctrl, mutex, target, class, ready, canceled>>

releaseLocked(w) ==
    /\ active' = active - 1
    /\ byTarget' = [byTarget EXCEPT ![target[w]] = @ - 1]
    /\ byClass' = [byClass EXCEPT ![class[w]] = @ - 1]

(* Mutant: a cancellation ignores a grant that arrived before it.          *)
cancelIgnoringGrant(w) ==
    /\ pc[w] = "givingUp"
    /\ mutex = NoWaiter
    /\ canceled' = [canceled EXCEPT ![w] = TRUE]
    /\ mutex' = w
    /\ pc' = [pc EXCEPT ![w] = "canceling"]
    /\ UNCHANGED <<queues, next, target, class, ready, active, byTarget, byClass>>

cancel(w) ==
    /\ pc[w] = "givingUp"
    /\ mutex = NoWaiter
    /\ \/ ready[w] /\ releaseLocked(w) /\ UNCHANGED canceled
       \/ /\ ~ready[w]
          /\ canceled' = [canceled EXCEPT ![w] = TRUE]
          /\ UNCHANGED <<active, byTarget, byClass>>
    /\ mutex' = w
    /\ pc' = [pc EXCEPT ![w] = "canceling"]
    /\ UNCHANGED <<queues, next, target, class, ready>>

(* Mutant: a second Release of a permit gives it back again.               *)
ReleaseTwice(w) ==
    /\ pc[w] \in {"holding", "released"}
    /\ mutex = NoWaiter
    /\ active > 0
    /\ releaseLocked(w)
    /\ mutex' = w
    /\ pc' = [pc EXCEPT ![w] = "releasing"]
    /\ UNCHANGED <<queues, next, target, class, ready, canceled>>

(* Permit.Release: only the first call does anything.                      *)
Release(w) ==
    \/ /\ pc[w] = "holding"
       /\ mutex = NoWaiter
       /\ releaseLocked(w)
       /\ mutex' = w
       /\ pc' = [pc EXCEPT ![w] = "releasing"]
       /\ UNCHANGED <<queues, next, target, class, ready, canceled>>
    \/ /\ pc[w] = "released"
       /\ UNCHANGED vars

Next ==
    \/ DispatchGrant
    \/ DispatchReturn
    \/ \E w \in Waiters :
        \/ \E r \in Requests : AcquireQueue(w, r[1], r[2])
        \/ AcquireReject(w)
        \/ Admit(w)
        \/ GiveUp(w)
        \/ cancel(w)
        \/ Release(w)

Spec == Init /\ [][Next]_vars

(* What the code guarantees will happen: a goroutine inside the mutex runs  *)
(* on; the queue timer fires (admission.go:73-81), so a parked call leaves *)
(* its select; sync.Mutex is starvation-free, so a call that waits for it  *)
(* gets it although it is taken in between; every caller defers Release.   *)
Fairness ==
    /\ WF_vars(DispatchGrant \/ DispatchReturn)
    /\ \A w \in Waiters : /\ WF_vars(Admit(w) \/ GiveUp(w))
                          /\ SF_vars(cancel(w) \/ Release(w))

FairSpec == Spec /\ Fairness
-----------------------------------------------------------------------------
TypeOK ==
    /\ queues \in [Class -> Seq(Waiters)]
    /\ active \in Int
    /\ byTarget \in [Targets -> Int]
    /\ byClass \in [Class -> Int]
    /\ next \in 0..5
    /\ mutex \in Waiters \cup {NoWaiter}
    /\ target \in [Waiters -> Targets]
    /\ class \in [Waiters -> Class]
    /\ ready \in [Waiters -> BOOLEAN]
    /\ canceled \in [Waiters -> BOOLEAN]
    /\ pc \in [Waiters -> PcSet]

(* The grants that have been neither given back nor released: permits in   *)
(* the hands of callers and grants whose caller has not looked yet.        *)
Granted == {w \in Waiters : ready[w] /\ pc[w] \in Waiting \cup {"holding"}}

(* Every unit of capacity the controller counts is a grant that somebody   *)
(* still has to give back: a cancellation or a timeout that races with     *)
(* close(w.ready) leaks nothing, and nothing is given back twice           *)
(* (admission.go:111-134, 159-166).                                        *)
CapacityAccounted ==
    /\ active = Cardinality(Granted)
    /\ \A t \in Targets : byTarget[t] = Cardinality({w \in Granted : target[w] = t})
    /\ \A c \in Class : byClass[c] = Cardinality({w \in Granted : class[w] = c})

(* The permits really held never exceed the configured ceilings.           *)
CeilingsRespected ==
    /\ Cardinality(Granted) <= Global
    /\ \A t \in Targets : Cardinality({w \in Granted : target[w] = t}) <= PerTarget
    /\ Cardinality({w \in Granted : class[w] = "batch"}) <= BatchMax
    /\ Cardinality({w \in Granted : class[w] = "maintenance"}) <= MaintenanceMax

(* A caller that still waits for a grant is in its class's queue, at one   *)
(* place, so a later dispatch will find it; a queued waiter was never      *)
(* granted (the queue surgery of admission.go:144-160 loses nobody).       *)
WaitersQueuedOnce ==
    /\ \A w \in Waiters :
        pc[w] \in Waiting /\ ~ready[w] => w \in Queued(class[w])
    /\ \A c \in Class :
        /\ Distinct(queues[c])
        /\ \A w \in Queued(c) : class[w] = c /\ ~ready[w]

(* RFC-0001 "reservations are work-conserving: idle capacity is not left   *)
(* unused": outside the mutex there is never free capacity and a live      *)
(* waiter below its hard ceilings, although canRunLocked lets metadata and *)
(* interactive waiters hold back others.  Every path that frees capacity,  *)
(* or removes a waiter that held others back, dispatches.                  *)
WorkConserving ==
    mutex = NoWaiter /\ active < Global => \A w \in LiveQueued : ~BelowCeilings(w)

(* The number of callers waiting never exceeds max_queued_requests.        *)
BoundedWaiting == Cardinality(LiveQueued) <= MaxQueued

(* A waiter that gave up is never granted afterwards.                      *)
CanceledNeverGranted == \A w \in Waiters : ~(canceled[w] /\ ready[w])

(* Capacity that waits for metadata is not taken by other work: a grant to *)
(* another class, made while a metadata waiter could run on its target,    *)
(* leaves MetadataReserved permits free (admission.go:185-187).            *)
ReserveKept ==
    [][\A w \in Waiters :
        /\ ~ready[w] /\ ready'[w] /\ class[w] # "metadata"
        /\ \E v \in LiveQueued : class[v] = "metadata" /\ byTarget[target[v]] < PerTarget
        => active' <= Global - MetadataReserved \/ MetadataReserved = 0]_vars

(* Waiters of one class for one target are granted in the order in which   *)
(* they queued, whoever gives up in between (admission.go:149-160).        *)
FifoPerTarget ==
    [][\A c \in Class : \A i, j \in DOMAIN queues[c] :
        LET v == queues[c][i]  w == queues[c][j]
        IN  i < j /\ ready'[w] /\ target[v] = target[w] => ready'[v] \/ canceled[v]]_vars

(* Every call of Acquire returns: with a permit, or with an error after    *)
(* its wait was given up.                                                  *)
EveryCallReturns ==
    \A w \in Waiters : pc[w] = "acquiring" ~> pc[w] \in {"holding", "idle"}

(* The mutex is held by the one call that is inside it; a call that waits  *)
(* is not canceled; a permit was granted.  With these the properties above *)
(* are inductive.                                                          *)
CallsConsistent ==
    \A w \in Waiters :
        /\ pc[w] \in {"acquiring", "canceling", "releasing"} <=> mutex = w
        /\ pc[w] \in Waiting => ~canceled[w]
        /\ pc[w] = "holding" => ready[w]

(* A live waiter in a queue is a call that still waits.                    *)
LiveWaits == \A w \in LiveQueued : pc[w] \in Waiting

IInv ==
    /\ TypeOK
    /\ LiveWaits
    /\ CallsConsistent
    /\ CapacityAccounted
    /\ CeilingsRespected
    /\ WaitersQueuedOnce
    /\ WorkConserving
    /\ BoundedWaiting
    /\ CanceledNeverGranted

(* What a caller sees of its call: a waiter that was granted while it is   *)
(* still parked, or whose deadline has just won the select, has a permit.  *)
CallState ==
    [w \in Waiters |->
        IF pc[w] \in Waiting \cup {"holding"}
        THEN IF ready[w] THEN "granted" ELSE "waiting"
        ELSE "none"]

Asked == [w \in Waiters |-> <<target[w], class[w]>>]

Abstract == INSTANCE Permits WITH state <- CallState, asked <- Asked

(* The controller implements Permits: with its queues, counters and late   *)
(* cancellations it never grants beyond a limit counted on the calls       *)
(* themselves, never grants a call that has left, queues no call beyond    *)
(* max_queued_requests, and takes every permit back once                   *)
(* (admission.go:60-134).                                                  *)
ImplementsPermits == Abstract!Spec

(* README "Queue length and wait time have hard limits": the queues, with  *)
(* the canceled waiters that are still in them, hold at most               *)
(* max_queued_requests waiters.                                            *)
QueueLengthBounded ==
    \A c \in Class : Len(queues[c]) <= MaxQueued
=============================================================================
