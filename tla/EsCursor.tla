------------------------------ MODULE EsCursor ------------------------------
(***************************************************************************)
(* The registry of Elasticsearch contexts one target owns on behalf of its *)
(* sessions (internal/dialects/elasticsearch: cursor_registry.go,          *)
(* cursor.go, sql_cursor.go, pit_batch.go).                                *)
(*                                                                         *)
(* A cursor is a record of ownedCursor's fields; whoever holds its gate    *)
(* may change them.  Requests (es_cursor and PIT batches), the reaper, the *)
(* session and shutdown sweeps, the background recovery and the retirement *)
(* timer contend for the gate, while the clock, the native server, session *)
(* disconnects, authority drift and Close go on regardless of it.          *)
(*                                                                         *)
(* Points in time are kept as the time left: Tick counts them all down,    *)
(* and 0 means that the instant has passed.                                *)
(***************************************************************************)
EXTENDS Integers, FiniteSets

CONSTANTS
    Cursors,          \* the handles reserveCursor may draw
    Requests,         \* the calls that may be in progress at once
    Owners,           \* MCP sessions
    Kinds,            \* the cursor kinds clients open
    Keeps,            \* keep-alives clients ask for
    Charges,          \* retained memory a query may cost
    MemoryLimit, SlotLimit,     \* cursorMemory, cursorSlots
    MaxOpenContexts, Lifetime,  \* MaxOpenContexts, MaxContextLifetime
    MaxTimeout,                 \* limits.MaxTimeout
    CleanupTimeout,             \* cursorCleanupTimeout
    MaxEpoch, MaxPages,         \* bounds of this model
    Free, NoCursor

ASSUME ConfigAssumption ==
    /\ Kinds \subseteq {"pit", "scroll", "sql"}
    /\ Keeps \subseteq Nat \ {0} /\ Charges \subseteq Nat \ {0}
    /\ MemoryLimit \in Nat /\ SlotLimit \in Nat /\ MaxOpenContexts \in Nat
    /\ Lifetime \in Nat \ {0} /\ MaxTimeout \in Nat \ {0}
    /\ CleanupTimeout \in Nat \ {0} /\ MaxEpoch \in Nat /\ MaxPages \in Nat

Sweepers == Owners \cup {"reaper", "shutdown"}
Holders == Requests \cup Sweepers \cup {"recovery"}

ASSUME ActorsAssumption ==
    /\ Requests \cap (Sweepers \cup {"recovery"}) = {}
    /\ Owners \cap (Cursors \cup {"reaper", "shutdown", "recovery"}) = {}
    /\ Free \notin Holders /\ NoCursor \notin Cursors

VARIABLES
    cur,        \* cursor -> its ownedCursor
    gate,       \* cursor -> who holds its gate
    cleaning,   \* cursors whose holder waits for the server to clear them
    memory, slots,  \* what cursorMemory and cursorSlots have handed out
    req,        \* request -> where its handler is
    ctx,        \* request -> its context is not done
    recovery,   \* cursors with a background recovery goroutine
    net,        \* cursor -> what the native server and the network hold of it
    gone,       \* owners whose context is done
    epoch,      \* Target.authorityEpoch
    closed,     \* Target.closed
    served      \* cursor -> pages its client has received

target == <<epoch, closed, gone>>
reserve == <<memory, slots>>
vars == <<cur, gate, cleaning, memory, slots, req, ctx, recovery, net,
          gone, epoch, closed, served>>

Lower(a, b) == IF a < b THEN a ELSE b
Higher(a, b) == IF a < b THEN b ELSE a
(* Mutant: a deadline is counted past zero.                                *)
LessUnchecked(n) == n - 1

Less(n) == IF n > 0 THEN n - 1 ELSE n

NoTimer == -1

NewCursor ==
    [st |-> "unused", kind |-> "pit", owner |-> NoCursor, epoch |-> 0,
     invalid |-> FALSE, uncertain |-> FALSE, done |-> FALSE, queued |-> FALSE,
     ids |-> 0, bytes |-> 0, dispatched |-> FALSE, expires |-> 0,
     absolute |-> 0, serverUntil |-> 0, nativeLease |-> 0, retryAfter |-> 0,
     timer |-> NoTimer]

NoReply == [status |-> "none", more |-> FALSE]
NewNet == [native |-> 0, keepAlive |-> 0, pos |-> 0, flights |-> {},
           reply |-> NoReply]

Idle == [pc |-> "idle", op |-> "none", c |-> NoCursor, lease |-> 0,
         more |-> FALSE, recovering |-> FALSE, result |-> FALSE]

Init ==
    /\ cur = [c \in Cursors |-> NewCursor]
    /\ gate = [c \in Cursors |-> Free]
    /\ cleaning = {} /\ memory = 0 /\ slots = 0
    /\ req = [r \in Requests |-> Idle]
    /\ ctx = [r \in Requests |-> FALSE]
    /\ recovery = {}
    /\ net = [c \in Cursors |-> NewNet]
    /\ gone = {} /\ epoch = 0 /\ closed = FALSE
    /\ served = [c \in Cursors |-> 0]

-----------------------------------------------------------------------------
(* What the handlers do to a cursor.                                       *)

Registered == {c \in Cursors : cur[c].st = "open"}      \* Target.cursors

(* Target.ready is asked at every turn, and the authority proof may be     *)
(* stale at any of them: a check that asks it can always fail, and can     *)
(* succeed while the target is not closed.                                 *)
MayBeReady == ~closed

(* usableCursor, with a fresh proof.                                       *)
Usable(c) ==
    /\ cur[c].st = "open" /\ ~cur[c].invalid
    /\ cur[c].owner \notin gone
    /\ cur[c].expires > 0 /\ cur[c].absolute > 0
    /\ cur[c].epoch = epoch
    /\ MayBeReady

(* releaseCursor.  Who still waits for the gate will only ask whether the  *)
(* cursor is released: its other fields are forgotten.  A timer that has   *)
(* already fired cannot be stopped.                                        *)
Release(k) == [NewCursor EXCEPT !.st = "released", !.kind = k.kind,
                                !.timer = IF k.timer = 0 THEN 0 ELSE NoTimer]

(* Mutant: the timer is never armed.                                       *)
RetireUnarmed(k) ==
    IF ~k.dispatched \/ k.serverUntil = 0 THEN Release(k) ELSE k

(* retireCursorAtLeaseEnd *)
Retire(k) ==
    IF ~k.dispatched \/ k.serverUntil = 0 THEN Release(k)
    ELSE IF k.timer = NoTimer THEN [k EXCEPT !.timer = k.serverUntil]
    ELSE k

(* Mutant: a failed page leaves the cursor usable.                         *)
DisableNot(k) == k

Disable(k) == [k EXCEPT !.invalid = TRUE]

(* The end of cleanupCursor when the server has not confirmed.             *)
Pending(k) == Retire([k EXCEPT !.retryAfter = CleanupTimeout])

(* The end of cleanupCursor after the server's answer.                     *)
Answered(k, confirmed) ==
    IF confirmed /\ ~k.uncertain THEN Release(k) ELSE Pending(k)

(* cleanupCursor has identifiers to clear on the server.                   *)
CallsServer(k) ==
    k.st = "open" /\ k.dispatched /\ k.serverUntil > 0 /\ k.ids > 0

(* Mutant: without an identifier there is nothing to clean up.             *)
CleanupLocalForgets(k) == IF k.st = "open" THEN Release(k) ELSE k

(* cleanupCursor when it need not call the server.                         *)
CleanupLocal(k) ==
    IF k.st # "open" THEN k
    ELSE IF ~k.dispatched \/ k.serverUntil = 0 THEN Release(k)
    ELSE Pending(k)

(* captureCursorID; rotated: the server answered with another identifier.  *)
Capture(k, rotated) ==
    [k EXCEPT !.ids = IF rotated THEN Lower(2, @ + 1) ELSE Higher(1, @),
              !.uncertain = FALSE]

(* Storing k as cursor c returns its slot and memory if k is released.     *)
Store(c, k) ==
    LET freed == cur[c].st = "open" /\ k.st = "released" IN
    /\ cur' = [cur EXCEPT ![c] = k]
    /\ memory' = IF freed THEN memory - cur[c].bytes ELSE memory
    /\ slots' = IF freed THEN slots - 1 ELSE slots

(* The tail of recoverCursor: retire, and queue one background attempt.    *)
QueueRecovery(c, k) ==
    LET k2 == Retire(k)
        queue == k2.st = "open" /\ ~k2.queued IN
    /\ Store(c, [k2 EXCEPT !.queued = @ \/ queue])
    /\ recovery' = IF queue THEN recovery \cup {c} ELSE recovery

-----------------------------------------------------------------------------
(* Requests.                                                               *)

(* PIT batches and stateless SQL reads: a cursor for one call, which its   *)
(* context owns.                                                           *)
Private == {"batch", "drain"}

Goto(r, pc) == req' = [req EXCEPT ![r].pc = pc]
At(r, pc) == [Idle EXCEPT !.pc = pc, !.op = req[r].op, !.c = req[r].c]
ToRecover(r) == req' = [req EXCEPT ![r] = At(r, "recover")]

(* The handler returns: its deferred calls unlock the gate and end its     *)
(* context, which owns the cursor of a private call.                       *)
Finish(r) ==
    LET c == req[r].c IN
    /\ req' = [req EXCEPT ![r] = Idle]
    /\ gate' = [gate EXCEPT ![c] = Free]
    /\ ctx' = [ctx EXCEPT ![r] = FALSE]
    /\ gone' = IF req[r].op \in Private THEN gone \cup {c} ELSE gone

(* reserveCursor up to the registry: process-wide memory and slots.        *)
Reserve(r, c, op, o, kind, charge) ==
    /\ req[r].pc = "idle" /\ cur[c].st = "unused" /\ MayBeReady
    /\ op \in Private => o = c /\ kind = IF op = "batch" THEN "pit" ELSE "sql"
    /\ op = "open" => o \in Owners
    /\ memory + charge <= MemoryLimit /\ slots < SlotLimit
    /\ memory' = memory + charge /\ slots' = slots + 1
    /\ cur' = [cur EXCEPT ![c] =
                 [NewCursor EXCEPT !.st = "reserved", !.kind = kind,
                                   !.owner = o, !.bytes = charge,
                                   !.epoch = epoch, !.absolute = Lifetime]]
    /\ req' = [req EXCEPT ![r] = [Idle EXCEPT !.pc = "publish", !.op = op,
                                              !.c = c]]
    /\ ctx' = [ctx EXCEPT ![r] = TRUE]
    /\ UNCHANGED <<gate, cleaning, recovery, net, target, served>>

(* Mutant: a refusal keeps the process slot.                               *)
PublishRefusedLeaks(r) ==
    LET c == req[r].c IN
    /\ req[r].pc = "publish"
    /\ closed \/ Cardinality(Registered) >= MaxOpenContexts
    /\ memory' = memory - cur[c].bytes /\ slots' = slots
    /\ cur' = [cur EXCEPT ![c] = NewCursor]
    /\ req' = [req EXCEPT ![r] = Idle]
    /\ ctx' = [ctx EXCEPT ![r] = FALSE]
    /\ UNCHANGED <<gate, cleaning, recovery, net, target, served>>

(* The registry's own checks, with the rollback of what was reserved.      *)
PublishRefused(r) ==
    LET c == req[r].c IN
    /\ req[r].pc = "publish"
    /\ closed \/ Cardinality(Registered) >= MaxOpenContexts
    /\ memory' = memory - cur[c].bytes /\ slots' = slots - 1
    /\ cur' = [cur EXCEPT ![c] = NewCursor]
    /\ req' = [req EXCEPT ![r] = Idle]
    /\ ctx' = [ctx EXCEPT ![r] = FALSE]
    /\ UNCHANGED <<gate, cleaning, recovery, net, target, served>>

Publish(r) ==
    LET c == req[r].c IN
    /\ req[r].pc = "publish"
    /\ ~closed /\ Cardinality(Registered) < MaxOpenContexts
    /\ cur' = [cur EXCEPT ![c].st = "open"]
    /\ gate' = [gate EXCEPT ![c] = r]
    /\ Goto(r, IF cur[c].kind = "sql" THEN "dispatch" ELSE "update")
    /\ UNCHANGED <<cleaning, reserve, ctx, recovery, net, target,
                   served>>

(* Mutant: what others have been given is not asked for.                   *)
FitsAlone(c, charge) == charge <= MemoryLimit

(* cursorMemory has what the query costs beyond what the cursor holds.     *)
Fits(c, charge) ==
    charge <= cur[c].bytes \/ memory - cur[c].bytes + charge <= MemoryLimit

(* updateCursorQuery: at open, and after each page of a PIT.               *)
UpdateQuery(r, charge) ==
    LET c == req[r].c IN
    /\ req[r].pc = "update"
    /\ IF Fits(c, charge)
       THEN /\ memory' = memory - cur[c].bytes + charge
            /\ cur' = [cur EXCEPT ![c].bytes = charge]
            /\ Goto(r, IF req[r].op = "next" THEN "result" ELSE "dispatch")
       ELSE /\ ToRecover(r)
            /\ UNCHANGED <<memory, cur>>
    /\ UNCHANGED <<gate, cleaning, slots, ctx, recovery, net, target,
                   served>>

(* Any check of a handler that runs after its cursor became recoverable    *)
(* may fail: request framing, source proofs, the encoded response limit.   *)
Abandon(r) ==
    LET k == cur[req[r].c] IN
    /\ \/ req[r].pc \in {"update", "page"}
       \/ req[r].pc = "result" /\ ~k.done /\ (req[r].more \/ k.kind = "pit")
    /\ ToRecover(r)
    /\ UNCHANGED <<cur, gate, cleaning, reserve, ctx, recovery, net,
                   target, served>>

(* next and close: lookupCursor, then wait for the gate.                   *)
Lookup(r, c, o, op) ==
    /\ req[r].pc = "idle" /\ op \in {"next", "close"}
    /\ op = "next" => MayBeReady /\ served[c] < MaxPages
    /\ cur[c].st = "open" /\ cur[c].owner = o /\ o \in Owners
    /\ req' = [req EXCEPT ![r] = [Idle EXCEPT !.pc = "wait", !.op = op,
                                              !.c = c]]
    /\ ctx' = [ctx EXCEPT ![r] = TRUE]
    /\ UNCHANGED <<cur, gate, cleaning, reserve, recovery, net, target,
                   served>>

(* ctx.Done won the select of ownedCursor.lock.                            *)
LockTimeout(r) ==
    /\ req[r].pc = "wait" /\ ~ctx[r]
    /\ req' = [req EXCEPT ![r] = Idle]
    /\ UNCHANGED <<cur, gate, cleaning, reserve, ctx, recovery, net,
                   target, served>>

(* The gate is taken: close cleans up, next goes on if the cursor is       *)
(* usable.  A next that is refused before its dispatch leaves the cursor   *)
(* as it is (Refuse).                                                      *)
Lock(r, fresh) ==
    LET c == req[r].c IN
    /\ req[r].pc = "wait" /\ gate[c] = Free
    /\ gate' = [gate EXCEPT ![c] = r]
    /\ Goto(r, IF req[r].op = "close" THEN "close"
               ELSE IF Usable(c) /\ fresh THEN "dispatch" ELSE "recover")
    /\ UNCHANGED <<cur, cleaning, reserve, ctx, recovery, net, target,
                   served>>

Refuse(r) ==
    /\ req[r].pc = "dispatch" /\ req[r].op = "next"
    /\ Finish(r)
    /\ UNCHANGED <<cur, cleaning, reserve, recovery, net, epoch,
                   closed, served>>

(* beginCursorDispatch refuses (an absolute lifetime that has run out, a   *)
(* disabled cursor, another epoch, a gone owner, a stale proof), or, on    *)
(* the way to it, the proof of a scroll or SQL page fails.                 *)
DispatchRefused(r) ==
    /\ req[r].pc = "dispatch"
    /\ ToRecover(r)
    /\ UNCHANGED <<cur, gate, cleaning, reserve, ctx, recovery, net, target,
                   served>>

(* Mutant: the native lease is taken to be the latest keep-alive.          *)
DispatchedLatestLease(k, keep) ==
    Retire([k EXCEPT !.expires = keep, !.nativeLease = keep,
                     !.serverUntil = keep + MaxTimeout,
                     !.dispatched = TRUE, !.uncertain = TRUE])

(* beginCursorDispatch, then the request goes out.  The first request of a *)
(* cursor creates its native context; sent is FALSE if the handler fails   *)
(* to frame it after the lease was accounted.                              *)
Dispatched(k, keep) ==
    Retire([k EXCEPT !.expires = keep,
                     !.nativeLease = Higher(@, keep),
                     !.serverUntil = Higher(k.nativeLease, keep) + MaxTimeout,
                     !.dispatched = TRUE, !.uncertain = TRUE])

BeginDispatch(r, requested, sent) ==
    LET c == req[r].c
        keep == Lower(requested, cur[c].absolute)
        flight == [left |-> MaxTimeout, lease |-> keep, heard |-> TRUE,
                   create |-> cur[c].ids = 0] IN
    /\ req[r].pc = "dispatch"
    /\ MayBeReady /\ cur[c].epoch = epoch /\ cur[c].owner \notin gone
    /\ ~cur[c].invalid /\ cur[c].absolute > 0
    /\ Store(c, Dispatched(cur[c], keep))
    /\ req' = [req EXCEPT ![r] = IF sent THEN [At(r, "wire") EXCEPT !.lease = keep]
                                 ELSE At(r, "recover")]
    /\ net' = IF sent THEN [net EXCEPT ![c].flights = @ \cup {flight}] ELSE net
    /\ UNCHANGED <<gate, cleaning, ctx, recovery, target, served>>

(* wire.request fails: the context is done or the transport failed.  What  *)
(* was sent may still arrive.                                              *)
WireFails(r) ==
    LET c == req[r].c IN
    /\ req[r].pc = "wire"
    /\ ToRecover(r)
    /\ net' = [net EXCEPT ![c].reply = NoReply,
                          ![c].flights = {[f EXCEPT !.heard = FALSE] : f \in @}]
    /\ UNCHANGED <<cur, gate, cleaning, reserve, ctx, recovery, target,
                   served>>

(* The answer as openPIT, cursorPage or sqlPage reads it: unidentified (no *)
(* usable identifier), foreign (an identifier of the other kind too),      *)
(* incomplete (rejected by a later check), or good.                        *)
Reading == {"unidentified", "foreign", "incomplete", "good"}

ReceiveReply(r, reading, rotated) ==
    LET c == req[r].c
        k == cur[c]
        reply == net[c].reply
        lastSql == k.kind = "sql" /\ ~reply.more
        id == IF lastSql THEN [k EXCEPT !.uncertain = FALSE, !.done = TRUE]
              ELSE Capture(k, rotated)
        good == [id EXCEPT !.serverUntil = k.nativeLease,
                           !.expires = Lower(req[r].lease, k.absolute)]
        creation == k.kind = "pit" /\ k.ids = 0 IN
    /\ req[r].pc = "wire" /\ reply.status # "none"
    /\ reply.status = "gone" => reading = "unidentified"
    /\ reading = "foreign" => k.kind # "sql" /\ ~creation
    /\ Store(c, CASE reading = "unidentified" -> k
                  [] reading = "foreign" -> [id EXCEPT !.uncertain = TRUE]
                  [] reading = "incomplete" -> id
                  [] reading = "good" -> good)
    /\ req' = [req EXCEPT ![r] =
                 IF reading = "good" /\ creation THEN At(r, "dispatch")
                 ELSE IF reading = "good" /\ ctx[r]
                      THEN [At(r, "page") EXCEPT !.more = reply.more]
                      ELSE At(r, "recover")]
    /\ net' = [net EXCEPT
                 ![c].reply = NoReply,
                 ![c].pos = IF k.kind = "pit" /\ ~creation /\ reading = "good"
                               /\ reply.more THEN @ + 1 ELSE @]
    /\ UNCHANGED <<gate, cleaning, ctx, recovery, target, served>>

(* A PIT batch searches again on its snapshot for the next member, and     *)
(* executeSQL asks for the next page.                                      *)
NextMember(r) ==
    LET c == req[r].c IN
    /\ req[r].pc = "page" /\ net[c].pos < MaxPages
    /\ \/ req[r].op = "batch"
       \/ req[r].op = "drain" /\ ~cur[c].done /\ Usable(c)
    /\ Goto(r, "dispatch")
    /\ UNCHANGED <<cur, gate, cleaning, reserve, ctx, recovery, net, target,
                   served>>

(* verifySources, then usableCursor again now that the page is here.       *)
AcceptPage(r) ==
    LET c == req[r].c IN
    /\ req[r].pc = "page" /\ req[r].op # "drain" /\ Usable(c)
    /\ Goto(r, IF req[r].op = "batch" THEN "close"
               ELSE IF req[r].op = "next" /\ cur[c].kind = "pit" THEN "update"
               ELSE "result")
    /\ UNCHANGED <<cur, gate, cleaning, reserve, ctx, recovery, net,
                   target, served>>

(* cursorResult, sqlCursorResult: a page, and the handle to go on with.    *)
ServePage(r) ==
    LET c == req[r].c IN
    /\ req[r].pc = "result" /\ ~cur[c].done
    /\ req[r].more
    /\ served' = [served EXCEPT ![c] = @ + 1]
    /\ Finish(r)
    /\ UNCHANGED <<cur, cleaning, reserve, recovery, net, epoch,
                   closed>>

(* An aggregation-only PIT page has no hits and leaves the cursor open.    *)
ServeAggregation(r) ==
    /\ req[r].pc = "result" /\ ~req[r].more /\ cur[req[r].c].kind = "pit"
    /\ Finish(r)
    /\ UNCHANGED <<cur, cleaning, reserve, recovery, net, epoch,
                   closed, served>>

(* An empty page of hits: the cursor is recovered within the call.         *)
Exhausted(r) ==
    /\ req[r].pc = "result" /\ ~req[r].more /\ ~cur[req[r].c].done
    /\ req' = [req EXCEPT ![r] = [At(r, "recover") EXCEPT !.result = TRUE]]
    /\ UNCHANGED <<cur, gate, cleaning, reserve, ctx, recovery, net,
                   target, served>>

(* sqlCursorResult and executeSQL release a drained SQL cursor at once.    *)
DrainedSql(r) ==
    LET c == req[r].c IN
    /\ req[r].pc = IF req[r].op = "drain" THEN "page" ELSE "result"
    /\ cur[c].done
    /\ Store(c, Release(cur[c]))
    /\ Finish(r)
    /\ UNCHANGED <<cleaning, recovery, net, epoch, closed,
                   served>>

(* recoverCursor.  pitBatch's deferred cancel runs before its deferred     *)
(* recovery, which therefore always finds the context done.                *)
Late(r) == ~ctx[r] \/ req[r].op = "batch"

(* encodedLimit may reject the result of an exhausted cursor, which        *)
(* recovers once more.                                                     *)
AfterRecovery(r) ==
    \/ Finish(r)
    \/ /\ req[r].result
       /\ ToRecover(r)
       /\ UNCHANGED <<gate, ctx, gone>>

RecoverCursor(r) ==
    LET c == req[r].c
        k == Disable(cur[c]) IN
    /\ req[r].pc = "recover"
    /\ IF k.st = "open" /\ ~Late(r) /\ CallsServer(k)
       THEN /\ Store(c, k)
            /\ req' = [req EXCEPT ![r].pc = "clean", ![r].recovering = TRUE]
            /\ cleaning' = cleaning \cup {c}
            /\ UNCHANGED <<gate, ctx, gone, recovery>>
       ELSE /\ IF k.st # "open" THEN Store(c, k) /\ UNCHANGED recovery
               ELSE IF Late(r) THEN QueueRecovery(c, k)
               ELSE QueueRecovery(c, CleanupLocal(k))
            /\ AfterRecovery(r)
            /\ UNCHANGED cleaning
    /\ UNCHANGED <<net, epoch, closed, served>>

(* es_cursor close, and the end of a PIT batch: cleanupCursor.             *)
CloseCursor(r) ==
    LET c == req[r].c
        k == Disable(cur[c]) IN
    /\ req[r].pc = "close"
    /\ IF CallsServer(k)
       THEN /\ Store(c, k)
            /\ Goto(r, "clean")
            /\ cleaning' = cleaning \cup {c}
            /\ UNCHANGED <<gate, ctx, gone>>
       ELSE Store(c, CleanupLocal(k)) /\ Finish(r) /\ UNCHANGED cleaning
    /\ UNCHANGED <<recovery, net, epoch, closed, served>>

(* The caller's context ends: deadline, cancellation, its session's        *)
(* disconnect or the target's Close.                                       *)
ContextDone(r) ==
    /\ req[r].pc # "idle" /\ ctx[r]
    /\ ctx' = [ctx EXCEPT ![r] = FALSE]
    /\ gone' = IF req[r].op \in Private THEN gone \cup {req[r].c} ELSE gone
    /\ UNCHANGED <<cur, gate, cleaning, reserve, req, recovery, net,
                   epoch, closed, served>>

-----------------------------------------------------------------------------
(* The server's answer to cleanupCursor, for whoever holds the gate.  The  *)
(* context is cleared by a confirmed call and perhaps by a failed one.     *)

CleanupAnswered(c, confirmed, cleared) ==
    LET h == gate[c]
        k == Answered(cur[c], confirmed)
        failed == ~confirmed \/ cur[c].uncertain IN
    /\ c \in cleaning /\ (confirmed => cleared)
    /\ cleaning' = cleaning \ {c}
    /\ net' = IF cleared THEN [net EXCEPT ![c].native = 0] ELSE net
    /\ IF h \in Requests
       THEN /\ IF req[h].recovering /\ failed THEN QueueRecovery(c, k)
               ELSE Store(c, k) /\ UNCHANGED recovery
            /\ IF req[h].recovering THEN AfterRecovery(h) ELSE Finish(h)
       ELSE /\ Store(c, k)
            /\ gate' = [gate EXCEPT ![c] = Free]
            /\ UNCHANGED <<req, ctx, gone, recovery>>
    /\ UNCHANGED <<epoch, closed, served>>

(* cleanupCursor by a holder that is not a request and has the gate.       *)
CleanupByHolder(c, h, k) ==
    IF CallsServer(k)
    THEN /\ Store(c, k)
         /\ gate' = [gate EXCEPT ![c] = h]
         /\ cleaning' = cleaning \cup {c}
    ELSE /\ Store(c, CleanupLocal(k))
         /\ gate' = [gate EXCEPT ![c] = Free]
         /\ UNCHANGED cleaning

(* The goroutine recoverCursor starts: without a permit, response memory   *)
(* or the gate in time it ends, and recoveryQueued stays set.              *)
RecoveryGivesUp(c) ==
    /\ c \in recovery
    /\ recovery' = recovery \ {c}
    /\ UNCHANGED <<cur, gate, cleaning, reserve, req, ctx, net, target,
                   served>>

RecoveryRuns(c) ==
    /\ c \in recovery /\ gate[c] = Free
    /\ recovery' = recovery \ {c}
    /\ CleanupByHolder(c, "recovery", Disable([cur[c] EXCEPT !.queued = FALSE]))
    /\ UNCHANGED <<req, ctx, net, target, served>>

(* Mutant: a renewed cursor is not given another timer.                    *)
TimerRunsOnce(c) ==
    LET k == [cur[c] EXCEPT !.timer = NoTimer] IN
    /\ cur[c].timer = 0 /\ gate[c] = Free
    /\ Store(c, IF k.st = "open" /\ k.serverUntil = 0 THEN Release(k) ELSE k)
    /\ UNCHANGED <<gate, cleaning, req, ctx, recovery, net, target, served>>

(* The callback of the retirement timer, once it has the gate.             *)
TimerRuns(c) ==
    LET k == [cur[c] EXCEPT !.timer = NoTimer] IN
    /\ cur[c].timer = 0 /\ gate[c] = Free
    /\ Store(c, IF k.st = "open" THEN Retire(k) ELSE k)
    /\ UNCHANGED <<gate, cleaning, req, ctx, recovery, net, target,
                   served>>

-----------------------------------------------------------------------------
(* Sweeps: reapCursors every second, closeOwnedCursors for a disconnected  *)
(* session and for Close.  A sweep visits, one at a time, the cursors of   *)
(* an inventory that may be stale: any cursor that is or was registered.   *)

Visiting(s) == \E c \in Cursors : gate[c] = s

MayVisit(s, c) ==
    /\ cur[c].st \in {"open", "released"} /\ gate[c] = Free /\ ~Visiting(s)
    /\ CASE s = "reaper" -> ~closed
         [] s = "shutdown" -> closed /\ ~Visiting("reaper")    \* wg.Wait
         [] OTHER -> s \in gone /\ cur[c].owner \in {s, NoCursor}

(* The reaper passes over a cursor that is busy, was tried just now or is  *)
(* usable (a stale proof makes none usable); it keeps the gate while it    *)
(* waits for its maintenance permit.                                       *)
ReaperLocks(c) ==
    /\ MayVisit("reaper", c)
    /\ cur[c].retryAfter = 0
    /\ gate' = [gate EXCEPT ![c] = "reaper"]
    /\ UNCHANGED <<cur, cleaning, reserve, req, ctx, recovery, net, target,
                   served>>

ReaperGivesUp(c) ==
    /\ gate[c] = "reaper" /\ c \notin cleaning
    /\ gate' = [gate EXCEPT ![c] = Free]
    /\ UNCHANGED <<cur, cleaning, reserve, req, ctx, recovery, net, target,
                   served>>

ReaperCleans(c) ==
    /\ gate[c] = "reaper" /\ c \notin cleaning
    /\ CleanupByHolder(c, "reaper", Disable(cur[c]))
    /\ UNCHANGED <<req, ctx, recovery, net, target, served>>

(* closeOwnedCursors locks and cleans up each cursor of its owner, or all. *)
SweepCloses(s, c) ==
    /\ s # "reaper" /\ MayVisit(s, c)
    /\ CleanupByHolder(c, s, Disable(cur[c]))
    /\ UNCHANGED <<req, ctx, recovery, net, target, served>>

-----------------------------------------------------------------------------
(* The rest of the target, the sessions, the clock and the server.         *)

Disconnect(o) ==
    /\ o \notin gone
    /\ gone' = gone \cup {o}
    /\ UNCHANGED <<cur, gate, cleaning, reserve, req, ctx, recovery, net, epoch, closed, served>>

(* attest finds other privileges: authorityEpoch.Add(1).                   *)
AuthorityDrift ==
    /\ ~closed /\ epoch < MaxEpoch
    /\ epoch' = epoch + 1
    /\ UNCHANGED <<cur, gate, cleaning, reserve, req, ctx, recovery, net, gone, closed, served>>

Close ==
    /\ ~closed /\ closed' = TRUE
    /\ UNCHANGED <<cur, gate, cleaning, reserve, req, ctx, recovery, net, gone, epoch, served>>

TickCursor(k) ==
    [k EXCEPT !.expires = Less(@), !.absolute = Less(@),
              !.serverUntil = Less(@), !.retryAfter = Less(@),
              !.timer = Less(@)]

TickNet(n) ==
    [n EXCEPT !.native = Less(@),
              !.flights = {[f EXCEPT !.left = @ - 1] :
                              f \in {g \in @ : g.left > 1}}]

Tick ==
    /\ cur' = [c \in Cursors |-> TickCursor(cur[c])]
    /\ net' = [c \in Cursors |-> TickNet(net[c])]
    /\ UNCHANGED <<gate, cleaning, reserve, req, ctx, recovery, target,
                   served>>

(* The server processes a request within MaxTimeout of its dispatch.  A    *)
(* context lives for the longest keep-alive it was ever given; scroll and  *)
(* SQL contexts move on by a page; a drained SQL cursor is freed.          *)
ServerProcesses(c, f, more) ==
    LET n == net[c]
        ka == Higher(n.keepAlive, f.lease)
        answer == [status |-> IF f.create \/ n.native > 0 THEN "ok" ELSE "gone",
                   more |-> more]
        alive == answer.status = "ok" IN
    /\ f \in n.flights /\ (more => n.pos < MaxPages)
    /\ net' = [net EXCEPT ![c] =
         [n EXCEPT !.flights = @ \ {f},
                   !.keepAlive = IF alive THEN ka ELSE @,
                   !.native = IF ~alive \/ (cur[c].kind = "sql" /\ ~more)
                              THEN 0 ELSE ka,
                   !.pos = IF alive /\ more /\ cur[c].kind # "pit"
                           THEN @ + 1 ELSE @,
                   !.reply = IF f.heard THEN answer ELSE @]]
    /\ UNCHANGED <<cur, gate, cleaning, reserve, req, ctx, recovery,
                   target, served>>

-----------------------------------------------------------------------------
StartRequest(r) ==
    \E c \in Cursors :
       \/ \E op \in {"open"} \cup Private, o \in Owners \cup {c}, kind \in Kinds,
             charge \in Charges : Reserve(r, c, op, o, kind, charge)
       \/ \E o \in Owners, op \in {"next", "close"} : Lookup(r, c, o, op)

RequestStep(r) ==
    \/ PublishRefused(r) \/ Publish(r)
    \/ \E charge \in Charges : UpdateQuery(r, charge)
    \/ Abandon(r) \/ LockTimeout(r) \/ Refuse(r) \/ DispatchRefused(r)
    \/ \E fresh \in BOOLEAN : Lock(r, fresh)
    \/ \E keep \in Keeps, sent \in BOOLEAN : BeginDispatch(r, keep, sent)
    \/ WireFails(r)
    \/ \E reading \in Reading, rotated \in BOOLEAN :
          ReceiveReply(r, reading, rotated)
    \/ NextMember(r) \/ AcceptPage(r)
    \/ ServePage(r) \/ ServeAggregation(r) \/ Exhausted(r) \/ DrainedSql(r)
    \/ RecoverCursor(r) \/ CloseCursor(r)

CleanupStep(c) ==
    \E confirmed, cleared \in BOOLEAN : CleanupAnswered(c, confirmed, cleared)

ReaperStep(c) == ReaperLocks(c) \/ ReaperGivesUp(c) \/ ReaperCleans(c)

ServerStep(c) ==
    \E f \in net[c].flights, more \in BOOLEAN : ServerProcesses(c, f, more)

Next ==
    \/ \E r \in Requests : StartRequest(r) \/ RequestStep(r) \/ ContextDone(r)
    \/ \E c \in Cursors : \/ CleanupStep(c) \/ ReaperStep(c) \/ ServerStep(c)
                          \/ RecoveryGivesUp(c) \/ RecoveryRuns(c)
                          \/ TimerRuns(c)
    \/ \E s \in Sweepers, c \in Cursors : SweepCloses(s, c)
    \/ \E o \in Owners : Disconnect(o)
    \/ AuthorityDrift \/ Close \/ Tick


(* Every call has a deadline, so its context ends; handlers, the server    *)
(* call of a cleanup (bounded by its context) and the timer callback run.  *)
(* The gate is a Go channel, which serves those waiting in turn: a timer   *)
(* callback that keeps finding it free again is served.                    *)
Fairness ==
    /\ WF_vars(Tick)
    /\ \A r \in Requests : WF_vars(ContextDone(r)) /\ WF_vars(RequestStep(r))
    /\ \A c \in Cursors :
          /\ WF_vars(CleanupStep(c)) /\ SF_vars(TimerRuns(c))
          /\ WF_vars(ReaperGivesUp(c) \/ ReaperCleans(c))

Spec == Init /\ [][Next]_vars
FairSpec == Spec /\ Fairness

-----------------------------------------------------------------------------
(* Properties *)

Flight == [left : 1..MaxTimeout, lease : Nat, heard : BOOLEAN,
           create : BOOLEAN]

CursorType ==
    [st : {"unused", "reserved", "open", "released"},
     kind : {"pit", "scroll", "sql"},
     owner : Owners \cup Cursors \cup {NoCursor}, epoch : Nat,
     invalid : BOOLEAN, uncertain : BOOLEAN, done : BOOLEAN, queued : BOOLEAN,
     ids : 0..2, bytes : Nat, dispatched : BOOLEAN, expires : Nat,
     absolute : Nat, serverUntil : Nat, nativeLease : Nat, retryAfter : Nat,
     timer : Nat \cup {NoTimer}]

RequestType ==
    [pc : {"idle", "publish", "update", "wait", "dispatch", "wire", "page",
           "result", "recover", "close", "clean"},
     op : {"none", "open", "batch", "drain", "next", "close"},
     c : Cursors \cup {NoCursor}, lease : Nat, more : BOOLEAN,
     recovering : BOOLEAN, result : BOOLEAN]

NetType ==
    [native : Nat, keepAlive : Nat, pos : Nat, flights : SUBSET Flight,
     reply : [status : {"none", "ok", "gone"}, more : BOOLEAN]]

(* Every field of the registry, of its actors and of the server has the    *)
(* type the code gives it.                                                 *)
TypeOK ==
    /\ cur \in [Cursors -> CursorType]
    /\ gate \in [Cursors -> Holders \cup {Free}]
    /\ cleaning \subseteq Cursors /\ recovery \subseteq Cursors
    /\ memory \in Nat /\ slots \in Nat
    /\ req \in [Requests -> RequestType] /\ ctx \in [Requests -> BOOLEAN]
    /\ net \in [Cursors -> NetType]
    /\ gone \subseteq Owners \cup Cursors
    /\ epoch \in Nat /\ closed \in BOOLEAN
    /\ served \in [Cursors -> Nat]

(* No orphan: while the server holds a context of a cursor, or may still   *)
(* create one for a request whose answer was lost, the cursor keeps its    *)
(* slot and memory ("a timeout must not allow infinite orphans").          *)
NoOrphan ==
    \A c \in Cursors :
       net[c].native > 0 \/ (\E f \in net[c].flights : f.create)
          => cur[c].st = "open"

(* The cursors that have a slot, and the units of memory they have.        *)
Reservations == {c \in Cursors : cur[c].st \in {"reserved", "open"}}
Units == UNION {{c} \X (1..cur[c].bytes) : c \in Reservations}

(* The reservations handed out are exactly those of the cursors that are   *)
(* being reserved or registered: none leaks on a refusal or a failed open, *)
(* none is returned twice by the many paths that release.                  *)
BudgetExact ==
    /\ slots = Cardinality(Reservations)
    /\ memory = Cardinality(Units)

(* A cursor its owner could continue is in a definite state: its last      *)
(* answer was read, it has an identifier to continue with (cursorPage      *)
(* indexes ids[0] unchecked), nothing is on its way to the server, and its *)
(* position is the page after the last one delivered: no page is skipped.  *)
ContinuesInStep ==
    \A c \in Cursors :
       gate[c] = Free /\ Usable(c) =>
          /\ cur[c].ids > 0 /\ ~cur[c].uncertain
          /\ net[c].flights = {}
          /\ net[c].pos = served[c]

(* What Contexts calls the state, the memory, the server's context and the *)
(* page of each cursor.                                                    *)
States == [c \in Cursors |-> cur[c].st]
Shares == [c \in Cursors |-> IF c \in Reservations THEN cur[c].bytes ELSE 0]

ContextOf(k, n) ==
    IF n.native > 0 THEN "there"
    ELSE IF \E f \in n.flights : f.create THEN "coming"
    ELSE IF k.dispatched \/ k.st = "released" THEN "gone"
    ELSE "none"

Natives == [c \in Cursors |-> ContextOf(cur[c], net[c])]
Positions == [c \in Cursors |-> net[c].pos]

Abstract == INSTANCE Contexts
    WITH Handles <- Cursors, Amounts <- Charges, state <- States,
         share <- Shares, context <- Natives, place <- Positions,
         pages <- served

(* The registry implements Contexts: whatever requests, sweeps, recovery,  *)
(* timers and a slow server do in whichever order, a handle has one        *)
(* context in its life, keeps slot and memory until the server can hold    *)
(* nothing of it, and its client gets the pages in order                   *)
(* (cursor_registry.go:58-119, cursor.go:77-164).                          *)
ImplementsContexts == Abstract!Spec

(* The lease a client is told never outlives the reservation behind it:    *)
(* while a cursor is usable its retirement timer is armed or has fired and *)
(* its native horizon lies no earlier than its local expiry.               *)
LeaseWithinHorizon ==
    \A c \in Cursors :
       Usable(c) => /\ cur[c].serverUntil >= cur[c].expires
                    /\ cur[c].timer # NoTimer

(* Every reservation is returned, whatever the server, the sessions, the   *)
(* reaper and Close do: the retirement timer needs none of them.           *)
EveryReservationReturned ==
    \A c \in Cursors : cur[c].st = "open" ~> cur[c].st = "released"

(* docs/ARCHITECTURE.md: normal cleanup uses the remaining caller          *)
(* deadline; a canceled request schedules a separate maintenance attempt.  *)
(* So a request queues a background attempt only if its context is done    *)
(* or its own cleanup has been tried.                                      *)
CleansWithinDeadline ==
    [][\A r \in Requests :
          /\ req[r].pc = "recover" /\ ctx[r]
          /\ req'[r].pc = "idle"
          => \/ recovery' = recovery
             \/ cur[req[r].c].ids = 0]_vars
=============================================================================
