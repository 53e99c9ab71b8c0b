----------------------------- MODULE EsAuthority -----------------------------
(***************************************************************************)
(* The authority of an Elasticsearch target: the maintenance goroutine     *)
(* that attests it, the requests and cursor calls that rely on the proof,  *)
(* and the epoch that ties a cursor to the authority it was opened under   *)
(* (internal/dialects/elasticsearch/{target,authority,query}.go).          *)
(*                                                                         *)
(* An authority is what its hash tells apart.  A cursor keeps whether its  *)
(* epoch is still the target's: every authorityEpoch.Add ends that for     *)
(* good.  Times are ages that EsTick lets grow; a goroutine that is not    *)
(* waiting takes no time, but the maintenance goroutine may start late (a  *)
(* suspended host), which refresh provides for.                            *)
(***************************************************************************)
EXTENDS Integers

CONSTANTS
    Callers,           \* es_query, es_batch, es_cursor_open and es_cursor_next calls
    Authorities,       \* the authorities the cluster may report
    AuthorityRecheck,  \* privilege_recheck_interval
    ConnectTimeout,    \* connection.connect_timeout, the context of a refresh
    RequestTimeout     \* limits.max_timeout

(* What config.Validate makes of the times.                                *)
ASSUME AuthorityAssumption ==
    AuthorityRecheck \in Nat /\ ConnectTimeout \in Nat /\ RequestTimeout \in Nat

VARIABLES
    esHealthy,     \* Target.healthy
    esChecked,     \* the age of Target.checked
    hash,          \* Target.authorityHash
    closed,        \* Target.closed
    cursor,        \* one owned cursor; lapsed is history
    esCall,        \* the calls
    refresh,       \* the maintenance goroutine
    esDue, since,  \* a tick waits in the ticker's channel; time since the last
    lastRead       \* history: how long ago each authority was last reported

esVars == <<esHealthy, esChecked, hash, closed, cursor, esCall, refresh, esDue, since, lastRead>>

ReadLimit == AuthorityRecheck + ConnectTimeout

ReadOlder(a) == IF a > ReadLimit THEN a ELSE a + 1
TimeLess(n) == IF n = 0 THEN 0 ELSE n - 1

IdleCall == [at |-> "idle", kind |-> "query", left |-> 0]
IdleRefresh == [at |-> "idle", left |-> 0, got |-> hash]
NoCursor == [open |-> FALSE, current |-> FALSE, hash |-> hash, lapsed |-> FALSE]

(* Open: the startup refresh has succeeded.                                *)
EsInit ==
    /\ esHealthy = TRUE /\ esChecked = 0 /\ closed = FALSE
    /\ hash \in Authorities
    /\ cursor = NoCursor
    /\ esCall = [c \in Callers |-> IdleCall]
    /\ refresh = IdleRefresh
    /\ esDue = FALSE /\ since = 0
    /\ lastRead = [a \in Authorities |-> IF a = hash THEN 0 ELSE ReadLimit + 1]

proof == <<esHealthy, esChecked, hash>>
clock == <<esDue, since, lastRead>>
-----------------------------------------------------------------------------
(* ready and invalidateAuthority: healthy.Swap, and when that was TRUE     *)
(* authorityEpoch.Add in a step of its own.                                *)

readyOK == ~closed /\ esHealthy /\ esChecked < AuthorityRecheck

NextEpoch == cursor' = [cursor EXCEPT !.current = FALSE]

RequestGoto(c, where) == esCall' = [esCall EXCEPT ![c].at = where] /\ UNCHANGED cursor

(* recoverCursor: a call that fails while it holds the cursor ends it.     *)
HoldsCursor(c) ==
    esCall[c].at \in {"use", "dispatch", "epoch", "sent", "verify"} /\ esCall[c].kind # "query"
RequestReturns(c) == esCall' = [esCall EXCEPT ![c] = IdleCall] /\ UNCHANGED cursor
Fails(c) ==
    /\ esCall' = [esCall EXCEPT ![c] = IdleCall]
    /\ cursor' = IF HoldsCursor(c) THEN NoCursor ELSE cursor

(* The call fails and invalidates the authority.                           *)
Invalidates(c) ==
    /\ esHealthy' = FALSE
    /\ esCall' = [esCall EXCEPT ![c] =
                    IF esHealthy THEN [IdleCall EXCEPT !.at = "bump"] ELSE IdleCall]
    /\ cursor' = IF HoldsCursor(c) THEN NoCursor ELSE cursor

Proceeds(c, where) == readyOK /\ RequestGoto(c, where) /\ UNCHANGED esHealthy
Refused(c) == ~readyOK /\ Invalidates(c)

Bump(c) ==
    /\ esCall[c].at = "bump"
    /\ NextEpoch
    /\ esCall' = [esCall EXCEPT ![c] = IdleCall]
    /\ UNCHANGED <<proof, closed, refresh, clock>>
-----------------------------------------------------------------------------
(* The calls.  One at a time holds the cursor's gate.                      *)

UsesCursor(c) == esCall[c].at # "idle" /\ esCall[c].kind # "query"

(* requestLease: ready, then the wait for a permit.                        *)
RequestBegins(c) ==
    /\ esCall[c].at = "idle"
    /\ \E kind \in {"query", "open", "next"} :
        /\ kind # "query" => \A d \in Callers : ~UsesCursor(d)
        /\ kind = "open" => ~cursor.open
        /\ kind = "next" => cursor.open
        /\ \/ readyOK /\ UNCHANGED <<esHealthy, cursor>>
              /\ esCall' = [esCall EXCEPT ![c] =
                              [at |-> "wait", kind |-> kind, left |-> RequestTimeout]]
           \/ Refused(c)
    /\ UNCHANGED <<esChecked, hash, closed, refresh, clock>>

(* A permit, or an error.                                                  *)
Admitted(c) ==
    /\ esCall[c].at = "wait"
    /\ \/ /\ esCall[c].left > 0
          /\ RequestGoto(c, IF esCall[c].kind = "query" THEN "dispatch" ELSE "use")
       \/ Fails(c)
    /\ UNCHANGED <<proof, closed, refresh, clock>>

(* reserveCursor takes the epoch of this moment.                           *)
Reserve(c) ==
    /\ esCall[c].at = "use" /\ esCall[c].kind = "open"
    /\ \/ closed /\ Fails(c)
       \/ /\ ~closed
          /\ cursor' = [open |-> TRUE, current |-> TRUE, hash |-> hash, lapsed |-> FALSE]
          /\ esCall' = [esCall EXCEPT ![c].at = "dispatch"]
    /\ UNCHANGED <<proof, closed, refresh, clock>>

(* usableCursor, before the page and when its sources were verified: the   *)
(* epoch, then ready.                                                      *)
Usable(c) ==
    /\ esCall[c].at = "verify" \/ (esCall[c].at = "use" /\ esCall[c].kind = "next")
    /\ \/ ~cursor.current /\ Fails(c) /\ UNCHANGED esHealthy
       \/ cursor.current /\ Refused(c)
       \/ cursor.current /\ esCall[c].at = "use" /\ Proceeds(c, "dispatch")
       \/ /\ cursor.current /\ esCall[c].at = "verify" /\ readyOK
          /\ RequestReturns(c) /\ UNCHANGED esHealthy
    /\ UNCHANGED <<esChecked, hash, closed, refresh, clock>>

(* execute or beginCursorDispatch, after the source was proved: ready ...  *)
Dispatch(c) ==
    /\ esCall[c].at = "dispatch"
    /\ \/ Proceeds(c, IF esCall[c].kind = "query" THEN "send" ELSE "epoch")
       \/ Refused(c)
    /\ UNCHANGED <<esChecked, hash, closed, refresh, clock>>

(* ... and for a cursor its epoch again.                                   *)
DispatchEpoch(c) ==
    /\ esCall[c].at = "epoch"
    /\ \/ cursor.current /\ RequestGoto(c, "send")
       \/ ~cursor.current /\ Fails(c)
    /\ UNCHANGED <<proof, closed, refresh, clock>>

(* The request goes out.                                                   *)
Send(c) ==
    /\ esCall[c].at = "send"
    /\ RequestGoto(c, "sent")
    /\ UNCHANGED <<proof, closed, refresh, clock>>

(* The answer, an error or the deadline; recordQuery: a denial or a        *)
(* mismatch invalidates the authority.                                     *)
Answered(c) ==
    /\ esCall[c].at = "sent"
    /\ \/ esCall[c].kind = "query" /\ RequestReturns(c) /\ UNCHANGED esHealthy
       \/ esCall[c].kind # "query" /\ RequestGoto(c, "verify") /\ UNCHANGED esHealthy
       \/ Fails(c) /\ UNCHANGED esHealthy
       \/ Invalidates(c)
    /\ UNCHANGED <<esChecked, hash, closed, refresh, clock>>

(* The cursor's retirement, which EsCursor models.                         *)
CursorRetired ==
    /\ cursor.open /\ \A c \in Callers : ~UsesCursor(c)
    /\ cursor' = NoCursor
    /\ UNCHANGED <<proof, closed, esCall, refresh, clock>>
-----------------------------------------------------------------------------
(* maintain and refresh.                                                   *)

Step(where) == refresh' = [refresh EXCEPT !.at = where]

(* refresh invalidates: it goes on at where, by way of Add when healthy    *)
(* was TRUE.                                                               *)
RefreshInvalidates(add, where) == esHealthy' = FALSE /\ Step(IF esHealthy THEN add ELSE where)

(* Mutant: a proof that has lapsed is renewed without a new epoch.         *)
RefreshBeginsQuietly ==
    /\ refresh.at = "idle" /\ esDue
    /\ esDue' = FALSE
    /\ refresh' = [at |-> "acquire", left |-> IF closed THEN 0 ELSE ConnectTimeout, got |-> hash]
    /\ UNCHANGED <<proof, closed, cursor, esCall, since, lastRead>>

(* Mutant: the refresh has twice its time.                                 *)
RefreshBeginsLonger ==
    /\ refresh.at = "idle" /\ esDue
    /\ esDue' = FALSE
    /\ refresh' = [at |-> "acquire", left |-> 2 * ConnectTimeout, got |-> hash]
    /\ UNCHANGED <<proof, closed, cursor, esCall, since, lastRead>>

RefreshBegins ==
    /\ refresh.at = "idle" /\ esDue
    /\ esDue' = FALSE
    /\ LET lapsed == esChecked >= AuthorityRecheck IN
        /\ esHealthy' = (esHealthy /\ ~lapsed)
        /\ refresh' = [at |-> IF lapsed /\ esHealthy THEN "addFirst" ELSE "acquire",
                       left |-> IF closed THEN 0 ELSE ConnectTimeout, got |-> hash]
    /\ UNCHANGED <<esChecked, hash, closed, cursor, esCall, since, lastRead>>

(* authorityEpoch.Add: before the attestation, after a change of the hash, *)
(* after a failure.                                                        *)
RefreshAdds ==
    /\ \/ refresh.at = "addFirst" /\ Step("acquire")
       \/ refresh.at = "addChanged" /\ Step("store")
       \/ refresh.at = "addFailed" /\ Step("idle")
    /\ NextEpoch
    /\ UNCHANGED <<proof, closed, esCall, clock>>

(* No permit, no memory, an endpoint that fails or an authority that is    *)
(* not the configured one.                                                 *)
RefreshFails ==
    /\ refresh.at \in {"acquire", "attest", "attested"}
    /\ RefreshInvalidates("addFailed", "idle")
    /\ UNCHANGED <<esChecked, hash, closed, cursor, esCall, clock>>

RefreshAdmitted ==
    /\ refresh.at = "acquire" /\ refresh.left > 0
    /\ Step("attest")
    /\ UNCHANGED <<proof, closed, cursor, esCall, clock>>

(* attest reads the authority that the cluster reports now.                *)
AttestReads ==
    /\ refresh.at = "attest" /\ refresh.left > 0
    /\ \E a \in Authorities :
        /\ refresh' = [refresh EXCEPT !.at = "attested", !.got = a]
        /\ lastRead' = [lastRead EXCEPT ![a] = 0]
    /\ UNCHANGED <<proof, closed, cursor, esCall, esDue, since>>

(* Mutant: a change of authority keeps the epoch.                          *)
AttestKeepsEpoch ==
    /\ refresh.at = "attested" /\ refresh.left > 0
    /\ hash' = refresh.got
    /\ Step("store")
    /\ UNCHANGED <<esHealthy, esChecked, closed, cursor, esCall, clock>>

(* Under authorityMu: another hash is assigned, then a new epoch begins.   *)
AttestEnds ==
    /\ refresh.at = "attested" /\ refresh.left > 0
    /\ hash' = refresh.got
    /\ Step(IF refresh.got = hash THEN "store" ELSE "addChanged")
    /\ UNCHANGED <<esHealthy, esChecked, closed, cursor, esCall, clock>>

(* checked and healthy, whatever was invalidated since the attestation.    *)
RefreshStores ==
    /\ refresh.at = "store"
    /\ esChecked' = 0 /\ esHealthy' = TRUE
    /\ Step("idle")
    /\ UNCHANGED <<hash, closed, cursor, esCall, clock>>

MaintainStops ==
    /\ refresh.at = "idle" /\ closed
    /\ Step("stopped")
    /\ UNCHANGED <<proof, closed, cursor, esCall, clock>>

(* Close: the flag, the health without a new epoch, every context.         *)
EsCloses ==
    /\ ~closed
    /\ closed' = TRUE /\ esHealthy' = FALSE
    /\ esCall' = [c \in Callers |-> [esCall[c] EXCEPT !.left = 0]]
    /\ refresh' = [refresh EXCEPT !.left = 0]
    /\ UNCHANGED <<esChecked, hash, cursor, clock>>
-----------------------------------------------------------------------------
RequestWaits(c) ==
    \/ esCall[c].at = "idle"
    \/ esCall[c].at \in {"wait", "dispatch", "sent"} /\ esCall[c].left > 0

RefreshWaits ==
    \/ refresh.at \in {"idle", "stopped"}
    \/ refresh.at \in {"acquire", "attest", "attested"} /\ refresh.left > 0

RefreshPeriod == IF AuthorityRecheck \div 2 = 0 THEN 1 ELSE AuthorityRecheck \div 2

(* A cursor that is reserved and waits for its first dispatch stands for   *)
(* no context of the cluster, and no caller has its handle.                *)
Opening == \E c \in Callers : esCall[c].kind = "open" /\ esCall[c].at = "dispatch"

(* The proof has lapsed and nobody renews it: no refresh is under way that *)
(* began before the lapse, or one has outlasted its context.               *)
Lapsing(age) ==
    age >= AuthorityRecheck /\ (refresh.at \in {"idle", "stopped"} \/ age > ReadLimit)

EsTick ==
    /\ \A c \in Callers : RequestWaits(c)
    /\ RefreshWaits
    /\ esChecked' = ReadOlder(esChecked)
    /\ lastRead' = [a \in Authorities |-> ReadOlder(lastRead[a])]
    /\ esCall' = [c \in Callers |-> [esCall[c] EXCEPT !.left = TimeLess(@)]]
    /\ refresh' = [refresh EXCEPT !.left = TimeLess(@)]
    /\ cursor' = [cursor EXCEPT !.lapsed = @ \/ (cursor.open /\ ~Opening /\ Lapsing(esChecked'))]
    /\ since' = (since + 1) % RefreshPeriod
    /\ esDue' = (esDue \/ since + 1 = RefreshPeriod)
    /\ UNCHANGED <<esHealthy, hash, closed>>

RequestStep(c) ==
    \/ RequestBegins(c) \/ Admitted(c) \/ Reserve(c) \/ Usable(c) \/ Dispatch(c)
    \/ DispatchEpoch(c) \/ Send(c) \/ Answered(c) \/ Bump(c)

RefreshStep ==
    \/ RefreshBegins \/ RefreshAdds \/ RefreshFails \/ RefreshAdmitted
    \/ AttestReads \/ AttestEnds \/ RefreshStores \/ MaintainStops

EsNext ==
    \/ \E c \in Callers : RequestStep(c)
    \/ RefreshStep
    \/ CursorRetired \/ EsCloses \/ EsTick

EsSpec == EsInit /\ [][EsNext]_esVars
-----------------------------------------------------------------------------
AuthorityTypeOK ==
    /\ esHealthy \in BOOLEAN /\ esChecked \in 0..(ReadLimit + 1) /\ hash \in Authorities
    /\ closed \in BOOLEAN
    /\ cursor \in [open : BOOLEAN, current : BOOLEAN, hash : Authorities, lapsed : BOOLEAN]
    /\ esCall \in [Callers -> [at : {"idle", "wait", "use", "dispatch", "epoch", "send", "sent",
                                   "verify", "bump"},
                           kind : {"query", "open", "next"}, left : 0..RequestTimeout]]
    /\ refresh \in [at : {"idle", "addFirst", "acquire", "attest", "attested", "addChanged",
                          "store", "addFailed", "stopped"},
                    left : 0..ConnectTimeout, got : Authorities]
    /\ esDue \in BOOLEAN /\ since \in 0..(RefreshPeriod - 1)
    /\ lastRead \in [Authorities -> 0..(ReadLimit + 1)]

(* A request is dispatched only under an authority that the cluster has    *)
(* reported within the recheck interval and the time of one attestation;   *)
(* for a cursor that is the authority of its opening, whichever the target *)
(* has now (target.go:80-103, 126-132, authority.go:172-185,               *)
(* cursor.go:315-321).                                                     *)
DispatchProved ==
    \A c \in Callers : esCall[c].at = "send" =>
        lastRead[IF esCall[c].kind = "query" THEN hash ELSE cursor.hash] <= ReadLimit

HalfInvalidated == \E c \in Callers : esCall[c].at = "bump"

(* A cursor that was open under a lapsed proof can be used again only when *)
(* that proof was renewed by a refresh that began before the lapse and     *)
(* ended within ConnectTimeout of it (the cursor is then not lapsed), or   *)
(* in the moment between the two steps of some call's invalidateAuthority; *)
(* a refresh that begins after the lapse starts a new epoch before it can  *)
(* succeed, however late it is (target.go:80-83, 126-130,                  *)
(* authority.go:181-185).                                                  *)
LapseClosesHandles ==
    cursor.open /\ cursor.lapsed /\ cursor.current /\ readyOK => HalfInvalidated
=============================================================================
