------------------------------- MODULE EsWire -------------------------------
(***************************************************************************)
(* The sockets of an Elasticsearch target                                  *)
(* (internal/dialects/elasticsearch/transport.go): one budget of slots for *)
(* every node, in front of net/http's pool of connections per node.        *)
(*                                                                         *)
(* A dial takes a slot, and a connection returns it when it is closed, by  *)
(* whoever closes it first: the pool (broken, idle too long, evicted, shut *)
(* down), the lifetime timer of the connection, or the return of a         *)
(* connection whose lifetime has ended.  Deciding to close and closing are *)
(* two steps, and the pool hands a connection on before it reports its     *)
(* return (httptrace.PutIdleConn).                                         *)
(***************************************************************************)
EXTENDS Integers, FiniteSets

CONSTANTS
    Conns,  \* the connections that may exist at a time
    Calls,  \* the requests that may be in progress
    Hosts,  \* the configured nodes
    MaxOpen, MaxIdle,
    NoUser

ASSUME WireAssumption == IsFiniteSet(Conns) /\ Hosts # {} /\ MaxOpen \in Nat

VARIABLES
    slots,     \* tokens in wire.slots
    conn,      \* the connections: leasedConn, and where the pool has it
    call,      \* the requests
    closeIdle  \* the pool closes what becomes idle (net/http)

wireVars == <<slots, conn, call, closeIdle>>

(* A connection is dialed for a call; the pool has it out of sight, idle,  *)
(* or with a call; closers have decided to close it and not done so.       *)
NewConn == [st |-> "none", host |-> CHOOSE h \in Hosts : TRUE, at |-> "out",
            by |-> NoUser, active |-> FALSE, expired |-> FALSE,
            returning |-> FALSE, closers |-> {}]

NewCall == [pc |-> "idle", host |-> CHOOSE h \in Hosts : TRUE, dialed |-> FALSE]

WireInit ==
    /\ slots = 0 /\ closeIdle = FALSE
    /\ conn = [c \in Conns |-> NewConn]
    /\ call = [r \in Calls |-> NewCall]

Idle == {c \in Conns : conn[c].at = "idle"}
OfHost(h) == {c \in Conns : conn[c].st # "none" /\ conn[c].host = h}
-----------------------------------------------------------------------------
(* leasedConn.                                                             *)

(* Mutant: without the sync.Once every Close returns the slot.             *)
CloseEach(c, k) ==
    /\ k \in conn[c].closers
    /\ conn' = [conn EXCEPT ![c].closers = @ \ {k}, ![c].st = "closed"]
    /\ slots' = slots - 1
    /\ UNCHANGED <<call, closeIdle>>

(* Close: only the first one stops the timer and returns the slot.         *)
Close(c, k) ==
    /\ k \in conn[c].closers
    /\ conn' = [conn EXCEPT ![c].closers = @ \ {k}, ![c].st = "closed"]
    /\ slots' = IF conn[c].st = "open" THEN slots - 1 ELSE slots
    /\ UNCHANGED <<call, closeIdle>>

(* The lifetime timer: closes unless the connection is active.             *)
TimerFires(c) ==
    /\ conn[c].st = "open" /\ ~conn[c].expired
    /\ conn' = [conn EXCEPT ![c].expired = TRUE,
                            ![c].closers = IF conn[c].active THEN @ ELSE @ \cup {"timer"}]
    /\ UNCHANGED <<slots, call, closeIdle>>

(* GotConn: setActive(true). *)
GotConn(r) ==
    \E c \in Conns :
        /\ call[r].pc = "got" /\ conn[c].at = "call" /\ conn[c].by = r
        /\ conn' = [conn EXCEPT ![c].active = TRUE]
        /\ call' = [call EXCEPT ![r].pc = "using"]
        /\ UNCHANGED <<slots, closeIdle>>

(* PutIdleConn: setActive(false), which closes what has expired.           *)
PutIdleConn(c) ==
    /\ conn[c].returning
    /\ conn' = [conn EXCEPT ![c].returning = FALSE, ![c].active = FALSE,
                            ![c].closers = IF conn[c].expired THEN @ \cup {"return"} ELSE @]
    /\ UNCHANGED <<slots, call, closeIdle>>
-----------------------------------------------------------------------------
(* The pool (net/http's Transport).                                        *)

(* The pool closes the connections of S.                                   *)
Dropped(cs, S) ==
    [c \in Conns |->
        IF c \in S THEN [cs[c] EXCEPT !.at = "out", !.by = NoUser,
                                      !.closers = @ \cup {"pool"}]
        ELSE cs[c]]

(* A request asks for a connection; from then on the pool keeps what       *)
(* becomes idle.                                                           *)
Ask(r, h) ==
    /\ call[r].pc = "idle"
    /\ closeIdle' = FALSE
    /\ \/ \E c \in Idle :
            /\ conn[c].host = h
            /\ conn' = [conn EXCEPT ![c].at = "call", ![c].by = r]
            /\ call' = [call EXCEPT ![r] = [NewCall EXCEPT !.pc = "got", !.host = h]]
       \/ /\ \A c \in Idle : conn[c].host # h
          /\ call' = [call EXCEPT ![r] = [NewCall EXCEPT !.pc = "waiting", !.host = h]]
          /\ UNCHANGED conn
    /\ UNCHANGED slots

(* A connection c of cs becomes idle: it is handed to a request that waits *)
(* for its node, refused, or kept, which may push out another one.         *)
PutIdle(c, cs, ks) ==
    LET waiting == {r \in Calls : ks[r].pc = "waiting" /\ ks[r].host = cs[c].host}
        refused == closeIdle \/ Cardinality({d \in Idle : conn[d].host = cs[c].host}) >= MaxIdle
        evicted == IF Cardinality(Idle) < MaxIdle THEN {{}} ELSE {{d} : d \in Idle}
    IN  \/ \E r \in waiting : /\ conn' = [cs EXCEPT ![c].at = "call", ![c].by = r]
                               /\ call' = [ks EXCEPT ![r].pc = "got"]
        \/ /\ waiting = {} /\ refused
           /\ conn' = Dropped(cs, {c})
           /\ call' = ks
        \/ /\ waiting = {} /\ ~refused
           /\ \E out \in evicted :
                conn' = Dropped([cs EXCEPT ![c].at = "idle", ![c].by = NoUser], out)
           /\ call' = ks

(* The response has been read: the connection goes back, and its return is *)
(* reported afterwards.  The next response is read after that report.      *)
ReturnConn(c) ==
    /\ conn[c].at = "call" /\ call[conn[c].by].pc = "using"
    /\ ~conn[c].returning
    /\ PutIdle(c, [conn EXCEPT ![c].returning = TRUE],
               [call EXCEPT ![conn[c].by] = NewCall])
    /\ UNCHANGED <<slots, closeIdle>>

(* The request fails or is cancelled, or finds its connection closed.      *)
Broken(c) ==
    /\ conn[c].at = "call" /\ call[conn[c].by].pc = "using"
    /\ conn' = Dropped(conn, {c})
    /\ call' = [call EXCEPT ![conn[c].by] = NewCall]
    /\ UNCHANGED <<slots, closeIdle>>

(* An idle connection times out or is found closed.                        *)
IdleEnds(c) ==
    /\ c \in Idle
    /\ conn' = Dropped(conn, {c})
    /\ UNCHANGED <<slots, call, closeIdle>>

(* A request stops waiting; a dial made for it goes on.                    *)
Cancel(r) ==
    /\ call[r].pc = "waiting"
    /\ call' = [call EXCEPT ![r] = NewCall]
    /\ UNCHANGED <<slots, conn, closeIdle>>

(* wire.close *)
WireClose ==
    /\ closeIdle' = TRUE
    /\ conn' = Dropped(conn, Idle)
    /\ UNCHANGED <<slots, call>>

(* Nobody knows the connection any more.                                   *)
Forgotten(c) ==
    /\ conn[c].st = "closed" /\ conn[c].at = "out"
    /\ conn[c].closers = {} /\ ~conn[c].returning
    /\ conn' = [conn EXCEPT ![c] = NewConn]
    /\ UNCHANGED <<slots, call, closeIdle>>
-----------------------------------------------------------------------------
(* DialTLSContext.                                                         *)

(* A waiting request's dial starts, unless its node has MaxOpen            *)
(* connections: it takes a slot, or has the pool close what is idle and    *)
(* waits for one.                                                          *)
Dial(r, c) ==
    LET fresh == [NewConn EXCEPT !.host = call[r].host, !.by = r] IN
    /\ call[r].pc = "waiting" /\ ~call[r].dialed /\ conn[c].st = "none"
    /\ Cardinality(OfHost(call[r].host)) < MaxOpen
    /\ \/ /\ slots < MaxOpen
          /\ slots' = slots + 1
          /\ conn' = [conn EXCEPT ![c] = [fresh EXCEPT !.st = "dialing"]]
          /\ UNCHANGED closeIdle
       \/ /\ slots >= MaxOpen
          /\ closeIdle' = TRUE
          /\ conn' = [Dropped(conn, Idle) EXCEPT ![c] = [fresh EXCEPT !.st = "queued"]]
          /\ UNCHANGED slots
    /\ call' = [call EXCEPT ![r].dialed = TRUE]

GetsSlot(c) ==
    /\ conn[c].st = "queued" /\ slots < MaxOpen
    /\ slots' = slots + 1
    /\ conn' = [conn EXCEPT ![c].st = "dialing"]
    /\ UNCHANGED <<call, closeIdle>>

(* The request a dial is made for still waits.                             *)
StillWaits(c) ==
    LET r == conn[c].by IN call[r].pc = "waiting" /\ call[r].dialed /\ call[r].host = conn[c].host

(* The dial's context ends before it has a slot, or the dial fails and     *)
(* returns its slot.                                                       *)
DialFails(c) ==
    /\ conn[c].st \in {"queued", "dialing"}
    /\ slots' = IF conn[c].st = "dialing" THEN slots - 1 ELSE slots
    /\ conn' = [conn EXCEPT ![c] = NewConn]
    /\ call' = IF StillWaits(c) THEN [call EXCEPT ![conn[c].by] = NewCall] ELSE call
    /\ UNCHANGED closeIdle

(* The connection is active from the start; if its request has gone on     *)
(* with another one it becomes idle, which nobody reports to it.           *)
DialDone(c) ==
    LET cs == [conn EXCEPT ![c].st = "open", ![c].active = TRUE] IN
    /\ conn[c].st = "dialing"
    /\ \/ /\ StillWaits(c)
          /\ conn' = [cs EXCEPT ![c].at = "call"]
          /\ call' = [call EXCEPT ![conn[c].by].pc = "got"]
       \/ ~StillWaits(c) /\ PutIdle(c, cs, call)
    /\ UNCHANGED <<slots, closeIdle>>

WireNext ==
    \/ \E r \in Calls : \/ \E h \in Hosts : Ask(r, h)
                        \/ \E c \in Conns : Dial(r, c)
                        \/ GotConn(r) \/ Cancel(r)
    \/ \E c \in Conns : \/ GetsSlot(c) \/ DialFails(c) \/ DialDone(c)
                        \/ TimerFires(c) \/ PutIdleConn(c)
                        \/ ReturnConn(c) \/ Broken(c) \/ IdleEnds(c) \/ Forgotten(c)
                        \/ \E k \in conn[c].closers : Close(c, k)
    \/ WireClose

WireSpec == WireInit /\ [][WireNext]_wireVars
-----------------------------------------------------------------------------
WireTypeOK ==
    /\ slots \in 0..MaxOpen
    /\ closeIdle \in BOOLEAN
    /\ conn \in [Conns -> [st : {"none", "queued", "dialing", "open", "closed"},
                           host : Hosts, at : {"out", "idle", "call"},
                           by : Calls \cup {NoUser}, active : BOOLEAN, expired : BOOLEAN,
                           returning : BOOLEAN, closers : SUBSET {"pool", "timer", "return"}]]
    /\ call \in [Calls -> [pc : {"idle", "waiting", "got", "using"}, host : Hosts,
                           dialed : BOOLEAN]]

(* RFC-0006 "covering dialing, active and idle sockets ... release exactly *)
(* once on connection close": over all nodes no more than MaxOpen sockets  *)
(* are being dialed or open, and each of them holds one slot, although     *)
(* timer, return and pool may each close a connection                      *)
(* (transport.go:39-58, 116-159).                                          *)
SocketsBounded ==
    LET sockets == {c \in Conns : conn[c].st \in {"dialing", "open"}}
    IN  Cardinality(sockets) = slots /\ slots <= MaxOpen
=============================================================================
