---------------------------- MODULE EsWireProofs ----------------------------
(***************************************************************************)
(* Proofs about EsWire for any number of connections, requests and nodes   *)
(* and any limits: every socket holds exactly one slot.                    *)
(***************************************************************************)
EXTENDS EsWire, FiniteSetTheorems, TLAPS

ConnType == [st : {"none", "queued", "dialing", "open", "closed"},
             host : Hosts, at : {"out", "idle", "call"},
             by : Calls \cup {NoUser}, active : BOOLEAN, expired : BOOLEAN,
             returning : BOOLEAN, closers : SUBSET {"pool", "timer", "return"}]
CallType == [pc : {"idle", "waiting", "got", "using"}, host : Hosts, dialed : BOOLEAN]

Sockets == {c \in Conns : conn[c].st \in {"dialing", "open"}}

(* Only a connection that was established is known to the pool, to its     *)
(* timer or to a request, and one that is with a request or being dialed   *)
(* knows for whom.                                                         *)
Sound(k) ==
    /\ k \in ConnType
    /\ k.at # "out" \/ k.closers # {} \/ k.returning => k.st \in {"open", "closed"}
    /\ k.at = "call" \/ k.st \in {"queued", "dialing"} => k.by \in Calls

Inv ==
    /\ slots \in 0..MaxOpen /\ closeIdle \in BOOLEAN
    /\ conn \in [Conns -> ConnType] /\ call \in [Calls -> CallType]
    /\ \A c \in Conns : Sound(conn[c])
    /\ Cardinality(Sockets) = slots

-----------------------------------------------------------------------------
LEMMA NewIsTyped ==
  NewConn \in ConnType /\ Sound(NewConn) /\ NewCall \in CallType
<1>1. (CHOOSE h \in Hosts : TRUE) \in Hosts
  BY WireAssumption
<1> QED
  BY <1>1 DEF NewConn, NewCall, ConnType, CallType, Sound

(* The pool closes established connections: they stay sockets until their  *)
(* Close runs.                                                             *)
LEMMA DroppedIsSound ==
  ASSUME NEW cs \in [Conns -> ConnType], \A c \in Conns : Sound(cs[c]),
         NEW S \in SUBSET Conns, \A c \in S : cs[c].st \in {"open", "closed"}
  PROVE  /\ Dropped(cs, S) \in [Conns -> ConnType]
         /\ \A c \in Conns : Sound(Dropped(cs, S)[c]) /\ Dropped(cs, S)[c].st = cs[c].st
<1>1. ASSUME NEW k \in ConnType, Sound(k), k.st \in {"open", "closed"}
      PROVE  LET d == [k EXCEPT !.at = "out", !.by = NoUser, !.closers = @ \cup {"pool"}]
             IN  d \in ConnType /\ Sound(d) /\ d.st = k.st
  BY <1>1 DEF Sound, ConnType
<1>2. \A c \in Conns : Dropped(cs, S)[c] =
         IF c \in S THEN [cs[c] EXCEPT !.at = "out", !.by = NoUser, !.closers = @ \cup {"pool"}]
         ELSE cs[c]
  BY DEF Dropped
<1>3. ASSUME NEW c \in Conns
      PROVE  /\ Dropped(cs, S)[c] \in ConnType
             /\ Sound(Dropped(cs, S)[c]) /\ Dropped(cs, S)[c].st = cs[c].st
  BY <1>1, <1>2
<1>4. Dropped(cs, S) \in [Conns -> ConnType]
  BY <1>3 DEF Dropped
<1> QED
  BY <1>3, <1>4

(* What becomes of the count when one connection changes.                  *)
LEMMA SocketAdded ==
  ASSUME Inv, NEW c \in Conns, conn[c].st \notin {"dialing", "open"},
         conn'[c].st \in {"dialing", "open"},
         \A d \in Conns \ {c} : conn'[d].st = conn[d].st
  PROVE  Cardinality(Sockets') = slots + 1
<1>1. Sockets' = Sockets \cup {c} /\ c \notin Sockets
  BY DEF Sockets
<1>2. IsFiniteSet(Sockets)
  BY FS_Subset, WireAssumption DEF Sockets
<1> QED
  BY <1>1, <1>2, FS_AddElement DEF Inv

LEMMA SocketRemoved ==
  ASSUME Inv, NEW c \in Conns, conn[c].st \in {"dialing", "open"},
         conn'[c].st \notin {"dialing", "open"},
         \A d \in Conns \ {c} : conn'[d].st = conn[d].st
  PROVE  Cardinality(Sockets') = slots - 1 /\ slots - 1 \in 0..MaxOpen
<1>1. Sockets' = Sockets \ {c} /\ c \in Sockets
  BY DEF Sockets
<1>2. IsFiniteSet(Sockets)
  BY FS_Subset, WireAssumption DEF Sockets
<1>3. Cardinality(Sockets') = Cardinality(Sockets) - 1 /\ Cardinality(Sockets') \in Nat
  BY <1>1, <1>2, FS_RemoveElement, FS_CardinalityType
<1> QED
  BY <1>3, WireAssumption DEF Inv

LEMMA SocketsKept ==
  ASSUME Inv, \A d \in Conns : conn'[d].st \in {"dialing", "open"}
                                 <=> conn[d].st \in {"dialing", "open"}
  PROVE  Cardinality(Sockets') = slots
BY DEF Inv, Sockets

(* One connection is replaced.                                             *)
LEMMA OneReplaced ==
  ASSUME Inv, NEW c \in Conns, NEW k \in ConnType, Sound(k), conn' = [conn EXCEPT ![c] = k]
  PROVE  /\ conn' \in [Conns -> ConnType] /\ \A d \in Conns : Sound(conn'[d])
         /\ conn'[c] = k /\ \A d \in Conns \ {c} : conn'[d].st = conn[d].st
BY DEF Inv

LEMMA IdleEstablished ==
  ASSUME Inv
  PROVE  Idle \in SUBSET Conns /\ \A c \in Idle : conn[c].st \in {"open", "closed"}
BY DEF Inv, Idle, Sound

(* A call record is replaced.                                              *)
LEMMA CallReplaced ==
  ASSUME NEW ks \in [Calls -> CallType], NEW r \in Calls, NEW k \in CallType
  PROVE  [ks EXCEPT ![r] = k] \in [Calls -> CallType]
OBVIOUS

LEMMA CallMoves ==
  ASSUME NEW ks \in [Calls -> CallType], NEW r \in Calls, NEW where \in {"idle", "waiting", "got", "using"}
  PROVE  [ks EXCEPT ![r].pc = where] \in [Calls -> CallType]
<1>1. [ks[r] EXCEPT !.pc = where] \in CallType
  BY DEF CallType
<1>2. [ks EXCEPT ![r].pc = where] = [ks EXCEPT ![r] = [ks[r] EXCEPT !.pc = where]]
  OBVIOUS
<1> QED
  BY <1>1, <1>2

(* A connection that was established becomes idle, or another one's.       *)
LEMMA PutIdleIsSound ==
  ASSUME Inv, NEW c \in Conns,
         NEW cs \in [Conns -> ConnType], \A d \in Conns : Sound(cs[d]),
         cs[c].st \in {"open", "closed"}, \A d \in Conns \ {c} : cs[d] = conn[d],
         NEW ks \in [Calls -> CallType], PutIdle(c, cs, ks)
  PROVE  /\ conn' \in [Conns -> ConnType] /\ call' \in [Calls -> CallType]
         /\ \A d \in Conns : Sound(conn'[d]) /\ conn'[d].st = cs[d].st
<1> DEFINE waiting == {r \in Calls : ks[r].pc = "waiting" /\ ks[r].host = cs[c].host}
           refused == closeIdle \/ Cardinality({d \in Idle : conn[d].host = cs[c].host}) >= MaxIdle
           evicted == IF Cardinality(Idle) < MaxIdle THEN {{}} ELSE {{d} : d \in Idle}
<1>0. /\ cs[c] \in ConnType /\ Sound(cs[c])
      /\ Idle \in SUBSET Conns /\ \A d \in Idle : conn[d].st \in {"open", "closed"}
  BY IdleEstablished
<1>1. CASE \E r \in waiting : /\ conn' = [cs EXCEPT ![c].at = "call", ![c].by = r]
                              /\ call' = [ks EXCEPT ![r].pc = "got"]
  <2>1. PICK r \in Calls : /\ conn' = [cs EXCEPT ![c].at = "call", ![c].by = r]
                           /\ call' = [ks EXCEPT ![r].pc = "got"]
    BY <1>1
  <2> DEFINE k == [cs[c] EXCEPT !.at = "call", !.by = r]
  <2>2. k \in ConnType /\ Sound(k) /\ k.st = cs[c].st
    BY <1>0 DEF ConnType, Sound
  <2>3. conn' = [cs EXCEPT ![c] = k]
    BY <2>1
  <2>4. call' \in [Calls -> CallType]
    BY <2>1, CallMoves
  <2> HIDE DEF k
  <2> QED
    BY <2>2, <2>3, <2>4
<1>2. CASE conn' = Dropped(cs, {c}) /\ call' = ks
  BY <1>2, DroppedIsSound
<1>3. CASE /\ \E out \in evicted :
                conn' = Dropped([cs EXCEPT ![c].at = "idle", ![c].by = NoUser], out)
           /\ call' = ks
  <2> DEFINE k == [cs[c] EXCEPT !.at = "idle", !.by = NoUser]
             cs2 == [cs EXCEPT ![c] = k]
  <2>1. k \in ConnType /\ Sound(k) /\ k.st = cs[c].st
    BY <1>0 DEF ConnType, Sound
  <2>2. PICK out \in evicted : conn' = Dropped([cs EXCEPT ![c].at = "idle", ![c].by = NoUser], out)
    BY <1>3
  <2>3. [cs EXCEPT ![c].at = "idle", ![c].by = NoUser] = cs2
    OBVIOUS
  <2>4. conn' = Dropped(cs2, out)
    BY <2>2, <2>3
  <2> HIDE DEF k
  <2>5. cs2 \in [Conns -> ConnType] /\ \A d \in Conns : Sound(cs2[d]) /\ cs2[d].st = cs[d].st
    BY <2>1
  <2>6. out \in SUBSET Conns /\ \A d \in out : cs2[d].st \in {"open", "closed"}
    <3>1. out \in SUBSET Idle
      BY <2>2
    <3> QED
      BY <3>1, <1>0, <2>5
  <2> HIDE DEF cs2, evicted
  <2>7. /\ Dropped(cs2, out) \in [Conns -> ConnType]
        /\ \A d \in Conns : Sound(Dropped(cs2, out)[d]) /\ Dropped(cs2, out)[d].st = cs2[d].st
    BY <2>5, <2>6, DroppedIsSound
  <2> QED
    BY <1>3, <2>4, <2>5, <2>7
<1> QED
  BY <1>1, <1>2, <1>3 DEF PutIdle

(* The connections' slots are untouched and nothing else loses its type.   *)
LEMMA SameSockets ==
  ASSUME Inv, slots' = slots, closeIdle' \in BOOLEAN,
         conn' \in [Conns -> ConnType], call' \in [Calls -> CallType],
         \A d \in Conns : Sound(conn'[d]) /\ conn'[d].st = conn[d].st
  PROVE  Inv'
<1>1. Cardinality(Sockets') = slots
  BY SocketsKept
<1> QED
  BY <1>1 DEF Inv

LEMMA InitInv == WireInit => Inv
<1> SUFFICES ASSUME WireInit PROVE Inv
  OBVIOUS
<1>1. NewConn \in ConnType /\ Sound(NewConn) /\ NewCall \in CallType /\ NewConn.st = "none"
  BY NewIsTyped DEF NewConn
<1>2. /\ conn \in [Conns -> ConnType] /\ call \in [Calls -> CallType]
      /\ \A c \in Conns : conn[c] = NewConn
  BY <1>1 DEF WireInit
<1>3. Sockets = {}
  BY <1>1, <1>2 DEF Sockets
<1>4. Cardinality(Sockets) = 0
  BY <1>3, FS_EmptySet
<1>5. slots = 0 /\ slots \in 0..MaxOpen
  BY WireAssumption DEF WireInit
<1>6. closeIdle \in BOOLEAN
  BY DEF WireInit
<1>7. \A c \in Conns : Sound(conn[c])
  BY <1>1, <1>2
<1> QED
  BY <1>2, <1>4, <1>5, <1>6, <1>7 DEF Inv

(* The steps of leasedConn.                                                *)
LEMMA ConnSteps ==
  ASSUME Inv, NEW c \in Conns,
         \/ \E k \in conn[c].closers : Close(c, k)
         \/ TimerFires(c) \/ PutIdleConn(c) \/ Forgotten(c)
  PROVE  Inv'
<1>0. /\ conn[c] \in ConnType /\ Sound(conn[c]) /\ conn \in [Conns -> ConnType]
      /\ call \in [Calls -> CallType] /\ closeIdle \in BOOLEAN /\ slots \in 0..MaxOpen
  BY DEF Inv
<1>1. ASSUME NEW k \in conn[c].closers, Close(c, k) PROVE Inv'
  <2> DEFINE d == [conn[c] EXCEPT !.closers = @ \ {k}, !.st = "closed"]
  <2>1. d \in ConnType /\ Sound(d) /\ d.st = "closed" /\ conn[c].st \in {"open", "closed"}
    BY <1>0 DEF ConnType, Sound
  <2>2. conn' = [conn EXCEPT ![c] = d]
    BY <1>0, <1>1 DEF Close
  <2>3. call' = call /\ closeIdle' = closeIdle
        /\ slots' = IF conn[c].st = "open" THEN slots - 1 ELSE slots
    BY <1>1 DEF Close
  <2> HIDE DEF d
  <2>4. /\ conn' \in [Conns -> ConnType] /\ \A e \in Conns : Sound(conn'[e])
        /\ conn'[c] = d /\ \A e \in Conns \ {c} : conn'[e].st = conn[e].st
    BY <2>1, <2>2, OneReplaced
  <2>5. CASE conn[c].st = "open"
    <3>1. Cardinality(Sockets') = slots - 1 /\ slots - 1 \in 0..MaxOpen
      BY <2>1, <2>4, <2>5, SocketRemoved
    <3> QED
      BY <3>1, <2>3, <2>4, <2>5, <1>0 DEF Inv
  <2>6. CASE conn[c].st = "closed"
    <3>1. Cardinality(Sockets') = slots
      BY <2>1, <2>4, <2>6, SocketsKept
    <3> QED
      BY <3>1, <2>3, <2>4, <2>6, <1>0 DEF Inv
  <2> QED
    BY <2>1, <2>5, <2>6
<1>2. CASE TimerFires(c)
  <2> DEFINE d == [conn[c] EXCEPT !.expired = TRUE,
                      !.closers = IF conn[c].active THEN @ ELSE @ \cup {"timer"}]
  <2>1. d \in ConnType /\ Sound(d) /\ d.st = conn[c].st
    BY <1>0, <1>2 DEF ConnType, Sound, TimerFires
  <2>2. conn' = [conn EXCEPT ![c] = d]
    BY <1>0, <1>2 DEF TimerFires
  <2> HIDE DEF d
  <2> QED
    BY <2>1, <2>2, <1>0, <1>2, OneReplaced, SameSockets DEF TimerFires
<1>3. CASE PutIdleConn(c)
  <2> DEFINE d == [conn[c] EXCEPT !.returning = FALSE, !.active = FALSE,
                      !.closers = IF conn[c].expired THEN @ \cup {"return"} ELSE @]
  <2>1. d \in ConnType /\ Sound(d) /\ d.st = conn[c].st
    BY <1>0, <1>3 DEF ConnType, Sound, PutIdleConn
  <2>2. conn' = [conn EXCEPT ![c] = d]
    BY <1>0, <1>3 DEF PutIdleConn
  <2> HIDE DEF d
  <2> QED
    BY <2>1, <2>2, <1>0, <1>3, OneReplaced, SameSockets DEF PutIdleConn
<1>4. CASE Forgotten(c)
  <2>1. NewConn \in ConnType /\ Sound(NewConn) /\ NewConn.st = "none"
    BY NewIsTyped DEF NewConn
  <2>2. /\ conn' \in [Conns -> ConnType] /\ \A e \in Conns : Sound(conn'[e])
        /\ conn'[c] = NewConn /\ \A e \in Conns \ {c} : conn'[e].st = conn[e].st
    BY <1>4, <2>1, OneReplaced DEF Forgotten
  <2>3. Cardinality(Sockets') = slots
    BY <1>4, <2>1, <2>2, SocketsKept DEF Forgotten
  <2> QED
    BY <2>2, <2>3, <1>0, <1>4 DEF Inv, Forgotten
<1> QED
  BY <1>1, <1>2, <1>3, <1>4

(* The steps of the pool.                                                  *)
LEMMA PoolSteps ==
  ASSUME Inv, NEW c \in Conns, ReturnConn(c) \/ Broken(c) \/ IdleEnds(c)
  PROVE  Inv'
<1>0. /\ conn[c] \in ConnType /\ Sound(conn[c]) /\ conn \in [Conns -> ConnType]
      /\ call \in [Calls -> CallType] /\ closeIdle \in BOOLEAN
      /\ \A d \in Conns : Sound(conn[d])
  BY DEF Inv
<1>1. CASE ReturnConn(c)
  <2> DEFINE k == [conn[c] EXCEPT !.returning = TRUE]
             cs == [conn EXCEPT ![c] = k]
             ks == [call EXCEPT ![conn[c].by] = NewCall]
  <2>1. k \in ConnType /\ Sound(k) /\ k.st = conn[c].st /\ k.st \in {"open", "closed"}
    BY <1>0, <1>1 DEF ConnType, Sound, ReturnConn
  <2>2. [conn EXCEPT ![c].returning = TRUE] = cs
    OBVIOUS
  <2>3. PutIdle(c, cs, ks) /\ slots' = slots /\ closeIdle' = closeIdle
    BY <1>1, <2>2 DEF ReturnConn
  <2>4. conn[c].by \in Calls
    BY <1>0, <1>1 DEF ReturnConn, Sound
  <2>5. ks \in [Calls -> CallType]
    BY <1>0, <2>4, NewIsTyped
  <2> HIDE DEF k, ks
  <2>6. /\ cs \in [Conns -> ConnType] /\ cs[c].st \in {"open", "closed"}
        /\ \A d \in Conns : Sound(cs[d]) /\ cs[d].st = conn[d].st
        /\ \A d \in Conns \ {c} : cs[d] = conn[d]
    BY <1>0, <2>1
  <2> HIDE DEF cs
  <2>7. /\ conn' \in [Conns -> ConnType] /\ call' \in [Calls -> CallType]
        /\ \A d \in Conns : Sound(conn'[d]) /\ conn'[d].st = cs[d].st
    BY <2>3, <2>5, <2>6, PutIdleIsSound
  <2> QED
    BY <2>3, <2>6, <2>7, <1>0, SameSockets
<1>2. CASE Broken(c)
  <2>1. /\ conn' = Dropped(conn, {c}) /\ call' = [call EXCEPT ![conn[c].by] = NewCall]
        /\ slots' = slots /\ closeIdle' = closeIdle
        /\ conn[c].by \in Calls /\ conn[c].st \in {"open", "closed"}
    BY <1>0, <1>2 DEF Broken, Sound
  <2>2. call' \in [Calls -> CallType]
    BY <2>1, <1>0, NewIsTyped, CallReplaced
  <2>3. /\ conn' \in [Conns -> ConnType]
        /\ \A d \in Conns : Sound(conn'[d]) /\ conn'[d].st = conn[d].st
    BY <2>1, <1>0, DroppedIsSound
  <2> QED
    BY <2>1, <2>2, <2>3, <1>0, SameSockets
<1>3. CASE IdleEnds(c)
  <2>1. /\ conn' \in [Conns -> ConnType]
        /\ \A d \in Conns : Sound(conn'[d]) /\ conn'[d].st = conn[d].st
    BY <1>0, <1>3, IdleEstablished, DroppedIsSound DEF IdleEnds
  <2> QED
    BY <2>1, <1>0, <1>3, SameSockets DEF IdleEnds
<1> QED
  BY <1>1, <1>2, <1>3

(* The steps of requests and of wire.close.                                *)
LEMMA RequestSteps ==
  ASSUME Inv,
         \/ WireClose
         \/ \E r \in Calls : (\E h \in Hosts : Ask(r, h)) \/ GotConn(r) \/ Cancel(r)
  PROVE  Inv'
<1>0. /\ conn \in [Conns -> ConnType] /\ call \in [Calls -> CallType] /\ closeIdle \in BOOLEAN
      /\ \A d \in Conns : Sound(conn[d]) /\ conn[d] \in ConnType
  BY DEF Inv
<1>1. CASE WireClose
  <2>1. /\ conn' \in [Conns -> ConnType]
        /\ \A d \in Conns : Sound(conn'[d]) /\ conn'[d].st = conn[d].st
    BY <1>0, <1>1, IdleEstablished, DroppedIsSound DEF WireClose
  <2> QED
    BY <2>1, <1>0, <1>1, SameSockets DEF WireClose
<1>2. ASSUME NEW r \in Calls, NEW h \in Hosts, Ask(r, h) PROVE Inv'
  <2>1. /\ [NewCall EXCEPT !.pc = "got", !.host = h] \in CallType
        /\ [NewCall EXCEPT !.pc = "waiting", !.host = h] \in CallType
    BY NewIsTyped DEF CallType
  <2>2. call' \in [Calls -> CallType] /\ slots' = slots /\ closeIdle' \in BOOLEAN
    BY <1>0, <1>2, <2>1, CallReplaced DEF Ask
  <2>3. CASE conn' = conn
    BY <2>2, <2>3, <1>0, SameSockets
  <2>4. ASSUME NEW c \in Idle, conn' = [conn EXCEPT ![c].at = "call", ![c].by = r] PROVE Inv'
    <3> DEFINE k == [conn[c] EXCEPT !.at = "call", !.by = r]
    <3>1. c \in Conns /\ conn[c].st \in {"open", "closed"}
      BY IdleEstablished
    <3>2. k \in ConnType /\ Sound(k) /\ k.st = conn[c].st
      BY <1>0, <3>1 DEF ConnType, Sound
    <3>3. conn' = [conn EXCEPT ![c] = k]
      BY <2>4
    <3> HIDE DEF k
    <3> QED
      BY <2>2, <3>1, <3>2, <3>3, OneReplaced, SameSockets
  <2> QED
    BY <1>2, <2>3, <2>4 DEF Ask
<1>3. ASSUME NEW r \in Calls, GotConn(r) PROVE Inv'
  <2>1. PICK c \in Conns : conn' = [conn EXCEPT ![c].active = TRUE]
                           /\ call' = [call EXCEPT ![r].pc = "using"]
                           /\ slots' = slots /\ closeIdle' = closeIdle
    BY <1>3 DEF GotConn
  <2> DEFINE k == [conn[c] EXCEPT !.active = TRUE]
  <2>2. k \in ConnType /\ Sound(k) /\ k.st = conn[c].st
    BY <1>0 DEF ConnType, Sound
  <2>3. conn' = [conn EXCEPT ![c] = k]
    BY <2>1
  <2> HIDE DEF k
  <2>4. call' \in [Calls -> CallType]
    BY <2>1, <1>0, CallMoves
  <2> QED
    BY <2>1, <2>2, <2>3, <2>4, <1>0, OneReplaced, SameSockets
<1>4. ASSUME NEW r \in Calls, Cancel(r) PROVE Inv'
  BY <1>0, <1>4, NewIsTyped, CallReplaced, SameSockets DEF Cancel
<1> QED
  BY <1>1, <1>2, <1>3, <1>4

(* The steps of DialTLSContext.                                            *)
LEMMA DialBegins ==
  ASSUME Inv, NEW r \in Calls, NEW c \in Conns, Dial(r, c)
  PROVE  Inv'
<1> DEFINE fresh == [NewConn EXCEPT !.host = call[r].host, !.by = r]
           k1 == [fresh EXCEPT !.st = "dialing"]
           k2 == [fresh EXCEPT !.st = "queued"]
<1>0. /\ conn \in [Conns -> ConnType] /\ call \in [Calls -> CallType] /\ closeIdle \in BOOLEAN
      /\ \A d \in Conns : Sound(conn[d]) /\ conn[d] \in ConnType
      /\ call[r].host \in Hosts /\ slots \in 0..MaxOpen /\ MaxOpen \in Nat
  BY WireAssumption DEF Inv, CallType
<1>1. /\ k1 \in ConnType /\ Sound(k1) /\ k1.st = "dialing"
      /\ k2 \in ConnType /\ Sound(k2) /\ k2.st = "queued"
  BY <1>0, NewIsTyped DEF ConnType, Sound, NewConn
<1>2. conn[c].st = "none"
  BY DEF Dial
<1>3. call' \in [Calls -> CallType]
  <2>1. [call[r] EXCEPT !.dialed = TRUE] \in CallType
    BY <1>0 DEF CallType
  <2>2. call' = [call EXCEPT ![r] = [call[r] EXCEPT !.dialed = TRUE]]
    BY <1>0 DEF Dial
  <2> QED
    BY <1>0, <2>1, <2>2
<1>4. \/ /\ slots < MaxOpen /\ slots' = slots + 1 /\ conn' = [conn EXCEPT ![c] = k1]
         /\ closeIdle' = closeIdle
      \/ /\ closeIdle' = TRUE /\ conn' = [Dropped(conn, Idle) EXCEPT ![c] = k2] /\ slots' = slots
  BY DEF Dial
<1> HIDE DEF fresh, k1, k2
<1>5. CASE /\ slots < MaxOpen /\ slots' = slots + 1 /\ conn' = [conn EXCEPT ![c] = k1]
           /\ closeIdle' = closeIdle
  <2>1. /\ conn' \in [Conns -> ConnType] /\ \A e \in Conns : Sound(conn'[e])
        /\ conn'[c] = k1 /\ \A e \in Conns \ {c} : conn'[e].st = conn[e].st
    BY <1>1, <1>5, OneReplaced
  <2>2. Cardinality(Sockets') = slots + 1
    BY <1>1, <1>2, <2>1, SocketAdded
  <2> QED
    BY <1>0, <1>3, <1>5, <2>1, <2>2 DEF Inv
<1>6. CASE closeIdle' = TRUE /\ conn' = [Dropped(conn, Idle) EXCEPT ![c] = k2] /\ slots' = slots
  <2>1. /\ Dropped(conn, Idle) \in [Conns -> ConnType]
        /\ \A d \in Conns : Sound(Dropped(conn, Idle)[d]) /\ Dropped(conn, Idle)[d].st = conn[d].st
    BY <1>0, IdleEstablished, DroppedIsSound
  <2>2. /\ conn' \in [Conns -> ConnType] /\ \A e \in Conns : Sound(conn'[e])
        /\ conn'[c].st = "queued" /\ \A e \in Conns \ {c} : conn'[e].st = conn[e].st
    BY <1>1, <1>6, <2>1
  <2>3. Cardinality(Sockets') = slots
    BY <1>2, <2>2, SocketsKept
  <2> QED
    BY <1>0, <1>3, <1>6, <2>2, <2>3 DEF Inv
<1> QED
  BY <1>4, <1>5, <1>6

LEMMA DialSteps ==
  ASSUME Inv, NEW c \in Conns, GetsSlot(c) \/ DialFails(c) \/ DialDone(c)
  PROVE  Inv'
<1>0. /\ conn[c] \in ConnType /\ Sound(conn[c]) /\ conn \in [Conns -> ConnType]
      /\ call \in [Calls -> CallType] /\ closeIdle \in BOOLEAN
      /\ \A d \in Conns : Sound(conn[d])
      /\ slots \in 0..MaxOpen /\ MaxOpen \in Nat
  BY WireAssumption DEF Inv
<1>1. CASE GetsSlot(c)
  <2> DEFINE k == [conn[c] EXCEPT !.st = "dialing"]
  <2>1. k \in ConnType /\ Sound(k) /\ k.st = "dialing"
    BY <1>0, <1>1 DEF ConnType, Sound, GetsSlot
  <2>2. conn' = [conn EXCEPT ![c] = k]
    BY <1>0, <1>1 DEF GetsSlot
  <2> HIDE DEF k
  <2>3. /\ conn' \in [Conns -> ConnType] /\ \A e \in Conns : Sound(conn'[e])
        /\ conn'[c] = k /\ \A e \in Conns \ {c} : conn'[e].st = conn[e].st
    BY <2>1, <2>2, OneReplaced
  <2>4. Cardinality(Sockets') = slots + 1
    BY <1>1, <2>1, <2>3, SocketAdded DEF GetsSlot
  <2> QED
    BY <1>0, <1>1, <2>3, <2>4 DEF Inv, GetsSlot
<1>2. CASE DialFails(c)
  <2>1. NewConn \in ConnType /\ Sound(NewConn) /\ NewConn.st = "none" /\ NewCall \in CallType
    BY NewIsTyped DEF NewConn
  <2>2. conn[c].by \in Calls /\ conn[c].st \in {"queued", "dialing"}
    BY <1>0, <1>2 DEF DialFails, Sound
  <2>3. call' \in [Calls -> CallType] /\ closeIdle' = closeIdle
    BY <1>0, <1>2, <2>1, <2>2, CallReplaced DEF DialFails
  <2>4. /\ conn' \in [Conns -> ConnType] /\ \A e \in Conns : Sound(conn'[e])
        /\ conn'[c] = NewConn /\ \A e \in Conns \ {c} : conn'[e].st = conn[e].st
    BY <1>2, <2>1, OneReplaced DEF DialFails
  <2>5. CASE conn[c].st = "dialing"
    <3>1. Cardinality(Sockets') = slots - 1 /\ slots - 1 \in 0..MaxOpen
      BY <2>1, <2>4, <2>5, SocketRemoved
    <3> QED
      BY <1>0, <1>2, <2>3, <2>4, <2>5, <3>1 DEF Inv, DialFails
  <2>6. CASE conn[c].st = "queued"
    <3>1. Cardinality(Sockets') = slots
      BY <2>1, <2>4, <2>6, SocketsKept
    <3> QED
      BY <1>0, <1>2, <2>3, <2>4, <2>6, <3>1 DEF Inv, DialFails
  <2> QED
    BY <2>2, <2>5, <2>6
<1>3. CASE DialDone(c)
  <2> DEFINE k == [conn[c] EXCEPT !.st = "open", !.active = TRUE]
             k2 == [k EXCEPT !.at = "call"]
             cs == [conn EXCEPT ![c] = k]
  <2>0. conn[c].st = "dialing" /\ conn[c].by \in Calls /\ slots' = slots /\ closeIdle' = closeIdle
    BY <1>0, <1>3 DEF DialDone, Sound
  <2>1. k \in ConnType /\ Sound(k) /\ k.st = "open"
        /\ k2 \in ConnType /\ Sound(k2) /\ k2.st = "open"
    BY <1>0, <2>0 DEF ConnType, Sound
  <2>2. [conn EXCEPT ![c].st = "open", ![c].active = TRUE] = cs /\ [cs EXCEPT ![c].at = "call"] = [conn EXCEPT ![c] = k2]
    BY <1>0
  <2>3. \/ conn' = [conn EXCEPT ![c] = k2] /\ call' = [call EXCEPT ![conn[c].by].pc = "got"]
        \/ PutIdle(c, cs, call)
    BY <1>3, <2>2 DEF DialDone
  <2> HIDE DEF k, k2
  <2>4. /\ cs \in [Conns -> ConnType] /\ cs[c] = k
        /\ \A d \in Conns : Sound(cs[d])
        /\ \A d \in Conns \ {c} : cs[d] = conn[d]
    BY <1>0, <2>1
  <2> HIDE DEF cs
  <2>5. /\ conn' \in [Conns -> ConnType] /\ call' \in [Calls -> CallType]
        /\ \A d \in Conns : Sound(conn'[d])
        /\ conn'[c].st = "open" /\ \A d \in Conns \ {c} : conn'[d].st = conn[d].st
    <3>1. CASE conn' = [conn EXCEPT ![c] = k2] /\ call' = [call EXCEPT ![conn[c].by].pc = "got"]
      BY <1>0, <2>0, <2>1, <3>1, OneReplaced, CallMoves
    <3>2. CASE PutIdle(c, cs, call)
      <4>1. /\ conn' \in [Conns -> ConnType] /\ call' \in [Calls -> CallType]
            /\ \A d \in Conns : Sound(conn'[d]) /\ conn'[d].st = cs[d].st
        BY <1>0, <2>1, <2>4, <3>2, PutIdleIsSound
      <4> QED
        BY <2>1, <2>4, <4>1
    <3> QED
      BY <2>3, <3>1, <3>2
  <2>6. Cardinality(Sockets') = slots
    BY <2>0, <2>5, SocketsKept
  <2> QED
    BY <1>0, <2>0, <2>5, <2>6 DEF Inv
<1> QED
  BY <1>1, <1>2, <1>3

LEMMA InvStep == Inv /\ [WireNext]_wireVars => Inv'
<1> SUFFICES ASSUME Inv, [WireNext]_wireVars PROVE Inv'
  OBVIOUS
<1>1. CASE UNCHANGED wireVars
  BY <1>1 DEF Inv, Sockets, wireVars
<1>2. CASE WireNext
  BY <1>2, ConnSteps, PoolSteps, RequestSteps, DialBegins, DialSteps DEF WireNext
<1> QED
  BY <1>1, <1>2

(* However timer, pool and requests close connections, each socket that is *)
(* dialed or open holds one slot and there are never more than MaxOpen     *)
(* (leasedConn.Close and its sync.Once, transport.go:39-58, 116-159).      *)
THEOREM EverySocketHasASlot == WireSpec => []SocketsBounded
<1>1. WireInit => Inv
  BY InitInv
<1>2. Inv /\ [WireNext]_wireVars => Inv'
  BY InvStep
<1>3. Inv => SocketsBounded
  BY WireAssumption DEF Inv, SocketsBounded, Sockets
<1> QED
  BY <1>1, <1>2, <1>3, PTL DEF WireSpec

(* Connections, requests and the slot count keep their types.              *)
THEOREM WireTypeCorrect == WireSpec => []WireTypeOK
<1>1. WireInit => Inv
  BY InitInv
<1>2. Inv /\ [WireNext]_wireVars => Inv'
  BY InvStep
<1>3. Inv => WireTypeOK
  BY DEF Inv, WireTypeOK, ConnType, CallType
<1> QED
  BY <1>1, <1>2, <1>3, PTL DEF WireSpec
=============================================================================
