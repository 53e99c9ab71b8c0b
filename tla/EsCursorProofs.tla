--------------------------- MODULE EsCursorProofs ---------------------------
(***************************************************************************)
(* Proofs about EsCursor for any number of handles, calls and sessions and *)
(* any configured limits: no context is orphaned, reservations are exact,  *)
(* a lease ends before its reservation, no page is skipped, and each step  *)
(* is one of Contexts.                                                     *)
(*                                                                         *)
(* What relates the fields of one cursor, its native context, its pages    *)
(* and the record of the request that holds its gate is stated of these    *)
(* values alone (Sound); a step replaces the values of one cursor.         *)
(***************************************************************************)
EXTENDS EsCursor, FiniteSetTheorems, TLAPS

HoldingPcs == {"update", "dispatch", "wire", "page", "result", "recover", "close", "clean"}
Told == {"open", "next"}        \* the operations whose pages the client counts

(* Nothing was ever sent for the cursor.                                   *)
Fresh(k) == ~k.dispatched /\ k.ids = 0 /\ ~k.uncertain /\ ~k.done /\ k.expires = 0

(* What the server holds, or may still create, ends before serverUntil,    *)
(* and the timer will run then; what it creates is the only context, and   *)
(* who knows of no identifier knows that the answer is missing.            *)
Horizon(k, n) ==
    /\ k.timer # NoTimer /\ k.expires <= k.serverUntil
    /\ n.native <= k.serverUntil /\ n.native <= n.keepAlive /\ n.keepAlive <= k.nativeLease
    /\ \A f \in n.flights : /\ f.left + n.keepAlive <= k.serverUntil
                            /\ f.left + f.lease <= k.serverUntil
                            /\ f.lease <= k.nativeLease
    /\ \A f, g \in n.flights : f = g
    /\ \A f \in n.flights : f.create => n.native = 0
    /\ n.flights # {} => k.uncertain
    /\ k.uncertain \/ k.done \/ k.ids > 0
    /\ k.done => k.kind = "sql" /\ n.native = 0 /\ n.flights = {}

(* The server has nothing of the cursor, and will create nothing.          *)
Dead(n) == n.native = 0 /\ \A f \in n.flights : ~f.create

Cursor(k, n, s) ==
    /\ k.st \in {"unused", "reserved"} => Fresh(k) /\ n = NewNet /\ s = 0
    /\ k.st = "released" => Dead(n)
    /\ k.st = "open" => \/ Fresh(k) /\ n = NewNet /\ s = 0
                        \/ k.dispatched /\ Horizon(k, n)

(* The owner may continue the cursor.                                      *)
Continuable(k, n, s) ==
    k.ids > 0 /\ ~k.uncertain /\ ~k.done /\ n.flights = {} /\ n.pos = s

(* A page was read, and more says whether it counts.                       *)
Paged(k, n, s, q) ==
    /\ k.dispatched /\ ~k.uncertain /\ n.flights = {} /\ (k.done \/ k.ids > 0)
    /\ q.op \in Told => n.pos = s + (IF q.more THEN 1 ELSE 0)

(* The request that holds the gate waits for the server.                   *)
OnWire(k, n, s, q) ==
    /\ k.dispatched /\ ~k.done /\ q.lease <= k.nativeLease
    /\ \A f \in n.flights : f.heard
    /\ q.op \in Told =>
         n.pos = s + (IF k.kind # "pit" /\ n.reply.status = "ok" /\ n.reply.more THEN 1 ELSE 0)
    /\ k.kind = "sql" /\ n.reply.status = "ok" /\ ~n.reply.more => n.native = 0

OfKind(q, k) == (q.op = "batch" => k.kind = "pit") /\ (q.op = "drain" => k.kind = "sql")

(* Where the request that holds the gate is.                               *)
Holding(k, n, s, q) ==
    /\ OfKind(q, k)
    /\ q.pc \in {"recover", "close"} => k.st \in {"open", "released"}
    /\ q.pc \notin {"recover", "close"} => k.st = "open"
    /\ q.pc \notin {"recover", "close", "clean"} => q.op \in Told \cup Private
    /\ q.pc = "update" => \/ q.op # "next" /\ Fresh(k) /\ k.kind # "sql"
                          \/ q.op = "next" /\ k.kind = "pit" /\ Paged(k, n, s, q)
    /\ q.pc = "dispatch" => /\ ~k.uncertain /\ ~k.done /\ n.flights = {}
                            /\ q.op \in Told => n.pos = s
                            /\ q.op = "next" => k.ids > 0
    /\ q.pc = "wire" => OnWire(k, n, s, q)
    /\ q.pc \in {"page", "result"} => Paged(k, n, s, q)
    /\ q.pc = "result" => q.op \in Told

Sound(k, n, s, g, q, cl) ==
    /\ Cursor(k, n, s)
    /\ n.reply.status # "none" => n.flights = {} /\ g \in Requests /\ q.pc = "wire"
    /\ (\E f \in n.flights : f.heard) => g \in Requests /\ q.pc = "wire"
    /\ g # Free => k.st \in {"open", "released"}
    /\ g \in Requests => Holding(k, n, s, q) /\ (cl <=> q.pc = "clean")
    /\ g \notin Requests /\ k.st = "open" /\ ~k.invalid => Continuable(k, n, s)
    /\ cl => g # Free /\ k.st = "open" /\ k.invalid /\ k.dispatched

HolderOf(c) == IF gate[c] \in Requests THEN req[gate[c]] ELSE Idle

SoundAt(c) == Sound(cur[c], net[c], served[c], gate[c], HolderOf(c), c \in cleaning)

(* A gate is held by the request that thinks so, a reservation published   *)
(* by one request.                                                         *)
Gates ==
    /\ \A r \in Requests : req[r].pc # "idle" => req[r].c \in Cursors
    /\ \A r \in Requests : req[r].pc \in HoldingPcs => gate[req[r].c] = r
    /\ \A c \in Cursors : gate[c] \in Requests =>
          req[gate[c]].pc \in HoldingPcs /\ req[gate[c]].c = c
    /\ \A r \in Requests : req[r].pc = "publish" =>
          /\ cur[req[r].c].st = "reserved"
          /\ req[r].op \in {"open"} \cup Private /\ OfKind(req[r], cur[req[r].c])
    /\ \A r, q \in Requests : req[r].pc = "publish" /\ req[q].pc = "publish"
                              /\ req[r].c = req[q].c => r = q
    /\ \A r \in Requests : req[r].pc = "wait" =>
          cur[req[r].c].st \in {"open", "released"} /\ req[r].op \in {"next", "close"}

Budget == IsFiniteSet(Reservations) /\ IsFiniteSet(Units) /\ BudgetExact

Inv == TypeOK /\ (\A c \in Cursors : SoundAt(c)) /\ Gates /\ Budget

-----------------------------------------------------------------------------
(* The budget: what one cursor adds to it.                                 *)

Reserved(k) == k.st \in {"reserved", "open"}
Share(c, n) == {c} \X (1..n)
RestUnits(c) == UNION {Share(d, cur[d].bytes) : d \in Reservations \ {c}}
Slot(k) == IF Reserved(k) THEN 1 ELSE 0
Bytes(k) == IF Reserved(k) THEN k.bytes ELSE 0

LEMMA ShareIs ==
  ASSUME NEW c, NEW n \in Nat
  PROVE  IsFiniteSet(Share(c, n)) /\ Cardinality(Share(c, n)) = n
<1>1. IsFiniteSet({c}) /\ Cardinality({c}) = 1
  BY FS_Singleton
<1>2. IsFiniteSet(1..n) /\ Cardinality(1..n) = IF 1 > n THEN 0 ELSE n - 1 + 1
  BY FS_Interval
<1>3. Cardinality(1..n) = n
  BY <1>2
<1>4. IsFiniteSet({c} \X (1..n)) /\ Cardinality({c} \X (1..n)) = Cardinality({c}) * Cardinality(1..n)
  BY <1>1, <1>2, FS_Product
<1> QED
  BY <1>1, <1>3, <1>4 DEF Share

(* The units of all cursors are those of one and those of the others.      *)
LEMMA UnitsSplit ==
  ASSUME NEW c \in Cursors, cur[c].bytes \in Nat, IsFiniteSet(RestUnits(c))
  PROVE  /\ IsFiniteSet(Units)
         /\ Cardinality(Units) = Cardinality(RestUnits(c)) + Bytes(cur[c])
<1>1. Units = RestUnits(c) \cup (IF c \in Reservations THEN Share(c, cur[c].bytes) ELSE {})
  BY DEF Units, RestUnits, Share
<1>2. c \in Reservations <=> Reserved(cur[c])
  BY DEF Reservations, Reserved
<1>3. RestUnits(c) \cap Share(c, cur[c].bytes) = {}
  BY DEF RestUnits, Share
<1>4. Cardinality(RestUnits(c)) \in Nat
  BY FS_CardinalityType
<1>5. CASE Reserved(cur[c])
  <2>1. Units = RestUnits(c) \cup Share(c, cur[c].bytes)
    BY <1>1, <1>2, <1>5
  <2>2. IsFiniteSet(Share(c, cur[c].bytes)) /\ Cardinality(Share(c, cur[c].bytes)) = cur[c].bytes
    BY ShareIs
  <2>3. /\ IsFiniteSet(RestUnits(c) \cup Share(c, cur[c].bytes))
        /\ Cardinality(RestUnits(c) \cup Share(c, cur[c].bytes)) =
             Cardinality(RestUnits(c)) + Cardinality(Share(c, cur[c].bytes)) -
             Cardinality(RestUnits(c) \cap Share(c, cur[c].bytes))
    BY <2>2, FS_Union
  <2>4. Cardinality(RestUnits(c) \cap Share(c, cur[c].bytes)) = 0
    BY <1>3, FS_EmptySet
  <2>5. Bytes(cur[c]) = cur[c].bytes
    BY <1>5 DEF Bytes
  <2> QED
    BY <1>4, <2>1, <2>2, <2>3, <2>4, <2>5
<1>6. CASE ~Reserved(cur[c])
  <2>1. Units = RestUnits(c) /\ Bytes(cur[c]) = 0
    BY <1>1, <1>2, <1>6 DEF Bytes
  <2> QED
    BY <1>4, <2>1
<1> QED
  BY <1>5, <1>6

(* One cursor's record is replaced, and its part of the budget with it.    *)
LEMMA BudgetKeeps ==
  ASSUME TypeOK, Budget, NEW c \in Cursors, NEW k \in CursorType, cur' = [cur EXCEPT ![c] = k],
         memory' = memory - Bytes(cur[c]) + Bytes(k),
         slots' = slots - Slot(cur[c]) + Slot(k)
  PROVE  Budget' /\ memory' \in Nat /\ slots' \in Nat
<1>1. cur \in [Cursors -> CursorType] /\ cur[c].bytes \in Nat /\ k.bytes \in Nat
  BY DEF TypeOK, CursorType
<1>2. cur'[c] = k /\ \A d \in Cursors \ {c} : cur'[d] = cur[d]
  BY <1>1
<1>3. /\ IsFiniteSet(Reservations) /\ IsFiniteSet(Units) /\ slots = Cardinality(Reservations)
      /\ memory = Cardinality(Units)
  BY DEF Budget, BudgetExact
<1>4. Reservations' = IF Reserved(k) THEN Reservations \cup {c} ELSE Reservations \ {c}
  BY <1>2 DEF Reservations, Reserved
<1>5. c \in Reservations <=> Reserved(cur[c])
  BY DEF Reservations, Reserved
<1>6. Cardinality(Reservations) \in Nat
  BY <1>3, FS_CardinalityType
<1>7. IsFiniteSet(Reservations') /\ Cardinality(Reservations') = slots'
  <2>1. CASE Reserved(k)
    <3>1. /\ IsFiniteSet(Reservations \cup {c})
          /\ Cardinality(Reservations \cup {c}) =
               IF c \in Reservations THEN Cardinality(Reservations) ELSE Cardinality(Reservations) + 1
      BY <1>3, FS_AddElement
    <3>2. slots' = slots - Slot(cur[c]) + 1
      BY <2>1 DEF Slot
    <3> QED
      BY <1>3, <1>4, <1>5, <1>6, <2>1, <3>1, <3>2 DEF Slot
  <2>2. CASE ~Reserved(k)
    <3>1. /\ IsFiniteSet(Reservations \ {c})
          /\ Cardinality(Reservations \ {c}) =
               IF c \in Reservations THEN Cardinality(Reservations) - 1 ELSE Cardinality(Reservations)
      BY <1>3, FS_RemoveElement
    <3>2. slots' = slots - Slot(cur[c]) + 0
      BY <2>2 DEF Slot
    <3> QED
      BY <1>3, <1>4, <1>5, <1>6, <2>2, <3>1, <3>2 DEF Slot
  <2> QED
    BY <2>1, <2>2
<1>8. RestUnits(c)' = RestUnits(c)
  <2>1. Reservations' \ {c} = Reservations \ {c}
    BY <1>4
  <2>2. \A d \in Reservations \ {c} : cur'[d] = cur[d]
    BY <1>2 DEF Reservations
  <2>3. RestUnits(c)' = UNION {Share(d, cur'[d].bytes) : d \in Reservations' \ {c}}
    BY DEF RestUnits, Share
  <2> QED
    BY <2>1, <2>2, <2>3 DEF RestUnits
<1>9. IsFiniteSet(RestUnits(c)) /\ Cardinality(RestUnits(c)) \in Nat
  <2>1. RestUnits(c) \in SUBSET Units
    BY DEF RestUnits, Units, Share
  <2>2. IsFiniteSet(RestUnits(c))
    BY <1>3, <2>1, FS_Subset
  <2> QED
    BY <2>2, FS_CardinalityType
<1>10. Cardinality(Units) = Cardinality(RestUnits(c)) + Bytes(cur[c])
  BY <1>1, <1>9, UnitsSplit
<1>11. /\ IsFiniteSet(Units')
       /\ Cardinality(Units') = Cardinality(RestUnits(c)) + Bytes(k)
  <2> DEFINE R == {d \in Cursors : cur'[d].st \in {"reserved", "open"}}
             V == UNION {Share(d, cur'[d].bytes) : d \in R \ {c}}
             U == UNION {Share(d, cur'[d].bytes) : d \in R}
  <2>1. Reservations' = R /\ RestUnits(c)' = V /\ Units' = U
    BY DEF Reservations, RestUnits, Units, Share
  <2>2. IsFiniteSet(V) /\ V = RestUnits(c)
    BY <1>8, <1>9, <2>1
  <2>3. U = V \cup (IF c \in R THEN Share(c, k.bytes) ELSE {})
    BY <1>2 DEF Share
  <2>4. c \in R <=> Reserved(k)
    BY <1>2 DEF Reserved
  <2>5. V \cap Share(c, k.bytes) = {}
    BY DEF Share
  <2> HIDE DEF R, U, V
  <2>6. CASE Reserved(k)
    <3>1. U = V \cup Share(c, k.bytes) /\ Bytes(k) = k.bytes
      BY <2>3, <2>4, <2>6 DEF Bytes
    <3>2. IsFiniteSet(Share(c, k.bytes)) /\ Cardinality(Share(c, k.bytes)) = k.bytes
      BY <1>1, ShareIs
    <3>3. /\ IsFiniteSet(V \cup Share(c, k.bytes))
          /\ Cardinality(V \cup Share(c, k.bytes)) =
               Cardinality(V) + Cardinality(Share(c, k.bytes)) - Cardinality(V \cap Share(c, k.bytes))
      BY <2>2, <3>2, FS_Union
    <3>4. Cardinality(V \cap Share(c, k.bytes)) = 0
      BY <2>5, FS_EmptySet
    <3> QED
      BY <1>1, <1>9, <2>1, <2>2, <3>1, <3>2, <3>3, <3>4
  <2>7. CASE ~Reserved(k)
    <3>1. U = V /\ Bytes(k) = 0
      BY <2>3, <2>4, <2>7 DEF Bytes
    <3> QED
      BY <1>9, <2>1, <2>2, <3>1
  <2> QED
    BY <2>6, <2>7
<1>12. Bytes(k) \in Nat /\ Bytes(cur[c]) \in Nat
  BY <1>1 DEF Bytes
<1>13. memory' = Cardinality(Units') /\ memory' \in Nat
  <2>1. memory = Cardinality(RestUnits(c)) + Bytes(cur[c])
    BY <1>3, <1>10
  <2> QED
    BY <1>9, <1>11, <1>12, <2>1
<1>14. slots' \in Nat
  BY <1>7, FS_CardinalityType
<1> QED
  BY <1>7, <1>11, <1>13, <1>14 DEF Budget, BudgetExact

-----------------------------------------------------------------------------
(* A step replaces the values of one cursor.                               *)

LEMMA Actors ==
  /\ Free \notin Requests /\ "recovery" \notin Requests /\ "reaper" \notin Requests
  /\ Free # "recovery" /\ Free # "reaper"
  /\ \A s \in Sweepers : s \notin Requests /\ s # Free /\ s \in Holders
  /\ \A h \in Holders : h # Free
  /\ Requests \subseteq Holders /\ "recovery" \in Holders /\ "reaper" \in Sweepers
BY ActorsAssumption DEF Holders, Sweepers

LEMMA Typed ==
  ASSUME TypeOK
  PROVE  /\ cur \in [Cursors -> CursorType] /\ net \in [Cursors -> NetType]
         /\ req \in [Requests -> RequestType] /\ served \in [Cursors -> Nat]
         /\ gate \in [Cursors -> Holders \cup {Free}]
         /\ \A c \in Cursors : /\ cur[c] \in CursorType /\ net[c] \in NetType /\ served[c] \in Nat
                               /\ gate[c] \in Holders \cup {Free}
                               /\ cur = [cur EXCEPT ![c] = cur[c]] /\ net = [net EXCEPT ![c] = net[c]]
                               /\ served = [served EXCEPT ![c] = served[c]]
                               /\ gate = [gate EXCEPT ![c] = gate[c]]
         /\ \A r \in Requests : req[r] \in RequestType /\ req = [req EXCEPT ![r] = req[r]]
BY DEF TypeOK

(* The types of what is not a cursor's.                                    *)
OthersOK ==
    /\ ctx \in [Requests -> BOOLEAN] /\ recovery \subseteq Cursors
    /\ gone \subseteq Owners \cup Cursors /\ epoch \in Nat /\ closed \in BOOLEAN

Places(c, k, n, s, g, cl) ==
    /\ cur' = [cur EXCEPT ![c] = k] /\ net' = [net EXCEPT ![c] = n]
    /\ served' = [served EXCEPT ![c] = s] /\ gate' = [gate EXCEPT ![c] = g]
    /\ cleaning' = IF cl THEN cleaning \cup {c} ELSE cleaning \ {c}

Budgets(c, k) ==
    memory' = memory - Bytes(cur[c]) + Bytes(k) /\ slots' = slots - Slot(cur[c]) + Slot(k)

LEMMA PlacedTypes ==
  ASSUME TypeOK, Budget, NEW c \in Cursors, NEW k \in CursorType, NEW n \in NetType, NEW s \in Nat,
         NEW g \in Holders \cup {Free}, NEW cl \in BOOLEAN, Places(c, k, n, s, g, cl),
         Budgets(c, k), OthersOK', req' \in [Requests -> RequestType]
  PROVE  TypeOK' /\ Budget'
<1>1. Budget' /\ memory' \in Nat /\ slots' \in Nat
  BY BudgetKeeps DEF Places, Budgets
<1>2. /\ cur' \in [Cursors -> CursorType] /\ net' \in [Cursors -> NetType]
      /\ served' \in [Cursors -> Nat] /\ gate' \in [Cursors -> Holders \cup {Free}]
  BY Typed DEF Places
<1>3. cleaning' \subseteq Cursors
  BY DEF Places, TypeOK
<1> QED
  BY <1>1, <1>2, <1>3 DEF TypeOK, OthersOK

LEMMA PlacedAt ==
  ASSUME TypeOK, NEW c \in Cursors, NEW k \in CursorType, NEW n \in NetType, NEW s \in Nat,
         NEW g \in Holders \cup {Free}, NEW cl \in BOOLEAN, Places(c, k, n, s, g, cl)
  PROVE  /\ cur'[c] = k /\ net'[c] = n /\ served'[c] = s /\ gate'[c] = g
         /\ c \in cleaning' <=> cl
         /\ \A d \in Cursors \ {c} : /\ cur'[d] = cur[d] /\ net'[d] = net[d] /\ served'[d] = served[d]
                                     /\ gate'[d] = gate[d] /\ (d \in cleaning' <=> d \in cleaning)
BY Typed DEF Places

LEMMA SoundAtNext ==
  ASSUME NEW c \in Cursors
  PROVE  SoundAt(c)' <=> Sound(cur'[c], net'[c], served'[c], gate'[c],
                               IF gate'[c] \in Requests THEN req'[gate'[c]] ELSE Idle, c \in cleaning')
BY DEF SoundAt, HolderOf, Sound, Cursor, Fresh, Dead, Horizon, Holding, OfKind, Paged, OnWire,
       Continuable, Told, Private, NewNet, NoReply, NoTimer, Idle

(* What a step of request r on cursor c may do besides.                    *)
Legal(c, r, k, g, q, h) ==
    /\ req' = [req EXCEPT ![r] = q] /\ h = IF g = r THEN q ELSE Idle
    /\ req[r].pc # "idle" => req[r].c = c
    /\ gate[c] = r \/ gate[c] \notin Requests
    /\ g \in Requests => g = r
    /\ g = r <=> q.pc \in HoldingPcs
    /\ q.pc # "idle" => q.c = c
    /\ q.pc = "publish" => /\ k.st = "reserved" /\ cur[c].st # "reserved"
                           /\ q.op \in {"open"} \cup Private /\ OfKind(q, k)
    /\ q.pc = "wait" => k.st \in {"open", "released"} /\ q.op \in {"next", "close"}
    /\ cur[c].st = "reserved" => req[r].pc = "publish"
    /\ cur[c].st \in {"open", "released"} => k.st \in {"open", "released"}

LEMMA RequestKeeps ==
  ASSUME Inv, NEW c \in Cursors, NEW r \in Requests, NEW k \in CursorType, NEW n \in NetType,
         NEW s \in Nat, NEW g \in Holders \cup {Free}, NEW cl \in BOOLEAN, NEW q \in RequestType,
         Places(c, k, n, s, g, cl), Budgets(c, k), OthersOK', NEW h,
         Legal(c, r, k, g, q, h), Sound(k, n, s, g, h, cl)
  PROVE  Inv'
<1> USE DEF Legal
<1>1. TypeOK /\ Budget /\ Gates /\ \A d \in Cursors : SoundAt(d)
  BY DEF Inv
<1>2. req' \in [Requests -> RequestType] /\ req'[r] = q /\ \A p \in Requests \ {r} : req'[p] = req[p]
  BY <1>1, Typed
<1>3. TypeOK' /\ Budget'
  BY <1>1, <1>2, PlacedTypes
<1>4. /\ cur'[c] = k /\ net'[c] = n /\ served'[c] = s /\ gate'[c] = g
      /\ c \in cleaning' <=> cl
      /\ \A d \in Cursors \ {c} : /\ cur'[d] = cur[d] /\ net'[d] = net[d] /\ served'[d] = served[d]
                                  /\ gate'[d] = gate[d] /\ (d \in cleaning' <=> d \in cleaning)
  BY <1>1, PlacedAt
<1>5. \A d \in Cursors \ {c} : gate[d] # r
  <2> SUFFICES ASSUME NEW d \in Cursors \ {c}, gate[d] = r PROVE FALSE
    OBVIOUS
  <2>1. req[r].pc \in HoldingPcs /\ req[r].c = d
    BY <1>1 DEF Gates
  <2> QED
    BY <2>1 DEF HoldingPcs
<1>6. ASSUME NEW d \in Cursors PROVE SoundAt(d)'
  <2>1. CASE d = c
    <3>1. (IF gate'[c] \in Requests THEN req'[gate'[c]] ELSE Idle) = h
      BY <1>2, <1>4
    <3>2. (c \in cleaning') = cl
      BY <1>4
    <3> QED
      BY <1>4, <2>1, <3>1, <3>2, SoundAtNext
  <2>2. CASE d # c
    <3>1. SoundAt(d) /\ gate[d] # r
      BY <1>1, <1>5, <2>2
    <3>2. (IF gate'[d] \in Requests THEN req'[gate'[d]] ELSE Idle) = HolderOf(d)
      BY <1>2, <1>4, <2>2, <3>1 DEF HolderOf
    <3>3. (d \in cleaning') = (d \in cleaning)
      BY <1>4, <2>2
    <3>4. /\ cur'[d] = cur[d] /\ net'[d] = net[d] /\ served'[d] = served[d] /\ gate'[d] = gate[d]
      BY <1>4, <2>2
    <3>5. Sound(cur[d], net[d], served[d], gate[d], HolderOf(d), d \in cleaning)
      BY <3>1 DEF SoundAt
    <3>6. Sound(cur'[d], net'[d], served'[d], gate'[d],
                IF gate'[d] \in Requests THEN req'[gate'[d]] ELSE Idle, d \in cleaning')
      BY <3>2, <3>3, <3>4, <3>5
    <3> QED
      BY <3>6, SoundAtNext
  <2> QED
    BY <2>1, <2>2
<1>7. Gates'
  <2>1. ASSUME NEW p \in Requests PROVE req'[p].pc # "idle" => req'[p].c \in Cursors
    BY <1>1, <1>2 DEF Gates
  <2>2. ASSUME NEW p \in Requests, req'[p].pc \in HoldingPcs PROVE gate'[req'[p].c] = p
    <3>1. CASE p = r
      <4>1. req'[p] = q
        BY <1>2, <3>1
      <4>2. q.pc # "idle"
        BY <2>2, <4>1 DEF HoldingPcs
      <4> QED
        BY <1>4, <2>2, <3>1, <4>1, <4>2
    <3>2. CASE p # r
      <4>1. req'[p] = req[p] /\ gate[req[p].c] = p /\ req[p].c \in Cursors
        <5>1. req'[p] = req[p]
          BY <1>2, <3>2
        <5>2. req[p].pc # "idle"
          BY <2>2, <5>1 DEF HoldingPcs
        <5> QED
          BY <1>1, <2>2, <5>1, <5>2 DEF Gates
      <4>2. req[p].c # c
        BY <3>2, <4>1
      <4> QED
        BY <1>4, <4>1, <4>2
    <3> QED
      BY <3>1, <3>2
  <2>3. ASSUME NEW d \in Cursors, gate'[d] \in Requests
        PROVE  req'[gate'[d]].pc \in HoldingPcs /\ req'[gate'[d]].c = d
    <3>1. CASE d = c
      <4>1. gate'[d] = r /\ req'[gate'[d]] = q
        BY <1>2, <1>4, <2>3, <3>1
      <4>2. q.pc \in HoldingPcs
        BY <1>4, <3>1, <4>1
      <4> QED
        BY <3>1, <4>1, <4>2 DEF HoldingPcs
    <3>2. CASE d # c
      BY <1>1, <1>2, <1>4, <1>5, <2>3, <3>2 DEF Gates
    <3> QED
      BY <3>1, <3>2
  <2>4. ASSUME NEW p \in Requests, req'[p].pc = "publish"
        PROVE  /\ cur'[req'[p].c].st = "reserved" /\ req'[p].op \in {"open"} \cup Private
               /\ OfKind(req'[p], cur'[req'[p].c])
               /\ p # r => req[p].pc = "publish" /\ req[p].c # c /\ req'[p] = req[p]
    <3>1. CASE p = r
      BY <1>2, <1>4, <2>4, <3>1
    <3>2. CASE p # r
      <4>1. req'[p] = req[p]
        BY <1>2, <3>2
      <4>2. /\ cur[req[p].c].st = "reserved" /\ req[p].op \in {"open"} \cup Private
            /\ OfKind(req[p], cur[req[p].c]) /\ req[p].c \in Cursors
        BY <1>1, <2>4, <4>1 DEF Gates
      <4>3. req[p].c # c
        BY <1>1, <2>4, <3>2, <4>1, <4>2 DEF Gates
      <4> QED
        BY <1>4, <2>4, <4>1, <4>2, <4>3
    <3> QED
      BY <3>1, <3>2
  <2>5. ASSUME NEW p1 \in Requests, NEW p2 \in Requests, req'[p1].pc = "publish",
               req'[p2].pc = "publish", req'[p1].c = req'[p2].c
        PROVE  p1 = p2
    <3>1. CASE p1 # r /\ p2 # r
      BY <1>1, <2>4, <2>5, <3>1 DEF Gates
    <3>2. CASE p1 = r
      BY <1>2, <2>4, <2>5, <3>2
    <3>3. CASE p2 = r
      BY <1>2, <2>4, <2>5, <3>3
    <3> QED
      BY <3>1, <3>2, <3>3
  <2>6. ASSUME NEW p \in Requests, req'[p].pc = "wait"
        PROVE  cur'[req'[p].c].st \in {"open", "released"} /\ req'[p].op \in {"next", "close"}
    <3>1. CASE p = r
      BY <1>2, <1>4, <2>6, <3>1
    <3>2. CASE p # r
      <4>1. req'[p] = req[p]
        BY <1>2, <3>2
      <4>2. /\ cur[req[p].c].st \in {"open", "released"} /\ req[p].op \in {"next", "close"}
            /\ req[p].c \in Cursors
        BY <1>1, <2>6, <4>1 DEF Gates
      <4> QED
        BY <1>4, <4>1, <4>2
    <3> QED
      BY <3>1, <3>2
  <2>7. \A p \in Requests : OfKind(req[p], cur[req[p].c])' <=> OfKind(req'[p], cur'[req'[p].c])
    BY DEF OfKind
  <2> QED
    BY <2>1, <2>2, <2>3, <2>4, <2>5, <2>6, <2>7 DEF Gates, Private
<1> QED
  BY <1>3, <1>6, <1>7 DEF Inv

(* A step of anyone else on cursor c.                                      *)
LEMMA CursorKeeps ==
  ASSUME Inv, NEW c \in Cursors, NEW k \in CursorType, NEW n \in NetType,
         NEW g \in Holders \cup {Free}, NEW cl \in BOOLEAN,
         Places(c, k, n, served[c], g, cl), Budgets(c, k), OthersOK', req' = req,
         gate[c] \in Requests \/ g \in Requests => g = gate[c],
         Sound(k, n, served[c], g, HolderOf(c), cl),
         k.st = cur[c].st \/ (cur[c].st = "open" /\ k.st = "released"), k.kind = cur[c].kind
  PROVE  Inv'
<1>1. TypeOK /\ Budget /\ Gates /\ \A d \in Cursors : SoundAt(d)
  BY DEF Inv
<1>2. served[c] \in Nat /\ req' \in [Requests -> RequestType]
  BY <1>1, Typed
<1>3. TypeOK' /\ Budget'
  BY <1>1, <1>2, PlacedTypes
<1>4. /\ cur'[c] = k /\ net'[c] = n /\ served'[c] = served[c] /\ gate'[c] = g
      /\ c \in cleaning' <=> cl
      /\ \A d \in Cursors \ {c} : /\ cur'[d] = cur[d] /\ net'[d] = net[d] /\ served'[d] = served[d]
                                  /\ gate'[d] = gate[d] /\ (d \in cleaning' <=> d \in cleaning)
  BY <1>1, <1>2, PlacedAt
<1>5. ASSUME NEW d \in Cursors PROVE SoundAt(d)'
  <2>1. CASE d = c
    <3>1. (IF gate'[c] \in Requests THEN req'[gate'[c]] ELSE Idle) = HolderOf(c)
      BY <1>4 DEF HolderOf
    <3>2. (c \in cleaning') = cl
      BY <1>4
    <3> QED
      BY <1>4, <2>1, <3>1, <3>2, SoundAtNext
  <2>2. CASE d # c
    <3>1. (IF gate'[d] \in Requests THEN req'[gate'[d]] ELSE Idle) = HolderOf(d)
      BY <1>4, <2>2 DEF HolderOf
    <3>2. (d \in cleaning') = (d \in cleaning)
      BY <1>4, <2>2
    <3>3. /\ cur'[d] = cur[d] /\ net'[d] = net[d] /\ served'[d] = served[d] /\ gate'[d] = gate[d]
      BY <1>4, <2>2
    <3>4. Sound(cur[d], net[d], served[d], gate[d], HolderOf(d), d \in cleaning)
      BY <1>1 DEF SoundAt
    <3>5. Sound(cur'[d], net'[d], served'[d], gate'[d],
                IF gate'[d] \in Requests THEN req'[gate'[d]] ELSE Idle, d \in cleaning')
      BY <3>1, <3>2, <3>3, <3>4
    <3> QED
      BY <3>5, SoundAtNext
  <2> QED
    BY <2>1, <2>2
<1>6. \A d \in Cursors : /\ gate'[d] \in Requests \/ gate[d] \in Requests => gate'[d] = gate[d]
                         /\ cur'[d].kind = cur[d].kind
                         /\ cur[d].st = "reserved" => cur'[d].st = "reserved"
                         /\ cur[d].st \in {"open", "released"} => cur'[d].st \in {"open", "released"}
  BY <1>4
<1>7. Gates'
  <2>1. \A p \in Requests : req[p].pc \in HoldingPcs => gate'[req[p].c] = p
    BY <1>1, <1>6 DEF Gates, HoldingPcs
  <2>2. \A d \in Cursors : gate'[d] \in Requests => req[gate'[d]].pc \in HoldingPcs /\ req[gate'[d]].c = d
    BY <1>1, <1>6 DEF Gates
  <2>3. \A p \in Requests : req[p].pc = "publish" =>
          /\ cur'[req[p].c].st = "reserved"
          /\ req[p].op \in {"open"} \cup Private /\ OfKind(req[p], cur'[req[p].c])
    BY <1>1, <1>6 DEF Gates, OfKind
  <2>4. \A p \in Requests : req[p].pc = "wait" =>
          cur'[req[p].c].st \in {"open", "released"} /\ req[p].op \in {"next", "close"}
    BY <1>1, <1>6 DEF Gates
  <2>5. \A p \in Requests : OfKind(req[p], cur[req[p].c])' <=> OfKind(req[p], cur'[req[p].c])
    BY DEF OfKind
  <2> QED
    BY <1>1, <2>1, <2>2, <2>3, <2>4, <2>5 DEF Gates, Private
<1> QED
  BY <1>3, <1>5, <1>7 DEF Inv

-----------------------------------------------------------------------------
(* What the handlers do to a cursor's record.                              *)

(* The record keeps what the server and the budget depend on.              *)
Stays(k, k2) ==
    /\ k2 \in CursorType /\ k2.st = k.st /\ k2.kind = k.kind /\ k2.bytes = k.bytes
    /\ k2.uncertain = k.uncertain /\ k2.done = k.done /\ k2.ids = k.ids
    /\ k2.dispatched = k.dispatched /\ k2.expires = k.expires
    /\ k2.serverUntil = k.serverUntil /\ k2.nativeLease = k.nativeLease
    /\ k.invalid => k2.invalid
    /\ k.timer # NoTimer => k2.timer # NoTimer

Gone(k, k2) == k2 \in CursorType /\ k2.st = "released" /\ k2.kind = k.kind /\ ~k2.dispatched

(* Nothing of the cursor is left on the server.                            *)
Over(k) == ~k.dispatched \/ k.serverUntil = 0

Settles(k, k2) == Stays(k, k2) \/ (Over(k) /\ Gone(k, k2))

LEMMA NewCursorIs ==
  /\ NewCursor \in CursorType /\ Fresh(NewCursor) /\ NewNet \in NetType
  /\ NewNet.native = 0 /\ NewNet.flights = {} /\ NewNet.pos = 0 /\ NewNet.reply.status = "none"
  /\ Idle \in RequestType /\ Idle.pc = "idle" /\ NoTimer \notin Nat
BY DEF NewCursor, CursorType, NoTimer, Fresh, NewNet, NetType, NoReply, Idle, RequestType

LEMMA ReleaseIs == ASSUME NEW k \in CursorType PROVE Gone(k, Release(k))
<1> DEFINE t == IF k.timer = 0 THEN 0 ELSE NoTimer
<1>1. t \in Nat \cup {NoTimer}
  OBVIOUS
<1>2. Release(k) = [NewCursor EXCEPT !.st = "released", !.kind = k.kind, !.timer = t]
  BY DEF Release
<1> HIDE DEF t
<1>3. NewCursor \in CursorType /\ ~NewCursor.dispatched
  BY NewCursorIs DEF Fresh
<1> QED
  BY <1>1, <1>2, <1>3 DEF Gone, CursorType

LEMMA RetireIs ==
  ASSUME NEW k \in CursorType
  PROVE  /\ Over(k) => Gone(k, Retire(k))
         /\ ~Over(k) => Stays(k, Retire(k)) /\ Retire(k).timer # NoTimer
<1>1. CASE Over(k)
  BY <1>1, ReleaseIs DEF Retire, Over
<1>2. CASE ~Over(k) /\ k.timer = NoTimer
  <2>1. Retire(k) = [k EXCEPT !.timer = k.serverUntil]
    BY <1>2 DEF Retire, Over
  <2>2. k.serverUntil \in Nat /\ k.serverUntil # NoTimer
    BY NewCursorIs DEF CursorType
  <2> QED
    BY <1>2, <2>1, <2>2 DEF Stays, CursorType
<1>3. CASE ~Over(k) /\ k.timer # NoTimer
  BY <1>3 DEF Retire, Over, Stays
<1> QED
  BY <1>1, <1>2, <1>3

LEMMA StaysStays ==
  ASSUME NEW k, NEW k1, NEW k2, Stays(k, k1)
  PROVE  /\ Stays(k1, k2) => Stays(k, k2)
         /\ Over(k1) <=> Over(k)
         /\ Gone(k1, k2) => Gone(k, k2)
         /\ Settles(k1, k2) => Settles(k, k2)
BY DEF Stays, Over, Gone, Settles

LEMMA PendingIs == ASSUME NEW k \in CursorType PROVE Settles(k, Pending(k))
<1> DEFINE k1 == [k EXCEPT !.retryAfter = CleanupTimeout]
<1>1. Stays(k, k1)
  BY ConfigAssumption DEF Stays, CursorType
<1>2. Settles(k1, Retire(k1))
  <2>1. k1 \in CursorType
    BY <1>1 DEF Stays
  <2> HIDE DEF k1
  <2> QED
    BY <2>1, RetireIs DEF Settles
<1>3. Pending(k) = Retire(k1)
  BY DEF Pending
<1> HIDE DEF k1
<1> QED
  BY <1>1, <1>2, <1>3, StaysStays

LEMMA CleanupLocalIs ==
  ASSUME NEW k \in CursorType, k.st = "open" PROVE Settles(k, CleanupLocal(k))
<1>1. CASE Over(k)
  BY <1>1, ReleaseIs DEF CleanupLocal, Over, Settles
<1>2. CASE ~Over(k)
  BY <1>2, PendingIs DEF CleanupLocal, Over
<1> QED
  BY <1>1, <1>2

LEMMA AnsweredIs ==
  ASSUME NEW k \in CursorType, NEW confirmed \in BOOLEAN
  PROVE  \/ Settles(k, Answered(k, confirmed))
         \/ confirmed /\ ~k.uncertain /\ Gone(k, Answered(k, confirmed))
BY PendingIs, ReleaseIs DEF Answered

LEMMA DisableIs ==
  ASSUME NEW k \in CursorType PROVE Stays(k, Disable(k)) /\ Disable(k).invalid
BY DEF Disable, Stays, CursorType

(* The record that QueueRecovery stores.                                   *)
Queued(k) == [Retire(k) EXCEPT !.queued = @ \/ (Retire(k).st = "open" /\ ~Retire(k).queued)]

LEMMA QueuedIs ==
  ASSUME NEW k \in CursorType
  PROVE  /\ k.st = "open" => Settles(k, Queued(k))
         /\ k.st = "released" /\ ~k.dispatched => Gone(k, Queued(k))
<1> DEFINE j == Retire(k)
           b == j.queued \/ (j.st = "open" /\ ~j.queued)
<1>1. j \in CursorType
  BY RetireIs DEF Gone, Stays
<1>2. Queued(k) = [j EXCEPT !.queued = b] /\ b \in BOOLEAN
  BY <1>1 DEF Queued, CursorType
<1>3. (Over(k) => Gone(k, j)) /\ (~Over(k) => Stays(k, j))
  BY RetireIs
<1> HIDE DEF j, b
<1>4. Stays(j, Queued(k)) /\ (Gone(k, j) => Gone(k, Queued(k)))
  BY <1>1, <1>2 DEF Stays, Gone, CursorType
<1>5. Settles(k, Queued(k))
  BY <1>3, <1>4, StaysStays DEF Settles
<1>6. k.st = "released" /\ ~k.dispatched => Gone(k, Queued(k))
  BY <1>3, <1>4 DEF Over
<1> QED
  BY <1>5, <1>6

(* Nothing is left of a cursor whose horizon has passed.                   *)
LEMMA OverIsDead ==
  ASSUME NEW k \in CursorType, NEW n \in NetType, NEW s, Cursor(k, n, s), k.st = "open", Over(k)
  PROVE  Dead(n)
<1>1. CASE Fresh(k) /\ n = NewNet
  BY <1>1, NewCursorIs DEF Dead
<1>2. CASE k.dispatched /\ Horizon(k, n)
  <2>1. k.serverUntil = 0 /\ n.native \in Nat /\ n.keepAlive \in Nat /\ n.native <= 0
    BY <1>2 DEF Over, Horizon, NetType
  <2>2. ASSUME NEW f \in n.flights PROVE FALSE
    <3>1. f.left + n.keepAlive <= 0
      BY <1>2, <2>1 DEF Horizon
    <3>2. f.left \in 1..MaxTimeout
      BY DEF NetType, Flight
    <3> QED
      BY <2>1, <3>1, <3>2, ConfigAssumption
  <2>3. n.native = 0
    BY <2>1
  <2> QED
    BY <2>2, <2>3 DEF Dead
<1> QED
  BY <1>1, <1>2 DEF Cursor, Fresh

LEMMA StaysCursor ==
  ASSUME NEW k, NEW k2, NEW n, NEW s, Cursor(k, n, s), Stays(k, k2)
  PROVE  Cursor(k2, n, s) /\ k2.st = k.st
BY DEF Cursor, Stays, Fresh, Horizon

LEMMA GoneCursor ==
  ASSUME NEW k, NEW k2, NEW n, NEW s, Dead(n), Gone(k, k2)
  PROVE  Cursor(k2, n, s) /\ k2.st = "released"
BY DEF Cursor, Gone

LEMMA SettlesCursor ==
  ASSUME NEW k \in CursorType, NEW n \in NetType, NEW s, Cursor(k, n, s), k.st = "open",
         NEW k2, Settles(k, k2)
  PROVE  Cursor(k2, n, s) /\ k2 \in CursorType /\ k2.kind = k.kind /\ k2.st \in {"open", "released"}
<1>1. CASE Stays(k, k2)
  BY <1>1, StaysCursor DEF Stays
<1>2. CASE Over(k) /\ Gone(k, k2)
  BY <1>2, OverIsDead, GoneCursor DEF Gone
<1> QED
  BY <1>1, <1>2 DEF Settles

(* Store moves the budget with the record.                                 *)
LEMMA StoreIs ==
  ASSUME TypeOK, NEW c \in Cursors, NEW k \in CursorType, Store(c, k),
         \/ k.st = cur[c].st /\ k.bytes = cur[c].bytes
         \/ cur[c].st = "open" /\ k.st = "released"
         \/ cur[c].st = "released" /\ k.st = "released"
  PROVE  cur' = [cur EXCEPT ![c] = k] /\ Budgets(c, k)
<1>1. /\ cur' = [cur EXCEPT ![c] = k]
      /\ memory' = IF cur[c].st = "open" /\ k.st = "released" THEN memory - cur[c].bytes ELSE memory
      /\ slots' = IF cur[c].st = "open" /\ k.st = "released" THEN slots - 1 ELSE slots
  BY DEF Store
<1>2. memory \in Nat /\ slots \in Nat /\ cur[c].bytes \in Nat /\ k.bytes \in Nat
  BY Typed DEF TypeOK, CursorType
<1>3. CASE cur[c].st = "open" /\ k.st = "released"
  BY <1>1, <1>2, <1>3 DEF Budgets, Bytes, Slot, Reserved
<1>4. CASE k.st = cur[c].st /\ k.bytes = cur[c].bytes
  <2>1. ~(cur[c].st = "open" /\ k.st = "released")
    BY <1>4
  <2>2. Bytes(k) = Bytes(cur[c]) /\ Slot(k) = Slot(cur[c]) /\ Bytes(k) \in Nat /\ Slot(k) \in Nat
    BY <1>2, <1>4 DEF Bytes, Slot, Reserved
  <2> QED
    BY <1>1, <1>2, <2>1, <2>2 DEF Budgets
<1>5. CASE cur[c].st = "released" /\ k.st = "released"
  BY <1>1, <1>2, <1>5 DEF Budgets, Bytes, Slot, Reserved
<1> QED
  BY <1>3, <1>4, <1>5

LEMMA SameBudget ==
  ASSUME TypeOK, NEW c \in Cursors, UNCHANGED <<memory, slots>>,
         NEW k, Bytes(k) = Bytes(cur[c]), Slot(k) = Slot(cur[c])
  PROVE  Budgets(c, k)
<1>1. memory \in Nat /\ slots \in Nat /\ Bytes(cur[c]) \in Nat /\ Slot(cur[c]) \in Nat
  BY Typed DEF TypeOK, CursorType, Bytes, Slot
<1> QED
  BY <1>1 DEF Budgets

LEMMA SettlesBudget ==
  ASSUME TypeOK, NEW c \in Cursors, NEW k, Settles(cur[c], k) \/ Gone(cur[c], k),
         cur[c].st = "open", Store(c, k)
  PROVE  cur' = [cur EXCEPT ![c] = k] /\ Budgets(c, k) /\ k \in CursorType
<1>1. k \in CursorType /\ (k.st = "released" \/ (k.st = cur[c].st /\ k.bytes = cur[c].bytes))
  BY DEF Settles, Stays, Gone
<1> QED
  BY <1>1, StoreIs

-----------------------------------------------------------------------------
(* A step of the request that holds a gate.                                *)

LEMMA Held ==
  ASSUME Inv, NEW r \in Requests, req[r].pc \in HoldingPcs
  PROVE  /\ TypeOK /\ Budget /\ req[r] \in RequestType
         /\ req[r].c \in Cursors /\ gate[req[r].c] = r
         /\ cur[req[r].c] \in CursorType /\ net[req[r].c] \in NetType /\ served[req[r].c] \in Nat
         /\ cur[req[r].c].st \in {"open", "released"}
         /\ Cursor(cur[req[r].c], net[req[r].c], served[req[r].c])
         /\ Holding(cur[req[r].c], net[req[r].c], served[req[r].c], req[r])
         /\ req[r].c \in cleaning <=> req[r].pc = "clean"
         /\ net[req[r].c].reply.status # "none" => net[req[r].c].flights = {} /\ req[r].pc = "wire"
         /\ (\E f \in net[req[r].c].flights : f.heard) => req[r].pc = "wire"
<1>1. TypeOK /\ Budget /\ Gates /\ \A c \in Cursors : SoundAt(c)
  BY DEF Inv
<1>2. req[r].c \in Cursors /\ gate[req[r].c] = r
  BY <1>1 DEF Gates, HoldingPcs
<1>3. Sound(cur[req[r].c], net[req[r].c], served[req[r].c], r, req[r], req[r].c \in cleaning)
  BY <1>1, <1>2 DEF SoundAt, HolderOf
<1>4. r # Free
  BY Actors
<1> QED
  BY <1>1, <1>2, <1>3, <1>4, Typed DEF Sound

LEMMA SoundHeld ==
  ASSUME NEW r \in Requests, NEW k, NEW n, NEW s, NEW q, NEW cl \in BOOLEAN, Cursor(k, n, s),
         k.st \in {"open", "released"}, Holding(k, n, s, q), cl <=> q.pc = "clean",
         q.pc = "wire" \/ (n.reply.status = "none" /\ \A f \in n.flights : ~f.heard),
         n.reply.status # "none" => n.flights = {},
         cl => k.st = "open" /\ k.invalid /\ k.dispatched
  PROVE  Sound(k, n, s, r, q, cl)
BY Actors DEF Sound

LEMMA SoundFree ==
  ASSUME NEW k, NEW n, NEW s, NEW q, NEW cl \in BOOLEAN, Cursor(k, n, s), NEW g, g \notin Requests,
         g # Free => k.st \in {"open", "released"},
         n.reply.status = "none", \A f \in n.flights : ~f.heard,
         k.st = "open" /\ ~k.invalid => Continuable(k, n, s),
         cl => g # Free /\ k.st = "open" /\ k.invalid /\ k.dispatched
  PROVE  Sound(k, n, s, g, q, cl)
BY DEF Sound

LEMMA HeldStep ==
  ASSUME Inv, NEW r \in Requests, req[r].pc \in HoldingPcs,
         NEW k \in CursorType, NEW n \in NetType, NEW s \in Nat, NEW q \in RequestType, NEW g,
         NEW cl \in BOOLEAN, Places(req[r].c, k, n, s, g, cl), Budgets(req[r].c, k), OthersOK',
         req' = [req EXCEPT ![r] = q],
         \/ g = r /\ q.pc \in HoldingPcs /\ q.c = req[r].c
         \/ g = Free /\ q = Idle,
         k.st \in {"open", "released"}, Sound(k, n, s, g, q, cl)
  PROVE  Inv'
<1> DEFINE c == req[r].c
<1>1. c \in Cursors /\ gate[c] = r /\ cur[c].st \in {"open", "released"}
  BY Held
<1>2. g \in Holders \cup {Free} /\ (g \in Requests => g = r) /\ r # Free
  BY Actors
<1>3. Idle.pc = "idle"
  BY NewCursorIs
<1>4. (g = r <=> q.pc \in HoldingPcs) /\ (q.pc # "idle" => q.c = c)
  BY <1>2, <1>3 DEF HoldingPcs
<1>5. (g = r => q = q) /\ (g # r => q = Idle)
  BY <1>2
<1>6. q.pc # "publish" /\ q.pc # "wait"
  BY <1>3 DEF HoldingPcs
<1> HIDE DEF c
<1>7. /\ Places(c, k, n, s, g, cl) /\ Budgets(c, k) /\ req[r].c = c
  BY DEF c
<1>8. /\ q.pc = "publish" => /\ k.st = "reserved" /\ cur[c].st # "reserved"
                             /\ q.op \in {"open"} \cup Private /\ OfKind(q, k)
      /\ q.pc = "wait" => k.st \in {"open", "released"} /\ q.op \in {"next", "close"}
  BY <1>6
<1>9. /\ cur[c].st = "reserved" => req[r].pc = "publish"
      /\ cur[c].st \in {"open", "released"} => k.st \in {"open", "released"}
      /\ gate[c] = r \/ gate[c] \notin Requests
      /\ req[r].pc # "idle" => req[r].c = c
  BY <1>1, <1>7
<1>10. c \in Cursors /\ g \in Holders \cup {Free} /\ (g \in Requests => g = r)
  BY <1>1, <1>2
<1>11. Legal(c, r, k, g, q, q)
  BY <1>4, <1>5, <1>8, <1>9, <1>10 DEF Legal
<1> QED
  BY <1>7, <1>10, <1>11, RequestKeeps

(* The request that holds the gate moves on, and nothing else changes.     *)
LEMMA MovesOn ==
  ASSUME Inv, NEW r \in Requests, req[r].pc \in HoldingPcs \ {"clean", "wire"},
         NEW q \in RequestType, req' = [req EXCEPT ![r] = q], q.pc \in HoldingPcs \ {"clean", "wire"},
         q.c = req[r].c, Holding(cur[q.c], net[q.c], served[q.c], q),
         UNCHANGED <<cur, gate, cleaning, memory, slots, ctx, recovery, net, gone, epoch, closed, served>>
  PROVE  Inv'
<1> DEFINE c == req[r].c
<1>1. /\ c \in Cursors /\ gate[c] = r /\ cur[c] \in CursorType /\ net[c] \in NetType /\ served[c] \in Nat
      /\ cur[c].st \in {"open", "released"} /\ Cursor(cur[c], net[c], served[c]) /\ c \notin cleaning
      /\ net[c].reply.status = "none" /\ \A f \in net[c].flights : ~f.heard
      /\ TypeOK
  BY Held
<1>2. Sound(cur[c], net[c], served[c], r, q, FALSE)
  BY <1>1, SoundHeld
<1>3. Places(c, cur[c], net[c], served[c], r, FALSE)
  BY <1>1, Typed DEF Places
<1>4. Budgets(c, cur[c])
  BY <1>1, SameBudget
<1>5. OthersOK'
  BY <1>1 DEF TypeOK, OthersOK
<1> QED
  BY <1>1, <1>2, <1>3, <1>4, <1>5, HeldStep

LEMMA AtIs ==
  ASSUME TypeOK, NEW r \in Requests,
         NEW pc \in {"wire", "dispatch", "page", "recover"}
  PROVE  /\ At(r, pc) \in RequestType /\ At(r, pc).pc = pc /\ At(r, pc).op = req[r].op
         /\ At(r, pc).c = req[r].c /\ pc \in HoldingPcs
<1>1. req[r] \in RequestType
  BY Typed
<1>2. Idle \in RequestType
  BY NewCursorIs
<1>3. At(r, pc) = [Idle EXCEPT !.pc = pc, !.op = req[r].op, !.c = req[r].c]
  BY DEF At
<1> QED
  BY <1>1, <1>2, <1>3 DEF RequestType, HoldingPcs

(* Whoever holds the gate may give up.                                     *)
LEMMA EndHolds ==
  ASSUME NEW k, NEW n, NEW s, NEW q, NEW p, Holding(k, n, s, q), NEW k2,
         k2.st \in {"open", "released"}, k2.kind = k.kind,
         p.op = q.op, p.pc \in {"recover", "close"}, NEW n2, NEW s2
  PROVE  Holding(k2, n2, s2, p)
BY DEF Holding, OfKind

LEMMA ToRecoverKeeps ==
  ASSUME Inv, NEW r \in Requests, req[r].pc \in HoldingPcs \ {"clean", "wire"},
         NEW q \in RequestType, req' = [req EXCEPT ![r] = q], q.pc \in {"recover", "close"},
         q.c = req[r].c, q.op = req[r].op,
         UNCHANGED <<cur, gate, cleaning, memory, slots, ctx, recovery, net, gone, epoch, closed, served>>
  PROVE  Inv'
<1> DEFINE c == req[r].c
<1>1. Holding(cur[c], net[c], served[c], req[r]) /\ cur[c].st \in {"open", "released"}
  BY Held
<1>2. Holding(cur[c], net[c], served[c], q)
  BY <1>1, EndHolds
<1>3. q.pc \in HoldingPcs \ {"clean", "wire"}
  BY DEF HoldingPcs
<1> QED
  BY <1>2, <1>3, MovesOn

-----------------------------------------------------------------------------
(* Every action keeps the invariant.                                       *)

LEMMA AtCursor ==
  ASSUME Inv, NEW c \in Cursors
  PROVE  /\ TypeOK /\ Budget /\ cur[c] \in CursorType /\ net[c] \in NetType /\ served[c] \in Nat
         /\ gate[c] \in Holders \cup {Free} /\ (c \in cleaning) \in BOOLEAN
         /\ Sound(cur[c], net[c], served[c], gate[c], HolderOf(c), c \in cleaning)
         /\ Cursor(cur[c], net[c], served[c])
BY Typed DEF Inv, SoundAt, Sound

LEMMA ReserveKeeps ==
  ASSUME Inv, NEW r \in Requests, NEW c \in Cursors, NEW op \in {"open"} \cup Private,
         NEW o \in Owners \cup {c}, NEW kind \in Kinds, NEW charge \in Charges,
         Reserve(r, c, op, o, kind, charge)
  PROVE  Inv'
<1> DEFINE k == [NewCursor EXCEPT !.st = "reserved", !.kind = kind, !.owner = o, !.bytes = charge,
                                  !.epoch = epoch, !.absolute = Lifetime]
           q == [Idle EXCEPT !.pc = "publish", !.op = op, !.c = c]
<1>1. /\ req[r].pc = "idle" /\ cur[c].st = "unused"
      /\ op \in Private => kind = IF op = "batch" THEN "pit" ELSE "sql"
      /\ memory' = memory + charge /\ slots' = slots + 1
      /\ cur' = [cur EXCEPT ![c] = k] /\ req' = [req EXCEPT ![r] = q] /\ ctx' = [ctx EXCEPT ![r] = TRUE]
      /\ UNCHANGED <<gate, cleaning, recovery, net, epoch, closed, gone, served>>
  BY DEF Reserve, target
<1>2. /\ TypeOK /\ cur[c] \in CursorType /\ gate[c] \in Holders \cup {Free}
      /\ Sound(cur[c], net[c], served[c], gate[c], HolderOf(c), c \in cleaning)
  BY AtCursor
<1>3. gate[c] = Free /\ net[c] = NewNet /\ served[c] = 0 /\ c \notin cleaning
  BY <1>1, <1>2 DEF Sound, Cursor
<1>4. epoch \in Nat /\ charge \in Nat /\ kind \in {"pit", "scroll", "sql"} /\ Lifetime \in Nat
  BY <1>2, ConfigAssumption DEF TypeOK
<1>5. /\ k \in CursorType /\ Fresh(k) /\ k.st = "reserved" /\ k.bytes = charge /\ k.kind = kind
  BY <1>4, NewCursorIs DEF CursorType, Fresh
<1>6. q \in RequestType /\ q.pc = "publish" /\ q.op = op /\ q.c = c
  BY NewCursorIs DEF RequestType, Private
<1> HIDE DEF k, q
<1>7. Places(c, k, NewNet, 0, Free, FALSE)
  BY <1>1, <1>2, <1>3, Typed DEF Places
<1>8. Budgets(c, k)
  <2>1. memory \in Nat /\ slots \in Nat
    BY <1>2 DEF TypeOK
  <2>2. Bytes(cur[c]) = 0 /\ Slot(cur[c]) = 0 /\ Bytes(k) = charge /\ Slot(k) = 1
    BY <1>1, <1>5 DEF Bytes, Slot, Reserved
  <2> QED
    BY <1>1, <1>4, <2>1, <2>2 DEF Budgets
<1>9. OthersOK'
  BY <1>1, <1>2 DEF TypeOK, OthersOK
<1>10. Legal(c, r, k, Free, q, Idle)
  <2>1. OfKind(q, k)
    BY <1>1, <1>5, <1>6 DEF OfKind, Private
  <2> QED
    BY <1>1, <1>3, <1>5, <1>6, <2>1, Actors DEF Legal, HoldingPcs
<1>11. Sound(k, NewNet, 0, Free, Idle, FALSE)
  <2>1. Cursor(k, NewNet, 0)
    BY <1>5 DEF Cursor
  <2> QED
    BY <1>5, <2>1, NewCursorIs, Actors, SoundFree
<1> QED
  BY <1>5, <1>6, <1>7, <1>8, <1>9, <1>10, <1>11, NewCursorIs, RequestKeeps

LEMMA Publishing ==
  ASSUME Inv, NEW r \in Requests, req[r].pc = "publish"
  PROVE  /\ TypeOK /\ req[r] \in RequestType /\ req[r].c \in Cursors /\ gate[req[r].c] = Free
         /\ cur[req[r].c] \in CursorType /\ cur[req[r].c].st = "reserved" /\ Fresh(cur[req[r].c])
         /\ net[req[r].c] = NewNet /\ served[req[r].c] = 0 /\ req[r].c \notin cleaning
         /\ req[r].op \in {"open"} \cup Private /\ OfKind(req[r], cur[req[r].c])
<1>1. /\ TypeOK /\ req[r] \in RequestType /\ req[r].c \in Cursors /\ cur[req[r].c].st = "reserved"
      /\ req[r].op \in {"open"} \cup Private /\ OfKind(req[r], cur[req[r].c])
  BY Typed DEF Inv, Gates
<1>2. /\ cur[req[r].c] \in CursorType /\ gate[req[r].c] \in Holders \cup {Free}
      /\ Sound(cur[req[r].c], net[req[r].c], served[req[r].c], gate[req[r].c], HolderOf(req[r].c),
               req[r].c \in cleaning)
  BY <1>1, AtCursor
<1> QED
  BY <1>1, <1>2 DEF Sound, Cursor

LEMMA PublishRefusedKeeps ==
  ASSUME Inv, NEW r \in Requests, PublishRefused(r)
  PROVE  Inv'
<1> DEFINE c == req[r].c
<1>1. /\ req[r].pc = "publish" /\ memory' = memory - cur[c].bytes /\ slots' = slots - 1
      /\ cur' = [cur EXCEPT ![c] = NewCursor] /\ req' = [req EXCEPT ![r] = Idle]
      /\ ctx' = [ctx EXCEPT ![r] = FALSE]
      /\ UNCHANGED <<gate, cleaning, recovery, net, epoch, closed, gone, served>>
  BY DEF PublishRefused, target
<1>2. /\ TypeOK /\ c \in Cursors /\ gate[c] = Free /\ cur[c] \in CursorType /\ cur[c].st = "reserved"
      /\ net[c] = NewNet /\ served[c] = 0 /\ c \notin cleaning
  BY <1>1, Publishing
<1>3. Places(c, NewCursor, NewNet, 0, Free, FALSE)
  BY <1>1, <1>2, Typed DEF Places
<1>4. NewCursor \in CursorType /\ NewCursor.st = "unused" /\ Fresh(NewCursor)
  BY NewCursorIs DEF NewCursor
<1>5. Budgets(c, NewCursor)
  <2>1. memory \in Nat /\ slots \in Nat /\ cur[c].bytes \in Nat
    BY <1>2 DEF TypeOK, CursorType
  <2>2. Bytes(cur[c]) = cur[c].bytes /\ Slot(cur[c]) = 1 /\ Bytes(NewCursor) = 0 /\ Slot(NewCursor) = 0
    BY <1>2, <1>4 DEF Bytes, Slot, Reserved
  <2> QED
    BY <1>1, <2>1, <2>2 DEF Budgets
<1>6. OthersOK'
  BY <1>1, <1>2 DEF TypeOK, OthersOK
<1>7. Legal(c, r, NewCursor, Free, Idle, Idle)
  BY <1>1, <1>2, NewCursorIs, Actors DEF Legal, HoldingPcs
<1>8. Sound(NewCursor, NewNet, 0, Free, Idle, FALSE)
  <2>1. Cursor(NewCursor, NewNet, 0)
    BY <1>4 DEF Cursor
  <2> QED
    BY <1>4, <2>1, NewCursorIs, Actors, SoundFree
<1> HIDE DEF c
<1> QED
  BY <1>2, <1>3, <1>5, <1>6, <1>7, <1>8, NewCursorIs, RequestKeeps

LEMMA PublishKeeps ==
  ASSUME Inv, NEW r \in Requests, Publish(r)
  PROVE  Inv'
<1> DEFINE c == req[r].c
           k == [cur[c] EXCEPT !.st = "open"]
           q == [req[r] EXCEPT !.pc = IF cur[c].kind = "sql" THEN "dispatch" ELSE "update"]
<1>1. /\ req[r].pc = "publish" /\ cur' = [cur EXCEPT ![c].st = "open"]
      /\ req' = [req EXCEPT ![r].pc = IF cur[c].kind = "sql" THEN "dispatch" ELSE "update"]
      /\ gate' = [gate EXCEPT ![c] = r]
      /\ UNCHANGED <<cleaning, memory, slots, ctx, recovery, net, epoch, closed, gone, served>>
  BY DEF Publish, Goto, target, reserve
<1>2. /\ TypeOK /\ req[r] \in RequestType /\ c \in Cursors /\ gate[c] = Free
      /\ cur[c] \in CursorType /\ cur[c].st = "reserved" /\ Fresh(cur[c])
      /\ net[c] = NewNet /\ served[c] = 0 /\ c \notin cleaning
      /\ req[r].op \in {"open"} \cup Private /\ OfKind(req[r], cur[c])
  BY <1>1, Publishing
<1>3. cur' = [cur EXCEPT ![c] = k] /\ req' = [req EXCEPT ![r] = q]
  BY <1>1, <1>2, Typed
<1>4. k \in CursorType /\ k.st = "open" /\ Fresh(k) /\ k.kind = cur[c].kind /\ k.bytes = cur[c].bytes
  BY <1>2 DEF CursorType, Fresh
<1>5. /\ q \in RequestType /\ q.op = req[r].op /\ q.c = c
      /\ q.pc = IF k.kind = "sql" THEN "dispatch" ELSE "update"
  BY <1>2, <1>4 DEF RequestType
<1>6. OfKind(q, k)
  BY <1>2, <1>4, <1>5 DEF OfKind
<1>7. q.op # "next"
  BY <1>2, <1>5 DEF Private
<1> HIDE DEF k, q
<1>8. Places(c, k, NewNet, 0, r, FALSE)
  <2>1. gate' = [gate EXCEPT ![c] = r] /\ cleaning' = cleaning /\ net' = net /\ served' = served
    BY <1>1
  <2>2. net = [net EXCEPT ![c] = NewNet] /\ served = [served EXCEPT ![c] = 0] /\ c \notin cleaning
    BY <1>2, Typed
  <2> QED
    BY <1>3, <2>1, <2>2 DEF Places
<1>9. Budgets(c, k)
  <2>1. Bytes(k) = Bytes(cur[c]) /\ Slot(k) = Slot(cur[c])
    BY <1>2, <1>4 DEF Bytes, Slot, Reserved
  <2> QED
    BY <1>1, <1>2, <2>1, SameBudget
<1>10. OthersOK'
  BY <1>1, <1>2 DEF TypeOK, OthersOK
<1>11. Legal(c, r, k, r, q, q)
  BY <1>1, <1>2, <1>3, <1>4, <1>5, Actors DEF Legal, HoldingPcs
<1>12. Sound(k, NewNet, 0, r, q, FALSE)
  <2>1. Cursor(k, NewNet, 0)
    BY <1>4 DEF Cursor
  <2>2. Holding(k, NewNet, 0, q)
    BY <1>2, <1>4, <1>5, <1>6, <1>7, NewCursorIs DEF Holding, Fresh, Told
  <2> QED
    BY <1>4, <1>5, <2>1, <2>2, NewCursorIs, SoundHeld
<1> HIDE DEF c
<1>13. c \in Cursors /\ r \in Holders \cup {Free} /\ NewNet \in NetType
  BY <1>2, NewCursorIs, Actors
<1> QED
  BY <1>4, <1>5, <1>8, <1>9, <1>10, <1>11, <1>12, <1>13, RequestKeeps

LEMMA UpdateQueryKeeps ==
  ASSUME Inv, NEW r \in Requests, NEW charge \in Charges, UpdateQuery(r, charge)
  PROVE  Inv'
<1> DEFINE c == req[r].c
           ok == charge <= cur[c].bytes \/ memory - cur[c].bytes + charge <= MemoryLimit
           k == [cur[c] EXCEPT !.bytes = charge]
           q == [req[r] EXCEPT !.pc = IF req[r].op = "next" THEN "result" ELSE "dispatch"]
<1>1. /\ req[r].pc = "update"
      /\ UNCHANGED <<gate, cleaning, slots, ctx, recovery, net, epoch, closed, gone, served>>
  BY DEF UpdateQuery, target
<1>2. /\ TypeOK /\ req[r] \in RequestType /\ c \in Cursors /\ gate[c] = r /\ cur[c] \in CursorType
      /\ net[c] \in NetType /\ served[c] \in Nat /\ c \notin cleaning
      /\ Cursor(cur[c], net[c], served[c]) /\ Holding(cur[c], net[c], served[c], req[r])
      /\ net[c].reply.status = "none" /\ \A f \in net[c].flights : ~f.heard
  BY <1>1, Held DEF HoldingPcs
<1>3. CASE ~ok
  <2>1. ToRecover(r) /\ UNCHANGED <<memory, cur>>
    BY <1>3 DEF Fits, UpdateQuery
  <2>2. req[r].pc \in HoldingPcs \ {"clean", "wire"}
    BY <1>1 DEF HoldingPcs
  <2>3. /\ At(r, "recover") \in RequestType /\ At(r, "recover").pc = "recover"
        /\ At(r, "recover").op = req[r].op /\ At(r, "recover").c = req[r].c
    BY <1>2, AtIs
  <2> QED
    BY <1>1, <2>1, <2>2, <2>3, ToRecoverKeeps DEF ToRecover
<1>4. CASE ok
  <2>1. /\ memory' = memory - cur[c].bytes + charge /\ cur' = [cur EXCEPT ![c].bytes = charge]
        /\ req' = [req EXCEPT ![r].pc = IF req[r].op = "next" THEN "result" ELSE "dispatch"]
    BY <1>4 DEF Fits, UpdateQuery, Goto
  <2>2. cur' = [cur EXCEPT ![c] = k] /\ req' = [req EXCEPT ![r] = q]
    BY <1>2, <2>1, Typed
  <2>3. charge \in Nat
    BY ConfigAssumption
  <2>4. /\ k \in CursorType /\ k.bytes = charge /\ k.st = cur[c].st
        /\ Cursor(k, net[c], served[c]) /\ (Fresh(cur[c]) => Fresh(k))
        /\ Holding(k, net[c], served[c], req[r])
    BY <1>2, <2>3 DEF CursorType, Cursor, Fresh, Horizon, Holding, OfKind, Paged, OnWire
  <2>5. /\ q \in RequestType /\ q.c = c /\ q.op = req[r].op /\ q.more = req[r].more
        /\ q.pc = IF q.op = "next" THEN "result" ELSE "dispatch"
    BY <1>2 DEF RequestType
  <2> HIDE DEF k, q
  <2>6. k.st = "open" /\ OfKind(q, k) /\ q.op \in Told \cup Private
    BY <1>1, <2>4, <2>5 DEF Holding, OfKind
  <2>7. \/ q.op # "next" /\ Fresh(k) /\ net[c] = NewNet /\ served[c] = 0
        \/ q.op = "next" /\ Paged(k, net[c], served[c], q)
    BY <1>1, <2>4, <2>5, <2>6 DEF Holding, Cursor, Paged, Fresh
  <2>8. Holding(k, net[c], served[c], q)
    BY <2>5, <2>6, <2>7, NewCursorIs DEF Holding, Fresh, Told
  <2>9. Sound(k, net[c], served[c], r, q, FALSE)
    BY <1>2, <2>4, <2>5, <2>6, <2>8, SoundHeld
  <2>10. Places(c, k, net[c], served[c], r, FALSE)
    BY <1>1, <1>2, <2>2, Typed DEF Places
  <2>11. Budgets(c, k)
    <3>1. memory \in Nat /\ slots \in Nat
      BY <1>2 DEF TypeOK
    <3>2. Bytes(cur[c]) = cur[c].bytes /\ Bytes(k) = charge /\ Slot(k) = 1 /\ Slot(cur[c]) = 1
      BY <2>4, <2>6 DEF Bytes, Slot, Reserved
    <3>3. slots' = slots - 1 + 1
      BY <1>1, <3>1
    <3> QED
      BY <2>1, <3>2, <3>3 DEF Budgets
  <2>12. OthersOK'
    BY <1>1, <1>2 DEF TypeOK, OthersOK
  <2>13. q.pc \in HoldingPcs /\ req[r].pc \in HoldingPcs
    BY <1>1, <2>5 DEF HoldingPcs
  <2> QED
    BY <1>2, <2>2, <2>4, <2>5, <2>6, <2>9, <2>10, <2>11, <2>12, <2>13, HeldStep
<1> QED
  BY <1>3, <1>4

LEMMA AbandonKeeps ==
  ASSUME Inv, NEW r \in Requests, Abandon(r) \/ DispatchRefused(r) \/ Exhausted(r)
  PROVE  Inv'
<1>1. /\ req[r].pc \in {"update", "page", "result", "dispatch"}
      /\ \/ req' = [req EXCEPT ![r] = At(r, "recover")]
         \/ req' = [req EXCEPT ![r] = [At(r, "recover") EXCEPT !.result = TRUE]]
      /\ UNCHANGED <<cur, gate, cleaning, memory, slots, ctx, recovery, net, gone, epoch, closed, served>>
  BY DEF Abandon, DispatchRefused, Exhausted, ToRecover, target, reserve
<1>2. req[r].pc \in HoldingPcs \ {"clean", "wire"}
  BY <1>1 DEF HoldingPcs
<1>3. TypeOK
  BY DEF Inv
<1>4. /\ At(r, "recover") \in RequestType /\ At(r, "recover").pc = "recover"
      /\ At(r, "recover").op = req[r].op /\ At(r, "recover").c = req[r].c
  BY <1>3, AtIs
<1> DEFINE q == [At(r, "recover") EXCEPT !.result = TRUE]
<1>5. q \in RequestType /\ q.pc = "recover" /\ q.op = req[r].op /\ q.c = req[r].c
  BY <1>4 DEF RequestType
<1> HIDE DEF q
<1>6. CASE req' = [req EXCEPT ![r] = At(r, "recover")]
  BY <1>1, <1>2, <1>4, <1>6, ToRecoverKeeps
<1>7. CASE req' = [req EXCEPT ![r] = q]
  BY <1>1, <1>2, <1>5, <1>7, ToRecoverKeeps
<1> QED
  BY <1>1, <1>6, <1>7 DEF q

(* A step that touches no cursor and no request that holds one.            *)
LEMMA ElsewhereKeeps ==
  ASSUME Inv, UNCHANGED <<cur, gate, cleaning, memory, slots, net, served>>, OthersOK',
         req' \in [Requests -> RequestType],
         \A r \in Requests :
            \/ req'[r] = req[r]
            \/ /\ req[r].pc \in {"idle", "wait"} /\ req'[r].pc \in {"idle", "wait"}
               /\ req'[r].pc = "wait" => /\ req'[r].c \in Cursors /\ req'[r].op \in {"next", "close"}
                                         /\ cur[req'[r].c].st \in {"open", "released"}
  PROVE  Inv'
<1>1. TypeOK /\ Budget /\ Gates /\ \A d \in Cursors : SoundAt(d)
  BY DEF Inv
<1>2. TypeOK'
  BY <1>1 DEF TypeOK, OthersOK
<1>3. Budget'
  <2>1. Reservations' = Reservations
    BY DEF Reservations
  <2>2. Units' = Units
    BY <2>1 DEF Units
  <2> QED
    BY <1>1, <2>1, <2>2 DEF Budget, BudgetExact
<1>4. \A r \in Requests : (req[r].pc \in HoldingPcs \cup {"publish"} => req'[r] = req[r])
                       /\ (req'[r].pc \in HoldingPcs \cup {"publish"} => req'[r] = req[r])
  BY DEF HoldingPcs
<1>5. ASSUME NEW d \in Cursors PROVE SoundAt(d)'
  <2>1. (IF gate'[d] \in Requests THEN req'[gate'[d]] ELSE Idle) = HolderOf(d)
    BY <1>1, <1>4 DEF HolderOf, Gates
  <2>2. Sound(cur'[d], net'[d], served'[d], gate'[d],
              IF gate'[d] \in Requests THEN req'[gate'[d]] ELSE Idle, d \in cleaning')
    BY <1>1, <2>1 DEF SoundAt
  <2> QED
    BY <2>2, SoundAtNext
<1>6. Gates'
  <2>1. \A p \in Requests : req'[p].pc # "idle" => req'[p].c \in Cursors
    BY <1>1 DEF Gates
  <2>2. \A p \in Requests : req'[p].pc \in HoldingPcs => gate[req'[p].c] = p
    BY <1>1, <1>4 DEF Gates
  <2>3. \A d \in Cursors : gate[d] \in Requests => req'[gate[d]].pc \in HoldingPcs /\ req'[gate[d]].c = d
    BY <1>1, <1>4 DEF Gates
  <2>4. \A p \in Requests : req'[p].pc = "publish" =>
          /\ cur[req'[p].c].st = "reserved"
          /\ req'[p].op \in {"open"} \cup Private /\ OfKind(req'[p], cur[req'[p].c])
    BY <1>1, <1>4 DEF Gates
  <2>5. \A p, q \in Requests : req'[p].pc = "publish" /\ req'[q].pc = "publish"
                               /\ req'[p].c = req'[q].c => p = q
    BY <1>1, <1>4 DEF Gates
  <2>6. \A p \in Requests : req'[p].pc = "wait" =>
          cur[req'[p].c].st \in {"open", "released"} /\ req'[p].op \in {"next", "close"}
    BY <1>1 DEF Gates
  <2>7. \A p \in Requests : OfKind(req[p], cur[req[p].c])' <=> OfKind(req'[p], cur[req'[p].c])
    BY DEF OfKind
  <2> QED
    BY <2>1, <2>2, <2>3, <2>4, <2>5, <2>6, <2>7 DEF Gates, Private
<1> QED
  BY <1>2, <1>3, <1>5, <1>6 DEF Inv

LEMMA WaiterKeeps ==
  ASSUME Inv, NEW r \in Requests,
         \/ LockTimeout(r)
         \/ \E c \in Cursors, o \in Owners, op \in {"next", "close"} : Lookup(r, c, o, op)
  PROVE  Inv'
<1>1. TypeOK /\ req \in [Requests -> RequestType]
  BY Typed DEF Inv
<1>2. CASE LockTimeout(r)
  <2>1. /\ req[r].pc = "wait" /\ req' = [req EXCEPT ![r] = Idle]
        /\ UNCHANGED <<cur, gate, cleaning, memory, slots, ctx, recovery, net, gone, epoch, closed, served>>
    BY <1>2 DEF LockTimeout, reserve, target
  <2>2. OthersOK'
    BY <1>1, <2>1 DEF OthersOK, TypeOK
  <2>3. Idle \in RequestType /\ Idle.pc = "idle"
    BY NewCursorIs
  <2> QED
    BY <1>1, <2>1, <2>2, <2>3, ElsewhereKeeps
<1>3. CASE \E c \in Cursors, o \in Owners, op \in {"next", "close"} : Lookup(r, c, o, op)
  <2>1. PICK c \in Cursors, o \in Owners, op \in {"next", "close"} : Lookup(r, c, o, op)
    BY <1>3
  <2> DEFINE q == [Idle EXCEPT !.pc = "wait", !.op = op, !.c = c]
  <2>2. /\ req[r].pc = "idle" /\ cur[c].st = "open" /\ req' = [req EXCEPT ![r] = q]
        /\ ctx' = [ctx EXCEPT ![r] = TRUE]
        /\ UNCHANGED <<cur, gate, cleaning, memory, slots, recovery, net, gone, epoch, closed, served>>
    BY <2>1 DEF Lookup, reserve, target
  <2>3. OthersOK'
    BY <1>1, <2>2 DEF OthersOK, TypeOK
  <2>4. q \in RequestType /\ q.pc = "wait" /\ q.op = op /\ q.c = c
    BY NewCursorIs DEF RequestType
  <2> HIDE DEF q
  <2> QED
    BY <1>1, <2>2, <2>3, <2>4, ElsewhereKeeps
<1> QED
  BY <1>2, <1>3

LEMMA LockKeeps ==
  ASSUME Inv, NEW r \in Requests, NEW fresh \in BOOLEAN, Lock(r, fresh)
  PROVE  Inv'
<1> DEFINE c == req[r].c
           to == IF req[r].op = "close" THEN "close"
                 ELSE IF Usable(c) /\ fresh THEN "dispatch" ELSE "recover"
           q == [req[r] EXCEPT !.pc = to]
<1>1. /\ req[r].pc = "wait" /\ gate[c] = Free /\ gate' = [gate EXCEPT ![c] = r]
      /\ req' = [req EXCEPT ![r].pc = to]
      /\ UNCHANGED <<cur, cleaning, memory, slots, ctx, recovery, net, epoch, closed, gone, served>>
  BY DEF Lock, Goto, target, reserve
<1>2. /\ req[r] \in RequestType /\ c \in Cursors /\ TypeOK
      /\ cur[c].st \in {"open", "released"} /\ req[r].op \in {"next", "close"}
  BY <1>1, Typed DEF Inv, Gates
<1>3. /\ cur[c] \in CursorType /\ net[c] \in NetType /\ served[c] \in Nat
      /\ Sound(cur[c], net[c], served[c], gate[c], HolderOf(c), c \in cleaning)
      /\ Cursor(cur[c], net[c], served[c])
  BY <1>2, AtCursor
<1>4. /\ c \notin cleaning /\ net[c].reply.status = "none" /\ \A f \in net[c].flights : ~f.heard
      /\ cur[c].st = "open" /\ ~cur[c].invalid => Continuable(cur[c], net[c], served[c])
  BY <1>1, <1>3, Actors DEF Sound
<1>5. /\ to \in {"close", "dispatch", "recover"}
      /\ to = "dispatch" => req[r].op = "next" /\ cur[c].st = "open" /\ ~cur[c].invalid
  BY <1>2 DEF Usable
<1>6. req' = [req EXCEPT ![r] = q]
  BY <1>1, <1>2, Typed
<1> HIDE DEF to
<1>7. q \in RequestType /\ q.pc = to /\ q.op = req[r].op /\ q.c = c
  BY <1>2, <1>5 DEF RequestType
<1> HIDE DEF q
<1>8. Holding(cur[c], net[c], served[c], q)
  BY <1>2, <1>4, <1>5, <1>7 DEF Holding, OfKind, Continuable, Told
<1>9. Sound(cur[c], net[c], served[c], r, q, FALSE)
  BY <1>2, <1>3, <1>4, <1>5, <1>7, <1>8, SoundHeld
<1>10. Places(c, cur[c], net[c], served[c], r, FALSE)
  BY <1>1, <1>2, <1>4, Typed DEF Places
<1>11. Budgets(c, cur[c])
  BY <1>1, <1>2, SameBudget
<1>12. OthersOK'
  BY <1>1, <1>2 DEF TypeOK, OthersOK
<1>13. Legal(c, r, cur[c], r, q, q)
  BY <1>1, <1>2, <1>5, <1>6, <1>7, Actors DEF Legal, HoldingPcs
<1> HIDE DEF c
<1>14. c \in Cursors /\ r \in Holders \cup {Free}
  BY <1>2, Actors
<1> QED
  BY <1>3, <1>7, <1>9, <1>10, <1>11, <1>12, <1>13, <1>14, RequestKeeps

(* The handler returns, and the cursor is k.                               *)
LEMMA FinishKeeps ==
  ASSUME Inv, NEW r \in Requests, req[r].pc \in HoldingPcs, Finish(r),
         NEW k \in CursorType, NEW n \in NetType, NEW s \in Nat,
         cur' = [cur EXCEPT ![req[r].c] = k], net' = [net EXCEPT ![req[r].c] = n],
         served' = [served EXCEPT ![req[r].c] = s], cleaning' = cleaning \ {req[r].c},
         Budgets(req[r].c, k), recovery' \subseteq Cursors, UNCHANGED <<epoch, closed>>,
         k.st \in {"open", "released"}, Cursor(k, n, s),
         n.reply.status = "none", \A f \in n.flights : ~f.heard,
         k.st = "open" /\ ~k.invalid => Continuable(k, n, s)
  PROVE  Inv'
<1> DEFINE c == req[r].c
<1>1. /\ req' = [req EXCEPT ![r] = Idle] /\ gate' = [gate EXCEPT ![c] = Free]
      /\ ctx' = [ctx EXCEPT ![r] = FALSE]
      /\ gone' = IF req[r].op \in Private THEN gone \cup {c} ELSE gone
  BY DEF Finish
<1>2. TypeOK /\ c \in Cursors
  BY Held
<1>3. Places(c, k, n, s, Free, FALSE)
  BY <1>1 DEF Places
<1>4. OthersOK'
  BY <1>1, <1>2 DEF TypeOK, OthersOK
<1>5. Sound(k, n, s, Free, Idle, FALSE)
  BY Actors, SoundFree
<1> HIDE DEF c
<1> QED
  BY <1>1, <1>3, <1>4, <1>5, NewCursorIs, HeldStep DEF c

LEMMA RefuseKeeps ==
  ASSUME Inv, NEW r \in Requests, Refuse(r)
  PROVE  Inv'
<1> DEFINE c == req[r].c
<1>1. /\ req[r].pc = "dispatch" /\ req[r].op = "next" /\ Finish(r)
      /\ UNCHANGED <<cur, cleaning, memory, slots, recovery, net, epoch, closed, served>>
  BY DEF Refuse, reserve
<1>2. /\ TypeOK /\ c \in Cursors /\ cur[c] \in CursorType /\ net[c] \in NetType /\ served[c] \in Nat
      /\ cur[c].st \in {"open", "released"} /\ Cursor(cur[c], net[c], served[c])
      /\ Holding(cur[c], net[c], served[c], req[r]) /\ c \notin cleaning
      /\ net[c].reply.status = "none" /\ \A f \in net[c].flights : ~f.heard
  BY <1>1, Held DEF HoldingPcs
<1>3. Continuable(cur[c], net[c], served[c])
  BY <1>1, <1>2 DEF Holding, Continuable, Told
<1>4. /\ cur' = [cur EXCEPT ![c] = cur[c]] /\ net' = [net EXCEPT ![c] = net[c]]
      /\ served' = [served EXCEPT ![c] = served[c]] /\ cleaning' = cleaning \ {c}
      /\ recovery' \subseteq Cursors
  BY <1>1, <1>2, Typed DEF TypeOK
<1>5. Budgets(c, cur[c])
  BY <1>1, <1>2, SameBudget
<1>6. req[r].pc \in HoldingPcs
  BY <1>1 DEF HoldingPcs
<1> QED
  BY <1>1, <1>2, <1>3, <1>4, <1>5, <1>6, FinishKeeps

LEMMA ServeKeeps ==
  ASSUME Inv, NEW r \in Requests, ServePage(r) \/ ServeAggregation(r)
  PROVE  Inv'
<1> DEFINE c == req[r].c
           s == IF req[r].more THEN served[c] + 1 ELSE served[c]
<1>1. /\ req[r].pc = "result" /\ Finish(r)
      /\ UNCHANGED <<cur, cleaning, memory, slots, recovery, net, epoch, closed>>
      /\ ~cur[c].done \/ cur[c].kind = "pit"
  BY DEF ServePage, ServeAggregation, reserve
<1>2. /\ TypeOK /\ c \in Cursors /\ cur[c] \in CursorType /\ net[c] \in NetType /\ served[c] \in Nat
      /\ cur[c].st \in {"open", "released"} /\ Cursor(cur[c], net[c], served[c])
      /\ Holding(cur[c], net[c], served[c], req[r]) /\ c \notin cleaning
      /\ net[c].reply.status = "none" /\ (\A f \in net[c].flights : ~f.heard)
      /\ req[r] \in RequestType
  BY <1>1, Held DEF HoldingPcs
<1>3. served' = [served EXCEPT ![c] = s]
  BY <1>2, Typed DEF ServePage, ServeAggregation
<1>4. /\ cur[c].st = "open" /\ Paged(cur[c], net[c], served[c], req[r]) /\ req[r].op \in Told
  BY <1>1, <1>2 DEF Holding
<1>5. cur[c].dispatched /\ Horizon(cur[c], net[c])
  BY <1>2, <1>4 DEF Cursor, Paged, Fresh
<1>6. ~cur[c].done
  BY <1>1, <1>5 DEF Horizon
<1>7. s \in Nat /\ net[c].pos = s
  BY <1>2, <1>4 DEF Paged, NetType, RequestType
<1> HIDE DEF s
<1>8. Cursor(cur[c], net[c], s)
  BY <1>4, <1>5 DEF Cursor
<1>9. Continuable(cur[c], net[c], s)
  BY <1>4, <1>6, <1>7 DEF Continuable, Paged
<1>10. /\ cur' = [cur EXCEPT ![c] = cur[c]] /\ net' = [net EXCEPT ![c] = net[c]]
       /\ cleaning' = cleaning \ {c} /\ recovery' \subseteq Cursors
  BY <1>1, <1>2, Typed DEF TypeOK
<1>11. Budgets(c, cur[c])
  BY <1>1, <1>2, SameBudget
<1>12. req[r].pc \in HoldingPcs
  BY <1>1 DEF HoldingPcs
<1> QED
  BY <1>1, <1>2, <1>3, <1>7, <1>8, <1>9, <1>10, <1>11, <1>12, FinishKeeps

LEMMA DrainedSqlKeeps ==
  ASSUME Inv, NEW r \in Requests, DrainedSql(r)
  PROVE  Inv'
<1> DEFINE c == req[r].c
           k == Release(cur[c])
<1>1. /\ req[r].pc \in {"page", "result"} /\ cur[c].done /\ Store(c, k) /\ Finish(r)
      /\ UNCHANGED <<cleaning, recovery, net, epoch, closed, served>>
  BY DEF DrainedSql
<1>2. /\ TypeOK /\ c \in Cursors /\ cur[c] \in CursorType /\ net[c] \in NetType /\ served[c] \in Nat
      /\ Cursor(cur[c], net[c], served[c])
      /\ Holding(cur[c], net[c], served[c], req[r]) /\ c \notin cleaning
      /\ net[c].reply.status = "none" /\ (\A f \in net[c].flights : ~f.heard)
  BY <1>1, Held DEF HoldingPcs
<1>3. cur[c].st = "open"
  BY <1>1, <1>2 DEF Holding
<1>4. Gone(cur[c], k)
  BY <1>2, ReleaseIs
<1>5. Dead(net[c])
  BY <1>1, <1>2, <1>3 DEF Cursor, Fresh, Horizon, Dead
<1>6. Cursor(k, net[c], served[c]) /\ k.st = "released"
  BY <1>4, <1>5, GoneCursor
<1>7. cur' = [cur EXCEPT ![c] = k] /\ Budgets(c, k) /\ k \in CursorType
  BY <1>1, <1>2, <1>3, <1>4, SettlesBudget
<1>8. /\ net' = [net EXCEPT ![c] = net[c]] /\ served' = [served EXCEPT ![c] = served[c]]
      /\ cleaning' = cleaning \ {c} /\ recovery' \subseteq Cursors
  BY <1>1, <1>2, Typed DEF TypeOK
<1>9. req[r].pc \in HoldingPcs
  BY <1>1 DEF HoldingPcs
<1> HIDE DEF k
<1> QED
  BY <1>1, <1>2, <1>6, <1>7, <1>8, <1>9, FinishKeeps

LEMMA PageKeeps ==
  ASSUME Inv, NEW r \in Requests, NextMember(r) \/ AcceptPage(r)
  PROVE  Inv'
<1> DEFINE c == req[r].c
           to == IF NextMember(r) THEN "dispatch"
                 ELSE IF req[r].op = "batch" THEN "close"
                 ELSE IF req[r].op = "next" /\ cur[c].kind = "pit" THEN "update" ELSE "result"
           q == [req[r] EXCEPT !.pc = to]
<1>1. /\ req[r].pc = "page"
      /\ NextMember(r) => req[r].op = "batch" \/ (req[r].op = "drain" /\ ~cur[c].done)
      /\ ~NextMember(r) => req[r].op # "drain"
      /\ UNCHANGED <<cur, gate, cleaning, memory, slots, ctx, recovery, net, gone, epoch, closed, served>>
  BY DEF NextMember, AcceptPage, reserve, target
<1>2. req' = [req EXCEPT ![r].pc = to]
  <2>1. CASE NextMember(r)
    BY <2>1 DEF NextMember, Goto
  <2>2. CASE ~NextMember(r)
    BY <2>2 DEF AcceptPage, Goto
  <2> QED
    BY <2>1, <2>2
<1>3. /\ TypeOK /\ c \in Cursors /\ cur[c] \in CursorType /\ net[c] \in NetType /\ served[c] \in Nat
      /\ Cursor(cur[c], net[c], served[c])
      /\ Holding(cur[c], net[c], served[c], req[r]) /\ req[r] \in RequestType
  BY <1>1, Held DEF HoldingPcs
<1>4. /\ cur[c].st = "open" /\ Paged(cur[c], net[c], served[c], req[r]) /\ OfKind(req[r], cur[c])
      /\ req[r].op \in Told \cup Private
  BY <1>1, <1>3 DEF Holding
<1>5. Horizon(cur[c], net[c])
  BY <1>3, <1>4 DEF Cursor, Paged, Fresh
<1>6. to \in {"dispatch", "close", "update", "result"}
  OBVIOUS
<1>7. /\ to = "dispatch" => req[r].op \in Private /\ ~cur[c].done
      /\ to = "update" => req[r].op = "next" /\ cur[c].kind = "pit"
      /\ to = "result" => req[r].op \in Told
  <2>1. req[r].op = "batch" => ~cur[c].done
    BY <1>4, <1>5 DEF OfKind, Horizon
  <2> QED
    BY <1>1, <1>4, <2>1 DEF Private, Told
<1>8. req' = [req EXCEPT ![r] = q]
  BY <1>2, <1>3, Typed
<1> HIDE DEF to
<1>9. q \in RequestType /\ q.pc = to /\ q.op = req[r].op /\ q.c = c /\ q.more = req[r].more
  BY <1>3, <1>6 DEF RequestType
<1> HIDE DEF q
<1>10. Paged(cur[c], net[c], served[c], q) /\ OfKind(q, cur[c])
  BY <1>4, <1>9 DEF Paged, OfKind
<1>11. Holding(cur[c], net[c], served[c], q)
  BY <1>4, <1>6, <1>7, <1>9, <1>10 DEF Holding, Paged, Told, Private
<1>12. q.pc \in HoldingPcs \ {"clean", "wire"} /\ req[r].pc \in HoldingPcs \ {"clean", "wire"}
  BY <1>1, <1>6, <1>9 DEF HoldingPcs
<1> QED
  BY <1>1, <1>8, <1>9, <1>11, <1>12, MovesOn

(* The lease a dispatch accounts covers what the server may create.        *)
LEMMA DispatchedIs ==
  ASSUME NEW k \in CursorType, NEW keep \in Nat, NEW n \in NetType, n.flights = {},
         (Fresh(k) /\ n = NewNet) \/ Horizon(k, n)
  PROVE  LET j == Dispatched(k, keep) IN
         /\ j \in CursorType /\ j.st = k.st /\ j.kind = k.kind /\ j.bytes = k.bytes /\ j.done = k.done
         /\ j.dispatched /\ j.uncertain /\ j.timer # NoTimer /\ j.expires = keep /\ keep <= j.nativeLease
         /\ j.serverUntil = j.nativeLease + MaxTimeout
         /\ n.native <= n.keepAlive /\ n.keepAlive <= j.nativeLease
<1> DEFINE lease == Higher(k.nativeLease, keep)
           k1 == [k EXCEPT !.expires = keep, !.nativeLease = lease, !.serverUntil = lease + MaxTimeout,
                           !.dispatched = TRUE, !.uncertain = TRUE]
           j == Retire(k1)
<1>1. Dispatched(k, keep) = j
  BY DEF Dispatched
<1>2. /\ k.nativeLease \in Nat /\ n.native \in Nat /\ n.keepAlive \in Nat /\ MaxTimeout \in Nat
      /\ MaxTimeout > 0
  BY ConfigAssumption DEF CursorType, NetType
<1>3. lease \in Nat /\ k.nativeLease <= lease /\ keep <= lease
  BY <1>2 DEF Higher
<1>4. n.native <= n.keepAlive /\ n.keepAlive <= k.nativeLease
  <2>1. CASE Fresh(k) /\ n = NewNet
    BY <1>2, <2>1 DEF NewNet
  <2>2. CASE Horizon(k, n)
    BY <2>2 DEF Horizon
  <2> QED
    BY <2>1, <2>2
<1> HIDE DEF lease
<1>5. lease + MaxTimeout \in Nat /\ lease + MaxTimeout # 0
  BY <1>2, <1>3
<1>6. /\ k1 \in CursorType /\ k1.st = k.st /\ k1.kind = k.kind /\ k1.bytes = k.bytes /\ k1.done = k.done
      /\ k1.dispatched /\ k1.uncertain /\ k1.expires = keep /\ k1.nativeLease = lease
      /\ k1.serverUntil = lease + MaxTimeout
  BY <1>3, <1>5 DEF CursorType
<1> HIDE DEF k1
<1>7. Stays(k1, j) /\ j.timer # NoTimer
  BY <1>5, <1>6, RetireIs DEF Over
<1>8. /\ j \in CursorType /\ j.st = k.st /\ j.kind = k.kind /\ j.bytes = k.bytes /\ j.done = k.done
      /\ j.dispatched /\ j.uncertain /\ j.expires = keep /\ j.nativeLease = lease
      /\ j.serverUntil = lease + MaxTimeout
  BY <1>6, <1>7 DEF Stays
<1> HIDE DEF j
<1>9. n.native <= n.keepAlive /\ n.keepAlive <= j.nativeLease
  BY <1>2, <1>3, <1>4, <1>8
<1> QED
  BY <1>1, <1>3, <1>7, <1>8, <1>9

LEMMA BeginDispatchKeeps ==
  ASSUME Inv, NEW r \in Requests, NEW requested \in Keeps, NEW sent \in BOOLEAN,
         BeginDispatch(r, requested, sent)
  PROVE  Inv'
<1> DEFINE c == req[r].c
           keep == Lower(requested, cur[c].absolute)
           flight == [left |-> MaxTimeout, lease |-> keep, heard |-> TRUE, create |-> cur[c].ids = 0]
           k == Dispatched(cur[c], keep)
           q == IF sent THEN [At(r, "wire") EXCEPT !.lease = keep] ELSE At(r, "recover")
           n == IF sent THEN [net[c] EXCEPT !.flights = @ \cup {flight}] ELSE net[c]
<1>1. /\ req[r].pc = "dispatch" /\ Store(c, k) /\ req' = [req EXCEPT ![r] = q]
      /\ net' = IF sent THEN [net EXCEPT ![c].flights = @ \cup {flight}] ELSE net
      /\ UNCHANGED <<gate, cleaning, ctx, recovery, epoch, closed, gone, served>>
  BY DEF BeginDispatch, target
<1>2. /\ TypeOK /\ c \in Cursors /\ cur[c] \in CursorType /\ net[c] \in NetType /\ served[c] \in Nat
      /\ gate[c] = r /\ Cursor(cur[c], net[c], served[c])
      /\ Holding(cur[c], net[c], served[c], req[r]) /\ c \notin cleaning
      /\ net[c].reply.status = "none" /\ (\A f \in net[c].flights : ~f.heard)
      /\ req[r] \in RequestType
  BY <1>1, Held DEF HoldingPcs
<1>3. /\ cur[c].st = "open" /\ ~cur[c].done /\ ~cur[c].uncertain /\ net[c].flights = {}
      /\ OfKind(req[r], cur[c])
      /\ req[r].op \in Told \cup Private /\ (req[r].op \in Told => net[c].pos = served[c])
  BY <1>1, <1>2 DEF Holding
<1>4. keep \in Nat
  BY <1>2, ConfigAssumption DEF Lower, CursorType
<1>5. net' = [net EXCEPT ![c] = n]
  BY <1>1, <1>2, Typed
<1>6. /\ flight \in Flight /\ flight.left = MaxTimeout /\ flight.lease = keep /\ flight.heard
      /\ (flight.create => cur[c].ids = 0)
  <2>1. flight \in Flight /\ flight.left = MaxTimeout /\ flight.lease = keep /\ flight.heard
    BY <1>4, ConfigAssumption DEF Flight
  <2>2. flight.create = (cur[c].ids = 0)
    OBVIOUS
  <2> HIDE DEF flight
  <2> QED
    BY <2>1, <2>2, Zenon
<1> HIDE DEF keep, flight
<1>7. /\ n \in NetType /\ n.native = net[c].native /\ n.keepAlive = net[c].keepAlive
      /\ n.pos = net[c].pos /\ n.reply = net[c].reply
      /\ n.flights = IF sent THEN {flight} ELSE {}
  BY <1>2, <1>3, <1>6 DEF NetType
<1>8. /\ k \in CursorType /\ k.st = "open" /\ k.kind = cur[c].kind /\ k.bytes = cur[c].bytes
      /\ ~k.done /\ k.dispatched /\ k.uncertain /\ k.timer # NoTimer /\ k.expires = keep
      /\ keep <= k.nativeLease /\ k.serverUntil = k.nativeLease + MaxTimeout
      /\ net[c].native <= net[c].keepAlive /\ net[c].keepAlive <= k.nativeLease
  BY <1>2, <1>3, <1>4, DispatchedIs DEF Cursor
<1>9. /\ q \in RequestType /\ q.c = c /\ q.op = req[r].op
      /\ IF sent THEN q.pc = "wire" /\ q.lease = keep ELSE q.pc = "recover"
  <2>1. At(r, "recover") \in RequestType /\ At(r, "recover").pc = "recover"
        /\ At(r, "recover").op = req[r].op /\ At(r, "recover").c = req[r].c
    BY <1>2, AtIs
  <2>2. At(r, "wire") \in RequestType /\ At(r, "wire").pc = "wire"
        /\ At(r, "wire").op = req[r].op /\ At(r, "wire").c = req[r].c
    BY <1>2, AtIs
  <2> QED
    BY <1>4, <2>1, <2>2 DEF RequestType
<1> HIDE DEF k, q, n
<1>10. Horizon(k, n)
  <2>1. /\ n.native \in Nat /\ n.keepAlive \in Nat /\ k.nativeLease \in Nat /\ MaxTimeout \in Nat
        /\ k.serverUntil \in Nat
    BY <1>7, <1>8, ConfigAssumption DEF NetType, CursorType
  <2>2. /\ k.expires <= k.serverUntil /\ n.native <= k.serverUntil /\ n.native <= n.keepAlive
        /\ n.keepAlive <= k.nativeLease
    BY <1>4, <1>7, <1>8, <2>1
  <2>3. \A f \in n.flights : f = flight
    BY <1>7
  <2>4. /\ flight.left + n.keepAlive <= k.serverUntil /\ flight.left + flight.lease <= k.serverUntil
        /\ flight.lease <= k.nativeLease
    BY <1>4, <1>6, <1>7, <1>8, <2>1
  <2>5. flight.create => n.native = 0
    <3>1. \/ Fresh(cur[c]) /\ net[c] = NewNet
          \/ cur[c].dispatched /\ Horizon(cur[c], net[c])
      BY <1>2, <1>3 DEF Cursor
    <3>2. Horizon(cur[c], net[c]) => cur[c].ids > 0
      BY <1>3 DEF Horizon
    <3>3. NewNet.native = 0
      BY DEF NewNet
    <3>4. flight.create => ~Horizon(cur[c], net[c])
      BY <1>6, <3>2
    <3> QED
      BY <1>7, <3>1, <3>3, <3>4
  <2> QED
    BY <1>8, <2>2, <2>3, <2>4, <2>5 DEF Horizon
<1>11. Cursor(k, n, served[c])
  BY <1>8, <1>10 DEF Cursor
<1>12. OfKind(q, k)
  BY <1>3, <1>8, <1>9 DEF OfKind
<1>13. Holding(k, n, served[c], q)
  <2>1. CASE sent
    <3>1. OnWire(k, n, served[c], q)
      <4>1. \A f \in n.flights : f.heard
        BY <1>6, <1>7, <2>1
      <4>2. q.op \in Told => n.pos = served[c] + 0
        BY <1>2, <1>3, <1>7, <1>9
      <4> QED
        BY <1>2, <1>7, <1>8, <1>9, <2>1, <4>1, <4>2 DEF OnWire
    <3> QED
      BY <1>3, <1>8, <1>9, <1>12, <2>1, <3>1 DEF Holding
  <2>2. CASE ~sent
    BY <1>8, <1>9, <1>12, <2>2 DEF Holding
  <2> QED
    BY <2>1, <2>2
<1>14. Sound(k, n, served[c], r, q, FALSE)
  <2>1. q.pc = "wire" \/ \A f \in n.flights : ~f.heard
    BY <1>7, <1>9
  <2> QED
    BY <1>2, <1>7, <1>8, <1>9, <1>11, <1>13, <2>1, SoundHeld
<1>15. cur' = [cur EXCEPT ![c] = k] /\ Budgets(c, k)
  BY <1>1, <1>2, <1>3, <1>8, StoreIs
<1>16. Places(c, k, n, served[c], r, FALSE)
  <2>1. /\ gate' = [gate EXCEPT ![c] = r] /\ served' = [served EXCEPT ![c] = served[c]]
        /\ cleaning' = cleaning \ {c}
    BY <1>1, <1>2, Typed
  <2> QED
    BY <1>5, <1>15, <2>1 DEF Places
<1>17. OthersOK'
  BY <1>1, <1>2 DEF TypeOK, OthersOK
<1>18. q.pc \in HoldingPcs /\ req[r].pc \in HoldingPcs
  BY <1>1, <1>9 DEF HoldingPcs
<1>19. req' = [req EXCEPT ![r] = q]
  BY <1>1
<1> QED
  BY <1>2, <1>7, <1>8, <1>9, <1>14, <1>15, <1>16, <1>17, <1>18, <1>19, HeldStep

(* What is left of the network's part when the wire fails.                 *)
LEMMA FailedNet ==
  ASSUME TypeOK, NEW c \in Cursors,
         net' = [net EXCEPT ![c].reply = NoReply,
                            ![c].flights = {[f EXCEPT !.heard = FALSE] : f \in @}]
  PROVE  net' = [net EXCEPT ![c] = [net[c] EXCEPT !.reply = NoReply,
                               !.flights = {[f EXCEPT !.heard = FALSE] : f \in net[c].flights}]]
<1> DEFINE fs == {[f EXCEPT !.heard = FALSE] : f \in net[c].flights}
           n == [net[c] EXCEPT !.reply = NoReply, !.flights = fs]
           m == [net EXCEPT ![c].reply = NoReply]
           fs2 == {[f EXCEPT !.heard = FALSE] : f \in m[c].flights}
<1>1. net' = [m EXCEPT ![c].flights = fs2]
  OBVIOUS
<1>2. net \in [Cursors -> NetType] /\ net[c] \in NetType
  BY Typed
<1>3. m[c] = [net[c] EXCEPT !.reply = NoReply] /\ m = [net EXCEPT ![c] = m[c]]
  BY <1>2
<1>4. m[c].flights = net[c].flights
  BY <1>2, <1>3 DEF NetType
<1>5. fs2 = fs
  BY <1>4
<1> HIDE DEF m, fs, fs2
<1>6. net' = [m EXCEPT ![c] = [m[c] EXCEPT !.flights = fs]]
  BY <1>1, <1>2, <1>3, <1>5
<1>7. n = [m[c] EXCEPT !.flights = fs]
  BY <1>3
<1> HIDE DEF n
<1>8. net' = [net EXCEPT ![c] = n]
  BY <1>2, <1>3, <1>6, <1>7
<1> QED
  BY <1>8 DEF n, fs

LEMMA WireFailsKeeps ==
  ASSUME Inv, NEW r \in Requests, WireFails(r)
  PROVE  Inv'
<1> DEFINE c == req[r].c
           fs == {[f EXCEPT !.heard = FALSE] : f \in net[c].flights}
           n == [net[c] EXCEPT !.reply = NoReply, !.flights = fs]
           q == At(r, "recover")
<1>1. /\ req[r].pc = "wire" /\ req' = [req EXCEPT ![r] = q]
      /\ net' = [net EXCEPT ![c].reply = NoReply,
                            ![c].flights = {[f EXCEPT !.heard = FALSE] : f \in @}]
      /\ UNCHANGED <<cur, gate, cleaning, memory, slots, ctx, recovery, epoch, closed, gone, served>>
  BY DEF WireFails, ToRecover, target, reserve
<1>2. /\ TypeOK /\ c \in Cursors /\ cur[c] \in CursorType /\ net[c] \in NetType /\ served[c] \in Nat
      /\ gate[c] = r /\ Cursor(cur[c], net[c], served[c])
      /\ Holding(cur[c], net[c], served[c], req[r]) /\ c \notin cleaning
  BY <1>1, Held DEF HoldingPcs
<1>3. net' = [net EXCEPT ![c] = n]
  BY <1>1, <1>2, FailedNet
<1>4. /\ cur[c].st = "open" /\ OnWire(cur[c], net[c], served[c], req[r])
  BY <1>1, <1>2 DEF Holding
<1>5. Horizon(cur[c], net[c])
  BY <1>2, <1>4 DEF Cursor, OnWire, Fresh
<1>6. \A g \in fs : \E f \in net[c].flights : /\ g \in Flight /\ ~g.heard /\ g.left = f.left
                                              /\ g.lease = f.lease /\ g.create = f.create
                                              /\ g = [f EXCEPT !.heard = FALSE]
  <2>1. ASSUME NEW f \in net[c].flights
        PROVE  /\ [f EXCEPT !.heard = FALSE] \in Flight /\ ~[f EXCEPT !.heard = FALSE].heard
               /\ [f EXCEPT !.heard = FALSE].left = f.left /\ [f EXCEPT !.heard = FALSE].lease = f.lease
               /\ [f EXCEPT !.heard = FALSE].create = f.create
    BY <1>2 DEF NetType, Flight
  <2> QED
    BY <2>1
<1>7. net[c].flights = {} => fs = {}
  OBVIOUS
<1> HIDE DEF fs
<1>8. NoReply \in [status : {"none", "ok", "gone"}, more : BOOLEAN] /\ NoReply.status = "none"
  BY DEF NoReply
<1>9. /\ n \in NetType /\ n.native = net[c].native /\ n.keepAlive = net[c].keepAlive
      /\ n.flights = fs /\ n.reply = NoReply
  <2>1. fs \in SUBSET Flight
    BY <1>6
  <2> QED
    BY <1>2, <1>8, <2>1 DEF NetType
<1>10. q \in RequestType /\ q.pc = "recover" /\ q.op = req[r].op /\ q.c = c
  BY <1>2, AtIs
<1> HIDE DEF n, q
<1>11. Horizon(cur[c], n)
  <2>1. \A f \in n.flights : /\ f.left + n.keepAlive <= cur[c].serverUntil
                             /\ f.left + f.lease <= cur[c].serverUntil
                             /\ f.lease <= cur[c].nativeLease
    BY <1>5, <1>6, <1>9 DEF Horizon
  <2>2. ASSUME NEW f \in n.flights, NEW g \in n.flights PROVE f = g
    <3>1. PICK f1 \in net[c].flights : f = [f1 EXCEPT !.heard = FALSE]
      BY <1>6, <1>9
    <3>2. PICK g1 \in net[c].flights : g = [g1 EXCEPT !.heard = FALSE]
      BY <1>6, <1>9
    <3>3. f1 = g1
      BY <1>5 DEF Horizon
    <3> QED
      BY <3>1, <3>2, <3>3
  <2>3. n.flights # {} => cur[c].uncertain
    BY <1>5, <1>7, <1>9 DEF Horizon
  <2>4. cur[c].done => cur[c].kind = "sql" /\ n.native = 0 /\ n.flights = {}
    BY <1>5, <1>7, <1>9 DEF Horizon
  <2>5. \A f \in n.flights : f.create => n.native = 0
    BY <1>5, <1>6, <1>9 DEF Horizon
  <2> QED
    BY <1>5, <1>9, <2>1, <2>2, <2>3, <2>4, <2>5 DEF Horizon
<1>12. Cursor(cur[c], n, served[c])
  BY <1>4, <1>11 DEF Cursor, OnWire
<1>13. Holding(cur[c], n, served[c], q)
  BY <1>2, <1>4, <1>10, EndHolds
<1>14. Sound(cur[c], n, served[c], r, q, FALSE)
  BY <1>4, <1>6, <1>8, <1>9, <1>10, <1>12, <1>13, SoundHeld
<1>15. Budgets(c, cur[c])
  BY <1>1, <1>2, SameBudget
<1>16. Places(c, cur[c], n, served[c], r, FALSE)
  <2>1. /\ gate' = [gate EXCEPT ![c] = r] /\ served' = [served EXCEPT ![c] = served[c]]
        /\ cleaning' = cleaning \ {c} /\ cur' = [cur EXCEPT ![c] = cur[c]]
    BY <1>1, <1>2, Typed
  <2> QED
    BY <1>3, <2>1 DEF Places
<1>17. OthersOK'
  BY <1>1, <1>2 DEF TypeOK, OthersOK
<1>18. q.pc \in HoldingPcs /\ req[r].pc \in HoldingPcs
  BY <1>1, <1>10 DEF HoldingPcs
<1>19. req' = [req EXCEPT ![r] = q]
  BY <1>1
<1> QED
  BY <1>2, <1>4, <1>9, <1>10, <1>14, <1>15, <1>16, <1>17, <1>18, <1>19, HeldStep

(* Reading an answer changes the identifiers and what is known of them.    *)
Learns(k, j) ==
    /\ j \in CursorType /\ j.st = k.st /\ j.kind = k.kind /\ j.bytes = k.bytes
    /\ j.dispatched = k.dispatched /\ j.timer = k.timer /\ j.nativeLease = k.nativeLease

LEMMA CaptureIs ==
  ASSUME NEW k \in CursorType, NEW rotated \in BOOLEAN
  PROVE  LET j == Capture(k, rotated) IN
         /\ Learns(k, j) /\ j.serverUntil = k.serverUntil /\ j.expires = k.expires
         /\ ~j.uncertain /\ j.ids > 0 /\ j.done = k.done
<1> DEFINE i == IF rotated THEN Lower(2, k.ids + 1) ELSE Higher(1, k.ids)
           j == [k EXCEPT !.ids = i, !.uncertain = FALSE]
<1>1. Capture(k, rotated) = j
  BY DEF Capture
<1>2. k.ids \in 0..2
  BY DEF CursorType
<1>3. i \in 0..2 /\ i > 0
  BY <1>2 DEF Lower, Higher
<1> HIDE DEF i
<1>4. Learns(k, j) /\ j.serverUntil = k.serverUntil /\ j.expires = k.expires
      /\ ~j.uncertain /\ j.ids = i /\ j.done = k.done
  BY <1>3 DEF Learns, CursorType
<1> HIDE DEF j
<1> QED
  BY <1>1, <1>3, <1>4

(* The record after an answer was read.                                    *)
ReadAs(k, more, lease, reading, rotated) ==
    LET id == IF k.kind = "sql" /\ ~more THEN [k EXCEPT !.uncertain = FALSE, !.done = TRUE]
              ELSE Capture(k, rotated)
        good == [id EXCEPT !.serverUntil = k.nativeLease, !.expires = Lower(lease, k.absolute)] IN
    CASE reading = "unidentified" -> k
      [] reading = "foreign" -> [id EXCEPT !.uncertain = TRUE]
      [] reading = "incomplete" -> id
      [] reading = "good" -> good

LEMMA ReadAsIs ==
  ASSUME NEW k \in CursorType, NEW n \in NetType, NEW more \in BOOLEAN, NEW lease \in Nat,
         NEW reading \in Reading, NEW rotated \in BOOLEAN, k.dispatched, ~k.done, Horizon(k, n),
         n.flights = {}, lease <= k.nativeLease, reading = "foreign" => k.kind # "sql",
         reading # "unidentified" /\ k.kind = "sql" /\ ~more => n.native = 0
  PROVE  LET j == ReadAs(k, more, lease, reading, rotated) IN
         /\ Learns(k, j) /\ Horizon(j, n)
         /\ reading = "good" => ~j.uncertain /\ (j.done \/ j.ids > 0) /\ (j.done => k.kind = "sql")
<1> DEFINE last == k.kind = "sql" /\ ~more
           drained == [k EXCEPT !.uncertain = FALSE, !.done = TRUE]
           captured == Capture(k, rotated)
           id == IF last THEN drained ELSE captured
           foreign == [id EXCEPT !.uncertain = TRUE]
           good == [id EXCEPT !.serverUntil = k.nativeLease, !.expires = Lower(lease, k.absolute)]
           j == ReadAs(k, more, lease, reading, rotated)
<1>1. /\ reading = "unidentified" => j = k
      /\ reading = "foreign" => j = foreign
      /\ reading = "incomplete" => j = id
      /\ reading = "good" => j = good
  BY DEF ReadAs
<1>2. /\ Learns(k, drained) /\ drained.serverUntil = k.serverUntil /\ drained.expires = k.expires
      /\ ~drained.uncertain /\ drained.done
  BY DEF Learns, CursorType
<1>3. /\ Learns(k, captured) /\ captured.serverUntil = k.serverUntil /\ captured.expires = k.expires
      /\ ~captured.uncertain /\ captured.ids > 0 /\ ~captured.done
  BY CaptureIs
<1> HIDE DEF drained, captured
<1>4. /\ Learns(k, id) /\ id.serverUntil = k.serverUntil /\ id.expires = k.expires
      /\ ~id.uncertain /\ (id.done \/ id.ids > 0) /\ (id.done => last)
  BY <1>2, <1>3
<1> HIDE DEF id
<1>5. /\ Learns(k, foreign) /\ foreign.serverUntil = k.serverUntil /\ foreign.expires = k.expires
      /\ foreign.done = id.done /\ foreign.uncertain
  BY <1>4 DEF Learns, CursorType
<1>6. k.absolute \in Nat /\ k.nativeLease \in Nat /\ Lower(lease, k.absolute) \in Nat
      /\ Lower(lease, k.absolute) <= k.nativeLease
  BY DEF CursorType, Lower
<1>7. /\ Learns(k, good) /\ good.serverUntil = k.nativeLease /\ good.expires = Lower(lease, k.absolute)
      /\ good.done = id.done /\ good.uncertain = id.uncertain /\ good.ids = id.ids
  BY <1>4, <1>6 DEF Learns, CursorType
<1> HIDE DEF foreign, good, j, last
<1>8. n.native \in Nat /\ n.keepAlive \in Nat /\ n.native <= k.nativeLease
  BY <1>6 DEF NetType, Horizon
<1>9. Reading = {"unidentified", "foreign", "incomplete", "good"}
  BY DEF Reading
<1>10. Learns(k, j)
  <2>1. Learns(k, k)
    BY DEF Learns
  <2> QED
    BY <1>1, <1>4, <1>5, <1>7, <1>9, <2>1
<1>11. j.expires <= j.serverUntil /\ n.native <= j.serverUntil
  <2>1. k.expires <= k.serverUntil /\ n.native <= k.serverUntil
    BY DEF Horizon
  <2>2. CASE reading = "good"
    BY <1>1, <1>6, <1>7, <1>8, <2>2
  <2>3. CASE reading # "good"
    BY <1>1, <1>4, <1>5, <1>9, <2>1, <2>3
  <2> QED
    BY <2>2, <2>3
<1>12. j.done => last /\ reading # "unidentified"
  BY <1>1, <1>4, <1>5, <1>7, <1>9
<1>13. last => k.kind = "sql" /\ ~more
  BY DEF last
<1>14. Horizon(j, n)
  <2>1. j.uncertain \/ j.done \/ j.ids > 0
    <3>1. k.uncertain \/ k.done \/ k.ids > 0
      BY DEF Horizon
    <3> QED
      BY <1>1, <1>4, <1>5, <1>7, <1>9, <3>1
  <2> QED
    BY <1>10, <1>11, <1>12, <1>13, <2>1 DEF Horizon, Learns
<1>15. reading = "good" => ~j.uncertain /\ (j.done \/ j.ids > 0) /\ (j.done => k.kind = "sql")
  BY <1>1, <1>4, <1>7, <1>13
<1> QED
  BY <1>10, <1>14, <1>15 DEF j

(* What is left of the network's part when an answer was read.             *)
LEMMA ReadNet ==
  ASSUME TypeOK, NEW c \in Cursors, NEW counts,
         net' = [net EXCEPT ![c].reply = NoReply, ![c].pos = IF counts THEN @ + 1 ELSE @]
  PROVE  net' = [net EXCEPT ![c] = [net[c] EXCEPT !.reply = NoReply,
                               !.pos = IF counts THEN net[c].pos + 1 ELSE net[c].pos]]
<1> DEFINE p == IF counts THEN net[c].pos + 1 ELSE net[c].pos
           n == [net[c] EXCEPT !.reply = NoReply, !.pos = p]
           m == [net EXCEPT ![c].reply = NoReply]
           p2 == IF counts THEN m[c].pos + 1 ELSE m[c].pos
<1>1. net' = [m EXCEPT ![c].pos = p2]
  OBVIOUS
<1>2. net \in [Cursors -> NetType] /\ net[c] \in NetType
  BY Typed
<1>3. m[c] = [net[c] EXCEPT !.reply = NoReply] /\ m = [net EXCEPT ![c] = m[c]]
  BY <1>2
<1>4. m[c].pos = net[c].pos
  BY <1>2, <1>3 DEF NetType
<1>5. p2 = p
  BY <1>4
<1> HIDE DEF m, p, p2
<1>6. net' = [m EXCEPT ![c] = [m[c] EXCEPT !.pos = p]]
  BY <1>1, <1>2, <1>3, <1>5
<1>7. n = [m[c] EXCEPT !.pos = p]
  BY <1>3
<1> HIDE DEF n
<1>8. net' = [net EXCEPT ![c] = n]
  BY <1>2, <1>3, <1>6, <1>7
<1> QED
  BY <1>8 DEF n, p

LEMMA ReceiveReplyKeeps ==
  ASSUME Inv, NEW r \in Requests, NEW reading \in Reading, NEW rotated \in BOOLEAN,
         ReceiveReply(r, reading, rotated)
  PROVE  Inv'
<1> DEFINE c == req[r].c
           reply == net[c].reply
           creation == cur[c].kind = "pit" /\ cur[c].ids = 0
           k == ReadAs(cur[c], reply.more, req[r].lease, reading, rotated)
           counts == cur[c].kind = "pit" /\ ~creation /\ reading = "good" /\ reply.more
           p == IF counts THEN net[c].pos + 1 ELSE net[c].pos
           n == [net[c] EXCEPT !.reply = NoReply, !.pos = p]
           q == IF reading = "good" /\ creation THEN At(r, "dispatch")
                ELSE IF reading = "good" /\ ctx[r] THEN [At(r, "page") EXCEPT !.more = reply.more]
                ELSE At(r, "recover")
<1>1. /\ req[r].pc = "wire" /\ reply.status # "none" /\ (reply.status = "gone" => reading = "unidentified")
      /\ reading = "foreign" => cur[c].kind # "sql"
      /\ Store(c, k) /\ req' = [req EXCEPT ![r] = q]
      /\ net' = [net EXCEPT ![c].reply = NoReply, ![c].pos = IF counts THEN @ + 1 ELSE @]
      /\ UNCHANGED <<gate, cleaning, ctx, recovery, epoch, closed, gone, served>>
  BY DEF ReceiveReply, ReadAs, target
<1>2. /\ TypeOK /\ c \in Cursors /\ cur[c] \in CursorType /\ net[c] \in NetType /\ served[c] \in Nat
      /\ gate[c] = r /\ Cursor(cur[c], net[c], served[c]) /\ net[c].flights = {}
      /\ Holding(cur[c], net[c], served[c], req[r]) /\ c \notin cleaning /\ req[r] \in RequestType
  BY <1>1, Held DEF HoldingPcs
<1>3. net' = [net EXCEPT ![c] = n]
  BY <1>1, <1>2, ReadNet
<1>4. /\ cur[c].st = "open" /\ OnWire(cur[c], net[c], served[c], req[r]) /\ OfKind(req[r], cur[c])
      /\ req[r].op \in Told \cup Private
  BY <1>1, <1>2 DEF Holding
<1>5. Horizon(cur[c], net[c]) /\ cur[c].dispatched /\ ~cur[c].done
  BY <1>2, <1>4 DEF Cursor, OnWire, Fresh
<1>6. reply.status \in {"none", "ok", "gone"} /\ reply.more \in BOOLEAN /\ net[c].pos \in Nat
      /\ req[r].lease \in Nat
  BY <1>2 DEF NetType, RequestType
<1>7. reading # "unidentified" => reply.status = "ok"
  BY <1>1, <1>6
<1>8. req[r].lease <= cur[c].nativeLease
      /\ (reading # "unidentified" /\ cur[c].kind = "sql" /\ ~reply.more => net[c].native = 0)
  BY <1>4, <1>7 DEF OnWire
<1>9. /\ Learns(cur[c], k) /\ Horizon(k, net[c])
      /\ reading = "good" => ~k.uncertain /\ (k.done \/ k.ids > 0) /\ (k.done => cur[c].kind = "sql")
  <2> HIDE DEF reply, c, k
  <2> QED
    BY <1>1, <1>2, <1>5, <1>6, <1>8, ReadAsIs DEF k
<1>10. p \in Nat
  BY <1>6
<1>11. NoReply \in [status : {"none", "ok", "gone"}, more : BOOLEAN] /\ NoReply.status = "none"
  BY DEF NoReply
<1> HIDE DEF p
<1>12. /\ n \in NetType /\ n.native = net[c].native /\ n.keepAlive = net[c].keepAlive /\ n.flights = {}
       /\ n.pos = p /\ n.reply = NoReply
  BY <1>2, <1>10, <1>11 DEF NetType
<1>13. /\ At(r, "dispatch") \in RequestType /\ At(r, "dispatch").pc = "dispatch"
       /\ At(r, "dispatch").op = req[r].op /\ At(r, "dispatch").c = c
  BY <1>2, AtIs
<1>14. /\ At(r, "recover") \in RequestType /\ At(r, "recover").pc = "recover"
       /\ At(r, "recover").op = req[r].op /\ At(r, "recover").c = c
  BY <1>2, AtIs
<1>15. /\ At(r, "page") \in RequestType /\ At(r, "page").pc = "page"
       /\ At(r, "page").op = req[r].op /\ At(r, "page").c = c
  BY <1>2, AtIs
<1>16. /\ [At(r, "page") EXCEPT !.more = reply.more] \in RequestType
       /\ [At(r, "page") EXCEPT !.more = reply.more].pc = "page"
       /\ [At(r, "page") EXCEPT !.more = reply.more].op = req[r].op
       /\ [At(r, "page") EXCEPT !.more = reply.more].c = c
       /\ [At(r, "page") EXCEPT !.more = reply.more].more = reply.more
  BY <1>6, <1>15 DEF RequestType
<1>17. /\ q \in RequestType /\ q.c = c /\ q.op = req[r].op
       /\ \/ q.pc = "dispatch" /\ reading = "good" /\ creation
          \/ q.pc = "page" /\ reading = "good" /\ ~creation /\ q.more = reply.more
          \/ q.pc = "recover"
  BY <1>13, <1>14, <1>16
<1> HIDE DEF k, q, n
<1>18. k \in CursorType /\ k.st = "open" /\ k.kind = cur[c].kind /\ k.bytes = cur[c].bytes /\ k.dispatched
  BY <1>4, <1>5, <1>9 DEF Learns
<1>19. Horizon(k, n)
  BY <1>2, <1>9, <1>12 DEF Horizon
<1>20. Cursor(k, n, served[c])
  BY <1>18, <1>19 DEF Cursor
<1>21. OfKind(q, k)
  BY <1>4, <1>17, <1>18 DEF OfKind
<1>22. Holding(k, n, served[c], q)
  <2>1. CASE q.pc = "recover"
    BY <1>18, <1>21, <2>1 DEF Holding
  <2>2. CASE q.pc = "dispatch"
    <3>1. reading = "good" /\ creation
      BY <1>17, <2>2
    <3>2. cur[c].kind = "pit" /\ ~counts
      BY <3>1
    <3>3. q.op \in Told => net[c].pos = served[c] + 0
      BY <1>4, <1>17, <3>2 DEF OnWire
    <3>4. p = net[c].pos
      BY <3>2 DEF p
    <3>5. q.op \in Told => n.pos = served[c]
      BY <1>2, <1>12, <3>3, <3>4
    <3>6. ~k.done /\ ~k.uncertain /\ k.ids > 0
      BY <1>9, <3>1, <3>2
    <3> QED
      BY <1>4, <1>12, <1>17, <1>18, <1>21, <2>2, <3>5, <3>6 DEF Holding
  <2>3. CASE q.pc = "page"
    <3>1. reading = "good" /\ ~creation /\ q.more = reply.more
      BY <1>17, <2>3
    <3>2. reply.status = "ok"
      BY <1>7, <3>1
    <3>3. counts <=> cur[c].kind = "pit" /\ reply.more
      BY <3>1
    <3>4. q.op \in Told => net[c].pos = served[c] + (IF cur[c].kind # "pit" /\ reply.more THEN 1 ELSE 0)
      BY <1>4, <1>17, <3>2 DEF OnWire
    <3>5. p = IF cur[c].kind = "pit" /\ reply.more THEN net[c].pos + 1 ELSE net[c].pos
      BY <3>3 DEF p
    <3>6. q.op \in Told => n.pos = served[c] + (IF q.more THEN 1 ELSE 0)
      BY <1>2, <1>6, <1>12, <3>1, <3>4, <3>5
    <3>7. Paged(k, n, served[c], q)
      BY <1>9, <1>12, <1>18, <3>1, <3>6 DEF Paged
    <3> QED
      BY <1>4, <1>17, <1>18, <1>21, <2>3, <3>7 DEF Holding
  <2> QED
    BY <1>17, <2>1, <2>2, <2>3
<1>23. Sound(k, n, served[c], r, q, FALSE)
  BY <1>11, <1>12, <1>17, <1>18, <1>20, <1>22, SoundHeld
<1>24. cur' = [cur EXCEPT ![c] = k] /\ Budgets(c, k)
  BY <1>1, <1>2, <1>4, <1>18, StoreIs
<1>25. Places(c, k, n, served[c], r, FALSE)
  <2>1. /\ gate' = [gate EXCEPT ![c] = r] /\ served' = [served EXCEPT ![c] = served[c]]
        /\ cleaning' = cleaning \ {c}
    BY <1>1, <1>2, Typed
  <2> QED
    BY <1>3, <1>24, <2>1 DEF Places
<1>26. OthersOK'
  BY <1>1, <1>2 DEF TypeOK, OthersOK
<1>27. q.pc \in HoldingPcs /\ req[r].pc \in HoldingPcs
  BY <1>1, <1>17 DEF HoldingPcs
<1>28. req' = [req EXCEPT ![r] = q]
  BY <1>1
<1> QED
  BY <1>2, <1>12, <1>17, <1>18, <1>23, <1>24, <1>25, <1>26, <1>27, <1>28, HeldStep

-----------------------------------------------------------------------------
(* The end of a cleanup, by whoever holds the gate.                        *)

(* Cursor c becomes k and its context n, and the gate may be let go.       *)
Ends(c, k, n) ==
    /\ cur' = [cur EXCEPT ![c] = k] /\ Budgets(c, k) /\ k \in CursorType /\ k.kind = cur[c].kind
    /\ k.st = cur[c].st \/ (cur[c].st = "open" /\ k.st = "released")
    /\ Cursor(k, n, served[c])
    /\ k.st = "open" /\ ~k.invalid => Continuable(k, n, served[c])

Quiet(n) == n.reply.status = "none" /\ \A f \in n.flights : ~f.heard

(* A cursor that was disabled and settled.                                 *)
LEMMA DisabledEnds ==
  ASSUME TypeOK, NEW c \in Cursors, NEW n \in NetType, Cursor(cur[c], n, served[c]),
         NEW k1, Stays(cur[c], k1), k1.invalid, NEW k, Store(c, k),
         \/ k = k1
         \/ cur[c].st = "open" /\ Settles(k1, k)
         \/ cur[c].st = "open" /\ Dead(n) /\ Gone(k1, k)
  PROVE  Ends(c, k, n)
<1>1. cur[c] \in CursorType /\ k1 \in CursorType
  BY Typed DEF Stays
<1>2. CASE k = k1
  <2>1. k.st = cur[c].st /\ k.bytes = cur[c].bytes /\ k.kind = cur[c].kind
    BY <1>2 DEF Stays
  <2>2. Cursor(k, n, served[c])
    BY <1>2, StaysCursor
  <2>3. cur' = [cur EXCEPT ![c] = k] /\ Budgets(c, k)
    BY <1>1, <1>2, <2>1, StoreIs
  <2> QED
    BY <1>1, <1>2, <2>1, <2>2, <2>3 DEF Ends
<1>3. CASE cur[c].st = "open" /\ Settles(k1, k)
  <2>1. Settles(cur[c], k)
    BY <1>3, StaysStays
  <2>2. Cursor(k, n, served[c]) /\ k \in CursorType /\ k.kind = cur[c].kind /\ k.st \in {"open", "released"}
    BY <1>1, <1>3, <2>1, SettlesCursor
  <2>3. cur' = [cur EXCEPT ![c] = k] /\ Budgets(c, k)
    BY <1>3, <2>1, SettlesBudget
  <2>4. k.st = "open" => k.invalid
    BY <1>3 DEF Settles, Stays, Gone
  <2> QED
    BY <1>3, <2>2, <2>3, <2>4 DEF Ends
<1>4. CASE cur[c].st = "open" /\ Dead(n) /\ Gone(k1, k)
  <2>1. Gone(cur[c], k)
    BY <1>4, StaysStays
  <2>2. Cursor(k, n, served[c]) /\ k.st = "released" /\ k.kind = cur[c].kind
    BY <1>4, <2>1, GoneCursor DEF Gone
  <2>3. cur' = [cur EXCEPT ![c] = k] /\ Budgets(c, k) /\ k \in CursorType
    BY <1>4, <2>1, SettlesBudget
  <2> QED
    BY <1>4, <2>2, <2>3 DEF Ends
<1> QED
  BY <1>2, <1>3, <1>4

LEMMA SettlesQueued ==
  ASSUME NEW k \in CursorType, k.st = "open", NEW j, Settles(k, j)
  PROVE  Settles(k, Queued(j))
<1>1. CASE Stays(k, j)
  <2>1. j \in CursorType /\ j.st = "open"
    BY <1>1 DEF Stays
  <2>2. Settles(j, Queued(j))
    BY <2>1, QueuedIs
  <2> QED
    BY <1>1, <2>2, StaysStays
<1>2. CASE Over(k) /\ Gone(k, j)
  <2>1. j \in CursorType /\ j.st = "released" /\ ~j.dispatched /\ j.kind = k.kind
    BY <1>2 DEF Gone
  <2>2. Gone(j, Queued(j))
    BY <2>1, QueuedIs
  <2> QED
    BY <1>2, <2>1, <2>2 DEF Settles, Gone
<1> QED
  BY <1>1, <1>2 DEF Settles

LEMMA QueueRecoveryIs ==
  ASSUME TypeOK, NEW c \in Cursors, NEW k, QueueRecovery(c, k)
  PROVE  Store(c, Queued(k)) /\ recovery' \subseteq Cursors
<1>1. Store(c, Queued(k))
  BY DEF QueueRecovery, Queued
<1>2. recovery' = recovery \/ recovery' = recovery \cup {c}
  BY DEF QueueRecovery
<1> QED
  BY <1>1, <1>2 DEF TypeOK

LEMMA AfterRecoveryKeeps ==
  ASSUME Inv, NEW r \in Requests, req[r].pc \in {"recover", "close", "clean"},
         NEW k, NEW n \in NetType, Ends(req[r].c, k, n), Quiet(n),
         net' = [net EXCEPT ![req[r].c] = n], cleaning' = cleaning \ {req[r].c},
         recovery' \subseteq Cursors, UNCHANGED <<epoch, closed, served>>,
         AfterRecovery(r)
  PROVE  Inv'
<1> DEFINE c == req[r].c
<1>1. /\ TypeOK /\ c \in Cursors /\ served[c] \in Nat /\ gate[c] = r /\ req[r] \in RequestType
      /\ cur[c].st \in {"open", "released"} /\ Holding(cur[c], net[c], served[c], req[r])
  BY Held DEF HoldingPcs
<1>2. /\ cur' = [cur EXCEPT ![c] = k] /\ Budgets(c, k) /\ k \in CursorType /\ k.kind = cur[c].kind
      /\ k.st = cur[c].st \/ (cur[c].st = "open" /\ k.st = "released")
      /\ Cursor(k, n, served[c])
      /\ k.st = "open" /\ ~k.invalid => Continuable(k, n, served[c])
  BY DEF Ends
<1>3. k.st \in {"open", "released"}
  BY <1>1, <1>2
<1>4. served' = [served EXCEPT ![c] = served[c]]
  BY <1>1, Typed
<1>5. n.reply.status = "none" /\ \A f \in n.flights : ~f.heard
  BY DEF Quiet
<1>6. req[r].pc \in HoldingPcs
  BY DEF HoldingPcs
<1>7. CASE Finish(r)
  BY <1>1, <1>2, <1>3, <1>4, <1>5, <1>6, <1>7, FinishKeeps
<1>8. CASE ToRecover(r) /\ UNCHANGED <<gate, ctx, gone>>
  <2> DEFINE q == At(r, "recover")
  <2>1. q \in RequestType /\ q.pc = "recover" /\ q.op = req[r].op /\ q.c = c
    BY <1>1, AtIs
  <2>2. req' = [req EXCEPT ![r] = q]
    BY <1>8 DEF ToRecover
  <2> HIDE DEF q
  <2>3. Holding(k, n, served[c], q)
    BY <1>1, <1>2, <1>3, <2>1, EndHolds
  <2>4. Sound(k, n, served[c], r, q, FALSE)
    BY <1>2, <1>3, <1>5, <2>1, <2>3, SoundHeld
  <2>5. Places(c, k, n, served[c], r, FALSE)
    <3>1. gate' = [gate EXCEPT ![c] = r]
      BY <1>1, <1>8, Typed
    <3> QED
      BY <1>2, <1>4, <3>1 DEF Places
  <2>6. OthersOK'
    BY <1>1, <1>8 DEF TypeOK, OthersOK
  <2>7. q.pc \in HoldingPcs
    BY <2>1 DEF HoldingPcs
  <2> QED
    BY <1>1, <1>2, <1>3, <1>6, <2>1, <2>2, <2>4, <2>5, <2>6, <2>7, HeldStep
<1> QED
  BY <1>7, <1>8 DEF AfterRecovery

(* A request leaves the cleanup to the server, and waits.                  *)
LEMMA CallingKeeps ==
  ASSUME Inv, NEW r \in Requests, req[r].pc \in {"recover", "close"},
         CallsServer(Disable(cur[req[r].c])), Store(req[r].c, Disable(cur[req[r].c])),
         NEW q \in RequestType, req' = [req EXCEPT ![r] = q], q.pc = "clean", q.op = req[r].op,
         q.c = req[r].c, cleaning' = cleaning \cup {req[r].c},
         UNCHANGED <<gate, ctx, gone, recovery, net, epoch, closed, served>>
  PROVE  Inv'
<1> DEFINE c == req[r].c
           k == Disable(cur[c])
<1>1. /\ TypeOK /\ c \in Cursors /\ served[c] \in Nat /\ gate[c] = r /\ cur[c] \in CursorType
      /\ net[c] \in NetType /\ Cursor(cur[c], net[c], served[c])
      /\ net[c].reply.status = "none" /\ (\A f \in net[c].flights : ~f.heard)
      /\ Holding(cur[c], net[c], served[c], req[r])
  BY Held DEF HoldingPcs
<1>2. Stays(cur[c], k) /\ k.invalid
  BY <1>1, DisableIs
<1>3. Ends(c, k, net[c])
  BY <1>1, <1>2, DisabledEnds
<1>4. k.st = "open" /\ k.dispatched
  BY DEF CallsServer
<1> HIDE DEF k
<1>5. cur' = [cur EXCEPT ![c] = k] /\ Budgets(c, k) /\ k \in CursorType /\ k.kind = cur[c].kind
      /\ Cursor(k, net[c], served[c])
  BY <1>3 DEF Ends
<1>6. Holding(k, net[c], served[c], q)
  BY <1>1, <1>4, <1>5 DEF Holding, OfKind
<1>7. Sound(k, net[c], served[c], r, q, TRUE)
  BY <1>1, <1>2, <1>4, <1>5, <1>6, SoundHeld
<1>8. Places(c, k, net[c], served[c], r, TRUE)
  <2>1. /\ gate' = [gate EXCEPT ![c] = r] /\ served' = [served EXCEPT ![c] = served[c]]
        /\ net' = [net EXCEPT ![c] = net[c]]
    BY <1>1, Typed
  <2> QED
    BY <1>5, <2>1 DEF Places
<1>9. OthersOK'
  BY <1>1 DEF TypeOK, OthersOK
<1>10. q.pc \in HoldingPcs /\ req[r].pc \in HoldingPcs
  BY DEF HoldingPcs
<1> QED
  BY <1>1, <1>4, <1>5, <1>7, <1>8, <1>9, <1>10, HeldStep

LEMMA RecoverCursorKeeps ==
  ASSUME Inv, NEW r \in Requests, RecoverCursor(r)
  PROVE  Inv'
<1> DEFINE c == req[r].c
           k == Disable(cur[c])
           calls == k.st = "open" /\ ~Late(r) /\ CallsServer(k)
<1>1. req[r].pc = "recover" /\ UNCHANGED <<net, epoch, closed, served>>
  BY DEF RecoverCursor
<1>2. /\ TypeOK /\ c \in Cursors /\ served[c] \in Nat /\ cur[c] \in CursorType /\ req[r] \in RequestType
      /\ net[c] \in NetType /\ Cursor(cur[c], net[c], served[c]) /\ c \notin cleaning
      /\ net[c].reply.status = "none" /\ (\A f \in net[c].flights : ~f.heard)
  BY <1>1, Held DEF HoldingPcs
<1>3. Stays(cur[c], k) /\ k.invalid
  BY <1>2, DisableIs
<1>4. CASE calls
  <2> DEFINE q == [req[r] EXCEPT !.pc = "clean", !.recovering = TRUE]
  <2>1. /\ Store(c, k) /\ req' = [req EXCEPT ![r].pc = "clean", ![r].recovering = TRUE]
        /\ cleaning' = cleaning \cup {c} /\ UNCHANGED <<gate, ctx, gone, recovery>>
    BY <1>4 DEF RecoverCursor
  <2>2. req' = [req EXCEPT ![r] = q]
    BY <1>2, <2>1, Typed
  <2>3. q \in RequestType /\ q.pc = "clean" /\ q.op = req[r].op /\ q.c = c
    BY <1>2 DEF RequestType
  <2> HIDE DEF q
  <2> QED
    BY <1>1, <1>4, <2>1, <2>2, <2>3, CallingKeeps
<1>5. CASE ~calls
  <2>1. /\ IF k.st # "open" THEN Store(c, k) /\ UNCHANGED recovery
           ELSE IF Late(r) THEN QueueRecovery(c, k)
           ELSE QueueRecovery(c, CleanupLocal(k))
        /\ AfterRecovery(r) /\ UNCHANGED cleaning
    BY <1>5 DEF RecoverCursor
  <2>2. \E k2 : Ends(c, k2, net[c]) /\ recovery' \subseteq Cursors
    <3> HIDE DEF k
    <3>1. k \in CursorType /\ k.st = cur[c].st
      BY <1>3 DEF Stays
    <3>2. CASE k.st # "open"
      <4>1. Store(c, k) /\ recovery' = recovery
        BY <2>1, <3>2
      <4>2. Ends(c, k, net[c])
        BY <1>2, <1>3, <4>1, DisabledEnds
      <4> QED
        BY <1>2, <4>1, <4>2 DEF TypeOK
    <3>3. CASE k.st = "open"
      <4>1. PICK j : QueueRecovery(c, j) /\ Settles(k, j)
        <5>1. Settles(k, k)
          BY <3>1 DEF Settles, Stays
        <5>2. Settles(k, CleanupLocal(k))
          BY <3>1, <3>3, CleanupLocalIs
        <5> QED
          BY <2>1, <3>3, <5>1, <5>2
      <4>2. Store(c, Queued(j)) /\ recovery' \subseteq Cursors
        BY <1>2, <4>1, QueueRecoveryIs
      <4>3. Settles(k, Queued(j))
        BY <3>1, <3>3, <4>1, SettlesQueued
      <4>4. Ends(c, Queued(j), net[c])
        BY <1>2, <1>3, <3>1, <3>3, <4>2, <4>3, DisabledEnds
      <4> QED
        BY <4>2, <4>4
    <3> QED
      BY <3>2, <3>3
  <2>3. PICK k2 : Ends(c, k2, net[c]) /\ recovery' \subseteq Cursors
    BY <2>2
  <2>4. Quiet(net[c])
    BY <1>2 DEF Quiet
  <2>5. net' = [net EXCEPT ![c] = net[c]] /\ cleaning' = cleaning \ {c}
    BY <1>1, <1>2, <2>1, Typed
  <2> QED
    BY <1>1, <1>2, <2>1, <2>3, <2>4, <2>5, AfterRecoveryKeeps
<1> QED
  BY <1>4, <1>5

LEMMA CloseCursorKeeps ==
  ASSUME Inv, NEW r \in Requests, CloseCursor(r)
  PROVE  Inv'
<1> DEFINE c == req[r].c
           k == Disable(cur[c])
<1>1. req[r].pc = "close" /\ UNCHANGED <<recovery, net, epoch, closed, served>>
  BY DEF CloseCursor
<1>2. /\ TypeOK /\ c \in Cursors /\ served[c] \in Nat /\ cur[c] \in CursorType /\ req[r] \in RequestType
      /\ net[c] \in NetType /\ Cursor(cur[c], net[c], served[c]) /\ c \notin cleaning
      /\ net[c].reply.status = "none" /\ (\A f \in net[c].flights : ~f.heard)
  BY <1>1, Held DEF HoldingPcs
<1>3. Stays(cur[c], k) /\ k.invalid
  BY <1>2, DisableIs
<1>4. CASE CallsServer(k)
  <2> DEFINE q == [req[r] EXCEPT !.pc = "clean"]
  <2>1. /\ Store(c, k) /\ req' = [req EXCEPT ![r].pc = "clean"]
        /\ cleaning' = cleaning \cup {c} /\ UNCHANGED <<gate, ctx, gone>>
    BY <1>4 DEF CloseCursor, Goto
  <2>2. req' = [req EXCEPT ![r] = q]
    BY <1>2, <2>1, Typed
  <2>3. q \in RequestType /\ q.pc = "clean" /\ q.op = req[r].op /\ q.c = c
    BY <1>2 DEF RequestType
  <2> HIDE DEF q
  <2> QED
    BY <1>1, <1>4, <2>1, <2>2, <2>3, CallingKeeps
<1>5. CASE ~CallsServer(k)
  <2>1. Store(c, CleanupLocal(k)) /\ Finish(r) /\ UNCHANGED cleaning
    BY <1>5 DEF CloseCursor
  <2> HIDE DEF k
  <2>2. k \in CursorType /\ k.st = cur[c].st
    BY <1>3 DEF Stays
  <2>3. IF k.st = "open" THEN Settles(k, CleanupLocal(k)) ELSE CleanupLocal(k) = k
    BY <2>2, CleanupLocalIs DEF CleanupLocal
  <2>4. Ends(c, CleanupLocal(k), net[c])
    BY <1>2, <1>3, <2>1, <2>2, <2>3, DisabledEnds
  <2>5. Quiet(net[c])
    BY <1>2 DEF Quiet
  <2>6. net' = [net EXCEPT ![c] = net[c]] /\ cleaning' = cleaning \ {c} /\ recovery' \subseteq Cursors
    BY <1>1, <1>2, <2>1, Typed DEF TypeOK
  <2>7. AfterRecovery(r)
    BY <2>1 DEF AfterRecovery
  <2> QED
    BY <1>1, <1>2, <2>4, <2>5, <2>6, <2>7, AfterRecoveryKeeps
<1> QED
  BY <1>4, <1>5

(* Someone other than a request ends a cleanup and lets the gate go.       *)
LEMMA HolderEnds ==
  ASSUME Inv, NEW c \in Cursors, gate[c] \notin Requests, NEW k, NEW n \in NetType, Ends(c, k, n),
         Quiet(n), net' = [net EXCEPT ![c] = n], gate' = [gate EXCEPT ![c] = Free],
         cleaning' = cleaning \ {c}, UNCHANGED <<req, served>>, OthersOK'
  PROVE  Inv'
<1>1. TypeOK /\ served[c] \in Nat
  BY AtCursor
<1>2. /\ cur' = [cur EXCEPT ![c] = k] /\ Budgets(c, k) /\ k \in CursorType /\ k.kind = cur[c].kind
      /\ k.st = cur[c].st \/ (cur[c].st = "open" /\ k.st = "released")
      /\ Cursor(k, n, served[c])
      /\ k.st = "open" /\ ~k.invalid => Continuable(k, n, served[c])
  BY DEF Ends
<1>3. served' = [served EXCEPT ![c] = served[c]]
  BY <1>1, Typed
<1>4. Places(c, k, n, served[c], Free, FALSE)
  BY <1>2, <1>3 DEF Places
<1>5. Sound(k, n, served[c], Free, HolderOf(c), FALSE)
  BY <1>2, Actors, SoundFree DEF Quiet
<1>6. Free \in Holders \cup {Free} /\ Free \notin Requests
  BY Actors
<1> QED
  BY <1>2, <1>4, <1>5, <1>6, CursorKeeps

LEMMA AwayIsQuiet ==
  ASSUME Inv, NEW c \in Cursors, gate[c] \notin Requests
  PROVE  /\ Quiet(net[c]) /\ HolderOf(c) = Idle
         /\ cur[c].st = "open" /\ ~cur[c].invalid => Continuable(cur[c], net[c], served[c])
         /\ gate[c] = Free => c \notin cleaning
BY AtCursor DEF Sound, Quiet, HolderOf

LEMMA CleanupByHolderKeeps ==
  ASSUME Inv, NEW c \in Cursors, gate[c] \notin Requests, c \notin cleaning,
         NEW h \in Holders, h \notin Requests, NEW k, Stays(cur[c], k), k.invalid,
         CleanupByHolder(c, h, k), UNCHANGED <<req, net, served>>, OthersOK'
  PROVE  Inv'
<1>1. /\ TypeOK /\ cur[c] \in CursorType /\ net[c] \in NetType /\ served[c] \in Nat
      /\ Cursor(cur[c], net[c], served[c]) /\ k \in CursorType /\ k.st = cur[c].st
  BY AtCursor DEF Stays
<1>2. net' = [net EXCEPT ![c] = net[c]] /\ served' = [served EXCEPT ![c] = served[c]]
  BY <1>1, Typed
<1>3. Quiet(net[c])
  BY AwayIsQuiet
<1>4. CASE CallsServer(k)
  <2>1. Store(c, k) /\ gate' = [gate EXCEPT ![c] = h] /\ cleaning' = cleaning \cup {c}
    BY <1>4 DEF CleanupByHolder
  <2>2. Ends(c, k, net[c])
    BY <1>1, <2>1, DisabledEnds
  <2>3. k.st = "open" /\ k.dispatched
    BY <1>4 DEF CallsServer
  <2>4. cur' = [cur EXCEPT ![c] = k] /\ Budgets(c, k) /\ Cursor(k, net[c], served[c]) /\ k.kind = cur[c].kind
    BY <2>2 DEF Ends
  <2>5. Places(c, k, net[c], served[c], h, TRUE)
    BY <1>2, <2>1, <2>4 DEF Places
  <2>6. h # Free
    BY Actors
  <2>7. Sound(k, net[c], served[c], h, HolderOf(c), TRUE)
    BY <1>3, <2>3, <2>4, <2>6, SoundFree DEF Quiet
  <2> QED
    BY <1>1, <2>4, <2>5, <2>7, CursorKeeps
<1>5. CASE ~CallsServer(k)
  <2>1. Store(c, CleanupLocal(k)) /\ gate' = [gate EXCEPT ![c] = Free] /\ cleaning' = cleaning \ {c}
    BY <1>5 DEF CleanupByHolder
  <2>2. IF k.st = "open" THEN Settles(k, CleanupLocal(k)) ELSE CleanupLocal(k) = k
    BY <1>1, CleanupLocalIs DEF CleanupLocal
  <2>3. Ends(c, CleanupLocal(k), net[c])
    BY <1>1, <2>1, <2>2, DisabledEnds
  <2> QED
    BY <1>1, <1>2, <1>3, <2>1, <2>3, HolderEnds
<1> QED
  BY <1>4, <1>5

LEMMA RecoveryRunsKeeps ==
  ASSUME Inv, NEW c \in Cursors, RecoveryRuns(c)
  PROVE  Inv'
<1> DEFINE j == [cur[c] EXCEPT !.queued = FALSE]
           k == Disable(j)
<1>1. /\ gate[c] = Free /\ recovery' = recovery \ {c} /\ CleanupByHolder(c, "recovery", k)
      /\ UNCHANGED <<req, ctx, net, epoch, closed, gone, served>>
  BY DEF RecoveryRuns, target
<1>2. TypeOK /\ cur[c] \in CursorType /\ gate[c] \notin Requests
  BY <1>1, AtCursor, Actors
<1>3. Stays(cur[c], j) /\ j \in CursorType
  BY <1>2 DEF Stays, CursorType
<1> HIDE DEF j
<1>4. Stays(j, k) /\ k.invalid
  BY <1>3, DisableIs
<1> HIDE DEF k
<1>5. Stays(cur[c], k)
  BY <1>3, <1>4, StaysStays
<1>6. OthersOK'
  BY <1>1, <1>2 DEF TypeOK, OthersOK
<1>7. c \notin cleaning /\ "recovery" \in Holders /\ "recovery" \notin Requests
  BY <1>1, <1>2, AwayIsQuiet, Actors
<1> QED
  BY <1>1, <1>2, <1>4, <1>5, <1>6, <1>7, CleanupByHolderKeeps

LEMMA SweepKeeps ==
  ASSUME Inv, NEW c \in Cursors, NEW s \in Sweepers, SweepCloses(s, c) \/ (ReaperCleans(c) /\ s = "reaper")
  PROVE  Inv'
<1>1. /\ CleanupByHolder(c, s, Disable(cur[c]))
      /\ gate[c] = Free \/ (gate[c] = "reaper" /\ c \notin cleaning)
      /\ UNCHANGED <<req, ctx, recovery, net, epoch, closed, gone, served>>
  BY DEF SweepCloses, ReaperCleans, MayVisit, target
<1>2. TypeOK /\ cur[c] \in CursorType /\ gate[c] \notin Requests
  BY <1>1, AtCursor, Actors
<1>3. Stays(cur[c], Disable(cur[c])) /\ Disable(cur[c]).invalid
  BY <1>2, DisableIs
<1>4. OthersOK'
  BY <1>1, <1>2 DEF TypeOK, OthersOK
<1>5. c \notin cleaning /\ s \in Holders /\ s \notin Requests /\ CleanupByHolder(c, s, Disable(cur[c]))
  BY <1>1, <1>2, AwayIsQuiet, Actors DEF SweepCloses, ReaperCleans
<1> QED
  BY <1>1, <1>2, <1>3, <1>4, <1>5, CleanupByHolderKeeps

LEMMA TimerRunsKeeps ==
  ASSUME Inv, NEW c \in Cursors, TimerRuns(c)
  PROVE  Inv'
<1> DEFINE j == [cur[c] EXCEPT !.timer = NoTimer]
           k == IF j.st = "open" THEN Retire(j) ELSE j
<1>1. /\ gate[c] = Free /\ Store(c, k) /\ cur[c].timer = 0
      /\ UNCHANGED <<gate, cleaning, req, ctx, recovery, net, epoch, closed, gone, served>>
  BY DEF TimerRuns, target
<1>2. /\ TypeOK /\ cur[c] \in CursorType /\ gate[c] \notin Requests /\ net[c] \in NetType
      /\ Cursor(cur[c], net[c], served[c])
  BY <1>1, AtCursor, Actors
<1>3. /\ j \in CursorType /\ j.st = cur[c].st /\ j.kind = cur[c].kind /\ j.bytes = cur[c].bytes
      /\ j.uncertain = cur[c].uncertain /\ j.done = cur[c].done /\ j.ids = cur[c].ids
      /\ j.dispatched = cur[c].dispatched /\ j.expires = cur[c].expires
      /\ j.serverUntil = cur[c].serverUntil /\ j.nativeLease = cur[c].nativeLease
      /\ j.invalid = cur[c].invalid
  BY <1>2 DEF CursorType
<1>4. /\ Quiet(net[c]) /\ c \notin cleaning
      /\ cur[c].st = "open" /\ ~cur[c].invalid => Continuable(cur[c], net[c], served[c])
  BY <1>1, <1>2, AwayIsQuiet
<1> HIDE DEF j
<1>5. Ends(c, k, net[c])
  <2>1. CASE cur[c].st = "open"
    <3>1. k = Retire(j)
      BY <1>3, <2>1
    <3>2. Settles(cur[c], k)
      <4>1. CASE Over(j)
        <5>1. Gone(j, k)
          BY <1>3, <3>1, <4>1, RetireIs
        <5> QED
          BY <1>3, <4>1, <5>1 DEF Settles, Over, Gone
      <4>2. CASE ~Over(j)
        <5>1. Stays(j, k) /\ k.timer # NoTimer
          BY <1>3, <3>1, <4>2, RetireIs
        <5>2. Stays(cur[c], k)
          BY <1>3, <5>1 DEF Stays
        <5> QED
          BY <5>2 DEF Settles
      <4> QED
        BY <4>1, <4>2
    <3> HIDE DEF k
    <3>3. Cursor(k, net[c], served[c]) /\ k \in CursorType /\ k.kind = cur[c].kind /\ k.st \in {"open", "released"}
      BY <1>2, <2>1, <3>2, SettlesCursor
    <3>4. cur' = [cur EXCEPT ![c] = k] /\ Budgets(c, k)
      BY <1>1, <1>2, <2>1, <3>2, SettlesBudget
    <3>5. k.st = "open" /\ ~k.invalid => Continuable(k, net[c], served[c])
      BY <1>4, <2>1, <3>2 DEF Settles, Stays, Gone, Continuable
    <3> QED
      BY <2>1, <3>3, <3>4, <3>5 DEF Ends
  <2>2. CASE cur[c].st # "open"
    <3>1. k = j
      BY <1>3, <2>2
    <3>2. Cursor(k, net[c], served[c])
      BY <1>2, <1>3, <2>2, <3>1 DEF Cursor, Fresh
    <3>3. cur' = [cur EXCEPT ![c] = k] /\ Budgets(c, k)
      BY <1>1, <1>2, <1>3, <3>1, StoreIs
    <3> QED
      BY <1>3, <2>2, <3>1, <3>2, <3>3 DEF Ends
  <2> QED
    BY <2>1, <2>2
<1> HIDE DEF k
<1>6. /\ net' = [net EXCEPT ![c] = net[c]] /\ gate' = [gate EXCEPT ![c] = Free] /\ cleaning' = cleaning \ {c}
  BY <1>1, <1>2, <1>4, Typed
<1>7. OthersOK'
  BY <1>1, <1>2 DEF TypeOK, OthersOK
<1> QED
  BY <1>1, <1>2, <1>4, <1>5, <1>6, <1>7, HolderEnds

LEMMA ReaperGateKeeps ==
  ASSUME Inv, NEW c \in Cursors, ReaperLocks(c) \/ ReaperGivesUp(c)
  PROVE  Inv'
<1> DEFINE g == IF ReaperLocks(c) THEN "reaper" ELSE Free
<1>1. /\ gate[c] = Free \/ (gate[c] = "reaper" /\ c \notin cleaning)
      /\ gate' = [gate EXCEPT ![c] = g]
      /\ g # Free => cur[c].st \in {"open", "released"}
      /\ UNCHANGED <<cur, cleaning, memory, slots, req, ctx, recovery, net, epoch, closed, gone, served>>
  BY DEF ReaperLocks, ReaperGivesUp, MayVisit, target, reserve
<1>2. g \in Holders \cup {Free} /\ g \notin Requests
  BY Actors
<1> HIDE DEF g
<1>3. /\ TypeOK /\ cur[c] \in CursorType /\ gate[c] \notin Requests /\ net[c] \in NetType
      /\ Cursor(cur[c], net[c], served[c])
  BY <1>1, AtCursor, Actors
<1>4. /\ Quiet(net[c]) /\ c \notin cleaning
      /\ cur[c].st = "open" /\ ~cur[c].invalid => Continuable(cur[c], net[c], served[c])
  BY <1>1, <1>3, AwayIsQuiet
<1>5. Sound(cur[c], net[c], served[c], g, HolderOf(c), FALSE)
  BY <1>1, <1>2, <1>3, <1>4, SoundFree DEF Quiet
<1>6. Places(c, cur[c], net[c], served[c], g, FALSE)
  BY <1>1, <1>3, <1>4, Typed DEF Places
<1>7. Budgets(c, cur[c])
  BY <1>1, <1>3, SameBudget
<1>8. OthersOK'
  BY <1>1, <1>3 DEF TypeOK, OthersOK
<1> QED
  BY <1>1, <1>2, <1>3, <1>5, <1>6, <1>7, <1>8, CursorKeeps

LEMMA CleanupAnsweredKeeps ==
  ASSUME Inv, NEW c \in Cursors, NEW confirmed \in BOOLEAN, NEW cleared \in BOOLEAN,
         CleanupAnswered(c, confirmed, cleared)
  PROVE  Inv'
<1> DEFINE h == gate[c]
           k == Answered(cur[c], confirmed)
           failed == ~confirmed \/ cur[c].uncertain
           n == IF cleared THEN [net[c] EXCEPT !.native = 0] ELSE net[c]
<1>1. /\ c \in cleaning /\ (confirmed => cleared) /\ cleaning' = cleaning \ {c}
      /\ net' = IF cleared THEN [net EXCEPT ![c].native = 0] ELSE net
      /\ UNCHANGED <<epoch, closed, served>>
  BY DEF CleanupAnswered
<1>2. /\ TypeOK /\ cur[c] \in CursorType /\ net[c] \in NetType /\ served[c] \in Nat
      /\ Sound(cur[c], net[c], served[c], h, HolderOf(c), c \in cleaning)
      /\ Cursor(cur[c], net[c], served[c])
  BY AtCursor
<1>3. cur[c].st = "open" /\ cur[c].invalid /\ cur[c].dispatched
  BY <1>1, <1>2 DEF Sound
<1>4. Horizon(cur[c], net[c])
  BY <1>2, <1>3 DEF Cursor, Fresh
<1>5. Quiet(net[c]) /\ (h \in Requests => req[h].pc = "clean")
  BY <1>1, <1>2 DEF Sound, Quiet, HolderOf
<1>6. net' = [net EXCEPT ![c] = n]
  BY <1>1, <1>2, Typed
<1>7. /\ n \in NetType /\ n.keepAlive = net[c].keepAlive /\ n.flights = net[c].flights
      /\ n.reply = net[c].reply /\ (n.native = 0 \/ n.native = net[c].native) /\ (cleared => n.native = 0)
  BY <1>2 DEF NetType
<1> HIDE DEF n, k
<1>8. Quiet(n)
  BY <1>5, <1>7 DEF Quiet
<1>9. Horizon(cur[c], n)
  <2>1. /\ cur[c].serverUntil \in Nat /\ n.keepAlive \in Nat
    BY <1>2, <1>7 DEF CursorType, NetType
  <2>2. n.native <= cur[c].serverUntil /\ n.native <= n.keepAlive
    <3>1. CASE n.native = 0
      BY <2>1, <3>1
    <3>2. CASE n.native = net[c].native
      BY <1>4, <1>7, <3>2 DEF Horizon
    <3> QED
      BY <1>7, <3>1, <3>2
  <2>3. cur[c].done => n.native = 0
    BY <1>4, <1>7 DEF Horizon
  <2> QED
    BY <1>4, <1>7, <2>2, <2>3 DEF Horizon
<1>10. Cursor(cur[c], n, served[c])
  BY <1>3, <1>9 DEF Cursor
<1>11. Settles(cur[c], k) \/ (Gone(cur[c], k) /\ Dead(n) /\ ~failed)
  <2>1. Settles(cur[c], k) \/ (confirmed /\ ~cur[c].uncertain /\ Gone(cur[c], k))
    BY <1>2, AnsweredIs DEF k
  <2>2. confirmed /\ ~cur[c].uncertain => Dead(n)
    BY <1>1, <1>7, <1>9 DEF Horizon, Dead
  <2> QED
    BY <2>1, <2>2
<1>12. Stays(cur[c], cur[c])
  BY <1>2 DEF Stays
<1>13. CASE h \in Requests
  <2> DEFINE again == req[h].recovering /\ failed
  <2>1. /\ IF again THEN QueueRecovery(c, k) ELSE Store(c, k) /\ UNCHANGED recovery
        /\ AfterRecovery(h)
    BY <1>13 DEF CleanupAnswered, AfterRecovery, k
  <2>2. req[h].pc = "clean" /\ req[h].c = c
    BY <1>5, <1>13 DEF Inv, Gates
  <2>3. \E k2 : Ends(c, k2, n) /\ recovery' \subseteq Cursors
    <3>1. CASE again
      <4>1. Store(c, Queued(k)) /\ recovery' \subseteq Cursors
        BY <1>2, <2>1, <3>1, QueueRecoveryIs
      <4>2. Settles(cur[c], Queued(k))
        BY <1>2, <1>3, <1>11, <3>1, SettlesQueued
      <4>3. Ends(c, Queued(k), n)
        BY <1>2, <1>3, <1>7, <1>10, <1>12, <4>1, <4>2, DisabledEnds
      <4> QED
        BY <4>1, <4>3
    <3>2. CASE ~again
      <4>1. Store(c, k) /\ recovery' = recovery
        BY <2>1, <3>2
      <4>2. Ends(c, k, n)
        BY <1>2, <1>3, <1>7, <1>10, <1>11, <1>12, <4>1, DisabledEnds
      <4> QED
        BY <1>2, <4>1, <4>2 DEF TypeOK
    <3> QED
      BY <3>1, <3>2
  <2>4. PICK k2 : Ends(c, k2, n) /\ recovery' \subseteq Cursors
    BY <2>3
  <2> QED
    BY <1>1, <1>6, <1>7, <1>8, <1>13, <2>1, <2>2, <2>4, AfterRecoveryKeeps
<1>14. CASE h \notin Requests
  <2>1. Store(c, k) /\ gate' = [gate EXCEPT ![c] = Free] /\ UNCHANGED <<req, ctx, gone, recovery>>
    BY <1>14 DEF CleanupAnswered, k
  <2>2. Ends(c, k, n)
    BY <1>2, <1>3, <1>7, <1>10, <1>11, <1>12, <2>1, DisabledEnds
  <2>3. OthersOK'
    BY <1>1, <1>2, <2>1 DEF TypeOK, OthersOK
  <2> QED
    BY <1>1, <1>6, <1>7, <1>8, <1>14, <2>1, <2>2, <2>3, HolderEnds
<1> QED
  BY <1>13, <1>14

(* What the server's answer leaves of the cursor's context.                *)
Processed(k, n, f, more) ==
    LET ka == Higher(n.keepAlive, f.lease)
        answer == [status |-> IF f.create \/ n.native > 0 THEN "ok" ELSE "gone", more |-> more]
        alive == answer.status = "ok" IN
    [n EXCEPT !.flights = @ \ {f},
              !.keepAlive = IF alive THEN ka ELSE @,
              !.native = IF ~alive \/ (k.kind = "sql" /\ ~more) THEN 0 ELSE ka,
              !.pos = IF alive /\ more /\ k.kind # "pit" THEN @ + 1 ELSE @,
              !.reply = IF f.heard THEN answer ELSE @]

LEMMA ProcessedIs ==
  ASSUME NEW k \in CursorType, NEW n \in NetType, NEW f \in n.flights, NEW more \in BOOLEAN
  PROVE  LET m == Processed(k, n, f, more)
             ka == Higher(n.keepAlive, f.lease)
             alive == f.create \/ n.native > 0 IN
         /\ m \in NetType /\ m.flights = n.flights \ {f}
         /\ m.keepAlive = IF alive THEN ka ELSE n.keepAlive
         /\ m.native = IF ~alive \/ (k.kind = "sql" /\ ~more) THEN 0 ELSE ka
         /\ m.pos = IF alive /\ more /\ k.kind # "pit" THEN n.pos + 1 ELSE n.pos
         /\ ~f.heard => m.reply = n.reply
         /\ f.heard => m.reply.more = more /\ m.reply.status = IF alive THEN "ok" ELSE "gone"
<1> DEFINE m == Processed(k, n, f, more)
           ka == Higher(n.keepAlive, f.lease)
           alive == f.create \/ n.native > 0
           answer == [status |-> IF alive THEN "ok" ELSE "gone", more |-> more]
           keepAlive == IF alive THEN ka ELSE n.keepAlive
           native == IF ~alive \/ (k.kind = "sql" /\ ~more) THEN 0 ELSE ka
           pos == IF alive /\ more /\ k.kind # "pit" THEN n.pos + 1 ELSE n.pos
           reply == IF f.heard THEN answer ELSE n.reply
           fs == n.flights \ {f}
<1>1. (answer.status = "ok") <=> alive
  OBVIOUS
<1>2. m = [n EXCEPT !.flights = fs, !.keepAlive = keepAlive, !.native = native,
                    !.pos = pos, !.reply = reply]
  BY <1>1 DEF Processed, NetType
<1>3. f \in Flight /\ f.lease \in Nat /\ n.keepAlive \in Nat /\ n.native \in Nat /\ n.pos \in Nat
      /\ f.heard \in BOOLEAN /\ f.create \in BOOLEAN
  BY DEF NetType, Flight
<1>4. ka \in Nat
  BY <1>3 DEF Higher
<1>5. /\ answer \in [status : {"none", "ok", "gone"}, more : BOOLEAN] /\ answer.more = more
      /\ answer.status = IF alive THEN "ok" ELSE "gone"
  OBVIOUS
<1>6. keepAlive \in Nat /\ native \in Nat /\ pos \in Nat
  BY <1>3, <1>4
<1>7. reply \in [status : {"none", "ok", "gone"}, more : BOOLEAN]
  BY <1>5 DEF NetType
<1>8. fs \in SUBSET Flight
  BY DEF NetType
<1> HIDE DEF answer, keepAlive, native, pos, reply, fs, m
<1>9. /\ m \in NetType /\ m.flights = fs /\ m.keepAlive = keepAlive /\ m.native = native
      /\ m.pos = pos /\ m.reply = reply
  BY <1>2, <1>6, <1>7, <1>8 DEF NetType
<1> QED
  BY <1>5, <1>9 DEF keepAlive, native, pos, reply, fs, m

LEMMA ServerProcessesKeeps ==
  ASSUME Inv, NEW c \in Cursors, NEW f \in net[c].flights, NEW more \in BOOLEAN,
         ServerProcesses(c, f, more)
  PROVE  Inv'
<1> DEFINE k == cur[c]
           n == net[c]
           s == served[c]
           q == HolderOf(c)
           m == Processed(k, n, f, more)
           ka == Higher(n.keepAlive, f.lease)
           alive == f.create \/ n.native > 0
<1>1. /\ net' = [net EXCEPT ![c] = m]
      /\ UNCHANGED <<cur, gate, cleaning, memory, slots, req, ctx, recovery, epoch, closed, gone, served>>
  BY DEF ServerProcesses, Processed, target, reserve
<1>2. /\ TypeOK /\ k \in CursorType /\ n \in NetType /\ s \in Nat /\ gate[c] \in Holders \cup {Free}
      /\ Sound(k, n, s, gate[c], q, c \in cleaning) /\ Cursor(k, n, s)
      /\ (c \in cleaning) \in BOOLEAN
  BY AtCursor
<1>3. /\ m \in NetType /\ m.flights = n.flights \ {f}
      /\ m.keepAlive = IF alive THEN ka ELSE n.keepAlive
      /\ m.native = IF ~alive \/ (k.kind = "sql" /\ ~more) THEN 0 ELSE ka
      /\ m.pos = IF alive /\ more /\ k.kind # "pit" THEN n.pos + 1 ELSE n.pos
      /\ ~f.heard => m.reply = n.reply
      /\ f.heard => m.reply.more = more /\ m.reply.status = IF alive THEN "ok" ELSE "gone"
  <2> HIDE DEF k, n
  <2>1. f \in n.flights
    BY DEF n
  <2> QED
    BY <1>2, <2>1, ProcessedIs
<1>4. f \in Flight /\ f.left \in 1..MaxTimeout /\ f.lease \in Nat /\ n.keepAlive \in Nat /\ n.native \in Nat
      /\ f.heard \in BOOLEAN /\ f.create \in BOOLEAN /\ n.pos \in Nat /\ MaxTimeout \in Nat
      /\ k.serverUntil \in Nat /\ k.nativeLease \in Nat
  BY <1>2, ConfigAssumption DEF NetType, Flight, CursorType
<1> HIDE DEF m
<1>5. n # NewNet /\ n.flights # {}
  BY NewCursorIs
<1>6. k.st \in {"open", "released"}
  BY <1>2, <1>5 DEF Cursor, CursorType
<1>7. n.reply.status = "none"
  BY <1>2, <1>5 DEF Sound
<1>8. f.heard => gate[c] \in Requests /\ q.pc = "wire"
  BY <1>2 DEF Sound
<1>9. ASSUME k.st = "released" PROVE Sound(k, m, s, gate[c], q, c \in cleaning)
  <2>1. Dead(n) /\ ~alive
    BY <1>2, <1>4, <1>9 DEF Cursor, Dead
  <2>2. Dead(m)
    BY <1>3, <2>1 DEF Dead
  <2>3. ~f.heard
    BY <1>2, <1>8, <1>9 DEF Sound, Holding
  <2>4. Cursor(k, m, s)
    BY <1>9, <2>2 DEF Cursor
  <2>5. gate[c] \in Requests => Holding(k, m, s, q)
    BY <1>2, <1>9 DEF Sound, Holding
  <2> QED
    BY <1>2, <1>3, <1>7, <1>9, <2>3, <2>4, <2>5 DEF Sound
<1>10. ASSUME k.st = "open" PROVE Sound(k, m, s, gate[c], q, c \in cleaning)
  <2>1. k.dispatched /\ Horizon(k, n)
    BY <1>2, <1>5, <1>10 DEF Cursor
  <2>2. m.flights = {} /\ ~k.done
    BY <1>3, <1>5, <2>1 DEF Horizon
  <2>3. ka \in Nat /\ ka <= k.nativeLease /\ ka <= k.serverUntil /\ n.keepAlive <= ka
    <3>1. /\ n.keepAlive <= k.nativeLease /\ f.left + n.keepAlive <= k.serverUntil
          /\ f.left + f.lease <= k.serverUntil /\ f.lease <= k.nativeLease
      BY <2>1 DEF Horizon
    <3> QED
      BY <1>4, <3>1 DEF Higher
  <2>4. Horizon(k, m)
    <3>1. m.native <= k.serverUntil /\ m.native <= m.keepAlive /\ m.keepAlive <= k.nativeLease
      <4>1. n.keepAlive <= k.nativeLease
        BY <2>1 DEF Horizon
      <4> HIDE DEF ka, alive
      <4> QED
        BY <1>3, <1>4, <2>3, <4>1
    <3> QED
      BY <2>1, <2>2, <3>1 DEF Horizon
  <2>5. Cursor(k, m, s)
    BY <1>10, <2>1, <2>4 DEF Cursor
  <2>6. ASSUME gate[c] \in Requests PROVE Holding(k, m, s, q)
    <3>1. Holding(k, n, s, q)
      BY <1>2, <2>6 DEF Sound
    <3>2. q.pc \notin {"update", "dispatch", "page", "result"}
      BY <1>5, <2>1, <3>1 DEF Holding, Fresh, Paged
    <3>3. ASSUME q.pc = "wire" PROVE OnWire(k, m, s, q)
      <4>1. OnWire(k, n, s, q)
        BY <3>1, <3>3 DEF Holding
      <4>2. f.heard
        BY <4>1 DEF OnWire
      <4>3. m.reply.more = more /\ (m.reply.status = "ok" <=> alive)
        BY <1>3, <4>2
      <4>4. q.op \in Told => n.pos = s
        BY <1>2, <1>7, <4>1 DEF OnWire
      <4>5. q.op \in Told =>
              m.pos = s + (IF k.kind # "pit" /\ m.reply.status = "ok" /\ m.reply.more THEN 1 ELSE 0)
        <5> HIDE DEF alive
        <5> QED
          BY <1>2, <1>3, <1>4, <4>3, <4>4
      <4>6. k.kind = "sql" /\ m.reply.status = "ok" /\ ~m.reply.more => m.native = 0
        BY <1>3, <4>3
      <4> QED
        BY <2>2, <4>1, <4>5, <4>6 DEF OnWire
    <3> QED
      BY <3>1, <3>2, <3>3 DEF Holding
  <2>7. gate[c] \notin Requests => k.invalid
    BY <1>2, <1>5, <1>10 DEF Sound, Continuable
  <2>8. m.reply.status # "none" => f.heard
    BY <1>3, <1>7
  <2> QED
    BY <1>2, <1>8, <1>10, <2>2, <2>5, <2>6, <2>7, <2>8 DEF Sound
<1>11. Sound(k, m, s, gate[c], q, c \in cleaning)
  BY <1>6, <1>9, <1>10
<1>12. Places(c, k, m, s, gate[c], c \in cleaning)
  BY <1>1, <1>2, Typed DEF Places
<1>13. Budgets(c, k)
  BY <1>1, <1>2, SameBudget
<1>14. OthersOK'
  BY <1>1, <1>2 DEF TypeOK, OthersOK
<1> QED
  BY <1>1, <1>2, <1>3, <1>11, <1>12, <1>13, <1>14, CursorKeeps

-----------------------------------------------------------------------------
(* The clock ticks for every cursor at once.                               *)

LEMMA LessIs ==
  /\ \A a \in Nat : Less(a) \in Nat /\ Less(a) <= a /\ (a = 0 => Less(a) = 0)
  /\ \A a, b \in Nat : a <= b => Less(a) <= Less(b)
  /\ Less(NoTimer) = NoTimer /\ NoTimer \notin Nat
BY DEF Less, NoTimer

LEMMA TickCursorIs ==
  ASSUME NEW k \in CursorType
  PROVE  LET j == TickCursor(k) IN
         /\ j \in CursorType /\ j.st = k.st /\ j.kind = k.kind /\ j.bytes = k.bytes
         /\ j.uncertain = k.uncertain /\ j.done = k.done /\ j.ids = k.ids /\ j.invalid = k.invalid
         /\ j.dispatched = k.dispatched /\ j.nativeLease = k.nativeLease
         /\ j.expires = Less(k.expires) /\ j.serverUntil = Less(k.serverUntil)
         /\ k.timer # NoTimer => j.timer # NoTimer
<1> DEFINE e == Less(k.expires)
           a == Less(k.absolute)
           u == Less(k.serverUntil)
           y == Less(k.retryAfter)
           t == Less(k.timer)
           j == TickCursor(k)
<1>1. /\ k.expires \in Nat /\ k.absolute \in Nat /\ k.serverUntil \in Nat /\ k.retryAfter \in Nat
      /\ k.timer \in Nat \cup {NoTimer}
  BY DEF CursorType
<1>2. e \in Nat /\ a \in Nat /\ u \in Nat /\ y \in Nat /\ t \in Nat \cup {NoTimer}
      /\ (k.timer # NoTimer => t # NoTimer)
  BY <1>1, LessIs
<1>3. j = [k EXCEPT !.expires = e, !.absolute = a, !.serverUntil = u, !.retryAfter = y, !.timer = t]
  BY DEF TickCursor, CursorType
<1> HIDE DEF e, a, u, y, t, j
<1>4. /\ j \in CursorType /\ j.st = k.st /\ j.kind = k.kind /\ j.bytes = k.bytes
      /\ j.uncertain = k.uncertain /\ j.done = k.done /\ j.ids = k.ids /\ j.invalid = k.invalid
      /\ j.dispatched = k.dispatched /\ j.nativeLease = k.nativeLease
      /\ j.expires = e /\ j.serverUntil = u /\ j.timer = t
  BY <1>2, <1>3 DEF CursorType
<1> QED
  BY <1>2, <1>4 DEF e, u, j

LEMMA TickNetIs ==
  ASSUME NEW n \in NetType
  PROVE  LET m == TickNet(n) IN
         /\ m \in NetType /\ m.native = Less(n.native) /\ m.keepAlive = n.keepAlive
         /\ m.pos = n.pos /\ m.reply = n.reply
         /\ \A g \in m.flights : \E f \in n.flights :
              /\ g = [f EXCEPT !.left = f.left - 1] /\ f.left > 1 /\ f \in Flight
              /\ g.left = f.left - 1 /\ g.lease = f.lease /\ g.heard = f.heard /\ g.create = f.create
         /\ n = NewNet => m = NewNet
<1> DEFINE fs == {[f EXCEPT !.left = f.left - 1] : f \in {g \in n.flights : g.left > 1}}
           v == Less(n.native)
           m == TickNet(n)
<1>1. \A g \in fs : \E f \in n.flights :
        /\ g = [f EXCEPT !.left = f.left - 1] /\ f.left > 1 /\ f \in Flight
        /\ g.left = f.left - 1 /\ g.lease = f.lease /\ g.heard = f.heard /\ g.create = f.create
        /\ g \in Flight
  <2>1. ASSUME NEW f \in n.flights, f.left > 1
        PROVE  LET g == [f EXCEPT !.left = f.left - 1] IN
               /\ f \in Flight /\ g.left = f.left - 1 /\ g.lease = f.lease /\ g.heard = f.heard
               /\ g.create = f.create /\ g \in Flight
    <3>1. f \in Flight /\ f.left \in 1..MaxTimeout /\ MaxTimeout \in Nat
      BY ConfigAssumption DEF NetType, Flight
    <3>2. f.left - 1 \in 1..MaxTimeout
      BY <2>1, <3>1
    <3> QED
      BY <3>1, <3>2 DEF Flight
  <2> QED
    BY <2>1
<1>2. fs \in SUBSET Flight /\ (n.flights = {} => fs = {})
  BY <1>1
<1>3. n.native \in Nat /\ v \in Nat
  BY LessIs DEF NetType
<1>4. m = [n EXCEPT !.native = v, !.flights = fs]
  BY DEF TickNet, NetType
<1>5. n = NewNet => v = 0 /\ fs = {}
  BY <1>2, LessIs, NewCursorIs
<1> HIDE DEF fs, v, m
<1>6. /\ m \in NetType /\ m.native = v /\ m.keepAlive = n.keepAlive /\ m.pos = n.pos
      /\ m.reply = n.reply /\ m.flights = fs
  BY <1>2, <1>3, <1>4 DEF NetType
<1>7. ASSUME n = NewNet PROVE m = n
  <2>1. v = n.native /\ fs = n.flights
    BY <1>5, <1>7, NewCursorIs
  <2> QED
    BY <1>4, <2>1 DEF NetType
<1> QED
  BY <1>1, <1>6, <1>7 DEF v, m

LEMMA TickSound ==
  ASSUME NEW k \in CursorType, NEW n \in NetType, NEW s \in Nat, NEW g, NEW q, NEW cl \in BOOLEAN,
         Sound(k, n, s, g, q, cl)
  PROVE  Sound(TickCursor(k), TickNet(n), s, g, q, cl)
<1> DEFINE j == TickCursor(k)
           m == TickNet(n)
<1>1. /\ j \in CursorType /\ j.st = k.st /\ j.kind = k.kind /\ j.bytes = k.bytes
      /\ j.uncertain = k.uncertain /\ j.done = k.done /\ j.ids = k.ids /\ j.invalid = k.invalid
      /\ j.dispatched = k.dispatched /\ j.nativeLease = k.nativeLease
      /\ j.expires = Less(k.expires) /\ j.serverUntil = Less(k.serverUntil)
      /\ k.timer # NoTimer => j.timer # NoTimer
  BY TickCursorIs
<1>2. /\ m \in NetType /\ m.native = Less(n.native) /\ m.keepAlive = n.keepAlive
      /\ m.pos = n.pos /\ m.reply = n.reply
      /\ \A h \in m.flights : \E f \in n.flights :
           /\ h = [f EXCEPT !.left = f.left - 1] /\ f.left > 1 /\ f \in Flight
           /\ h.left = f.left - 1 /\ h.lease = f.lease /\ h.heard = f.heard /\ h.create = f.create
      /\ n = NewNet => m = NewNet
  BY TickNetIs
<1> HIDE DEF j, m
<1>3. n.flights = {} => m.flights = {}
  BY <1>2
<1>4. n.native = 0 => m.native = 0
  BY <1>2, LessIs
<1>5. Fresh(k) => Fresh(j)
  BY <1>1, LessIs DEF Fresh
<1>6. Dead(n) => Dead(m)
  BY <1>2, <1>4 DEF Dead
<1>7. ASSUME Horizon(k, n) PROVE Horizon(j, m)
  <2>1. /\ n.native \in Nat /\ k.serverUntil \in Nat /\ k.expires \in Nat /\ n.keepAlive \in Nat
        /\ k.nativeLease \in Nat
    BY DEF NetType, CursorType
  <2>2. /\ k.timer # NoTimer /\ k.expires <= k.serverUntil /\ n.native <= k.serverUntil
        /\ n.native <= n.keepAlive /\ n.keepAlive <= k.nativeLease
    BY <1>7 DEF Horizon
  <2>3. /\ j.timer # NoTimer /\ j.expires <= j.serverUntil /\ m.native <= j.serverUntil
        /\ m.native <= m.keepAlive /\ m.keepAlive <= j.nativeLease
    <3>1. Less(n.native) <= n.native /\ Less(n.native) \in Nat
      BY <2>1, LessIs
    <3> QED
      BY <1>1, <1>2, <2>1, <2>2, <3>1, LessIs
  <2>4. ASSUME NEW h \in m.flights
        PROVE  /\ h.left + m.keepAlive <= j.serverUntil /\ h.left + h.lease <= j.serverUntil
               /\ h.lease <= j.nativeLease
    <3>1. PICK f \in n.flights : f.left > 1 /\ f \in Flight /\ h.left = f.left - 1 /\ h.lease = f.lease
      BY <1>2
    <3>2. /\ f.left + n.keepAlive <= k.serverUntil /\ f.left + f.lease <= k.serverUntil
          /\ f.lease <= k.nativeLease
      BY <1>7 DEF Horizon
    <3>3. f.left \in Nat /\ f.lease \in Nat
      BY <3>1, ConfigAssumption DEF Flight
    <3>4. j.serverUntil = k.serverUntil - 1
      BY <1>1, <2>1, <3>1, <3>2, <3>3 DEF Less
    <3> QED
      BY <1>1, <1>2, <2>1, <3>1, <3>2, <3>3, <3>4
  <2>5. ASSUME NEW h1 \in m.flights, NEW h2 \in m.flights PROVE h1 = h2
    <3>1. PICK f1 \in n.flights : h1 = [f1 EXCEPT !.left = f1.left - 1]
      BY <1>2
    <3>2. PICK f2 \in n.flights : h2 = [f2 EXCEPT !.left = f2.left - 1]
      BY <1>2
    <3>3. f1 = f2
      BY <1>7 DEF Horizon
    <3> QED
      BY <3>1, <3>2, <3>3
  <2>6. m.flights # {} => j.uncertain
    BY <1>1, <1>3, <1>7 DEF Horizon
  <2>7. j.done => j.kind = "sql" /\ m.native = 0 /\ m.flights = {}
    BY <1>1, <1>3, <1>4, <1>7 DEF Horizon
  <2>8. \A h \in m.flights : h.create => m.native = 0
    BY <1>2, <1>4, <1>7 DEF Horizon
  <2>9. j.uncertain \/ j.done \/ j.ids > 0
    BY <1>1, <1>7 DEF Horizon
  <2> QED
    BY <2>3, <2>4, <2>5, <2>6, <2>7, <2>8, <2>9 DEF Horizon
<1>8. Cursor(j, m, s)
  <2>1. Cursor(k, n, s)
    BY DEF Sound
  <2> QED
    BY <1>1, <1>2, <1>5, <1>6, <1>7, <2>1 DEF Cursor
<1>9. Paged(k, n, s, q) => Paged(j, m, s, q)
  BY <1>1, <1>2, <1>3 DEF Paged
<1>10. Continuable(k, n, s) => Continuable(j, m, s)
  BY <1>1, <1>2, <1>3 DEF Continuable
<1>11. OnWire(k, n, s, q) => OnWire(j, m, s, q)
  <2>1. (\A f \in n.flights : f.heard) => \A h \in m.flights : h.heard
    BY <1>2
  <2> QED
    BY <1>1, <1>2, <1>4, <2>1 DEF OnWire
<1>12. Holding(k, n, s, q) => Holding(j, m, s, q)
  <2>1. OfKind(q, k) => OfKind(q, j)
    BY <1>1 DEF OfKind
  <2> QED
    BY <1>1, <1>2, <1>3, <1>5, <1>9, <1>11, <2>1 DEF Holding
<1>13. (\E h \in m.flights : h.heard) => \E f \in n.flights : f.heard
  BY <1>2
<1>14. Sound(j, m, s, g, q, cl)
  BY <1>1, <1>2, <1>3, <1>8, <1>10, <1>12, <1>13 DEF Sound
<1> QED
  BY <1>14 DEF j, m

LEMMA TickKeeps ==
  ASSUME Inv, Tick
  PROVE  Inv'
<1>1. TypeOK /\ Budget /\ Gates /\ \A d \in Cursors : SoundAt(d)
  BY DEF Inv
<1>2. /\ cur' = [c \in Cursors |-> TickCursor(cur[c])] /\ net' = [c \in Cursors |-> TickNet(net[c])]
      /\ UNCHANGED <<gate, cleaning, memory, slots, req, ctx, recovery, epoch, closed, gone, served>>
  BY DEF Tick, reserve, target
<1>3. \A c \in Cursors : /\ cur'[c] = TickCursor(cur[c]) /\ net'[c] = TickNet(net[c])
                         /\ cur[c] \in CursorType /\ net[c] \in NetType /\ served[c] \in Nat
  BY <1>1, <1>2, Typed
<1>4. \A c \in Cursors : /\ cur'[c] \in CursorType /\ cur'[c].st = cur[c].st
                         /\ cur'[c].kind = cur[c].kind /\ cur'[c].bytes = cur[c].bytes
                         /\ net'[c] \in NetType
  BY <1>3, TickCursorIs, TickNetIs
<1>5. TypeOK'
  <2>1. cur' \in [Cursors -> CursorType] /\ net' \in [Cursors -> NetType]
    BY <1>2, <1>4
  <2> QED
    BY <1>1, <1>2, <2>1 DEF TypeOK
<1>6. Budget'
  <2>1. Reservations' = Reservations
    BY <1>4 DEF Reservations
  <2>2. \A c \in Reservations : cur'[c].bytes = cur[c].bytes
    BY <1>4 DEF Reservations
  <2>3. Units' = UNION {{c} \X (1..cur'[c].bytes) : c \in Reservations'}
    BY DEF Units
  <2>4. Units' = Units
    BY <2>1, <2>2, <2>3 DEF Units
  <2> QED
    BY <1>1, <1>2, <2>1, <2>4 DEF Budget, BudgetExact
<1>7. ASSUME NEW d \in Cursors PROVE SoundAt(d)'
  <2>1. Sound(cur[d], net[d], served[d], gate[d], HolderOf(d), d \in cleaning)
    BY <1>1 DEF SoundAt
  <2>2. Sound(cur'[d], net'[d], served[d], gate[d], HolderOf(d), d \in cleaning)
    <3> DEFINE cl == d \in cleaning
               q == HolderOf(d)
    <3>1. cl \in BOOLEAN /\ Sound(cur[d], net[d], served[d], gate[d], q, cl)
      BY <2>1
    <3>2. cur[d] \in CursorType /\ net[d] \in NetType /\ served[d] \in Nat
      BY <1>3
    <3> HIDE DEF cl, q
    <3>3. Sound(TickCursor(cur[d]), TickNet(net[d]), served[d], gate[d], q, cl)
      BY <3>1, <3>2, TickSound
    <3> QED
      BY <1>3, <3>3 DEF cl, q
  <2>3. (IF gate'[d] \in Requests THEN req'[gate'[d]] ELSE Idle) = HolderOf(d)
    BY <1>2 DEF HolderOf
  <2>4. Sound(cur'[d], net'[d], served'[d], gate'[d],
              IF gate'[d] \in Requests THEN req'[gate'[d]] ELSE Idle, d \in cleaning')
    BY <1>2, <2>2, <2>3
  <2> QED
    BY <2>4, SoundAtNext
<1>8. Gates'
  <2>1. \A p \in Requests : req[p].pc = "publish" =>
          /\ cur'[req[p].c].st = "reserved"
          /\ req[p].op \in {"open"} \cup Private /\ OfKind(req[p], cur'[req[p].c])
    BY <1>1, <1>4 DEF Gates, OfKind
  <2>2. \A p \in Requests : req[p].pc = "wait" =>
          cur'[req[p].c].st \in {"open", "released"} /\ req[p].op \in {"next", "close"}
    BY <1>1, <1>4 DEF Gates
  <2>3. \A p \in Requests : OfKind(req[p], cur[req[p].c])' <=> OfKind(req[p], cur'[req[p].c])
    BY <1>2 DEF OfKind
  <2> QED
    BY <1>1, <1>2, <2>1, <2>2, <2>3 DEF Gates, Private
<1> QED
  BY <1>5, <1>6, <1>7, <1>8 DEF Inv

-----------------------------------------------------------------------------
(* The registry.                                                           *)

LEMMA InvInit == Init => Inv
<1> SUFFICES ASSUME Init PROVE Inv
  OBVIOUS
<1>1. /\ \A c \in Cursors : /\ cur[c] = NewCursor /\ gate[c] = Free /\ net[c] = NewNet /\ served[c] = 0
                            /\ c \notin cleaning
      /\ \A r \in Requests : req[r] = Idle
  BY DEF Init
<1>2. NewCursor.st = "unused" /\ Idle.pc = "idle"
  BY DEF NewCursor, Idle
<1>3. TypeOK
  BY NewCursorIs DEF Init, TypeOK
<1>4. ASSUME NEW c \in Cursors PROVE SoundAt(c)
  <2>1. HolderOf(c) = Idle
    BY <1>1, Actors DEF HolderOf
  <2>2. Cursor(NewCursor, NewNet, 0)
    BY <1>2, NewCursorIs DEF Cursor
  <2>3. Sound(NewCursor, NewNet, 0, Free, Idle, FALSE)
    BY <1>2, <2>2, NewCursorIs, Actors, SoundFree
  <2>4. (c \in cleaning) = FALSE
    BY <1>1
  <2> QED
    BY <1>1, <2>1, <2>3, <2>4 DEF SoundAt
<1>5. Gates
  BY <1>1, <1>2, Actors DEF Gates, HoldingPcs
<1>6. Budget
  <2>1. Reservations = {}
    BY <1>1, <1>2 DEF Reservations
  <2>2. Units = {}
    BY <2>1 DEF Units
  <2>3. memory = 0 /\ slots = 0
    BY DEF Init
  <2> QED
    BY <2>1, <2>2, <2>3, FS_EmptySet DEF Budget, BudgetExact
<1> QED
  BY <1>3, <1>4, <1>5, <1>6 DEF Inv

(* The steps that touch no cursor.                                         *)
LEMMA AroundKeeps ==
  ASSUME Inv, \/ \E r \in Requests : ContextDone(r)
              \/ \E c \in Cursors : RecoveryGivesUp(c)
              \/ \E o \in Owners : Disconnect(o)
              \/ AuthorityDrift \/ Close
  PROVE  Inv'
<1>1. TypeOK /\ req \in [Requests -> RequestType]
  BY Typed DEF Inv
<1>2. UNCHANGED <<cur, gate, cleaning, memory, slots, net, served, req>>
  BY DEF ContextDone, RecoveryGivesUp, Disconnect, AuthorityDrift, Close, reserve
<1>3. OthersOK'
  <2>1. ASSUME NEW r \in Requests, ContextDone(r) PROVE OthersOK'
    <3>1. /\ ctx' = [ctx EXCEPT ![r] = FALSE] /\ req[r].pc # "idle"
          /\ gone' = IF req[r].op \in Private THEN gone \cup {req[r].c} ELSE gone
          /\ UNCHANGED <<recovery, epoch, closed>>
      BY <2>1 DEF ContextDone
    <3>2. req[r].c \in Cursors
      BY <3>1 DEF Inv, Gates
    <3> QED
      BY <1>1, <3>1, <3>2 DEF TypeOK, OthersOK
  <2>2. ASSUME NEW c \in Cursors, RecoveryGivesUp(c) PROVE OthersOK'
    BY <1>1, <2>2 DEF RecoveryGivesUp, TypeOK, OthersOK, target
  <2>3. ASSUME NEW o \in Owners, Disconnect(o) PROVE OthersOK'
    BY <1>1, <2>3 DEF Disconnect, TypeOK, OthersOK
  <2>4. CASE AuthorityDrift
    <3>1. epoch' = epoch + 1 /\ UNCHANGED <<ctx, recovery, gone, closed>>
      BY <2>4 DEF AuthorityDrift
    <3> QED
      BY <1>1, <3>1 DEF TypeOK, OthersOK
  <2>5. CASE Close
    <3>1. closed' = TRUE /\ UNCHANGED <<ctx, recovery, gone, epoch>>
      BY <2>5 DEF Close
    <3> QED
      BY <1>1, <3>1 DEF TypeOK, OthersOK
  <2> QED
    BY <2>1, <2>2, <2>3, <2>4, <2>5
<1> QED
  BY <1>1, <1>2, <1>3, ElsewhereKeeps

LEMMA InvStep == Inv /\ [Next]_vars => Inv'
<1> SUFFICES ASSUME Inv, [Next]_vars PROVE Inv'
  OBVIOUS
<1>1. ASSUME NEW r \in Requests, StartRequest(r) PROVE Inv'
  BY <1>1, ReserveKeeps, WaiterKeeps DEF StartRequest
<1>2. ASSUME NEW r \in Requests, RequestStep(r) PROVE Inv'
  BY <1>2, PublishRefusedKeeps, PublishKeeps, UpdateQueryKeeps, AbandonKeeps, WaiterKeeps, RefuseKeeps,
     LockKeeps, BeginDispatchKeeps, WireFailsKeeps, ReceiveReplyKeeps, PageKeeps, ServeKeeps,
     DrainedSqlKeeps, RecoverCursorKeeps, CloseCursorKeeps DEF RequestStep
<1>3. ASSUME NEW c \in Cursors, CleanupStep(c) PROVE Inv'
  BY <1>3, CleanupAnsweredKeeps DEF CleanupStep
<1>4. ASSUME NEW c \in Cursors, ReaperStep(c) PROVE Inv'
  BY <1>4, ReaperGateKeeps, SweepKeeps, Actors DEF ReaperStep
<1>5. ASSUME NEW c \in Cursors, ServerStep(c) PROVE Inv'
  BY <1>5, ServerProcessesKeeps DEF ServerStep
<1>6. ASSUME NEW c \in Cursors, RecoveryRuns(c) \/ TimerRuns(c) PROVE Inv'
  BY <1>6, RecoveryRunsKeeps, TimerRunsKeeps
<1>7. ASSUME NEW s \in Sweepers, NEW c \in Cursors, SweepCloses(s, c) PROVE Inv'
  BY <1>7, SweepKeeps
<1>8. CASE Tick
  BY <1>8, TickKeeps
<1>9. CASE UNCHANGED vars
  <2>1. UNCHANGED <<cur, gate, cleaning, memory, slots, net, served, req, ctx, recovery, gone, epoch, closed>>
    BY <1>9 DEF vars
  <2>2. TypeOK /\ req \in [Requests -> RequestType]
    BY Typed DEF Inv
  <2>3. OthersOK'
    BY <2>1, <2>2 DEF TypeOK, OthersOK
  <2> QED
    BY <2>1, <2>2, <2>3, ElsewhereKeeps
<1> QED
  BY <1>1, <1>2, <1>3, <1>4, <1>5, <1>6, <1>7, <1>8, <1>9, AroundKeeps DEF Next

LEMMA InvHolds == Spec => []Inv
BY InvInit, InvStep, PTL DEF Spec

(* Every value the registry, its requests, the server and the clock ever   *)
(* hold has the type the code gives it; in particular cursorMemory and     *)
(* cursorSlots are never returned below zero.                              *)
THEOREM RegistryTypeCorrect == Spec => []TypeOK
<1>1. Inv => TypeOK
  BY DEF Inv
<1> QED
  BY <1>1, InvHolds, PTL

(* releaseCursor is reached only when the server holds nothing of the      *)
(* cursor and will create nothing: no context is orphaned, however often   *)
(* answers are lost and whoever races for the gate.                        *)
THEOREM NoContextOrphaned == Spec => []NoOrphan
<1>1. Inv => NoOrphan
  <2> SUFFICES ASSUME Inv, NEW c \in Cursors,
                      net[c].native > 0 \/ (\E f \in net[c].flights : f.create)
               PROVE  cur[c].st = "open"
    BY DEF NoOrphan
  <2>1. Cursor(cur[c], net[c], served[c]) /\ cur[c] \in CursorType
    BY AtCursor
  <2>2. ~Dead(net[c]) /\ net[c] # NewNet
    BY NewCursorIs DEF Dead
  <2> QED
    BY <2>1, <2>2 DEF Cursor, CursorType
<1> QED
  BY <1>1, InvHolds, PTL

(* A cursor that its owner may continue was read to the end of its last    *)
(* answer, and the next page is the one after the last delivered.          *)
THEOREM NoPageSkipped == Spec => []ContinuesInStep
<1>1. Inv => ContinuesInStep
  <2> SUFFICES ASSUME Inv, NEW c \in Cursors, gate[c] = Free, Usable(c)
               PROVE  /\ cur[c].ids > 0 /\ ~cur[c].uncertain
                      /\ net[c].flights = {} /\ net[c].pos = served[c]
    BY DEF ContinuesInStep
  <2>1. cur[c].st = "open" /\ ~cur[c].invalid
    BY DEF Usable
  <2>2. Continuable(cur[c], net[c], served[c])
    BY <2>1, AwayIsQuiet, Actors
  <2> QED
    BY <2>2 DEF Continuable
<1> QED
  BY <1>1, InvHolds, PTL

(* beginCursorDispatch accounts for the longest lease the server was given *)
(* and arms the timer, so a usable cursor's lease ends before them.        *)
THEOREM LeaseEndsFirst == Spec => []LeaseWithinHorizon
<1>1. Inv => LeaseWithinHorizon
  <2> SUFFICES ASSUME Inv, NEW c \in Cursors, Usable(c)
               PROVE  cur[c].serverUntil >= cur[c].expires /\ cur[c].timer # NoTimer
    BY DEF LeaseWithinHorizon
  <2>1. cur[c].st = "open" /\ cur[c].expires > 0
    BY DEF Usable
  <2>2. Cursor(cur[c], net[c], served[c]) /\ cur[c] \in CursorType
    BY AtCursor
  <2>3. cur[c].expires \in Nat /\ cur[c].serverUntil \in Nat
    BY <2>2 DEF CursorType
  <2>4. Horizon(cur[c], net[c])
    BY <2>1, <2>2, <2>3 DEF Cursor, Fresh
  <2> QED
    BY <2>3, <2>4 DEF Horizon
<1> QED
  BY <1>1, InvHolds, PTL

(* The process-wide semaphores hold exactly what the registered cursors    *)
(* reserved, for any limits and any interleaving of the paths that reserve *)
(* and release.                                                            *)
THEOREM ReservationsExact == Spec => []BudgetExact
<1>1. Inv => BudgetExact
  BY DEF Inv, Budget
<1> QED
  BY <1>1, InvHolds, PTL

-----------------------------------------------------------------------------
(* The registry implements Contexts.                                       *)

LEMMA SameCount == \A S : Abstract!Cardinality(S) = Cardinality(S)
BY DEF Cardinality, IsFiniteSet, Abstract!Cardinality, Abstract!IsFiniteSet

(* The abstract sets of cursors, in terms of the registry's state.         *)
LEMMA AbstractSets ==
  ASSUME Inv
  PROVE  /\ Abstract!Cardinality(Abstract!Open) = Cardinality(Registered)
         /\ Abstract!Cardinality(Abstract!Taken) = slots
         /\ Abstract!Cardinality(Abstract!Units) = memory
<1>1. Abstract!Open = Registered
  BY DEF Abstract!Open, States, Registered
<1>2. Abstract!Taken = Reservations
  BY DEF Abstract!Taken, States, Reservations
<1>3. Abstract!Units = Units
  <2>1. \A c \in Reservations : c \in Cursors /\ Shares[c] = cur[c].bytes
    BY DEF Reservations, Shares
  <2>2. \A c \in Cursors \ Reservations : Shares[c] = 0 /\ 1..Shares[c] = {}
    BY DEF Shares
  <2>3. Abstract!Units = UNION {{c} \X (1..Shares[c]) : c \in Cursors}
    BY DEF Abstract!Units
  <2>4. ASSUME NEW x PROVE x \in Abstract!Units <=> x \in Units
    <3>1. x \in Abstract!Units <=> \E c \in Cursors : x \in {c} \X (1..Shares[c])
      BY <2>3
    <3>2. x \in Units <=> \E c \in Reservations : x \in {c} \X (1..cur[c].bytes)
      BY DEF Units
    <3>3. \A c \in Cursors \ Reservations : x \notin {c} \X (1..Shares[c])
      BY <2>2
    <3> QED
      BY <2>1, <3>1, <3>2, <3>3
  <2> QED
    BY <2>4
<1>4. slots = Cardinality(Reservations) /\ memory = Cardinality(Units)
  BY DEF Inv, Budget, BudgetExact
<1> QED
  BY <1>1, <1>2, <1>3, <1>4, SameCount

LEMMA ViewAt ==
  ASSUME NEW c \in Cursors
  PROVE  /\ States[c] = cur[c].st /\ Shares[c] = Bytes(cur[c])
         /\ Natives[c] = ContextOf(cur[c], net[c]) /\ Positions[c] = net[c].pos
         /\ States'[c] = cur'[c].st /\ Shares'[c] = Bytes(cur'[c])
         /\ Natives'[c] = ContextOf(cur'[c], net'[c]) /\ Positions'[c] = net'[c].pos
<1>1. /\ States[c] = cur[c].st /\ Shares[c] = Bytes(cur[c])
      /\ Natives[c] = ContextOf(cur[c], net[c]) /\ Positions[c] = net[c].pos
  BY DEF States, Shares, Natives, Positions, Reservations, Bytes, Reserved
<1>2. /\ States'[c] = cur'[c].st /\ Positions'[c] = net'[c].pos
      /\ Shares'[c] = IF cur'[c].st \in {"reserved", "open"} THEN cur'[c].bytes ELSE 0
      /\ Natives'[c] = ContextOf(cur'[c], net'[c])
  BY DEF States, Shares, Natives, Positions, Reservations, ContextOf
<1> QED
  BY <1>1, <1>2 DEF Bytes, Reserved

(* A step on one cursor changes what Contexts sees at that cursor.         *)
LEMMA ViewStep ==
  ASSUME NEW c \in Cursors,
         \A d \in Cursors \ {c} : cur'[d] = cur[d] /\ net'[d] = net[d]
  PROVE  /\ States' = [States EXCEPT ![c] = cur'[c].st]
         /\ Shares' = [Shares EXCEPT ![c] = Bytes(cur'[c])]
         /\ Natives' = [Natives EXCEPT ![c] = ContextOf(cur'[c], net'[c])]
         /\ Positions' = [Positions EXCEPT ![c] = net'[c].pos]
<1>1. \A d \in Cursors \ {c} : /\ States'[d] = States[d] /\ Shares'[d] = Shares[d]
                               /\ Natives'[d] = Natives[d] /\ Positions'[d] = Positions[d]
  BY ViewAt
<1>2. /\ States = [d \in Cursors |-> States[d]] /\ States' = [d \in Cursors |-> States'[d]]
      /\ Positions = [d \in Cursors |-> Positions[d]] /\ Positions' = [d \in Cursors |-> Positions'[d]]
  BY DEF States, Positions
<1>3. /\ Shares = [d \in Cursors |-> Shares[d]] /\ Shares' = [d \in Cursors |-> Shares'[d]]
  BY DEF Shares
<1>4. /\ Natives = [d \in Cursors |-> Natives[d]] /\ Natives' = [d \in Cursors |-> Natives'[d]]
  BY DEF Natives
<1> QED
  BY <1>1, <1>2, <1>3, <1>4, ViewAt

LEMMA ViewSame ==
  ASSUME NEW c \in Cursors, served' = served,
         \A d \in Cursors \ {c} : cur'[d] = cur[d] /\ net'[d] = net[d],
         cur'[c].st = cur[c].st, Bytes(cur'[c]) = Bytes(cur[c]),
         ContextOf(cur'[c], net'[c]) = ContextOf(cur[c], net[c]), net'[c].pos = net[c].pos
  PROVE  UNCHANGED Abstract!vars
<1>1. /\ States' = [States EXCEPT ![c] = States[c]] /\ Shares' = [Shares EXCEPT ![c] = Shares[c]]
      /\ Natives' = [Natives EXCEPT ![c] = Natives[c]]
      /\ Positions' = [Positions EXCEPT ![c] = Positions[c]]
  BY ViewStep, ViewAt
<1>2. UNCHANGED <<States, Shares, Natives, Positions>>
  BY <1>1 DEF States, Shares, Natives, Positions
<1> QED
  BY <1>2 DEF Abstract!vars

LEMMA ContextIs ==
  ASSUME NEW k \in CursorType, NEW n \in NetType
  PROVE  /\ n.native > 0 => ContextOf(k, n) = "there"
         /\ n.native = 0 /\ (\E f \in n.flights : f.create) => ContextOf(k, n) = "coming"
         /\ Dead(n) /\ (k.dispatched \/ k.st = "released") => ContextOf(k, n) = "gone"
         /\ Dead(n) /\ ~k.dispatched /\ k.st # "released" => ContextOf(k, n) = "none"
<1>1. n.native \in Nat
  BY DEF NetType
<1> QED
  BY <1>1 DEF ContextOf, Dead

(* A record is released, or keeps what Contexts sees of it.                *)
Kept(k, j) ==
    j.st = "released" \/ (j.st = k.st /\ j.bytes = k.bytes /\ j.dispatched = k.dispatched)

LEMMA KeptRecords ==
  ASSUME NEW k \in CursorType
  PROVE  /\ \A j : Stays(k, j) \/ Settles(k, j) \/ Gone(k, j) => Kept(k, j)
         /\ Kept(k, Disable(k)) /\ Kept(k, Release(k)) /\ Kept(k, Retire(k))
         /\ Kept(k, CleanupLocal(k)) /\ Kept(k, Queued(k))
         /\ \A confirmed \in BOOLEAN : Kept(k, Answered(k, confirmed))
         /\ \A j, l : Kept(k, j) /\ Kept(j, l) => Kept(k, l)
<1>1. \A j : Stays(k, j) \/ Settles(k, j) \/ Gone(k, j) => Kept(k, j)
  BY DEF Kept, Stays, Settles, Gone
<1>2. \A j, l : Kept(k, j) /\ Kept(j, l) => Kept(k, l)
  BY DEF Kept
<1>3. Kept(k, Disable(k)) /\ Kept(k, Release(k)) /\ Kept(k, Retire(k))
  BY <1>1, DisableIs, ReleaseIs, RetireIs
<1>4. Kept(k, CleanupLocal(k))
  <2>1. CASE k.st = "open"
    BY <1>1, <2>1, CleanupLocalIs
  <2>2. CASE k.st # "open"
    BY <2>2 DEF CleanupLocal, Kept
  <2> QED
    BY <2>1, <2>2
<1>5. Kept(k, Queued(k))
  <2>1. Retire(k) \in CursorType
    BY RetireIs DEF Gone, Stays
  <2>2. Kept(Retire(k), Queued(k))
    BY <2>1 DEF Queued, Kept, CursorType
  <2> QED
    BY <1>2, <1>3, <2>2
<1>6. \A confirmed \in BOOLEAN : Kept(k, Answered(k, confirmed))
  BY <1>1, AnsweredIs
<1> QED
  BY <1>1, <1>2, <1>3, <1>4, <1>5, <1>6

(* The record of one cursor is kept or released, and its context may have  *)
(* been cleared on the way: nothing, a lapse, or the return of the         *)
(* reservation.                                                            *)
LEMMA KeptImplements ==
  ASSUME Inv, Inv', NEW c \in Cursors, NEW j, cur' = [cur EXCEPT ![c] = j], Kept(cur[c], j),
         cur[c].st \in {"open", "released"}, served' = served,
         net' = net \/ net' = [net EXCEPT ![c].native = 0]
  PROVE  [Abstract!Next]_(Abstract!vars)
<1> DEFINE k == cur[c]
           n == net[c]
           m == net'[c]
<1>1. /\ cur \in [Cursors -> CursorType] /\ net \in [Cursors -> NetType]
      /\ k \in CursorType /\ n \in NetType /\ Cursor(k, n, served[c])
  BY AtCursor, Typed DEF Inv
<1>2. \A d \in Cursors : SoundAt(d)' /\ TypeOK'
  BY DEF Inv
<1>3. /\ cur'[c] \in CursorType /\ m \in NetType /\ Cursor(cur'[c], m, served'[c])
  <2>1. Sound(cur'[c], net'[c], served'[c], gate'[c],
              IF gate'[c] \in Requests THEN req'[gate'[c]] ELSE Idle, c \in cleaning')
    BY <1>2, SoundAtNext
  <2>2. cur'[c] \in CursorType /\ net'[c] \in NetType
    <3>1. TypeOK'
      BY <1>2
    <3>2. cur' \in [Cursors -> CursorType] /\ net' \in [Cursors -> NetType]
      BY <3>1 DEF TypeOK, CursorType, NetType, Flight, NoTimer
    <3> QED
      BY <3>2
  <2> QED
    BY <2>1, <2>2 DEF Sound
<1>4. cur'[c] = j /\ \A d \in Cursors \ {c} : cur'[d] = cur[d] /\ net'[d] = net[d]
  BY <1>1
<1>5. m.flights = n.flights /\ m.pos = n.pos /\ (m.native = n.native \/ m.native = 0) /\ n.native \in Nat
  BY <1>1 DEF NetType
<1> HIDE DEF k, n, m
<1>6. j \in CursorType /\ Cursor(j, m, served[c])
  BY <1>3, <1>4
<1>7. /\ States' = [States EXCEPT ![c] = j.st] /\ Shares' = [Shares EXCEPT ![c] = Bytes(j)]
      /\ Natives' = [Natives EXCEPT ![c] = ContextOf(j, m)]
      /\ Positions' = [Positions EXCEPT ![c] = m.pos]
  BY <1>4, ViewStep DEF m
<1>8. /\ States[c] = k.st /\ Shares[c] = Bytes(k) /\ Natives[c] = ContextOf(k, n)
      /\ Positions[c] = n.pos
  BY ViewAt DEF k, n
<1>9. Positions' = Positions
  BY <1>5, <1>7, <1>8 DEF Positions
<1>10. CASE k.st = "open" /\ j.st = "released"
  <2>1. Dead(m)
    BY <1>6, <1>10 DEF Cursor
  <2>2. ContextOf(j, m) = "gone" /\ Bytes(j) = 0
    BY <1>3, <1>6, <1>10, <2>1, ContextIs DEF Bytes, Reserved
  <2>3. ContextOf(k, n) # "coming"
    <3>1. ~\E f \in n.flights : f.create
      BY <1>5, <2>1 DEF Dead
    <3> QED
      BY <3>1 DEF ContextOf
  <2>4. Abstract!Return(c)
    BY <1>7, <1>8, <1>9, <1>10, <2>2, <2>3 DEF Abstract!Return
  <2> QED
    BY <2>4 DEF Abstract!Next
<1>11. CASE k.st = "released" /\ j.st = "released"
  <2>1. Dead(m) /\ Dead(n)
    BY <1>1, <1>6, <1>11 DEF Cursor, k, n
  <2>2. ContextOf(j, m) = "gone" /\ ContextOf(k, n) = "gone" /\ Bytes(j) = 0 /\ Bytes(k) = 0
    BY <1>1, <1>3, <1>6, <1>11, <2>1, ContextIs DEF Bytes, Reserved, k, n
  <2> QED
    BY <1>4, <1>5, <1>11, <2>2, ViewSame DEF k, n, m
<1>12. CASE j.st # "released"
  <2>1. j.st = k.st /\ j.bytes = k.bytes /\ j.dispatched = k.dispatched /\ k.st = "open"
    BY <1>12 DEF Kept, k
  <2>2. Bytes(j) = Bytes(k)
    BY <2>1 DEF Bytes, Reserved
  <2>3. CASE m.native = n.native
    <3>1. ContextOf(j, m) = ContextOf(k, n)
      BY <1>5, <2>1, <2>3 DEF ContextOf
    <3> QED
      BY <1>4, <1>5, <2>1, <2>2, <3>1, ViewSame DEF k, n, m
  <2>4. CASE m.native # n.native
    <3>1. m.native = 0 /\ n.native > 0
      BY <1>5, <2>4
    <3>2. k.dispatched /\ Horizon(k, n)
      <4>1. n # NewNet
        BY <3>1, NewCursorIs
      <4> QED
        BY <1>1, <2>1, <4>1 DEF Cursor, k, n
    <3>3. Dead(m)
      BY <1>5, <3>1, <3>2 DEF Horizon, Dead
    <3>4. ContextOf(k, n) = "there" /\ ContextOf(j, m) = "gone"
      BY <1>1, <1>3, <1>6, <2>1, <3>1, <3>2, <3>3, ContextIs DEF k, n
    <3>5. UNCHANGED <<States, Shares>>
      BY <1>7, <1>8, <2>1, <2>2 DEF States, Shares
    <3>6. Natives' = [d \in Cursors |-> IF d \in {c} THEN "gone" ELSE Natives[d]]
      BY <1>7, <3>4 DEF Natives
    <3>7. Abstract!Lapse({c})
      BY <1>8, <1>9, <3>4, <3>5, <3>6 DEF Abstract!Lapse
    <3>8. {c} \in SUBSET Cursors
      OBVIOUS
    <3> QED
      BY <3>7, <3>8 DEF Abstract!Next
  <2> QED
    BY <2>3, <2>4
<1> QED
  BY <1>10, <1>11, <1>12 DEF k

(* The steps that clean up, recover, retire or drain a cursor.             *)
LEMMA StoreKeeps ==
  ASSUME Inv, NEW c \in Cursors, NEW k, NEW j, Kept(cur[c], k), k \in CursorType,
         j \in {k, CleanupLocal(k), Queued(k)}, Store(c, j)
  PROVE  cur' = [cur EXCEPT ![c] = j] /\ Kept(cur[c], j)
<1>1. cur[c] \in CursorType
  BY AtCursor
<1>2. Kept(k, j)
  BY KeptRecords DEF Kept
<1> QED
  BY <1>1, <1>2, KeptRecords DEF Store

LEMMA RequestEndsImplements ==
  ASSUME Inv, Inv', NEW r \in Requests, RecoverCursor(r) \/ CloseCursor(r) \/ DrainedSql(r)
  PROVE  [Abstract!Next]_(Abstract!vars)
<1> DEFINE c == req[r].c
           k == Disable(cur[c])
<1>1. req[r].pc \in HoldingPcs /\ UNCHANGED <<net, served>>
  BY DEF RecoverCursor, CloseCursor, DrainedSql, HoldingPcs
<1>2. /\ c \in Cursors /\ cur[c] \in CursorType /\ cur[c].st \in {"open", "released"}
  BY <1>1, Held
<1>3. k \in CursorType /\ Kept(cur[c], k)
  BY <1>2, DisableIs, KeptRecords DEF Stays
<1>4. CleanupLocal(k) \in CursorType /\ Kept(cur[c], CleanupLocal(k))
  <2> HIDE DEF k
  <2>1. Kept(k, CleanupLocal(k))
    BY <1>3, KeptRecords
  <2>2. CleanupLocal(k) \in CursorType
    <3>1. CASE k.st = "open"
      BY <1>3, <3>1, CleanupLocalIs DEF Settles, Stays, Gone
    <3>2. CASE k.st # "open"
      BY <1>3, <3>2 DEF CleanupLocal
    <3> QED
      BY <3>1, <3>2
  <2> QED
    BY <1>2, <1>3, <2>1, <2>2, KeptRecords
<1>5. \E j : cur' = [cur EXCEPT ![c] = j] /\ Kept(cur[c], j)
  <2>1. CASE RecoverCursor(r)
    <3>1. \/ Store(c, k) \/ QueueRecovery(c, k) \/ QueueRecovery(c, CleanupLocal(k))
      BY <2>1 DEF RecoverCursor
    <3> HIDE DEF k
    <3>2. \/ Store(c, k) \/ Store(c, Queued(k)) \/ Store(c, Queued(CleanupLocal(k)))
      BY <3>1 DEF QueueRecovery, Queued
    <3> QED
      BY <1>2, <1>3, <1>4, <3>2, StoreKeeps
  <2>2. CASE CloseCursor(r)
    <3>1. Store(c, k) \/ Store(c, CleanupLocal(k))
      BY <2>2 DEF CloseCursor
    <3> HIDE DEF k
    <3> QED
      BY <1>2, <1>3, <3>1, StoreKeeps
  <2>3. CASE DrainedSql(r)
    <3>1. Store(c, Release(cur[c]))
      BY <2>3 DEF DrainedSql
    <3> QED
      BY <1>2, <3>1, KeptRecords DEF Store
  <2> QED
    BY <2>1, <2>2, <2>3
<1> HIDE DEF c, k
<1> QED
  BY <1>1, <1>2, <1>5, KeptImplements

LEMMA HolderEndsImplements ==
  ASSUME Inv, Inv', NEW c \in Cursors,
         \/ RecoveryRuns(c) \/ ReaperCleans(c) \/ TimerRuns(c)
         \/ \E s \in Sweepers : SweepCloses(s, c)
  PROVE  [Abstract!Next]_(Abstract!vars)
<1> DEFINE q == [cur[c] EXCEPT !.queued = FALSE]
           t == [cur[c] EXCEPT !.timer = NoTimer]
<1>1. UNCHANGED <<net, served>>
  BY DEF RecoveryRuns, ReaperCleans, SweepCloses, TimerRuns
<1>2. cur \in [Cursors -> CursorType] /\ cur[c] \in CursorType
  BY AtCursor, Typed
<1>3. /\ q \in CursorType /\ Kept(cur[c], q) /\ q.st = cur[c].st
      /\ t \in CursorType /\ Kept(cur[c], t) /\ t.st = cur[c].st
  BY <1>2 DEF CursorType, Kept
<1>4. /\ Kept(cur[c], Disable(cur[c])) /\ Disable(cur[c]) \in CursorType
      /\ Disable(cur[c]).st = cur[c].st
  BY <1>2, KeptRecords, DisableIs DEF Stays
<1>5. Kept(cur[c], Disable(q)) /\ Disable(q) \in CursorType /\ Disable(q).st = cur[c].st
  <2> HIDE DEF q
  <2>1. Kept(q, Disable(q)) /\ Disable(q) \in CursorType /\ Disable(q).st = q.st
    BY <1>3, KeptRecords, DisableIs DEF Stays
  <2> QED
    BY <1>2, <1>3, <2>1, KeptRecords
<1>6. \E j : /\ cur' = [cur EXCEPT ![c] = j] /\ Kept(cur[c], j)
             /\ cur[c].st = "open" \/ j.st = cur[c].st
  <2>1. CASE TimerRuns(c)
    <3>1. Store(c, IF t.st = "open" THEN Retire(t) ELSE t)
      BY <2>1 DEF TimerRuns
    <3> HIDE DEF t
    <3>2. Kept(t, Retire(t)) /\ Kept(t, t)
      BY <1>3, KeptRecords DEF Kept
    <3>3. Kept(cur[c], IF t.st = "open" THEN Retire(t) ELSE t)
      BY <1>2, <1>3, <3>2, KeptRecords
    <3>4. cur[c].st = "open" \/ (IF t.st = "open" THEN Retire(t) ELSE t).st = cur[c].st
      BY <1>3
    <3> QED
      BY <3>1, <3>3, <3>4 DEF Store
  <2>2. CASE ~TimerRuns(c)
    <3>1. PICK h \in {"recovery"} \cup Sweepers, k \in {Disable(cur[c]), Disable(q)} : CleanupByHolder(c, h, k)
      BY <2>2, Actors DEF RecoveryRuns, ReaperCleans, SweepCloses
    <3>2. Store(c, k) \/ Store(c, CleanupLocal(k))
      BY <3>1 DEF CleanupByHolder
    <3>3. Kept(cur[c], k) /\ k \in CursorType /\ k.st = cur[c].st
      BY <1>4, <1>5
    <3>4. cur[c].st = "open" \/ CleanupLocal(k) = k
      BY <3>3 DEF CleanupLocal
    <3> QED
      BY <3>2, <3>3, <3>4, StoreKeeps
  <2> QED
    BY <2>1, <2>2
<1> HIDE DEF q, t
<1>7. CASE cur[c].st \in {"open", "released"}
  BY <1>1, <1>6, <1>7, KeptImplements
<1>8. CASE cur[c].st \notin {"open", "released"}
  <2>1. PICK j : cur' = [cur EXCEPT ![c] = j] /\ Kept(cur[c], j) /\ j.st = cur[c].st
    BY <1>6, <1>8
  <2>2. j.bytes = cur[c].bytes /\ j.dispatched = cur[c].dispatched
    BY <1>8, <2>1 DEF Kept
  <2>3. Bytes(j) = Bytes(cur[c]) /\ ContextOf(j, net[c]) = ContextOf(cur[c], net[c])
    BY <2>1, <2>2 DEF Bytes, Reserved, ContextOf
  <2>4. cur'[c] = j /\ \A d \in Cursors \ {c} : cur'[d] = cur[d] /\ net'[d] = net[d]
    BY <1>1, <1>2, <2>1
  <2> QED
    BY <1>1, <2>1, <2>3, <2>4, ViewSame
<1> QED
  BY <1>7, <1>8

(* The server's answer to a cleanup: its context may be gone, and with it  *)
(* the reservation.                                                        *)
LEMMA CleanupAnsweredImplements ==
  ASSUME Inv, Inv', NEW c \in Cursors, NEW confirmed \in BOOLEAN, NEW cleared \in BOOLEAN,
         CleanupAnswered(c, confirmed, cleared)
  PROVE  [Abstract!Next]_(Abstract!vars)
<1> DEFINE k == Answered(cur[c], confirmed)
<1>1. /\ c \in cleaning /\ served' = served
      /\ net' = net \/ net' = [net EXCEPT ![c].native = 0]
      /\ Store(c, k) \/ QueueRecovery(c, k)
  BY DEF CleanupAnswered
<1>2. cur[c] \in CursorType /\ cur[c].st = "open"
  BY <1>1, AtCursor DEF Sound
<1>3. Kept(cur[c], k) /\ k \in CursorType
  BY <1>2, KeptRecords, AnsweredIs DEF Settles, Stays, Gone
<1> HIDE DEF k
<1>4. \E j : cur' = [cur EXCEPT ![c] = j] /\ Kept(cur[c], j)
  <2>1. Store(c, k) \/ Store(c, Queued(k))
    BY <1>1 DEF QueueRecovery, Queued
  <2> QED
    BY <1>3, <2>1, StoreKeeps
<1> QED
  BY <1>1, <1>2, <1>4, KeptImplements

(* The reservation of a cursor, and what may become of it.                 *)
LEMMA ReserveImplements ==
  ASSUME Inv, NEW r \in Requests, NEW c \in Cursors, NEW op, NEW o, NEW kind,
         NEW charge \in Charges, Reserve(r, c, op, o, kind, charge)
  PROVE  Abstract!Next
<1> DEFINE k == [NewCursor EXCEPT !.st = "reserved", !.kind = kind, !.owner = o, !.bytes = charge,
                                  !.epoch = epoch, !.absolute = Lifetime]
<1>1. /\ cur[c].st = "unused" /\ memory + charge <= MemoryLimit /\ slots < SlotLimit
      /\ cur' = [cur EXCEPT ![c] = k] /\ UNCHANGED <<net, served>>
  BY DEF Reserve
<1>2. /\ cur \in [Cursors -> CursorType] /\ cur[c] \in CursorType /\ net[c] = NewNet /\ Fresh(cur[c])
  BY <1>1, AtCursor, Typed DEF Cursor
<1>3. k.st = "reserved" /\ k.bytes = charge /\ ~k.dispatched
  BY DEF NewCursor
<1> HIDE DEF k
<1>4. cur'[c] = k /\ \A d \in Cursors \ {c} : cur'[d] = cur[d] /\ net'[d] = net[d]
  BY <1>1, <1>2
<1>5. Bytes(k) = charge /\ ContextOf(k, net[c]) = ContextOf(cur[c], net[c])
  BY <1>1, <1>2, <1>3 DEF Bytes, Reserved, ContextOf, Fresh
<1>6. /\ States' = [States EXCEPT ![c] = "reserved"] /\ Shares' = [Shares EXCEPT ![c] = charge]
      /\ Natives' = [Natives EXCEPT ![c] = Natives[c]] /\ Positions' = [Positions EXCEPT ![c] = Positions[c]]
  BY <1>1, <1>3, <1>4, <1>5, ViewStep, ViewAt
<1>7. UNCHANGED <<Natives, Positions>>
  BY <1>6 DEF Natives, Positions
<1>8. Abstract!Reserve(c, charge)
  BY <1>1, <1>6, <1>7, AbstractSets, ViewAt DEF Abstract!Reserve
<1> QED
  BY <1>8 DEF Abstract!Next

LEMMA PublishImplements ==
  ASSUME Inv, NEW r \in Requests, PublishRefused(r) \/ Publish(r)
  PROVE  Abstract!Next
<1> DEFINE c == req[r].c
           k == cur'[c]
<1>1. req[r].pc = "publish" /\ UNCHANGED <<net, served>>
  BY DEF PublishRefused, Publish
<1>2. /\ c \in Cursors /\ cur[c] \in CursorType /\ cur[c].st = "reserved" /\ Fresh(cur[c])
      /\ net[c] = NewNet /\ cur \in [Cursors -> CursorType]
  BY <1>1, Publishing, Typed
<1>3. /\ \A d \in Cursors \ {c} : cur'[d] = cur[d] /\ net'[d] = net[d]
      /\ \/ PublishRefused(r) /\ k = NewCursor
         \/ Publish(r) /\ k = [cur[c] EXCEPT !.st = "open"]
  BY <1>1, <1>2 DEF PublishRefused, Publish
<1>4. /\ \/ PublishRefused(r) /\ k.st = "unused" /\ Bytes(k) = 0
         \/ Publish(r) /\ k.st = "open" /\ Bytes(k) = Bytes(cur[c])
      /\ ContextOf(k, net[c]) = ContextOf(cur[c], net[c])
  <2>1. CASE PublishRefused(r) /\ k = NewCursor
    <3>1. NewCursor.st = "unused" /\ ~NewCursor.dispatched
      BY DEF NewCursor
    <3> QED
      BY <1>2, <2>1, <3>1 DEF Bytes, Reserved, ContextOf, Fresh
  <2>2. CASE Publish(r) /\ k = [cur[c] EXCEPT !.st = "open"]
    <3>1. k.st = "open" /\ k.bytes = cur[c].bytes /\ k.dispatched = cur[c].dispatched
      BY <1>2, <2>2 DEF CursorType
    <3> QED
      BY <1>2, <2>2, <3>1 DEF Bytes, Reserved, ContextOf
  <2> QED
    BY <1>3, <2>1, <2>2
<1>5. net'[c] = net[c] /\ cur'[c] = k
  BY <1>1
<1> HIDE DEF k
<1>6. /\ States' = [States EXCEPT ![c] = k.st] /\ Shares' = [Shares EXCEPT ![c] = Bytes(k)]
      /\ Natives' = [Natives EXCEPT ![c] = Natives[c]] /\ Positions' = [Positions EXCEPT ![c] = Positions[c]]
  BY <1>2, <1>3, <1>4, <1>5, ViewStep, ViewAt
<1>7. UNCHANGED <<Natives, Positions>>
  BY <1>6 DEF Natives, Positions
<1>8. States[c] = "reserved" /\ Shares[c] = Bytes(cur[c])
  BY <1>2, ViewAt
<1>9. CASE PublishRefused(r) /\ k.st = "unused" /\ Bytes(k) = 0
  <2>1. Abstract!Withdraw(c)
    BY <1>1, <1>6, <1>7, <1>8, <1>9 DEF Abstract!Withdraw
  <2> QED
    BY <1>2, <2>1 DEF Abstract!Next
<1>10. CASE Publish(r) /\ k.st = "open" /\ Bytes(k) = Bytes(cur[c])
  <2>1. Cardinality(Registered) < MaxOpenContexts
    BY <1>10 DEF Publish
  <2>2. UNCHANGED Shares
    BY <1>6, <1>8, <1>10 DEF Shares
  <2>3. Abstract!Publish(c)
    BY <1>1, <1>6, <1>7, <1>8, <1>10, <2>1, <2>2, AbstractSets DEF Abstract!Publish
  <2> QED
    BY <1>2, <2>3 DEF Abstract!Next
<1> QED
  BY <1>4, <1>9, <1>10

LEMMA UpdateQueryImplements ==
  ASSUME Inv, NEW r \in Requests, NEW charge \in Charges, UpdateQuery(r, charge)
  PROVE  [Abstract!Next]_(Abstract!vars)
<1> DEFINE c == req[r].c
           fits == charge <= cur[c].bytes \/ memory - cur[c].bytes + charge <= MemoryLimit
<1>1. req[r].pc = "update" /\ UNCHANGED <<net, served>>
  BY DEF UpdateQuery, target
<1>2. /\ c \in Cursors /\ cur[c] \in CursorType /\ cur \in [Cursors -> CursorType]
      /\ Holding(cur[c], net[c], served[c], req[r])
  BY <1>1, Held, Typed DEF HoldingPcs
<1>3. cur[c].st = "open"
  BY <1>1, <1>2 DEF Holding
<1>4. CASE ~fits
  <2>1. cur' = cur
    BY <1>4 DEF Fits, UpdateQuery
  <2> QED
    BY <1>1, <1>2, <2>1, ViewSame
<1>5. CASE fits
  <2> DEFINE k == [cur[c] EXCEPT !.bytes = charge]
  <2>1. cur' = [cur EXCEPT ![c].bytes = charge]
    BY <1>5 DEF Fits, UpdateQuery
  <2>2. cur'[c] = k /\ \A d \in Cursors \ {c} : cur'[d] = cur[d] /\ net'[d] = net[d]
    BY <1>1, <1>2, <2>1
  <2>3. k.st = "open" /\ k.bytes = charge /\ k.dispatched = cur[c].dispatched
    BY <1>2, <1>3 DEF CursorType
  <2> HIDE DEF k
  <2>4. /\ Bytes(k) = charge /\ Bytes(cur[c]) = cur[c].bytes
        /\ ContextOf(k, net[c]) = ContextOf(cur[c], net[c])
    BY <1>3, <2>3 DEF Bytes, Reserved, ContextOf
  <2>5. net'[c] = net[c]
    BY <1>1
  <2>6. /\ States' = [States EXCEPT ![c] = States[c]] /\ Shares' = [Shares EXCEPT ![c] = charge]
        /\ Natives' = [Natives EXCEPT ![c] = Natives[c]]
        /\ Positions' = [Positions EXCEPT ![c] = Positions[c]]
    BY <1>2, <1>3, <2>2, <2>3, <2>4, <2>5, ViewStep, ViewAt
  <2>7. UNCHANGED <<States, Natives, Positions>>
    BY <2>6 DEF States, Natives, Positions
  <2>8. States[c] = "open" /\ Shares[c] = cur[c].bytes
    BY <1>2, <1>3, <2>4, ViewAt
  <2>9. Abstract!Charge(c, charge)
    BY <1>1, <1>5, <2>6, <2>7, <2>8, AbstractSets DEF Abstract!Charge
  <2> QED
    BY <1>2, <2>9 DEF Abstract!Next
<1> QED
  BY <1>4, <1>5

(* A page goes to the client: the one its context has come to.             *)
LEMMA ServePageImplements ==
  ASSUME Inv, NEW r \in Requests, ServePage(r)
  PROVE  Abstract!Next
<1> DEFINE c == req[r].c
<1>1. /\ req[r].pc = "result" /\ req[r].more /\ served' = [served EXCEPT ![c] = @ + 1]
      /\ UNCHANGED <<cur, net>>
  BY DEF ServePage
<1>2. /\ c \in Cursors /\ Holding(cur[c], net[c], served[c], req[r])
      /\ served \in [Cursors -> Nat]
  BY <1>1, Held, Typed DEF HoldingPcs
<1>3. cur[c].st = "open" /\ req[r].op \in Told /\ Paged(cur[c], net[c], served[c], req[r])
  BY <1>1, <1>2 DEF Holding
<1>4. net[c].pos = served[c] + 1
  BY <1>1, <1>3 DEF Paged
<1>5. UNCHANGED <<States, Shares, Natives, Positions>>
  BY <1>1 DEF States, Shares, Reservations, Natives, Positions, ContextOf
<1>6. States[c] = "open" /\ Positions[c] = net[c].pos
  BY <1>2, <1>3, ViewAt
<1> HIDE DEF c
<1>7. Abstract!Deliver(c)
  BY <1>1, <1>4, <1>5, <1>6 DEF Abstract!Deliver
<1> QED
  BY <1>2, <1>7 DEF Abstract!Next

(* A request goes out: the first one asks for the context.                 *)
LEMMA BeginDispatchImplements ==
  ASSUME Inv, NEW r \in Requests, NEW requested \in Keeps, NEW sent \in BOOLEAN,
         BeginDispatch(r, requested, sent)
  PROVE  [Abstract!Next]_(Abstract!vars)
<1> DEFINE c == req[r].c
           keep == Lower(requested, cur[c].absolute)
           flight == [left |-> MaxTimeout, lease |-> keep, heard |-> TRUE, create |-> cur[c].ids = 0]
           k == Dispatched(cur[c], keep)
           n == IF sent THEN [net[c] EXCEPT !.flights = @ \cup {flight}] ELSE net[c]
<1>1. /\ req[r].pc = "dispatch" /\ Store(c, k) /\ served' = served
      /\ net' = IF sent THEN [net EXCEPT ![c].flights = @ \cup {flight}] ELSE net
  BY DEF BeginDispatch
<1>2. /\ c \in Cursors /\ cur[c] \in CursorType /\ net[c] \in NetType
      /\ Cursor(cur[c], net[c], served[c]) /\ Holding(cur[c], net[c], served[c], req[r])
      /\ cur \in [Cursors -> CursorType] /\ net \in [Cursors -> NetType]
  BY <1>1, Held, Typed DEF HoldingPcs
<1>3. cur[c].st = "open" /\ ~cur[c].done /\ ~cur[c].uncertain /\ net[c].flights = {}
  BY <1>1, <1>2 DEF Holding
<1>4. keep \in Nat
  BY <1>2, ConfigAssumption DEF Lower, CursorType
<1>5. flight \in Flight /\ (flight.create <=> cur[c].ids = 0)
  <2>1. flight \in Flight
    BY <1>4, ConfigAssumption DEF Flight
  <2>2. flight.create = (cur[c].ids = 0)
    OBVIOUS
  <2> HIDE DEF flight
  <2> QED
    BY <2>1, <2>2, Zenon
<1> HIDE DEF keep, flight
<1>6. k \in CursorType /\ k.st = "open" /\ k.bytes = cur[c].bytes /\ k.dispatched
  BY <1>2, <1>3, <1>4, DispatchedIs DEF Cursor
<1>7. /\ n \in NetType /\ n.native = net[c].native /\ n.pos = net[c].pos
      /\ n.flights = IF sent THEN {flight} ELSE {}
  BY <1>2, <1>3, <1>5 DEF NetType
<1>8. /\ cur'[c] = k /\ net'[c] = n
      /\ \A d \in Cursors \ {c} : cur'[d] = cur[d] /\ net'[d] = net[d]
  BY <1>1, <1>2 DEF Store
<1> HIDE DEF k, n, c
<1>9. Bytes(k) = Bytes(cur[c])
  BY <1>3, <1>6 DEF Bytes, Reserved
<1>10. CASE cur[c].ids = 0
  <2>1. Fresh(cur[c]) /\ net[c] = NewNet
    <3>1. ~Horizon(cur[c], net[c])
      BY <1>3, <1>10 DEF Horizon
    <3> QED
      BY <1>2, <1>3, <3>1 DEF Cursor
  <2>2. net[c].native = 0 /\ Dead(net[c])
    BY <2>1, NewCursorIs DEF Dead
  <2>3. ContextOf(cur[c], net[c]) = "none"
    BY <1>2, <1>3, <2>1, <2>2, ContextIs DEF Fresh
  <2>4. ContextOf(k, n) \in {"coming", "gone"}
    BY <1>6, <1>7, <2>2 DEF ContextOf
  <2>5. /\ States' = [States EXCEPT ![c] = States[c]] /\ Shares' = [Shares EXCEPT ![c] = Shares[c]]
        /\ Natives' = [Natives EXCEPT ![c] = ContextOf(k, n)]
        /\ Positions' = [Positions EXCEPT ![c] = Positions[c]]
    BY <1>2, <1>3, <1>6, <1>7, <1>8, <1>9, ViewStep, ViewAt
  <2>6. UNCHANGED <<States, Shares, Positions>>
    BY <2>5 DEF States, Shares, Positions
  <2>7. States[c] = "open" /\ Natives[c] = "none"
    BY <1>2, <1>3, <2>3, ViewAt
  <2>8. Abstract!Ask(c)
    BY <1>1, <2>4, <2>5, <2>6, <2>7 DEF Abstract!Ask
  <2> QED
    BY <1>2, <2>8 DEF Abstract!Next
<1>11. CASE cur[c].ids # 0
  <2>1. cur[c].dispatched
    BY <1>2, <1>3, <1>11 DEF Cursor, Fresh
  <2>2. \A f \in n.flights : ~f.create
    BY <1>5, <1>7, <1>11
  <2>3. ContextOf(k, n) = ContextOf(cur[c], net[c])
    BY <1>3, <1>6, <1>7, <2>1, <2>2 DEF ContextOf
  <2> QED
    BY <1>1, <1>2, <1>3, <1>6, <1>7, <1>8, <1>9, <2>3, ViewSame
<1> QED
  BY <1>10, <1>11

(* Who gives up on the wire takes nothing back: what was sent may arrive.  *)
LEMMA WireFailsImplements ==
  ASSUME Inv, NEW r \in Requests, WireFails(r)
  PROVE  UNCHANGED Abstract!vars
<1> DEFINE c == req[r].c
           fs == {[f EXCEPT !.heard = FALSE] : f \in net[c].flights}
           n == [net[c] EXCEPT !.reply = NoReply, !.flights = fs]
<1>1. /\ req[r].pc = "wire" /\ UNCHANGED <<cur, served>>
      /\ net' = [net EXCEPT ![c].reply = NoReply,
                            ![c].flights = {[f EXCEPT !.heard = FALSE] : f \in @}]
  BY DEF WireFails
<1>2. /\ TypeOK /\ c \in Cursors /\ net[c] \in NetType /\ net \in [Cursors -> NetType]
  BY <1>1, Held, Typed DEF HoldingPcs
<1>3. net' = [net EXCEPT ![c] = n]
  BY <1>1, <1>2, FailedNet
<1>4. (\E g \in fs : g.create) <=> (\E f \in net[c].flights : f.create)
  <2>1. \A f \in net[c].flights : [f EXCEPT !.heard = FALSE].create = f.create
    BY <1>2 DEF NetType, Flight
  <2> QED
    BY <2>1
<1> HIDE DEF fs
<1>5. n.native = net[c].native /\ n.pos = net[c].pos /\ n.flights = fs
  BY <1>2 DEF NetType
<1> HIDE DEF n
<1>6. net'[c] = n /\ cur'[c] = cur[c] /\ \A d \in Cursors \ {c} : cur'[d] = cur[d] /\ net'[d] = net[d]
  BY <1>1, <1>2, <1>3
<1>7. ContextOf(cur[c], n) = ContextOf(cur[c], net[c])
  BY <1>4, <1>5 DEF ContextOf
<1> HIDE DEF c
<1> QED
  BY <1>1, <1>2, <1>5, <1>6, <1>7, ViewSame

(* Reading an answer may turn the page of a search.                        *)
LEMMA ReceiveReplyImplements ==
  ASSUME Inv, NEW r \in Requests, NEW reading \in Reading, NEW rotated \in BOOLEAN,
         ReceiveReply(r, reading, rotated)
  PROVE  [Abstract!Next]_(Abstract!vars)
<1> DEFINE c == req[r].c
           reply == net[c].reply
           creation == cur[c].kind = "pit" /\ cur[c].ids = 0
           k == ReadAs(cur[c], reply.more, req[r].lease, reading, rotated)
           counts == cur[c].kind = "pit" /\ ~creation /\ reading = "good" /\ reply.more
           p == IF counts THEN net[c].pos + 1 ELSE net[c].pos
           n == [net[c] EXCEPT !.reply = NoReply, !.pos = p]
<1>1. /\ req[r].pc = "wire" /\ reply.status # "none" /\ (reply.status = "gone" => reading = "unidentified")
      /\ reading = "foreign" => cur[c].kind # "sql"
      /\ Store(c, k) /\ served' = served
      /\ net' = [net EXCEPT ![c].reply = NoReply, ![c].pos = IF counts THEN @ + 1 ELSE @]
  BY DEF ReceiveReply, ReadAs
<1>2. /\ TypeOK /\ c \in Cursors /\ cur[c] \in CursorType /\ net[c] \in NetType
      /\ Cursor(cur[c], net[c], served[c]) /\ net[c].flights = {}
      /\ Holding(cur[c], net[c], served[c], req[r]) /\ req[r] \in RequestType
      /\ cur \in [Cursors -> CursorType] /\ net \in [Cursors -> NetType]
  BY <1>1, Held, Typed DEF HoldingPcs
<1>3. net' = [net EXCEPT ![c] = n]
  BY <1>1, <1>2, ReadNet
<1>4. cur[c].st = "open" /\ OnWire(cur[c], net[c], served[c], req[r])
  BY <1>1, <1>2 DEF Holding
<1>5. Horizon(cur[c], net[c]) /\ cur[c].dispatched /\ ~cur[c].done
  BY <1>2, <1>4 DEF Cursor, OnWire, Fresh
<1>6. /\ reply.status \in {"none", "ok", "gone"} /\ reply.more \in BOOLEAN /\ req[r].lease \in Nat
      /\ net[c].pos \in Nat
  BY <1>2 DEF NetType, RequestType
<1>7. /\ req[r].lease <= cur[c].nativeLease
      /\ reading # "unidentified" /\ cur[c].kind = "sql" /\ ~reply.more => net[c].native = 0
  BY <1>1, <1>4, <1>6 DEF OnWire
<1>8. Learns(cur[c], k)
  <2> HIDE DEF reply, c, k
  <2> QED
    BY <1>1, <1>2, <1>5, <1>6, <1>7, ReadAsIs DEF k
<1> HIDE DEF k, p
<1>9. k.st = "open" /\ k.bytes = cur[c].bytes /\ k.dispatched
  BY <1>4, <1>5, <1>8 DEF Learns
<1>10. n.native = net[c].native /\ n.pos = p /\ n.flights = {}
  BY <1>2 DEF NetType
<1> HIDE DEF n
<1>11. /\ cur'[c] = k /\ net'[c] = n
       /\ \A d \in Cursors \ {c} : cur'[d] = cur[d] /\ net'[d] = net[d]
  BY <1>1, <1>2, <1>3 DEF Store
<1>12. Bytes(k) = Bytes(cur[c]) /\ ContextOf(k, n) = ContextOf(cur[c], net[c])
       /\ ContextOf(cur[c], net[c]) # "none"
  BY <1>2, <1>4, <1>5, <1>9, <1>10 DEF Bytes, Reserved, ContextOf
<1>13. p = net[c].pos \/ p = net[c].pos + 1
  BY DEF p
<1> HIDE DEF c
<1>14. CASE p = net[c].pos
  BY <1>1, <1>2, <1>4, <1>9, <1>10, <1>11, <1>12, <1>14, ViewSame
<1>15. CASE p = net[c].pos + 1
  <2>1. /\ States' = [States EXCEPT ![c] = States[c]] /\ Shares' = [Shares EXCEPT ![c] = Shares[c]]
        /\ Natives' = [Natives EXCEPT ![c] = Natives[c]]
        /\ Positions' = [Positions EXCEPT ![c] = Positions[c] + 1]
    BY <1>2, <1>4, <1>9, <1>10, <1>11, <1>12, <1>15, ViewStep, ViewAt
  <2>2. UNCHANGED <<States, Shares, Natives>>
    BY <2>1 DEF States, Shares, Natives
  <2>3. States[c] = "open" /\ Natives[c] # "none"
    BY <1>2, <1>4, <1>12, ViewAt
  <2>4. Abstract!Turn(c)
    BY <1>1, <2>1, <2>2, <2>3 DEF Abstract!Turn
  <2> QED
    BY <1>2, <2>4 DEF Abstract!Next
<1> QED
  BY <1>13, <1>14, <1>15

(* The server works on a request, or finds nothing to work on.             *)
LEMMA ServerProcessesImplements ==
  ASSUME Inv, NEW c \in Cursors, NEW f \in net[c].flights, NEW more \in BOOLEAN,
         ServerProcesses(c, f, more)
  PROVE  [Abstract!Next]_(Abstract!vars)
<1> DEFINE k == cur[c]
           n == net[c]
           m == Processed(k, n, f, more)
           alive == f.create \/ n.native > 0
<1>1. net' = [net EXCEPT ![c] = m] /\ UNCHANGED <<cur, served>>
  BY DEF ServerProcesses, Processed
<1>2. /\ k \in CursorType /\ n \in NetType /\ Cursor(k, n, served[c])
      /\ net \in [Cursors -> NetType]
  BY AtCursor, Typed
<1>3. /\ net'[c] = m /\ cur'[c] = k
      /\ \A d \in Cursors \ {c} : cur'[d] = cur[d] /\ net'[d] = net[d]
  BY <1>1, <1>2
<1>4. f \in n.flights /\ n # NewNet
  BY NewCursorIs
<1> HIDE DEF k, n
<1>5. /\ m \in NetType /\ m.flights = n.flights \ {f} /\ (~alive => m.native = 0)
      /\ m.pos = IF alive /\ more /\ k.kind # "pit" THEN n.pos + 1 ELSE n.pos
  BY <1>2, <1>4, ProcessedIs
<1>6. (k.st = "released" /\ Dead(n)) \/ (k.st = "open" /\ k.dispatched /\ Horizon(k, n))
  BY <1>2, <1>4 DEF Cursor, CursorType
<1>7. n.native \in Nat /\ m.native \in Nat /\ n.pos \in Nat
  BY <1>2, <1>5 DEF NetType
<1> HIDE DEF m
<1>8. States[c] = k.st /\ Natives[c] = ContextOf(k, n) /\ Positions[c] = n.pos /\ Shares[c] = Bytes(k)
  BY ViewAt DEF k, n
<1>9. CASE alive
  <2>1. k.st = "open" /\ k.dispatched /\ Horizon(k, n)
    BY <1>4, <1>6, <1>7, <1>9 DEF Dead
  <2>2. m.flights = {}
    BY <1>4, <1>5, <2>1 DEF Horizon
  <2>3. ContextOf(k, m) \in {"there", "gone"}
    BY <2>1, <2>2 DEF ContextOf
  <2>4. ContextOf(k, n) \in {"coming", "there"}
    <3>1. CASE n.native > 0
      BY <3>1 DEF ContextOf
    <3>2. CASE ~(n.native > 0)
      BY <1>4, <1>9, <3>2 DEF ContextOf
    <3> QED
      BY <3>1, <3>2
  <2> DEFINE turned == IF more /\ k.kind # "pit" THEN 1 ELSE 0
  <2>5. m.pos = n.pos + turned /\ turned \in {0, 1}
    <3> HIDE DEF alive
    <3> QED
      BY <1>5, <1>7, <1>9
  <2> HIDE DEF turned
  <2>6. /\ States' = [States EXCEPT ![c] = States[c]] /\ Shares' = [Shares EXCEPT ![c] = Shares[c]]
        /\ Natives' = [Natives EXCEPT ![c] = ContextOf(k, m)]
        /\ Positions' = [Positions EXCEPT ![c] = Positions[c] + turned]
    BY <1>3, <1>8, <2>5, ViewStep
  <2>7. UNCHANGED <<States, Shares>>
    BY <2>6 DEF States, Shares
  <2>8. Abstract!Work(c)
    BY <1>1, <1>8, <2>1, <2>3, <2>4, <2>5, <2>6, <2>7 DEF Abstract!Work
  <2> QED
    BY <2>8 DEF Abstract!Next
<1>10. CASE ~alive
  <2>1. n.native = 0 /\ m.native = 0 /\ m.pos = n.pos
    BY <1>5, <1>7, <1>10
  <2>2. (\E g \in m.flights : g.create) <=> (\E g \in n.flights : g.create)
    BY <1>5, <1>10
  <2>3. ContextOf(k, m) = ContextOf(k, n)
    BY <2>1, <2>2 DEF ContextOf
  <2> QED
    BY <1>1, <1>3, <2>1, <2>3, ViewSame DEF k, n
<1> QED
  BY <1>9, <1>10

(* What a tick does to what Contexts sees of a cursor.                     *)
LEMMA TickView ==
  ASSUME NEW k \in CursorType, NEW n \in NetType, NEW s, Cursor(k, n, s)
  PROVE  LET j == TickCursor(k)
             m == TickNet(n) IN
         /\ j.st = k.st /\ Bytes(j) = Bytes(k) /\ m.pos = n.pos
         /\ \/ ContextOf(j, m) = ContextOf(k, n)
            \/ ContextOf(k, n) \in {"coming", "there"} /\ ContextOf(j, m) = "gone"
<1> DEFINE j == TickCursor(k)
           m == TickNet(n)
<1>1. j \in CursorType /\ j.st = k.st /\ j.bytes = k.bytes /\ j.dispatched = k.dispatched
  BY TickCursorIs
<1>2. /\ m \in NetType /\ m.native = Less(n.native) /\ m.pos = n.pos
      /\ \A g \in m.flights : \E f \in n.flights : g.create = f.create
  BY TickNetIs
<1> HIDE DEF j, m
<1>3. n.native \in Nat /\ m.native \in Nat /\ (n.native = 0 => m.native = 0)
  BY <1>2, LessIs DEF NetType
<1>4. Bytes(j) = Bytes(k)
  BY <1>1 DEF Bytes, Reserved
<1>5. Dead(n) => Dead(m)
  BY <1>2, <1>3 DEF Dead
<1>6. CASE Dead(n)
  <2>1. ContextOf(j, m) = ContextOf(k, n)
    BY <1>1, <1>3, <1>5, <1>6 DEF ContextOf, Dead
  <2> QED
    BY <1>1, <1>2, <1>4, <2>1 DEF j, m
<1>7. CASE ~Dead(n)
  <2>1. k.dispatched /\ Horizon(k, n)
    <3>1. Dead(NewNet)
      BY NewCursorIs DEF Dead
    <3> QED
      BY <1>7, <3>1 DEF Cursor, CursorType
  <2>2. CASE n.native > 0
    <3>1. ~\E f \in n.flights : f.create
      BY <1>3, <2>1, <2>2 DEF Horizon
    <3>2. ~\E g \in m.flights : g.create
      BY <1>2, <3>1
    <3>3. ContextOf(k, n) = "there" /\ ContextOf(j, m) \in {"there", "gone"}
      BY <1>1, <2>1, <2>2, <3>2 DEF ContextOf
    <3> QED
      BY <1>1, <1>2, <1>4, <3>3 DEF j, m
  <2>3. CASE n.native = 0
    <3>1. ContextOf(k, n) = "coming"
      BY <1>7, <2>3 DEF ContextOf, Dead
    <3>2. ContextOf(j, m) \in {"coming", "gone"}
      BY <1>1, <1>3, <2>1, <2>3 DEF ContextOf
    <3> QED
      BY <1>1, <1>2, <1>4, <3>1, <3>2 DEF j, m
  <2> QED
    BY <1>3, <2>2, <2>3
<1> QED
  BY <1>6, <1>7

(* Time passes: contexts expire, and what was sent is lost.                *)
LEMMA TickImplements ==
  ASSUME Inv, Tick
  PROVE  Abstract!Next
<1> DEFINE C == {c \in Cursors : Natives'[c] # Natives[c]}
<1>1. /\ served' = served
      /\ \A c \in Cursors : cur'[c] = TickCursor(cur[c]) /\ net'[c] = TickNet(net[c])
  BY DEF Tick
<1>2. ASSUME NEW c \in Cursors
      PROVE  /\ States'[c] = States[c] /\ Shares'[c] = Shares[c] /\ Positions'[c] = Positions[c]
             /\ \/ Natives'[c] = Natives[c]
                \/ Natives[c] \in {"coming", "there"} /\ Natives'[c] = "gone"
  <2>1. cur[c] \in CursorType /\ net[c] \in NetType /\ Cursor(cur[c], net[c], served[c])
    BY AtCursor
  <2> QED
    BY <1>1, <2>1, TickView, ViewAt
<1>3. UNCHANGED <<States, Positions>>
  BY <1>2 DEF States, Positions
<1>4. UNCHANGED Shares
  BY <1>2 DEF Shares
<1>5. Natives' = [c \in Cursors |-> Natives'[c]]
  BY DEF Natives
<1>6. Natives' = [c \in Cursors |-> IF c \in C THEN "gone" ELSE Natives[c]]
  BY <1>2, <1>5
<1>7. \A c \in C : Natives[c] \in {"coming", "there"}
  BY <1>2
<1>8. C \in SUBSET Cursors
  OBVIOUS
<1> HIDE DEF C
<1>9. Abstract!Lapse(C)
  BY <1>1, <1>3, <1>4, <1>6, <1>7 DEF Abstract!Lapse
<1> QED
  BY <1>8, <1>9 DEF Abstract!Next

(* The steps that change nothing Contexts sees.                            *)
LEMMA UnseenImplements ==
  ASSUME UNCHANGED <<cur, net, served>>
  PROVE  UNCHANGED Abstract!vars
BY DEF Abstract!vars, States, Shares, Reservations, Natives, Positions, ContextOf

LEMMA RequestImplements ==
  ASSUME Inv, Inv', NEW r \in Requests, StartRequest(r) \/ RequestStep(r) \/ ContextDone(r)
  PROVE  [Abstract!Next]_(Abstract!vars)
<1>1. CASE StartRequest(r)
  <2>1. ASSUME NEW c \in Cursors, NEW o, NEW op, Lookup(r, c, o, op) PROVE UNCHANGED Abstract!vars
    BY <2>1, UnseenImplements DEF Lookup
  <2> QED
    BY <1>1, <2>1, ReserveImplements DEF StartRequest
<1>2. CASE RequestStep(r)
  <2>1. CASE \/ Abandon(r) \/ LockTimeout(r) \/ Refuse(r) \/ DispatchRefused(r)
             \/ \E fresh \in BOOLEAN : Lock(r, fresh)
             \/ NextMember(r) \/ AcceptPage(r) \/ ServeAggregation(r) \/ Exhausted(r)
    <3>1. UNCHANGED <<cur, net, served>>
      BY <2>1 DEF Abandon, LockTimeout, Refuse, DispatchRefused, Lock, NextMember, AcceptPage,
                  ServeAggregation, Exhausted
    <3> QED
      BY <3>1, UnseenImplements
  <2> QED
    BY <1>2, <2>1, PublishImplements, UpdateQueryImplements, BeginDispatchImplements, WireFailsImplements,
       ReceiveReplyImplements, ServePageImplements, RequestEndsImplements DEF RequestStep
<1>3. CASE ContextDone(r)
  BY <1>3, UnseenImplements DEF ContextDone
<1> QED
  BY <1>1, <1>2, <1>3

LEMMA StepImplements ==
  ASSUME Inv, Inv', [Next]_vars
  PROVE  [Abstract!Next]_(Abstract!vars)
<1>1. ASSUME NEW c \in Cursors,
             \/ CleanupStep(c) \/ ReaperStep(c) \/ ServerStep(c)
             \/ RecoveryGivesUp(c) \/ RecoveryRuns(c) \/ TimerRuns(c)
      PROVE  [Abstract!Next]_(Abstract!vars)
  <2>1. CASE ReaperLocks(c) \/ ReaperGivesUp(c) \/ RecoveryGivesUp(c)
    BY <2>1, UnseenImplements DEF ReaperLocks, ReaperGivesUp, RecoveryGivesUp
  <2>2. CASE CleanupStep(c)
    BY <2>2, CleanupAnsweredImplements DEF CleanupStep
  <2>3. CASE ServerStep(c)
    BY <2>3, ServerProcessesImplements DEF ServerStep
  <2> QED
    BY <1>1, <2>1, <2>2, <2>3, HolderEndsImplements DEF ReaperStep
<1>2. ASSUME (\E o \in Owners : Disconnect(o)) \/ AuthorityDrift \/ Close \/ UNCHANGED vars
      PROVE  UNCHANGED Abstract!vars
  BY <1>2, UnseenImplements DEF Disconnect, AuthorityDrift, Close, vars
<1> QED
  BY <1>1, <1>2, RequestImplements, HolderEndsImplements, TickImplements DEF Next

LEMMA InitImplements == Init => Abstract!Init
<1> SUFFICES ASSUME Init PROVE Abstract!Init
  OBVIOUS
<1>1. \A c \in Cursors : cur[c] = NewCursor /\ net[c] = NewNet
  BY DEF Init
<1>2. NewCursor.st = "unused" /\ ~NewCursor.dispatched /\ NewNet.native = 0 /\ NewNet.pos = 0
      /\ NewNet.flights = {}
  BY DEF NewCursor, NewNet
<1>3. States = [c \in Cursors |-> "unused"] /\ Positions = [c \in Cursors |-> 0]
  BY <1>1, <1>2 DEF States, Positions
<1>4. Shares = [c \in Cursors |-> 0]
  BY <1>1, <1>2 DEF Shares, Reservations
<1>5. Natives = [c \in Cursors |-> "none"]
  BY <1>1, <1>2 DEF Natives, ContextOf
<1> QED
  BY <1>3, <1>4, <1>5 DEF Init, Abstract!Init

(* The registry implements Contexts, for any number of handles, calls and  *)
(* sessions and any configured limits: whatever reserveCursor,             *)
(* beginCursorDispatch, cleanupCursor, recoverCursor, the reaper, the      *)
(* sweeps and the retirement timer do in whichever order, each of their    *)
(* steps is a step of a registry in which a handle asks for one context in *)
(* its life, gives its slot and memory back once the server can hold       *)
(* nothing of it, and its client gets the pages in order.                  *)
THEOREM RegistryRefines == Spec => ImplementsContexts
<1>1. Inv /\ Inv' /\ [Next]_vars => [Abstract!Next]_(Abstract!vars)
  BY StepImplements
<1> QED
  BY <1>1, InitImplements, InvHolds, PTL DEF Spec, Abstract!Spec, ImplementsContexts
=============================================================================
