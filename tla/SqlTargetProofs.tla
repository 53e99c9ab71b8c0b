--------------------------- MODULE SqlTargetProofs --------------------------
(***************************************************************************)
(* Proofs about SqlTarget for any number of calls and any configured       *)
(* times: no query starts on privileges that a recheck has refuted, and    *)
(* what a query, a cached answer or a batch relies on is recent.           *)
(***************************************************************************)
EXTENDS SqlTarget, TLAPS

CallType == [op : Op, at : 0..7, left : 0..MaxTimeout, policyAge : Ages, evidence : Ages]
CheckPlaces == {"idle", "acquire", "lock", "inspect", "inspected", "proved",
                "dated", "healthy", "failed", "stopped"}
CheckType == [at : CheckPlaces, left : 0..CheckTimeout, ok : BOOLEAN, read : Ages]

Stage == {"load", "check", "cached", "acquire", "gate", "recheck", "run", "store"}

(* Where a call is in its program.                                         *)
Where(k) == IF k.at = 0 THEN "idle" ELSE Steps(k.op)[k.at]

(* What a call relies on is young enough for the time it has left.         *)
Timely(k) ==
    /\ k \in CallType /\ k.at <= Len(Steps(k.op))
    /\ engine = "mysql" /\ k.op = "query" =>
        /\ Where(k) = "run" => k.evidence + k.left <= ProofLimit + MaxTimeout
        /\ Where(k) = "store" => k.evidence <= ProofLimit + MaxTimeout
    /\ engine = "postgresql" /\ k.op = "batch" =>
        /\ Where(k) = "acquire" => k.policyAge + k.left <= ProofLimit + MaxTimeout
        /\ Where(k) = "recheck" => k.policyAge <= ProofLimit + MaxTimeout

CallsTimely == req \in [Requests -> CallType] /\ \A r \in Requests : Timely(req[r])

(* The calls that hold the gate.                                           *)
InGate(k) == gated /\ Where(k) \in {"recheck", "run"}

Gate ==
    /\ readers = {r \in Requests : InGate(req[r])}
    /\ gated => /\ writer = "waiting" <=> check.at = "lock"
                /\ writer = "holding" <=> check.at \in {"inspect", "inspected", "proved", "dated",
                                                       "healthy", "failed"}
                /\ writer = "holding" => readers = {}

(* What the recheck has read grows older only while its context lasts.     *)
CheckTimely ==
    /\ check \in CheckType
    /\ check.at \in {"idle", "acquire", "lock", "inspect", "stopped"} => check.read = 0
    /\ check.at = "inspected" => check.read + check.left <= CheckTimeout
    /\ check.at \in {"proved", "dated", "healthy"} => check.read <= CheckTimeout

(* What was proved last is at most one check older than its time.          *)
ProofTimely ==
    /\ verified \in 0..2 * Interval + 1 /\ evidence \in 0..ProofLimit + 1
    /\ evidence <= verified + CheckTimeout
    /\ policyAge \in 0..ProofLimit + MaxTimeout + 1
    /\ engine = "postgresql" =>
        /\ verified <= 2 * Interval => policyAge <= verified + CheckTimeout
        /\ check.at = "dated" => policyAge <= CheckTimeout
        /\ \A r \in Requests : req[r].op = "batch" /\ Where(req[r]) = "load" => policyAge <= ProofLimit

(* A finding is either stored or about to be.                              *)
Refuted ==
    /\ refuted => ~healthy \/ check.at = "failed"
    /\ refuted => check.at \notin {"proved", "dated", "healthy"}

CacheTimely ==
    /\ cache \in [left : -1..TTL, evidence : Ages]
    /\ cache.left >= 0 => cache.evidence + cache.left <= AnswerLimit

Others ==
    /\ engine \in Engines /\ healthy \in BOOLEAN /\ writer \in {"none", "waiting", "holding"}
    /\ permits \subseteq Requests \cup {Recheck}
    /\ due \in BOOLEAN /\ sinceTick \in 0..(Interval - 1)
    /\ life \in {"open", "closing", "closed"} /\ refuted \in BOOLEAN

Inv ==
    /\ Others /\ CallsTimely /\ Gate /\ CheckTimely /\ ProofTimely /\ Refuted /\ CacheTimely
    /\ RunsUnrefuted

-----------------------------------------------------------------------------
(* The programs.                                                           *)

LEMMA Limits ==
  /\ Interval \in Nat /\ Interval > 0 /\ CheckTimeout \in Nat /\ MaxTimeout \in Nat /\ TTL \in Nat
  /\ ProofLimit \in Nat /\ ProofLimit = 2 * Interval + CheckTimeout
  /\ AnswerLimit \in Nat /\ AnswerLimit = ProofLimit + MaxTimeout + TTL
  /\ Ages = 0..(AnswerLimit + 1)
BY SqlAssumption DEF ProofLimit, AnswerLimit, Ages

LEMMA Numbers ==
  /\ Interval \in Nat /\ CheckTimeout \in Nat /\ MaxTimeout \in Nat /\ TTL \in Nat
  /\ ProofLimit \in Nat /\ CheckTimeout <= ProofLimit
  /\ AnswerLimit \in Nat /\ ProofLimit + MaxTimeout <= AnswerLimit
BY SqlAssumption DEF ProofLimit, AnswerLimit

LEMMA InAges == \A a : a \in Ages <=> a \in Nat /\ a <= AnswerLimit + 1
BY Limits

(* What follows step i, whatever the operation and the engine.             *)
Follows(op, i) ==
    /\ Steps(op)[i] \in Stage
    /\ Steps(op)[i] \notin {"run", "store"} => i + 1 \in 1..Len(Steps(op))
    /\ Steps(op)[i] = "check" => Steps(op)[i + 1] \in {"load", "cached", "acquire"}
    /\ Steps(op)[i] = "load" => Steps(op)[i + 1] \in {"check", "acquire"}
    /\ Steps(op)[i] = "cached" => Steps(op)[i + 1] = "acquire"
    /\ Steps(op)[i] = "acquire" => Steps(op)[i + 1] = IF gated THEN "gate" ELSE "recheck"
    /\ Steps(op)[i] = "gate" => gated /\ Steps(op)[i + 1] = "recheck"
    /\ Steps(op)[i] = "recheck" => Steps(op)[i + 1] = "run"
    /\ Steps(op)[i] = "run" /\ i # Len(Steps(op)) =>
           engine = "mysql" /\ op = "query" /\ Steps(op)[i + 1] = "store"
    /\ engine = "postgresql" /\ op = "batch" /\ Steps(op)[i] = "check" => Steps(op)[i + 1] = "load"

LEMMA Program ==
  ASSUME engine \in Engine, NEW op \in Op
  PROVE  /\ Len(Steps(op)) \in 1..7
         /\ Steps(op)[1] \in {"check", "load", "acquire"}
         /\ engine = "postgresql" /\ op = "batch" => Steps(op)[1] = "check"
         /\ \A i \in 1..Len(Steps(op)) : Follows(op, i)
<1>1. CASE engine = "mysql"
  <2>1. CASE op = "query"
    <3>1. Steps(op) = <<"check", "cached", "acquire", "gate", "recheck", "run", "store">>
      BY <1>1, <2>1 DEF Steps, mysqlSteps
    <3>2. /\ Len(Steps(op)) = 7 /\ Steps(op)[1] = "check" /\ Steps(op)[2] = "cached" /\ Steps(op)[3] = "acquire"
          /\ Steps(op)[4] = "gate" /\ Steps(op)[5] = "recheck" /\ Steps(op)[6] = "run" /\ Steps(op)[7] = "store"
      BY <3>1
    <3>3. \A i \in 1..7 : i = 1 \/ i = 2 \/ i = 3 \/ i = 4 \/ i = 5 \/ i = 6 \/ i = 7
      OBVIOUS
    <3>4. (gated <=> engine # "postgresql")
      BY <1>1 DEF gated
    <3>5. Len(Steps(op)) \in 1..7 /\ 1..Len(Steps(op)) = 1..7
      BY <3>2
    <3>6. ASSUME NEW i \in 1..7 PROVE Follows(op, i)
      BY <1>1, <2>1, <3>2, <3>3, <3>4 DEF Stage, Follows
    <3> QED
      BY <1>1, <2>1, <3>2, <3>5, <3>6
  <2>2. CASE op = "explain"
    <3>1. Steps(op) = <<"acquire", "gate", "recheck", "run">>
      BY <1>1, <2>2 DEF Steps, mysqlSteps
    <3>2. /\ Len(Steps(op)) = 4 /\ Steps(op)[1] = "acquire" /\ Steps(op)[2] = "gate" /\ Steps(op)[3] = "recheck"
          /\ Steps(op)[4] = "run"
      BY <3>1
    <3>3. \A i \in 1..4 : i = 1 \/ i = 2 \/ i = 3 \/ i = 4
      OBVIOUS
    <3>4. (gated <=> engine # "postgresql")
      BY <1>1 DEF gated
    <3>5. Len(Steps(op)) \in 1..7 /\ 1..Len(Steps(op)) = 1..4
      BY <3>2
    <3>6. ASSUME NEW i \in 1..4 PROVE Follows(op, i)
      BY <1>1, <2>2, <3>2, <3>3, <3>4 DEF Stage, Follows
    <3> QED
      BY <1>1, <2>2, <3>2, <3>5, <3>6
  <2>3. CASE op = "batch"
    <3>1. Steps(op) = <<"check", "acquire", "gate", "recheck", "run">>
      BY <1>1, <2>3 DEF Steps, mysqlSteps
    <3>2. /\ Len(Steps(op)) = 5 /\ Steps(op)[1] = "check" /\ Steps(op)[2] = "acquire" /\ Steps(op)[3] = "gate"
          /\ Steps(op)[4] = "recheck" /\ Steps(op)[5] = "run"
      BY <3>1
    <3>3. \A i \in 1..5 : i = 1 \/ i = 2 \/ i = 3 \/ i = 4 \/ i = 5
      OBVIOUS
    <3>4. (gated <=> engine # "postgresql")
      BY <1>1 DEF gated
    <3>5. Len(Steps(op)) \in 1..7 /\ 1..Len(Steps(op)) = 1..5
      BY <3>2
    <3>6. ASSUME NEW i \in 1..5 PROVE Follows(op, i)
      <4>1. CASE i = 1
        BY <1>1, <2>3, <3>2, <3>4, <4>1 DEF Stage, Follows
      <4>2. CASE i = 2
        BY <1>1, <2>3, <3>2, <3>4, <4>2 DEF Stage, Follows
      <4>3. CASE i = 3
        BY <1>1, <2>3, <3>2, <3>4, <4>3 DEF Stage, Follows
      <4>4. CASE i = 4
        BY <1>1, <2>3, <3>2, <3>4, <4>4 DEF Stage, Follows
      <4>5. CASE i = 5
        BY <1>1, <2>3, <3>2, <3>4, <4>5 DEF Stage, Follows
      <4> QED
        BY <3>3, <4>1, <4>2, <4>3, <4>4, <4>5
    <3> QED
      BY <1>1, <2>3, <3>2, <3>5, <3>6
  <2> QED
    BY <2>1, <2>2, <2>3 DEF Op
<1>2. CASE engine = "postgresql"
  <2>1. CASE op = "batch"
    <3>1. Steps(op) = <<"check", "load", "acquire", "recheck", "run">>
      BY <1>2, <2>1 DEF Steps, postgresqlSteps
    <3>2. /\ Len(Steps(op)) = 5 /\ Steps(op)[1] = "check" /\ Steps(op)[2] = "load" /\ Steps(op)[3] = "acquire"
          /\ Steps(op)[4] = "recheck" /\ Steps(op)[5] = "run"
      BY <3>1
    <3>3. \A i \in 1..5 : i = 1 \/ i = 2 \/ i = 3 \/ i = 4 \/ i = 5
      OBVIOUS
    <3>4. (gated <=> engine # "postgresql")
      BY <1>2 DEF gated
    <3>5. Len(Steps(op)) \in 1..7 /\ 1..Len(Steps(op)) = 1..5
      BY <3>2
    <3>6. ASSUME NEW i \in 1..5 PROVE Follows(op, i)
      <4>1. CASE i = 1
        BY <1>2, <2>1, <3>2, <3>4, <4>1 DEF Stage, Follows
      <4>2. CASE i = 2
        BY <1>2, <2>1, <3>2, <3>4, <4>2 DEF Stage, Follows
      <4>3. CASE i = 3
        BY <1>2, <2>1, <3>2, <3>4, <4>3 DEF Stage, Follows
      <4>4. CASE i = 4
        BY <1>2, <2>1, <3>2, <3>4, <4>4 DEF Stage, Follows
      <4>5. CASE i = 5
        BY <1>2, <2>1, <3>2, <3>4, <4>5 DEF Stage, Follows
      <4> QED
        BY <3>3, <4>1, <4>2, <4>3, <4>4, <4>5
    <3> QED
      BY <1>2, <2>1, <3>2, <3>5, <3>6
  <2>2. CASE op # "batch"
    <3>1. Steps(op) = <<"load", "check", "acquire", "recheck", "run">>
      BY <1>2, <2>2 DEF Steps, postgresqlSteps
    <3>2. /\ Len(Steps(op)) = 5 /\ Steps(op)[1] = "load" /\ Steps(op)[2] = "check" /\ Steps(op)[3] = "acquire"
          /\ Steps(op)[4] = "recheck" /\ Steps(op)[5] = "run"
      BY <3>1
    <3>3. \A i \in 1..5 : i = 1 \/ i = 2 \/ i = 3 \/ i = 4 \/ i = 5
      OBVIOUS
    <3>4. (gated <=> engine # "postgresql")
      BY <1>2 DEF gated
    <3>5. Len(Steps(op)) \in 1..7 /\ 1..Len(Steps(op)) = 1..5
      BY <3>2
    <3>6. ASSUME NEW i \in 1..5 PROVE Follows(op, i)
      BY <1>2, <2>2, <3>2, <3>3, <3>4 DEF Stage, Follows
    <3> QED
      BY <1>2, <2>2, <3>2, <3>5, <3>6
  <2> QED
    BY <2>1, <2>2
<1>3. CASE engine = "sqlserver"
  <2>1. CASE op = "explain"
    <3>1. Steps(op) = <<"acquire", "gate", "recheck", "run">>
      BY <1>3, <2>1 DEF Steps, sqlserverSteps
    <3>2. /\ Len(Steps(op)) = 4 /\ Steps(op)[1] = "acquire" /\ Steps(op)[2] = "gate" /\ Steps(op)[3] = "recheck"
          /\ Steps(op)[4] = "run"
      BY <3>1
    <3>3. \A i \in 1..4 : i = 1 \/ i = 2 \/ i = 3 \/ i = 4
      OBVIOUS
    <3>4. (gated <=> engine # "postgresql")
      BY <1>3 DEF gated
    <3>5. Len(Steps(op)) \in 1..7 /\ 1..Len(Steps(op)) = 1..4
      BY <3>2
    <3>6. ASSUME NEW i \in 1..4 PROVE Follows(op, i)
      BY <1>3, <2>1, <3>2, <3>3, <3>4 DEF Stage, Follows
    <3> QED
      BY <1>3, <2>1, <3>2, <3>5, <3>6
  <2>2. CASE op # "explain"
    <3>1. Steps(op) = <<"check", "acquire", "gate", "recheck", "run">>
      BY <1>3, <2>2 DEF Steps, sqlserverSteps
    <3>2. /\ Len(Steps(op)) = 5 /\ Steps(op)[1] = "check" /\ Steps(op)[2] = "acquire" /\ Steps(op)[3] = "gate"
          /\ Steps(op)[4] = "recheck" /\ Steps(op)[5] = "run"
      BY <3>1
    <3>3. \A i \in 1..5 : i = 1 \/ i = 2 \/ i = 3 \/ i = 4 \/ i = 5
      OBVIOUS
    <3>4. (gated <=> engine # "postgresql")
      BY <1>3 DEF gated
    <3>5. Len(Steps(op)) \in 1..7 /\ 1..Len(Steps(op)) = 1..5
      BY <3>2
    <3>6. ASSUME NEW i \in 1..5 PROVE Follows(op, i)
      BY <1>3, <2>2, <3>2, <3>3, <3>4 DEF Stage, Follows
    <3> QED
      BY <1>3, <2>2, <3>2, <3>5, <3>6
  <2> QED
    BY <2>1, <2>2
<1> QED
  BY <1>1, <1>2, <1>3 DEF Engine

-----------------------------------------------------------------------------
(* One call changes its record.                                            *)

LEMMA SamePrograms ==
  ASSUME engine' = engine, NEW k
  PROVE  /\ Where(k)' = Where(k) /\ (InGate(k)' <=> InGate(k)) /\ (Timely(k)' <=> Timely(k))
         /\ (gated' <=> gated)
BY DEF Where, InGate, Timely, gated, Steps

LEMMA Typed ==
  ASSUME Inv
  PROVE  /\ engine \in Engine /\ verified \in Nat /\ evidence \in Nat /\ policyAge \in Nat
         /\ \A r \in Requests : /\ req[r] \in CallType /\ req[r].op \in Op
                                /\ req[r].at \in 0..Len(Steps(req[r].op))
                                /\ Len(Steps(req[r].op)) \in 1..7
<1>1. engine \in Engine
  BY SqlAssumption DEF Inv, Others
<1>2. verified \in Nat /\ evidence \in Nat /\ policyAge \in Nat
  BY Limits DEF Inv, ProofTimely
<1>3. ASSUME NEW r \in Requests
      PROVE  /\ req[r] \in CallType /\ req[r].op \in Op
             /\ req[r].at \in 0..Len(Steps(req[r].op))
             /\ Len(Steps(req[r].op)) \in 1..7
  <2>1. req[r] \in CallType /\ req[r].at <= Len(Steps(req[r].op))
    BY DEF Inv, CallsTimely, Timely
  <2>2. req[r].op \in Op /\ req[r].at \in Nat
    BY <2>1 DEF CallType
  <2>3. Len(Steps(req[r].op)) \in 1..7
    BY <1>1, <2>2, Program
  <2> QED
    BY <2>1, <2>2, <2>3
<1> QED
  BY <1>1, <1>2, <1>3

LEMMA CallKeeps ==
  ASSUME Inv, NEW r \in Requests, NEW k, Timely(k), req' = [req EXCEPT ![r] = k],
         UNCHANGED <<engine, healthy, verified, policyAge, writer, check, due, sinceTick, life,
                     evidence, refuted>>,
         readers' = IF InGate(k) THEN readers \cup {r} ELSE readers \ {r},
         InGate(k) => InGate(req[r]) \/ writer = "none",
         gated /\ Where(k) = "run" => ~refuted,
         engine = "postgresql" /\ k.op = "batch" /\ Where(k) = "load" => policyAge <= ProofLimit,
         permits' \subseteq Requests \cup {Recheck}, CacheTimely'
  PROVE  Inv'
<1>1. k \in CallType /\ req \in [Requests -> CallType]
  BY DEF Timely, Inv, CallsTimely
<1>2. req' \in [Requests -> CallType] /\ req'[r] = k /\ \A q \in Requests \ {r} : req'[q] = req[q]
  BY <1>1
<1>3. ASSUME NEW q \in Requests
      PROVE  /\ Where(req[q])' = Where(req'[q]) /\ (InGate(req[q])' <=> InGate(req'[q]))
             /\ (Timely(req[q])' <=> Timely(req'[q]))
  BY DEF Where, InGate, Timely, gated, Steps
<1>4. CallsTimely'
  BY <1>2, <1>3 DEF Inv, CallsTimely
<1>5. readers' = {q \in Requests : InGate(req'[q])}
  <2>1. readers = {q \in Requests : InGate(req[q])}
    BY DEF Inv, Gate
  <2> QED
    BY <1>2, <2>1
<1>6. Gate'
  <2>1. (gated' <=> gated) /\ (gated => (writer = "holding" => readers = {}))
    BY SamePrograms DEF Inv, Gate
  <2>2. InGate(k) => r \in readers \/ writer = "none"
    BY DEF Inv, Gate
  <2>3. gated => (writer = "holding" => readers' = {})
    BY <2>1, <2>2
  <2>4. readers' = {q \in Requests : InGate(req[q])'}
    BY <1>3, <1>5
  <2> QED
    BY <2>1, <2>3, <2>4 DEF Inv, Gate
<1>7. ProofTimely'
  <2>1. engine = "postgresql" =>
          \A q \in Requests : req'[q].op = "batch" /\ Where(req'[q]) = "load" => policyAge <= ProofLimit
    BY <1>2 DEF Inv, ProofTimely
  <2>2. \A q \in Requests : Where(req[q])' = Where(req'[q])
    BY <1>3
  <2> QED
    BY <2>1, <2>2 DEF Inv, ProofTimely
<1>8. RunsUnrefuted'
  <2>1. \A q \in Requests : Running(q)' <=> Where(req'[q]) = "run"
    BY <1>3 DEF Running, At, Where
  <2>2. \A q \in Requests : Running(q) <=> Where(req[q]) = "run"
    BY DEF Running, At, Where
  <2>3. gated' <=> gated
    BY SamePrograms
  <2> QED
    BY <1>2, <2>1, <2>2, <2>3 DEF Inv, RunsUnrefuted
<1>9. Others' /\ CheckTimely' /\ Refuted'
  BY DEF Inv, Others, CheckTimely, Refuted
<1> QED
  BY <1>4, <1>6, <1>7, <1>8, <1>9 DEF Inv

(* A call returns.                                                         *)
LEMMA ReturnKeeps ==
  ASSUME Inv, NEW r \in Requests, Return(r), CacheTimely',
         UNCHANGED <<engine, healthy, verified, policyAge, writer, check, due, sinceTick, life,
                     evidence, refuted>>
  PROVE  Inv'
<1>1. Timely(NoCall) /\ Where(NoCall) = "idle"
  <2>1. NoCall \in CallType
    <3>1. 0 \in 0..7 /\ 0 \in 0..MaxTimeout /\ 0 \in Ages
      BY Limits
    <3> QED
      BY <3>1 DEF NoCall, CallType, Op
  <2>2. NoCall.at = 0 /\ NoCall.op = "query" /\ "query" \in Op
    BY DEF NoCall, Op
  <2>3. Where(NoCall) = "idle" /\ 0 <= Len(Steps("query"))
    BY <2>2, Typed, Program DEF Where
  <2> QED
    BY <2>1, <2>2, <2>3 DEF Timely
<1>2. ~InGate(NoCall)
  BY <1>1 DEF InGate
<1>3. permits' \subseteq Requests \cup {Recheck}
  BY DEF Return, Inv, Others
<1> QED
  BY <1>1, <1>2, <1>3, CallKeeps DEF Return

(* The record of a call at another step.                                   *)
LEMMA MovedIs ==
  ASSUME Inv, NEW c \in CallType, NEW i \in 1..Len(Steps(c.op))
  PROVE  /\ Moved(c, i) \in CallType /\ Moved(c, i).op = c.op /\ Moved(c, i).at = i
         /\ Moved(c, i).evidence = c.evidence
         /\ Moved(c, i).left = IF Steps(c.op)[i] = "acquire" THEN MaxTimeout ELSE c.left
         /\ Moved(c, i).policyAge = IF Steps(c.op)[i] = "run" THEN 0 ELSE c.policyAge
         /\ Where(Moved(c, i)) = Steps(c.op)[i]
         /\ i <= Len(Steps(c.op))
<1>1. engine \in Engine /\ c.op \in Op
  BY Typed DEF CallType
<1>2. Len(Steps(c.op)) \in 1..7
  BY <1>1, Program
<1>3. i \in 0..7 /\ i # 0 /\ i <= Len(Steps(c.op)) /\ MaxTimeout \in 0..MaxTimeout /\ 0 \in Ages
  <2> DEFINE l == Len(Steps(c.op))
  <2>1. l \in 1..7 /\ i \in 1..l
    BY <1>2
  <2> HIDE DEF l
  <2>2. i \in 0..7 /\ i # 0 /\ i <= l
    BY <2>1
  <2>3. MaxTimeout \in 0..MaxTimeout /\ 0 \in Ages
    BY Limits
  <2> QED
    BY <2>2, <2>3 DEF l
<1>4. /\ Moved(c, i) \in CallType /\ Moved(c, i).op = c.op /\ Moved(c, i).at = i
      /\ Moved(c, i).evidence = c.evidence
      /\ Moved(c, i).left = IF Steps(c.op)[i] = "acquire" THEN MaxTimeout ELSE c.left
      /\ Moved(c, i).policyAge = IF Steps(c.op)[i] = "run" THEN 0 ELSE c.policyAge
  <2> DEFINE n == IF Steps(c.op)[i] = "acquire" THEN MaxTimeout ELSE c.left
             p == IF Steps(c.op)[i] = "run" THEN 0 ELSE c.policyAge
  <2>1. n \in 0..MaxTimeout /\ p \in Ages
    BY <1>3 DEF CallType
  <2>2. Moved(c, i) = [c EXCEPT !.at = i, !.left = n, !.policyAge = p]
    BY DEF Moved
  <2> HIDE DEF n, p
  <2>3. /\ Moved(c, i) \in CallType /\ Moved(c, i).op = c.op /\ Moved(c, i).at = i
        /\ Moved(c, i).evidence = c.evidence /\ Moved(c, i).left = n /\ Moved(c, i).policyAge = p
    BY <1>3, <2>1, <2>2 DEF CallType
  <2> QED
    BY <2>3 DEF n, p
<1> QED
  BY <1>3, <1>4 DEF Where

(* Where a call is, and what follows.                                      *)
LEMMA AtStep ==
  ASSUME Inv, NEW r \in Requests
  PROVE  /\ At(r) = Where(req[r]) /\ At(r) \in Stage \cup {"idle"}
         /\ At(r) # "idle" => /\ req[r].at \in 1..Len(Steps(req[r].op))
                              /\ At(r) = Steps(req[r].op)[req[r].at]
                              /\ Follows(req[r].op, req[r].at)
<1>1. At(r) = Where(req[r])
  BY DEF At, Where
<1>2. /\ engine \in Engine /\ req[r].op \in Op /\ req[r].at \in 0..Len(Steps(req[r].op))
      /\ Len(Steps(req[r].op)) \in 1..7
  BY Typed
<1>3. CASE req[r].at = 0
  BY <1>1, <1>3 DEF At
<1>4. CASE req[r].at # 0
  <2> DEFINE l == Len(Steps(req[r].op))
  <2>1. l \in 1..7 /\ req[r].at \in 0..l
    BY <1>2
  <2> HIDE DEF l
  <2>2. req[r].at \in 1..l
    BY <1>4, <2>1
  <2>3. req[r].at \in 1..Len(Steps(req[r].op))
    BY <2>2 DEF l
  <2>4. At(r) = Steps(req[r].op)[req[r].at]
    BY <1>4 DEF At
  <2>5. Follows(req[r].op, req[r].at)
    BY <1>2, <2>3, Program
  <2> QED
    BY <1>1, <2>3, <2>4, <2>5 DEF Follows
<1> QED
  BY <1>3, <1>4

Frame == UNCHANGED <<engine, healthy, verified, policyAge, writer, check, due, sinceTick, life,
                     evidence, refuted>>

LEMMA SameCache == ASSUME Inv, cache' = cache \/ cache' = NoEntry PROVE CacheTimely'
<1>1. NoEntry \in [left : -1..TTL, evidence : Ages] /\ ~(NoEntry.left >= 0)
  <2>1. -1 \in -1..TTL /\ 0 \in Ages
    BY Limits
  <2> QED
    BY <2>1 DEF NoEntry
<1> QED
  BY <1>1 DEF Inv, CacheTimely

LEMMA BeginKeeps == ASSUME Inv, NEW r \in Requests, NEW op \in Op, Begin(r, op) PROVE Inv'
<1> DEFINE c == [NoCall EXCEPT !.op = op]
           k == Moved(c, 1)
<1>1. Frame /\ UNCHANGED <<readers, permits, cache>> /\ At(r) = "idle"
  BY DEF Begin, Frame, target, locks, loop, world, history
<1>2. c \in CallType /\ c.op = op /\ c.left = 0 /\ c.policyAge = 0 /\ c.evidence = 0
  <2>1. 0 \in 0..7 /\ 0 \in 0..MaxTimeout /\ 0 \in Ages
    BY Limits
  <2> QED
    BY <2>1 DEF NoCall, CallType
<1>3. engine \in Engine
  BY Typed
<1>4. /\ 1 \in 1..Len(Steps(op)) /\ Steps(op)[1] \in {"check", "load", "acquire"}
      /\ engine = "postgresql" /\ op = "batch" => Steps(op)[1] = "check"
  <2>1. Len(Steps(op)) \in 1..7
    BY <1>3, Program
  <2>2. 1 \in 1..Len(Steps(op))
    BY <2>1
  <2> QED
    BY <1>3, <2>2, Program
<1> HIDE DEF c
<1>5. /\ k \in CallType /\ k.op = op /\ k.at = 1 /\ k.policyAge = 0 /\ k.evidence = 0
      /\ Where(k) = Steps(op)[1] /\ 1 <= Len(Steps(op))
  BY <1>2, <1>4, MovedIs
<1>6. req' = [req EXCEPT ![r] = k]
  BY DEF Begin, c
<1> HIDE DEF k
<1>7. Timely(k) /\ ~InGate(k)
  BY <1>4, <1>5 DEF Timely, InGate
<1>8. r \notin readers
  BY <1>1, AtStep DEF Inv, Gate, InGate
<1>9. readers' = readers \ {r} /\ permits' \subseteq Requests \cup {Recheck}
  BY <1>1, <1>8 DEF Inv, Others
<1>10. CacheTimely'
  BY <1>1, SameCache
<1> QED
  BY <1>1, <1>4, <1>5, <1>6, <1>7, <1>9, <1>10, CallKeeps DEF Frame

(* A call goes on with what it relies on: a policy and a proof of these    *)
(* ages.                                                                   *)
GoneOn(r, k, p, e) ==
    /\ req' = [req EXCEPT ![r] = k] /\ k.op = req[r].op /\ k.at <= Len(Steps(k.op))
    /\ k.evidence = e
    /\ k.left = IF Where(k) = "acquire" THEN MaxTimeout ELSE req[r].left
    /\ k.policyAge = IF Where(k) = "run" THEN 0 ELSE p
    /\ At(r) = "check" => Where(k) \in {"load", "cached", "acquire"}
    /\ At(r) = "load" => Where(k) \in {"check", "acquire"}
    /\ At(r) = "cached" => Where(k) = "acquire"
    /\ At(r) = "acquire" => Where(k) = IF gated THEN "gate" ELSE "recheck"
    /\ At(r) = "gate" => gated /\ Where(k) = "recheck"
    /\ At(r) = "recheck" => Where(k) = "run"
    /\ At(r) = "run" => engine = "mysql" /\ req[r].op = "query" /\ Where(k) = "store"
    /\ engine = "postgresql" /\ req[r].op = "batch" /\ At(r) = "check" => Where(k) = "load"

LEMMA GoesOn ==
  ASSUME Inv, NEW r \in Requests, At(r) \notin {"idle", "store"},
         At(r) = "run" => req[r].at # Len(Steps(req[r].op)),
         NEW p \in Ages, NEW e \in Ages,
         req' = [req EXCEPT ![r] =
                    Moved([req[r] EXCEPT !.policyAge = p, !.evidence = e], req[r].at + 1)]
  PROVE  \E k \in CallType : GoneOn(r, k, p, e)
<1> DEFINE c == [req[r] EXCEPT !.policyAge = p, !.evidence = e]
           i == req[r].at + 1
           k == Moved(c, i)
<1>1. req[r] \in CallType /\ req[r].op \in Op
  BY Typed
<1>2. /\ c \in CallType /\ c.op = req[r].op /\ c.left = req[r].left /\ c.policyAge = p
      /\ c.evidence = e
  BY <1>1 DEF CallType
<1>3. /\ req[r].at \in 1..Len(Steps(req[r].op)) /\ At(r) = Steps(req[r].op)[req[r].at]
      /\ Follows(req[r].op, req[r].at)
  BY AtStep
<1>4. i \in 1..Len(Steps(req[r].op))
  <2>1. CASE At(r) # "run"
    BY <1>3, <2>1 DEF Follows
  <2>2. CASE At(r) = "run"
    <3> DEFINE l == Len(Steps(req[r].op))
    <3>1. l \in 1..7 /\ req[r].at \in 1..l /\ req[r].at # l
      BY <1>3, <2>2, Typed
    <3> HIDE DEF l
    <3>2. i \in 1..l
      BY <3>1
    <3> QED
      BY <3>2 DEF l
  <2> QED
    BY <2>1, <2>2
<1>5. req' = [req EXCEPT ![r] = k]
  OBVIOUS
<1> HIDE DEF c, i
<1>6. /\ k \in CallType /\ k.op = req[r].op /\ k.at = i /\ k.evidence = e
      /\ k.left = IF Steps(req[r].op)[i] = "acquire" THEN MaxTimeout ELSE req[r].left
      /\ k.policyAge = IF Steps(req[r].op)[i] = "run" THEN 0 ELSE p
      /\ Where(k) = Steps(req[r].op)[i] /\ i <= Len(Steps(req[r].op))
  BY <1>2, <1>4, MovedIs
<1>7. /\ At(r) = "check" => Where(k) \in {"load", "cached", "acquire"}
      /\ At(r) = "load" => Where(k) \in {"check", "acquire"}
      /\ At(r) = "cached" => Where(k) = "acquire"
      /\ At(r) = "acquire" => Where(k) = IF gated THEN "gate" ELSE "recheck"
      /\ At(r) = "gate" => gated /\ Where(k) = "recheck"
      /\ At(r) = "recheck" => Where(k) = "run"
      /\ At(r) = "run" => engine = "mysql" /\ req[r].op = "query" /\ Where(k) = "store"
      /\ engine = "postgresql" /\ req[r].op = "batch" /\ At(r) = "check" => Where(k) = "load"
  <2>1. Where(k) = Steps(req[r].op)[req[r].at + 1]
    BY <1>6 DEF i
  <2> HIDE DEF k
  <2> QED
    BY <1>3, <2>1 DEF Follows
<1> HIDE DEF k
<1> QED
  BY <1>5, <1>6, <1>7 DEF GoneOn

LEMMA SameFields ==
  ASSUME NEW c \in CallType, NEW p, NEW e
  PROVE  /\ [c EXCEPT !.policyAge = c.policyAge, !.evidence = c.evidence] = c
         /\ [c EXCEPT !.policyAge = p, !.evidence = c.evidence] = [c EXCEPT !.policyAge = p]
         /\ [c EXCEPT !.policyAge = c.policyAge, !.evidence = e] = [c EXCEPT !.evidence = e]
BY DEF CallType

(* The call leaves the gate as it is.                                      *)
LEMMA SameGate ==
  ASSUME Inv, NEW r \in Requests, NEW k, InGate(k) <=> InGate(req[r]), readers' = readers
  PROVE  readers' = IF InGate(k) THEN readers \cup {r} ELSE readers \ {r}
BY DEF Inv, Gate

LEMMA LoadKeeps == ASSUME Inv, NEW r \in Requests, Load(r) PROVE Inv'
<1>1. Frame /\ UNCHANGED cache /\ At(r) = "load"
  BY DEF Load, Frame, target, locks, loop, world, history, Return
<1>2. CacheTimely'
  BY <1>1, SameCache
<1>3. CASE Return(r)
  BY <1>1, <1>2, <1>3, ReturnKeeps DEF Frame
<1>4. CASE ~Return(r)
  <2> DEFINE p == IF req[r].op = "batch" THEN policyAge ELSE 0
  <2>1. /\ req' = [req EXCEPT ![r] = Moved([req[r] EXCEPT !.policyAge = p], req[r].at + 1)]
        /\ UNCHANGED <<readers, permits>>
    BY <1>4, Typed DEF Load, locks, Inv, CallsTimely
  <2>2. req[r] \in CallType /\ req[r].evidence \in Ages
    BY Typed DEF CallType
  <2>3. p \in Ages
    <3>1. policyAge \in Ages /\ 0 \in Ages
      BY Limits DEF Inv, ProofTimely
    <3> QED
      BY <3>1
  <2>4. req[r].op = "batch" => p = policyAge
    OBVIOUS
  <2> HIDE DEF p
  <2>5. req' = [req EXCEPT ![r] =
                 Moved([req[r] EXCEPT !.policyAge = p, !.evidence = req[r].evidence], req[r].at + 1)]
    BY <2>1, <2>2, SameFields
  <2>6. PICK k \in CallType : GoneOn(r, k, p, req[r].evidence)
    BY <1>1, <2>2, <2>3, <2>5, GoesOn
  <2>7. /\ req' = [req EXCEPT ![r] = k] /\ k.op = req[r].op /\ k.at <= Len(Steps(k.op))
        /\ k.left = IF Where(k) = "acquire" THEN MaxTimeout ELSE req[r].left
        /\ k.policyAge = IF Where(k) = "run" THEN 0 ELSE p
        /\ Where(k) \in {"check", "acquire"}
    BY <1>1, <2>6 DEF GoneOn
  <2>8. Timely(k)
    <3>1. engine = "postgresql" /\ k.op = "batch" => policyAge <= ProofLimit
      BY <1>1, <2>7, AtStep DEF Inv, ProofTimely
    <3>2. engine = "postgresql" /\ k.op = "batch" /\ Where(k) = "acquire" =>
            k.policyAge + k.left <= ProofLimit + MaxTimeout
      BY <2>4, <2>7, <3>1, Typed, Limits
    <3> QED
      BY <2>7, <3>2 DEF Timely
  <2>9. ~InGate(k) /\ ~InGate(req[r])
    BY <1>1, <2>7, AtStep DEF InGate
  <2>10. readers' = IF InGate(k) THEN readers \cup {r} ELSE readers \ {r}
    BY <2>1, <2>9, SameGate
  <2> QED
    BY <1>1, <1>2, <2>1, <2>7, <2>8, <2>9, <2>10, CallKeeps DEF Frame, Inv, Others
<1> QED
  BY <1>3, <1>4

(* requireHealthy bounds the age of what was proved.                       *)
LEMMA HealthyIsRecent ==
  ASSUME Inv, requireHealthy
  PROVE  /\ healthy /\ evidence <= ProofLimit
         /\ engine = "postgresql" => policyAge <= ProofLimit
<1>1. healthy /\ verified <= 2 * Interval
  BY DEF requireHealthy
<1>2. evidence <= verified + CheckTimeout /\ (engine = "postgresql" => policyAge <= verified + CheckTimeout)
  BY <1>1 DEF Inv, ProofTimely
<1> QED
  BY <1>1, <1>2, Typed, Limits

(* In the gate with a healthy target nothing is refuted.                   *)
LEMMA HealthyIsUnrefuted ==
  ASSUME Inv, gated, healthy, NEW r \in Requests, At(r) = "recheck"
  PROVE  ~refuted
<1>1. InGate(req[r]) /\ r \in readers
  BY AtStep DEF InGate, Inv, Gate
<1>2. writer # "holding" /\ check.at # "failed"
  BY <1>1 DEF Inv, Gate
<1> QED
  BY <1>2 DEF Inv, Refuted

LEMMA CheckKeeps == ASSUME Inv, NEW r \in Requests, Check(r) PROVE Inv'
<1>1. Frame /\ UNCHANGED cache /\ At(r) \in {"check", "recheck"}
  BY DEF Check, Frame, target, locks, loop, world, history, Return
<1>2. CacheTimely'
  BY <1>1, SameCache
<1>3. CASE Return(r)
  BY <1>1, <1>2, <1>3, ReturnKeeps DEF Frame
<1>4. CASE ~Return(r)
  <2> DEFINE e == Kept(r)
  <2>1. /\ req' = [req EXCEPT ![r] = Moved([req[r] EXCEPT !.evidence = e], req[r].at + 1)]
        /\ UNCHANGED <<readers, permits>> /\ requireHealthy
    BY <1>4 DEF Check, locks, Inv, CallsTimely
  <2>2. req[r] \in CallType /\ req[r].policyAge \in Ages /\ req[r].left \in 0..MaxTimeout
    BY Typed DEF CallType
  <2>3. e \in Ages /\ e \in Nat /\ e <= ProofLimit
    <3>1. evidence \in Nat /\ evidence <= ProofLimit
      BY <2>1, HealthyIsRecent, Typed
    <3>2. evidence \in Ages /\ 0 \in Ages /\ evidence <= ProofLimit /\ 0 <= ProofLimit
      BY <3>1, Limits
    <3>3. e = evidence \/ e = 0
      BY DEF Kept
    <3> HIDE DEF e
    <3> QED
      BY <3>2, <3>3, Limits
  <2> HIDE DEF e
  <2>4. req' = [req EXCEPT ![r] =
                 Moved([req[r] EXCEPT !.policyAge = req[r].policyAge, !.evidence = e], req[r].at + 1)]
    BY <2>1, <2>2, SameFields
  <2>5. PICK k \in CallType : GoneOn(r, k, req[r].policyAge, e)
    BY <1>1, <2>2, <2>3, <2>4, GoesOn
  <2>6. /\ req' = [req EXCEPT ![r] = k] /\ k.op = req[r].op /\ k.at <= Len(Steps(k.op))
        /\ k.evidence = e
        /\ k.left = IF Where(k) = "acquire" THEN MaxTimeout ELSE req[r].left
        /\ At(r) = "check" => Where(k) \in {"load", "cached", "acquire"}
        /\ At(r) = "recheck" => Where(k) = "run"
        /\ engine = "postgresql" /\ req[r].op = "batch" /\ At(r) = "check" => Where(k) = "load"
    BY <2>5 DEF GoneOn
  <2>7. Timely(k)
    <3>1. Where(k) = "run" => k.evidence = e /\ k.left = req[r].left
      BY <2>6
    <3>2. Where(k) = "run" => k.evidence + k.left <= ProofLimit + MaxTimeout
      BY <2>2, <2>3, <3>1, Limits
    <3> QED
      BY <1>1, <2>6, <3>2 DEF Timely
  <2>8. InGate(k) <=> InGate(req[r])
    BY <1>1, <2>6, AtStep DEF InGate
  <2>9. readers' = IF InGate(k) THEN readers \cup {r} ELSE readers \ {r}
    BY <2>1, <2>8, SameGate
  <2>10. gated /\ Where(k) = "run" => ~refuted
    BY <1>1, <2>1, <2>6, HealthyIsRecent, HealthyIsUnrefuted
  <2>11. engine = "postgresql" => policyAge <= ProofLimit
    BY <2>1, HealthyIsRecent
  <2> QED
    BY <1>1, <1>2, <2>1, <2>6, <2>7, <2>8, <2>9, <2>10, <2>11, CallKeeps DEF Frame, Inv, Others
<1> QED
  BY <1>3, <1>4

(* A call goes on with nothing new to rely on.                             *)
LEMMA AdvanceIs ==
  ASSUME Inv, NEW r \in Requests, Advance(r), At(r) \notin {"idle", "store"},
         At(r) = "run" => req[r].at # Len(Steps(req[r].op))
  PROVE  \E k \in CallType : GoneOn(r, k, req[r].policyAge, req[r].evidence)
<1>1. req[r] \in CallType /\ req[r].policyAge \in Ages /\ req[r].evidence \in Ages
  BY Typed DEF CallType
<1>2. req' = [req EXCEPT ![r] = Moved(req[r], req[r].at + 1)]
  BY DEF Advance, Inv, CallsTimely
<1>3. req' = [req EXCEPT ![r] =
                 Moved([req[r] EXCEPT !.policyAge = req[r].policyAge, !.evidence = req[r].evidence],
                       req[r].at + 1)]
  BY <1>1, <1>2, SameFields
<1> QED
  BY <1>1, <1>3, GoesOn

LEMMA CachedKeeps == ASSUME Inv, NEW r \in Requests, Cached(r) PROVE Inv'
<1>1. Frame /\ (cache' = cache \/ cache' = NoEntry) /\ At(r) = "cached"
  BY DEF Cached, Frame, target, locks, loop, world, history, Return
<1>2. CacheTimely'
  BY <1>1, SameCache
<1>3. CASE Return(r)
  BY <1>1, <1>2, <1>3, ReturnKeeps DEF Frame
<1>4. CASE ~Return(r)
  <2>1. Advance(r) /\ UNCHANGED <<readers, permits>>
    BY <1>4 DEF Cached, locks
  <2>2. PICK k \in CallType : GoneOn(r, k, req[r].policyAge, req[r].evidence)
    BY <1>1, <2>1, AdvanceIs
  <2>3. /\ req' = [req EXCEPT ![r] = k] /\ k.op = req[r].op /\ k.at <= Len(Steps(k.op))
        /\ Where(k) = "acquire"
    BY <1>1, <2>2 DEF GoneOn
  <2>4. engine # "postgresql"
    <3>1. /\ req[r].op \in Op /\ req[r].at \in 1..Len(Steps(req[r].op))
          /\ Steps(req[r].op)[req[r].at] = "cached"
      BY <1>1, AtStep, Typed
    <3> QED
      BY <3>1 DEF Steps, postgresqlSteps
  <2>5. Timely(k) /\ ~InGate(k) /\ ~InGate(req[r])
    BY <1>1, <2>3, <2>4, AtStep DEF Timely, InGate
  <2>6. readers' = IF InGate(k) THEN readers \cup {r} ELSE readers \ {r}
    BY <2>1, <2>5, SameGate
  <2> QED
    BY <1>1, <1>2, <2>1, <2>3, <2>5, <2>6, CallKeeps DEF Frame, Inv, Others
<1> QED
  BY <1>3, <1>4

LEMMA AcquireKeeps == ASSUME Inv, NEW r \in Requests, Acquire(r) PROVE Inv'
<1>1. Frame /\ UNCHANGED cache /\ At(r) = "acquire"
  BY DEF Acquire, Frame, target, locks, loop, world, history, Return
<1>2. CacheTimely'
  BY <1>1, SameCache
<1>3. CASE Return(r)
  BY <1>1, <1>2, <1>3, ReturnKeeps DEF Frame
<1>4. CASE ~Return(r)
  <2>1. Advance(r) /\ UNCHANGED readers /\ permits' = permits \cup {r}
    BY <1>4 DEF Acquire
  <2>2. PICK k \in CallType : GoneOn(r, k, req[r].policyAge, req[r].evidence)
    BY <1>1, <2>1, AdvanceIs
  <2>3. /\ req' = [req EXCEPT ![r] = k] /\ k.op = req[r].op /\ k.at <= Len(Steps(k.op))
        /\ k.policyAge = IF Where(k) = "run" THEN 0 ELSE req[r].policyAge
        /\ Where(k) = IF gated THEN "gate" ELSE "recheck"
    BY <1>1, <2>2 DEF GoneOn
  <2>4. Timely(k)
    <3>1. req[r] \in CallType /\ Timely(req[r]) /\ Where(req[r]) = "acquire"
      BY <1>1, AtStep DEF Inv, CallsTimely
    <3>2. engine = "postgresql" /\ k.op = "batch" => k.policyAge <= ProofLimit + MaxTimeout
      <4>1. engine = "postgresql" /\ k.op = "batch" =>
              req[r].policyAge + req[r].left <= ProofLimit + MaxTimeout
        BY <2>3, <3>1 DEF Timely
      <4>2. req[r].policyAge \in Nat /\ req[r].left \in Nat
        BY <3>1, Limits DEF CallType
      <4>3. k.policyAge = req[r].policyAge
        BY <2>3
      <4> QED
        BY <4>1, <4>2, <4>3, Limits
    <3> QED
      BY <2>3, <3>2 DEF Timely
  <2>5. ~InGate(k) /\ ~InGate(req[r])
    BY <1>1, <2>3, AtStep DEF InGate
  <2>6. readers' = IF InGate(k) THEN readers \cup {r} ELSE readers \ {r}
    BY <2>1, <2>5, SameGate
  <2> QED
    BY <1>1, <1>2, <2>1, <2>3, <2>4, <2>5, <2>6, CallKeeps DEF Frame, Inv, Others
<1> QED
  BY <1>3, <1>4

LEMMA RLockKeeps == ASSUME Inv, NEW r \in Requests, RLock(r) PROVE Inv'
<1>1. /\ Frame /\ UNCHANGED <<cache, permits>> /\ At(r) = "gate" /\ writer = "none"
      /\ readers' = readers \cup {r} /\ Advance(r)
  BY DEF RLock, Frame, target, locks, loop, world, history
<1>2. CacheTimely'
  BY <1>1, SameCache
<1>3. PICK k \in CallType : GoneOn(r, k, req[r].policyAge, req[r].evidence)
  BY <1>1, AdvanceIs
<1>4. /\ req' = [req EXCEPT ![r] = k] /\ k.op = req[r].op /\ k.at <= Len(Steps(k.op))
      /\ gated /\ Where(k) = "recheck"
  BY <1>1, <1>3 DEF GoneOn
<1>5. Timely(k) /\ InGate(k)
  BY <1>4 DEF Timely, InGate, gated
<1> QED
  BY <1>1, <1>2, <1>4, <1>5, CallKeeps DEF Frame, Inv, Others

LEMMA RunKeeps == ASSUME Inv, NEW r \in Requests, Run(r) PROVE Inv'
<1>1. Frame /\ UNCHANGED cache /\ At(r) = "run"
  BY DEF Run, Frame, target, locks, loop, world, history
<1>2. CacheTimely'
  BY <1>1, SameCache
<1>3. CASE Return(r)
  BY <1>1, <1>2, <1>3, ReturnKeeps DEF Frame
<1>4. CASE ~Return(r)
  <2>1. /\ Advance(r) /\ readers' = readers \ {r} /\ permits' = permits \ {r}
        /\ req[r].at < Len(Steps(req[r].op))
    BY <1>4 DEF Run
  <2>2. req[r].at # Len(Steps(req[r].op))
    <3> DEFINE l == Len(Steps(req[r].op))
    <3>1. l \in 1..7 /\ req[r].at \in 0..l /\ req[r].at < l
      BY <2>1, Typed
    <3> HIDE DEF l
    <3>2. req[r].at # l
      BY <3>1
    <3> QED
      BY <3>2 DEF l
  <2>3. PICK k \in CallType : GoneOn(r, k, req[r].policyAge, req[r].evidence)
    BY <1>1, <2>1, <2>2, AdvanceIs
  <2>4. /\ req' = [req EXCEPT ![r] = k] /\ k.op = req[r].op /\ k.at <= Len(Steps(k.op))
        /\ k.evidence = req[r].evidence
        /\ engine = "mysql" /\ req[r].op = "query" /\ Where(k) = "store"
    BY <1>1, <2>3 DEF GoneOn
  <2>5. Timely(k)
    <3>1. req[r] \in CallType /\ Timely(req[r]) /\ Where(req[r]) = "run"
      BY <1>1, AtStep DEF Inv, CallsTimely
    <3>2. req[r].evidence + req[r].left <= ProofLimit + MaxTimeout
      BY <2>4, <3>1 DEF Timely
    <3>3. req[r].evidence \in Nat /\ req[r].left \in Nat
      BY <3>1, Limits DEF CallType
    <3>4. k.evidence <= ProofLimit + MaxTimeout
      BY <2>4, <3>2, <3>3, Limits
    <3> QED
      BY <2>4, <3>4 DEF Timely
  <2>6. ~InGate(k)
    BY <2>4 DEF InGate
  <2>7. permits' \subseteq Requests \cup {Recheck}
    BY <2>1 DEF Inv, Others
  <2> QED
    BY <1>1, <1>2, <2>1, <2>4, <2>5, <2>6, <2>7, CallKeeps DEF Frame
<1> QED
  BY <1>3, <1>4

(* resultCache.put keeps an answer as long as it may be kept.              *)
LEMMA StoreKeeps == ASSUME Inv, NEW r \in Requests, Store(r) PROVE Inv'
<1>1. Frame /\ Return(r) /\ At(r) = "store"
  BY DEF Store, Frame, target, loop, world, history
<1>2. /\ req[r] \in CallType /\ Timely(req[r]) /\ Where(req[r]) = "store"
  BY <1>1, AtStep DEF Inv, CallsTimely
<1>3. engine = "mysql" /\ req[r].op = "query"
  <2>1. /\ req[r].op \in Op /\ req[r].at \in 1..Len(Steps(req[r].op))
        /\ Steps(req[r].op)[req[r].at] = "store" /\ engine \in Engine
    BY <1>1, AtStep, Typed
  <2>2. CASE engine = "postgresql"
    BY <2>1, <2>2 DEF Steps, postgresqlSteps
  <2>3. CASE engine = "sqlserver"
    BY <2>1, <2>3 DEF Steps, sqlserverSteps
  <2>4. CASE engine = "mysql"
    BY <2>1, <2>4 DEF Steps, mysqlSteps, Op
  <2> QED
    BY <2>1, <2>2, <2>3, <2>4 DEF Engine
<1>4. req[r].evidence \in Nat /\ req[r].evidence \in Ages /\ req[r].evidence <= ProofLimit + MaxTimeout
  BY <1>2, <1>3, Limits DEF Timely, CallType
<1>5. CacheTimely'
  <2>1. CASE cache' = cache \/ cache' = NoEntry
    BY <2>1, SameCache
  <2>2. CASE cache' = [left |-> TTL, evidence |-> req[r].evidence]
    <3>1. /\ cache'.left = TTL /\ cache'.evidence = req[r].evidence /\ TTL \in -1..TTL
          /\ req[r].evidence + TTL <= AnswerLimit
      BY <1>4, <2>2, Limits
    <3> QED
      BY <1>4, <2>2, <3>1 DEF CacheTimely
  <2> QED
    BY <2>1, <2>2 DEF Store
<1> QED
  BY <1>1, <1>5, ReturnKeeps DEF Frame

-----------------------------------------------------------------------------
(* The recheck.                                                            *)

Judging == {"inspect", "inspected", "proved", "dated", "healthy", "failed"}

LEMMA RecheckKeeps ==
  ASSUME Inv, UNCHANGED <<engine, req, readers>>, Others', CheckTimely', Refuted', CacheTimely',
         gated => /\ writer' = "waiting" <=> check'.at = "lock"
                  /\ writer' = "holding" <=> check'.at \in Judging
                  /\ writer' = "holding" => readers = {},
         refuted' => refuted \/ (gated => readers = {}),
         ProofTimely'
  PROVE  Inv'
<1>1. ASSUME NEW q \in Requests
      PROVE  /\ Where(req[q])' = Where(req[q]) /\ (InGate(req[q])' <=> InGate(req[q]))
             /\ (Timely(req[q])' <=> Timely(req[q]))
  BY DEF Where, InGate, Timely, gated, Steps
<1>2. gated' <=> gated
  BY DEF gated
<1>3. CallsTimely'
  BY <1>1 DEF Inv, CallsTimely
<1>4. Gate'
  <2>1. readers' = {q \in Requests : InGate(req[q])'}
    BY <1>1 DEF Inv, Gate
  <2> QED
    BY <1>2, <2>1 DEF Gate, Judging
<1>5. RunsUnrefuted'
  <2>1. \A q \in Requests : (Running(q)' <=> Running(q)) /\ (gated /\ Running(q) => q \in readers)
    BY <1>1 DEF Running, At, Where, Inv, Gate, InGate
  <2> QED
    BY <1>2, <2>1 DEF Inv, RunsUnrefuted
<1> QED
  BY <1>3, <1>4, <1>5 DEF Inv

(* The proof and the policy are as they were.                              *)
LEMMA SameProof ==
  ASSUME Inv, UNCHANGED <<engine, verified, policyAge, evidence, req>>,
         check'.at = "dated" => check.at = "dated"
  PROVE  ProofTimely'
<1>1. \A q \in Requests : Where(req[q])' = Where(req[q])
  BY DEF Where, Steps
<1> QED
  BY <1>1 DEF Inv, ProofTimely

LEMMA CheckBeginsKeeps == ASSUME Inv, CheckBegins PROVE Inv'
<1>1. /\ UNCHANGED <<engine, healthy, verified, policyAge, readers, writer, permits, cache, req,
                     sinceTick, life, evidence, refuted>>
      /\ due' = FALSE /\ check.at = "idle"
      /\ check' = [check EXCEPT !.at = "acquire", !.left = IF life = "open" THEN CheckTimeout ELSE 0]
  BY DEF CheckBegins, target, locks, world, history
<1>2. CheckTimely' /\ check'.at = "acquire"
  <2> DEFINE n == IF life = "open" THEN CheckTimeout ELSE 0
  <2>1. n \in 0..CheckTimeout
    BY Limits
  <2>2. check' = [check EXCEPT !.at = "acquire", !.left = n] /\ check \in CheckType /\ check.read = 0
    BY <1>1 DEF Inv, CheckTimely
  <2> HIDE DEF n
  <2>3. check' \in CheckType /\ check'.at = "acquire" /\ check'.read = 0
    BY <2>1, <2>2 DEF CheckType, CheckPlaces
  <2> QED
    BY <2>3 DEF CheckTimely
<1>3. Others'
  BY <1>1 DEF Inv, Others
<1>4. Refuted'
  BY <1>1, <1>2 DEF Inv, Refuted
<1>5. ProofTimely' /\ CacheTimely'
  BY <1>1, <1>2, SameProof, SameCache
<1>6. gated => /\ writer' = "waiting" <=> check'.at = "lock"
               /\ writer' = "holding" <=> check'.at \in Judging
               /\ writer' = "holding" => readers = {}
  BY <1>1, <1>2 DEF Inv, Gate, Judging
<1> QED
  BY <1>1, <1>2, <1>3, <1>4, <1>5, <1>6, RecheckKeeps

LEMMA CheckStopsKeeps == ASSUME Inv, CheckStops PROVE Inv'
<1>1. /\ UNCHANGED <<engine, healthy, verified, policyAge, readers, writer, permits, cache, req,
                     due, sinceTick, life, evidence, refuted>>
      /\ check.at = "idle" /\ check' = [check EXCEPT !.at = "stopped"]
  BY DEF CheckStops, target, locks, world, history
<1>2. CheckTimely' /\ check'.at = "stopped"
  BY <1>1 DEF Inv, CheckTimely, CheckType, CheckPlaces
<1>3. Others'
  BY <1>1 DEF Inv, Others
<1>4. Refuted'
  BY <1>1, <1>2 DEF Inv, Refuted
<1>5. ProofTimely' /\ CacheTimely'
  BY <1>1, <1>2, SameProof, SameCache
<1>6. gated => /\ writer' = "waiting" <=> check'.at = "lock"
               /\ writer' = "holding" <=> check'.at \in Judging
               /\ writer' = "holding" => readers = {}
  BY <1>1, <1>2 DEF Inv, Gate, Judging
<1> QED
  BY <1>1, <1>2, <1>3, <1>4, <1>5, <1>6, RecheckKeeps

LEMMA CheckAcquiresKeeps == ASSUME Inv, CheckAcquires PROVE Inv'
<1>1. /\ UNCHANGED <<engine, verified, policyAge, readers, cache, req, due, sinceTick, life,
                     evidence, refuted>>
      /\ check.at = "acquire"
  BY DEF CheckAcquires, world, history
<1>2. check \in CheckType /\ check.read = 0
  BY <1>1 DEF Inv, CheckTimely
<1>3. CacheTimely'
  BY <1>1, SameCache
<1>4. CASE healthy' = FALSE /\ check' = [check EXCEPT !.at = "idle", !.left = 0] /\ UNCHANGED <<permits, writer>>
  <2>1. check' \in CheckType /\ check'.at = "idle" /\ check'.read = 0
    <3>1. 0 \in 0..CheckTimeout
      BY Limits
    <3> QED
      BY <1>2, <1>4, <3>1 DEF CheckType, CheckPlaces
  <2>2. CheckTimely'
    BY <2>1 DEF CheckTimely
  <2>3. Others'
    BY <1>1, <1>4 DEF Inv, Others
  <2>4. Refuted'
    BY <1>1, <1>4, <2>1 DEF Refuted
  <2>5. ProofTimely'
    BY <1>1, <2>1, SameProof
  <2>6. gated => /\ writer' = "waiting" <=> check'.at = "lock"
                 /\ writer' = "holding" <=> check'.at \in Judging
                 /\ writer' = "holding" => readers = {}
    BY <1>1, <1>4, <2>1 DEF Inv, Gate, Judging
  <2> QED
    BY <1>1, <1>3, <2>2, <2>3, <2>4, <2>5, <2>6, RecheckKeeps
<1>5. CASE /\ permits' = permits \cup {Recheck}
           /\ check' = [check EXCEPT !.at = IF gated THEN "lock" ELSE "inspect"]
           /\ writer' = IF gated THEN "waiting" ELSE writer
           /\ UNCHANGED healthy
  <2>1. check' \in CheckType /\ check'.at = (IF gated THEN "lock" ELSE "inspect") /\ check'.read = 0
    BY <1>2, <1>5 DEF CheckType, CheckPlaces
  <2>2. CheckTimely'
    BY <2>1 DEF CheckTimely
  <2>3. Others'
    BY <1>1, <1>5 DEF Inv, Others
  <2>4. Refuted'
    BY <1>1, <1>5, <2>1 DEF Inv, Refuted
  <2>5. ProofTimely'
    BY <1>1, <2>1, SameProof
  <2>6. gated => /\ writer' = "waiting" <=> check'.at = "lock"
                 /\ writer' = "holding" <=> check'.at \in Judging
                 /\ writer' = "holding" => readers = {}
    BY <1>5, <2>1 DEF Judging
  <2> QED
    BY <1>1, <1>3, <2>2, <2>3, <2>4, <2>5, <2>6, RecheckKeeps
<1> QED
  BY <1>4, <1>5 DEF CheckAcquires

LEMMA CheckLocksKeeps == ASSUME Inv, CheckLocks PROVE Inv'
<1>1. /\ UNCHANGED <<engine, healthy, verified, policyAge, readers, permits, cache, req, due,
                     sinceTick, life, evidence, refuted>>
      /\ check.at = "lock" /\ readers = {} /\ writer' = "holding"
      /\ check' = [check EXCEPT !.at = "inspect"]
  BY DEF CheckLocks, target, world, history
<1>2. CheckTimely' /\ check'.at = "inspect"
  BY <1>1 DEF Inv, CheckTimely, CheckType, CheckPlaces
<1>3. Others'
  BY <1>1 DEF Inv, Others
<1>4. Refuted'
  BY <1>1, <1>2 DEF Inv, Refuted
<1>5. ProofTimely' /\ CacheTimely'
  BY <1>1, <1>2, SameProof, SameCache
<1> QED
  BY <1>1, <1>2, <1>3, <1>4, <1>5, RecheckKeeps DEF Judging

LEMMA CheckReadsKeeps == ASSUME Inv, CheckReads PROVE Inv'
<1>1. /\ UNCHANGED <<engine, healthy, verified, policyAge, readers, writer, permits, cache, req,
                     due, sinceTick, life, evidence, refuted>>
      /\ check.at = "inspect"
  BY DEF CheckReads, target, locks, world, history
<1>2. PICK ok \in BOOLEAN : check' = [check EXCEPT !.at = "inspected", !.ok = ok]
  BY DEF CheckReads
<1>3. check' \in CheckType /\ check'.at = "inspected" /\ check'.read = 0 /\ check'.left = check.left
  BY <1>1, <1>2 DEF Inv, CheckTimely, CheckType, CheckPlaces
<1>4. CheckTimely'
  <2>1. check.left \in 0..CheckTimeout
    BY DEF Inv, CheckTimely, CheckType
  <2>2. 0 + check.left <= CheckTimeout
    BY <2>1, Limits
  <2> QED
    BY <1>3, <2>2 DEF CheckTimely
<1>5. Others'
  BY <1>1 DEF Inv, Others
<1>6. Refuted'
  BY <1>1, <1>3 DEF Inv, Refuted
<1>7. ProofTimely' /\ CacheTimely'
  BY <1>1, <1>3, SameProof, SameCache
<1>8. gated => /\ writer' = "waiting" <=> check'.at = "lock"
               /\ writer' = "holding" <=> check'.at \in Judging
               /\ writer' = "holding" => readers = {}
  BY <1>1, <1>3 DEF Inv, Gate, Judging
<1> QED
  BY <1>1, <1>4, <1>5, <1>6, <1>7, <1>8, RecheckKeeps

(* The finding comes when the gate is held and nobody is in it.            *)
LEMMA CheckJudgesKeeps == ASSUME Inv, CheckJudges PROVE Inv'
<1>1. /\ UNCHANGED <<engine, healthy, verified, policyAge, readers, writer, permits, cache, req,
                     due, sinceTick, life, evidence>>
      /\ check.at \in {"inspect", "inspected"}
  BY DEF CheckJudges, target, locks, world, history
<1>2. /\ check \in CheckType /\ check.ok \in BOOLEAN
      /\ check.at = "inspected" => check.read <= CheckTimeout
  <2>1. check \in CheckType /\ (check.at = "inspected" => check.read + check.left <= CheckTimeout)
    BY DEF Inv, CheckTimely
  <2>2. check.read \in Nat /\ check.left \in Nat /\ check.ok \in BOOLEAN
    BY <2>1, Limits DEF CheckType
  <2> QED
    BY <2>1, <2>2, Limits
<1>3. CacheTimely'
  BY <1>1, SameCache
<1>4. gated => writer = "holding" /\ readers = {}
  BY <1>1 DEF Inv, Gate
<1>5. CASE /\ check.at = "inspected" /\ refuted' = ~check.ok
           /\ check' = [check EXCEPT !.at = IF check.ok THEN "proved" ELSE "failed"]
  <2>1. /\ check' \in CheckType /\ check'.at = (IF check.ok THEN "proved" ELSE "failed")
        /\ check'.read = check.read
    BY <1>2, <1>5 DEF CheckType, CheckPlaces
  <2>2. CheckTimely'
    BY <1>2, <1>5, <2>1 DEF CheckTimely
  <2>3. Others'
    BY <1>1, <1>5 DEF Inv, Others
  <2>4. Refuted'
    <3>1. CASE check.ok
      <4>1. ~refuted'
        BY <1>5, <3>1
      <4> QED
        BY <4>1 DEF Refuted
    <3>2. CASE ~check.ok
      <4>1. check'.at = "failed"
        BY <2>1, <3>2
      <4> QED
        BY <4>1 DEF Refuted
    <3> QED
      BY <3>1, <3>2
  <2>5. ProofTimely'
    BY <1>1, <2>1, SameProof
  <2>6. gated => /\ writer' = "waiting" <=> check'.at = "lock"
                 /\ writer' = "holding" <=> check'.at \in Judging
                 /\ writer' = "holding" => readers = {}
    BY <1>1, <1>4, <2>1 DEF Judging
  <2> QED
    BY <1>1, <1>3, <1>4, <2>2, <2>3, <2>4, <2>5, <2>6, RecheckKeeps
<1>6. CASE refuted' = refuted /\ check' = [check EXCEPT !.at = "failed"]
  <2>1. check' \in CheckType /\ check'.at = "failed"
    BY <1>2, <1>6 DEF CheckType, CheckPlaces
  <2>2. CheckTimely'
    BY <2>1 DEF CheckTimely
  <2>3. Others'
    BY <1>1, <1>6 DEF Inv, Others
  <2>4. Refuted'
    BY <2>1 DEF Refuted
  <2>5. ProofTimely'
    BY <1>1, <2>1, SameProof
  <2>6. gated => /\ writer' = "waiting" <=> check'.at = "lock"
                 /\ writer' = "holding" <=> check'.at \in Judging
                 /\ writer' = "holding" => readers = {}
    BY <1>1, <1>4, <2>1 DEF Judging
  <2> QED
    BY <1>1, <1>3, <1>6, <2>2, <2>3, <2>4, <2>5, <2>6, RecheckKeeps
<1> QED
  BY <1>5, <1>6 DEF CheckJudges, history

LEMMA StorePolicyKeeps == ASSUME Inv, StorePolicy PROVE Inv'
<1>1. /\ UNCHANGED <<engine, healthy, verified, readers, writer, permits, cache, req,
                     due, sinceTick, life, evidence, refuted>>
      /\ check.at = "proved" /\ check' = [check EXCEPT !.at = "dated"]
      /\ policyAge' = IF engine = "postgresql" THEN check.read ELSE policyAge
  BY DEF StorePolicy, locks, world, history
<1>2. /\ check \in CheckType /\ check.read \in Nat /\ check.read <= CheckTimeout
  BY <1>1, Limits DEF Inv, CheckTimely, CheckType
<1>3. check' \in CheckType /\ check'.at = "dated" /\ check'.read = check.read
  BY <1>1, <1>2 DEF CheckType, CheckPlaces
<1>4. CheckTimely'
  BY <1>2, <1>3 DEF CheckTimely
<1>5. Others'
  BY <1>1 DEF Inv, Others
<1>6. Refuted'
  BY <1>1, <1>3 DEF Inv, Refuted
<1>7. ProofTimely'
  <2>1. /\ policyAge' \in 0..ProofLimit + MaxTimeout + 1
        /\ engine = "postgresql" => policyAge' <= CheckTimeout /\ policyAge' <= ProofLimit
                                    /\ policyAge' <= verified + CheckTimeout
    <3>1. CASE engine = "postgresql"
      <4>1. policyAge' = check.read /\ verified \in Nat
        BY <1>1, <3>1, Typed
      <4> QED
        BY <1>2, <4>1, Limits
    <3>2. CASE engine # "postgresql"
      BY <1>1, <3>2 DEF Inv, ProofTimely
    <3> QED
      BY <3>1, <3>2
  <2> QED
    BY <1>1, <2>1 DEF Inv, ProofTimely
<1>8. gated => /\ writer' = "waiting" <=> check'.at = "lock"
               /\ writer' = "holding" <=> check'.at \in Judging
               /\ writer' = "holding" => readers = {}
  BY <1>1, <1>3 DEF Inv, Gate, Judging
<1>9. CacheTimely'
  BY <1>1, SameCache
<1> QED
  BY <1>1, <1>4, <1>5, <1>6, <1>7, <1>8, <1>9, RecheckKeeps

LEMMA StoreTimeKeeps == ASSUME Inv, StoreTime PROVE Inv'
<1>1. /\ UNCHANGED <<engine, healthy, policyAge, readers, writer, permits, cache, req,
                     due, sinceTick, life, refuted>>
      /\ check.at = "dated" /\ check' = [check EXCEPT !.at = "healthy"]
      /\ verified' = 0 /\ evidence' = check.read
  BY DEF StoreTime, locks, world, history
<1>2. /\ check \in CheckType /\ check.read \in Nat /\ check.read <= CheckTimeout
  BY <1>1, Limits DEF Inv, CheckTimely, CheckType
<1>3. check' \in CheckType /\ check'.at = "healthy" /\ check'.read = check.read
  BY <1>1, <1>2 DEF CheckType, CheckPlaces
<1>4. CheckTimely'
  BY <1>2, <1>3 DEF CheckTimely
<1>5. Others'
  BY <1>1 DEF Inv, Others
<1>6. Refuted'
  BY <1>1, <1>3 DEF Inv, Refuted
<1>7. ProofTimely'
  <2>1. /\ verified' \in 0..2 * Interval + 1 /\ evidence' \in 0..ProofLimit + 1
        /\ evidence' <= verified' + CheckTimeout
    <3>1. 0 \in 0..2 * Interval + 1 /\ 0 + CheckTimeout = CheckTimeout
      BY Limits
    <3>2. check.read \in 0..ProofLimit + 1
      BY <1>2, Limits
    <3>3. check.read <= 0 + CheckTimeout
      BY <1>2, <3>1
    <3> QED
      BY <1>1, <3>1, <3>2, <3>3
  <2>2. engine = "postgresql" => policyAge <= CheckTimeout
    BY <1>1 DEF Inv, ProofTimely
  <2>3. engine = "postgresql" => policyAge <= verified' + CheckTimeout
    <3>1. verified' + CheckTimeout = CheckTimeout
      BY <1>1, Limits
    <3> QED
      BY <2>2, <3>1
  <2>4. \A q \in Requests : Where(req[q])' = Where(req[q])
    BY <1>1 DEF Where, Steps
  <2> QED
    BY <1>1, <1>3, <2>1, <2>3, <2>4 DEF Inv, ProofTimely
<1>8. gated => /\ writer' = "waiting" <=> check'.at = "lock"
               /\ writer' = "holding" <=> check'.at \in Judging
               /\ writer' = "holding" => readers = {}
  BY <1>1, <1>3 DEF Inv, Gate, Judging
<1>9. CacheTimely'
  BY <1>1, SameCache
<1> QED
  BY <1>1, <1>4, <1>5, <1>6, <1>7, <1>8, <1>9, RecheckKeeps

LEMMA StoreHealthKeeps == ASSUME Inv, StoreHealth PROVE Inv'
<1>1. /\ UNCHANGED <<engine, verified, policyAge, readers, cache, req, due, sinceTick, life,
                     evidence, refuted>>
      /\ check.at \in {"healthy", "failed"} /\ healthy' = (check.at = "healthy")
      /\ writer' = "none" /\ permits' = permits \ {Recheck}
      /\ check' = [check EXCEPT !.at = "idle", !.left = 0, !.ok = FALSE, !.read = 0]
  BY DEF StoreHealth, Unlocked, world, history
<1>2. check' \in CheckType /\ check'.at = "idle" /\ check'.read = 0
  <2>1. 0 \in 0..CheckTimeout /\ 0 \in Ages
    BY Limits
  <2> QED
    BY <1>1, <2>1 DEF Inv, CheckTimely, CheckType, CheckPlaces
<1>3. CheckTimely'
  BY <1>2 DEF CheckTimely
<1>4. Others'
  BY <1>1 DEF Inv, Others
<1>5. Refuted'
  BY <1>1, <1>2 DEF Inv, Refuted
<1>6. ProofTimely' /\ CacheTimely'
  BY <1>1, <1>2, SameProof, SameCache
<1>7. gated => /\ writer' = "waiting" <=> check'.at = "lock"
               /\ writer' = "holding" <=> check'.at \in Judging
               /\ writer' = "holding" => readers = {}
  BY <1>1, <1>2 DEF Judging
<1> QED
  BY <1>1, <1>3, <1>4, <1>5, <1>6, <1>7, RecheckKeeps

-----------------------------------------------------------------------------
(* Close and time.                                                         *)

LEMMA CloseKeeps == ASSUME Inv, CloseStops \/ CloseReturns PROVE Inv'
<1>1. CASE CloseStops
  <2>1. /\ UNCHANGED <<engine, healthy, verified, policyAge, readers, writer, permits, cache, req,
                       due, sinceTick, evidence, refuted>>
        /\ life' = "closing" /\ check' = [check EXCEPT !.left = 0]
    BY <1>1 DEF CloseStops, target, locks, history
  <2>2. /\ check' \in CheckType /\ check'.at = check.at /\ check'.read = check.read /\ check'.left = 0
    <3>1. 0 \in 0..CheckTimeout
      BY Limits
    <3> QED
      BY <2>1, <3>1 DEF Inv, CheckTimely, CheckType
  <2>3. CheckTimely'
    <3>1. check.at = "inspected" => check.read + 0 <= CheckTimeout
      <4>1. /\ check.at = "inspected" => check.read + check.left <= CheckTimeout
            /\ check.read \in Nat /\ check.left \in Nat
        BY Limits DEF Inv, CheckTimely, CheckType
      <4> QED
        BY <4>1, Limits
    <3> QED
      BY <2>2, <3>1 DEF Inv, CheckTimely
  <2>4. Others'
    BY <2>1 DEF Inv, Others
  <2>5. Refuted'
    BY <2>1, <2>2 DEF Inv, Refuted
  <2>6. ProofTimely' /\ CacheTimely'
    BY <2>1, <2>2, SameProof, SameCache
  <2>7. gated => /\ writer' = "waiting" <=> check'.at = "lock"
                 /\ writer' = "holding" <=> check'.at \in Judging
                 /\ writer' = "holding" => readers = {}
    BY <2>1, <2>2 DEF Inv, Gate, Judging
  <2> QED
    BY <2>1, <2>3, <2>4, <2>5, <2>6, <2>7, RecheckKeeps
<1>2. CASE CloseReturns
  <2>1. /\ UNCHANGED <<engine, healthy, verified, policyAge, readers, writer, permits, check, req,
                       due, sinceTick, evidence, refuted>>
        /\ life' = "closed" /\ cache' = NoEntry
    BY <1>2 DEF CloseReturns, target, locks, loop, history
  <2>2. Others'
    BY <2>1 DEF Inv, Others
  <2>3. CheckTimely' /\ Refuted'
    BY <2>1 DEF Inv, CheckTimely, Refuted
  <2>4. ProofTimely' /\ CacheTimely'
    BY <2>1, SameProof, SameCache
  <2>5. gated => /\ writer' = "waiting" <=> check'.at = "lock"
                 /\ writer' = "holding" <=> check'.at \in Judging
                 /\ writer' = "holding" => readers = {}
    BY <2>1 DEF Inv, Gate, Judging
  <2> QED
    BY <2>1, <2>2, <2>3, <2>4, <2>5, RecheckKeeps
<1> QED
  BY <1>1, <1>2

LEMMA OlderIs ==
  ASSUME NEW a \in Nat, NEW limit \in Nat
  PROVE  /\ Older(a, limit) \in Nat /\ Older(a, limit) <= a + 1
         /\ a <= limit + 1 => Older(a, limit) <= limit + 1
         /\ a <= limit => Older(a, limit) = a + 1
         /\ a > limit => Older(a, limit) = a
BY DEF Older

LEMMA LessIs ==
  ASSUME NEW n \in Nat
  PROVE  Less(n) \in Nat /\ Less(n) <= n /\ (n > 0 => Less(n) = n - 1)
BY DEF Less

(* A call grows older where it waits.                                      *)
LEMMA TickCall ==
  ASSUME Inv, NEW r \in Requests, Waits(r), NEW k,
         k = [req[r] EXCEPT !.left = Less(@),
                    !.policyAge = IF At(r) \in {"acquire", "recheck"} /\ engine = "postgresql"
                                       /\ req[r].op = "batch"
                                  THEN Older(@, ProofLimit + MaxTimeout) ELSE @,
                    !.evidence = IF At(r) = "run" /\ engine = "mysql" /\ req[r].op = "query"
                                 THEN Older(@, AnswerLimit) ELSE @]
  PROVE  Timely(k) /\ Where(k) = Where(req[r]) /\ k.op = req[r].op
<1> DEFINE n == Less(req[r].left)
           p == IF At(r) \in {"acquire", "recheck"} /\ engine = "postgresql" /\ req[r].op = "batch"
                THEN Older(req[r].policyAge, ProofLimit + MaxTimeout) ELSE req[r].policyAge
           e == IF At(r) = "run" /\ engine = "mysql" /\ req[r].op = "query"
                THEN Older(req[r].evidence, AnswerLimit) ELSE req[r].evidence
<1>1. req[r] \in CallType /\ Timely(req[r]) /\ At(r) = Where(req[r])
  BY AtStep DEF Inv, CallsTimely
<1>2. /\ req[r].left \in Nat /\ req[r].left <= MaxTimeout
      /\ req[r].policyAge \in Nat /\ req[r].policyAge <= AnswerLimit + 1
      /\ req[r].evidence \in Nat /\ req[r].evidence <= AnswerLimit + 1
  <2>1. req[r].left \in 0..MaxTimeout /\ req[r].policyAge \in Ages /\ req[r].evidence \in Ages
    BY <1>1 DEF CallType
  <2>2. req[r].left \in Nat /\ req[r].left <= MaxTimeout
    BY <2>1, Numbers
  <2> QED
    BY <2>1, <2>2, InAges
<1>3. k = [req[r] EXCEPT !.left = n, !.policyAge = p, !.evidence = e]
  OBVIOUS
<1>4. n \in 0..MaxTimeout /\ n \in Nat /\ (req[r].left > 0 => n = req[r].left - 1)
  <2>1. n \in Nat /\ n <= req[r].left /\ (req[r].left > 0 => n = req[r].left - 1)
    BY <1>2, LessIs
  <2> HIDE DEF n
  <2> QED
    BY <1>2, <2>1, Numbers
<1>5. p \in Ages /\ p \in Nat /\ p <= req[r].policyAge + 1
  <2>1. CASE p = req[r].policyAge
    <3> HIDE DEF p
    <3> QED
      BY <1>2, <2>1, InAges
  <2>2. CASE p = Older(req[r].policyAge, ProofLimit + MaxTimeout)
    <3>1. ProofLimit + MaxTimeout \in Nat /\ ProofLimit + MaxTimeout <= AnswerLimit
      BY Numbers
    <3>2. p \in Nat /\ p <= req[r].policyAge + 1 /\ (p = req[r].policyAge \/ p <= AnswerLimit + 1)
      <4> HIDE DEF p
      <4>1. /\ p \in Nat /\ p <= req[r].policyAge + 1
            /\ req[r].policyAge <= ProofLimit + MaxTimeout => p = req[r].policyAge + 1
            /\ req[r].policyAge > ProofLimit + MaxTimeout => p = req[r].policyAge
        BY <1>2, <2>2, <3>1, OlderIs
      <4> QED
        BY <1>2, <3>1, <4>1, Numbers
    <3> HIDE DEF p
    <3> QED
      BY <1>2, <3>2, InAges
  <2> QED
    BY <2>1, <2>2
<1>6. e \in Ages /\ e \in Nat /\ e <= req[r].evidence + 1
  <2>1. CASE e = req[r].evidence
    <3> HIDE DEF e
    <3> QED
      BY <1>2, <2>1, InAges
  <2>2. CASE e = Older(req[r].evidence, AnswerLimit)
    <3> HIDE DEF e
    <3>1. e \in Nat /\ e <= req[r].evidence + 1 /\ e <= AnswerLimit + 1
      BY <1>2, <2>2, OlderIs, Numbers
    <3> QED
      BY <3>1, InAges
  <2> QED
    BY <2>1, <2>2
<1> HIDE DEF n, p, e
<1>7. /\ k \in CallType /\ k.op = req[r].op /\ k.at = req[r].at /\ k.left = n /\ k.policyAge = p
      /\ k.evidence = e
  BY <1>1, <1>3, <1>4, <1>5, <1>6 DEF CallType
<1>8. Where(k) = Where(req[r])
  BY <1>7 DEF Where
<1>9. /\ Where(k) \notin {"store", "recheck"}
      /\ Where(k) \in {"run", "acquire"} => req[r].left > 0
  BY <1>1, <1>8 DEF Waits
<1>10. engine = "mysql" /\ k.op = "query" /\ Where(k) = "run" =>
          k.evidence + k.left <= ProofLimit + MaxTimeout
  <2>1. engine = "mysql" /\ k.op = "query" /\ Where(k) = "run" =>
          req[r].evidence + req[r].left <= ProofLimit + MaxTimeout
    BY <1>1, <1>7, <1>8 DEF Timely
  <2> QED
    BY <1>2, <1>4, <1>6, <1>7, <1>9, <2>1, Numbers
<1>11. engine = "postgresql" /\ k.op = "batch" /\ Where(k) = "acquire" =>
          k.policyAge + k.left <= ProofLimit + MaxTimeout
  <2>1. engine = "postgresql" /\ k.op = "batch" /\ Where(k) = "acquire" =>
          req[r].policyAge + req[r].left <= ProofLimit + MaxTimeout
    BY <1>1, <1>7, <1>8 DEF Timely
  <2> QED
    BY <1>2, <1>4, <1>5, <1>7, <1>9, <2>1, Numbers
<1>12. k.at <= Len(Steps(k.op))
  BY <1>1, <1>7 DEF Timely
<1> QED
  BY <1>7, <1>8, <1>9, <1>10, <1>11, <1>12 DEF Timely

LEMMA TickProof ==
  ASSUME Inv, Tick
  PROVE  ProofTimely' /\ CheckTimely' /\ CacheTimely' /\ check'.at = check.at
<1>1. /\ verified' = Older(verified, 2 * Interval) /\ evidence' = Older(evidence, ProofLimit)
      /\ policyAge' = IF engine = "postgresql" THEN Older(policyAge, ProofLimit + MaxTimeout) ELSE 0
      /\ engine' = engine
  BY DEF Tick, world
<1>2. /\ verified \in Nat /\ verified <= 2 * Interval + 1 /\ evidence \in Nat
      /\ evidence <= ProofLimit + 1 /\ evidence <= verified + CheckTimeout
      /\ policyAge \in Nat /\ policyAge <= ProofLimit + MaxTimeout + 1
      /\ engine = "postgresql" /\ verified <= 2 * Interval => policyAge <= verified + CheckTimeout
  BY Typed, Limits DEF Inv, ProofTimely
<1>3. 2 * Interval \in Nat /\ ProofLimit + MaxTimeout \in Nat
  BY Limits
<1>4. /\ verified' \in Nat /\ verified' <= 2 * Interval + 1
      /\ verified <= 2 * Interval => verified' = verified + 1
      /\ verified > 2 * Interval => verified' = verified
  BY <1>1, <1>2, <1>3, OlderIs
<1>5. evidence' \in Nat /\ evidence' <= ProofLimit + 1 /\ evidence' <= evidence + 1
  BY <1>1, <1>2, Limits, OlderIs
<1>6. evidence' <= verified' + CheckTimeout
  <2>1. CASE verified <= 2 * Interval
    BY <1>2, <1>4, <1>5, <2>1, Numbers
  <2>2. CASE ~(verified <= 2 * Interval)
    <3>1. verified' = 2 * Interval + 1
      BY <1>2, <1>3, <1>4, <2>2
    <3> QED
      BY <1>3, <1>5, <3>1, Limits
  <2> QED
    BY <2>1, <2>2
<1>7. /\ policyAge' \in Nat /\ policyAge' <= ProofLimit + MaxTimeout + 1
      /\ engine = "postgresql" => policyAge' <= policyAge + 1
  <2>1. CASE engine = "postgresql"
    BY <1>1, <1>2, <1>3, <2>1, OlderIs
  <2>2. CASE engine # "postgresql"
    BY <1>1, <2>2, Limits
  <2> QED
    BY <2>1, <2>2
<1>8. engine = "postgresql" /\ verified' <= 2 * Interval => policyAge' <= verified' + CheckTimeout
  <2> SUFFICES ASSUME engine = "postgresql", verified' <= 2 * Interval
               PROVE  policyAge' <= verified' + CheckTimeout
    OBVIOUS
  <2>1. verified <= 2 * Interval /\ verified' = verified + 1
    BY <1>2, <1>3, <1>4
  <2> QED
    BY <1>2, <1>7, <2>1, Numbers
<1>9. CheckWaits /\ check' = [check EXCEPT !.left = Less(@),
                    !.read = IF check.at = "inspected" THEN @ + 1 ELSE @]
  BY DEF Tick
<1>10. check \in CheckType /\ check.left \in Nat /\ check.left <= CheckTimeout /\ check.read \in Nat
  BY Limits DEF Inv, CheckTimely, CheckType
<1>11. /\ check.at \in {"lock", "stopped", "idle", "acquire", "inspect", "inspected"}
       /\ check.at = "inspected" => check.left > 0
  BY <1>9 DEF CheckWaits
<1>12. /\ check' \in CheckType /\ check'.at = check.at /\ check'.left = Less(check.left)
       /\ check'.read = IF check.at = "inspected" THEN check.read + 1 ELSE check.read
  <2> DEFINE m == IF check.at = "inspected" THEN check.read + 1 ELSE check.read
  <2>1. Less(check.left) \in 0..CheckTimeout
    <3>1. Less(check.left) \in Nat /\ Less(check.left) <= check.left
      BY <1>10, LessIs
    <3> QED
      BY <1>10, <3>1, Numbers
  <2>2. m \in Ages
    <3>1. CASE check.at = "inspected"
      <4>1. check.read + check.left <= CheckTimeout
        BY <3>1 DEF Inv, CheckTimely
      <4>2. m = check.read + 1
        BY <3>1
      <4> HIDE DEF m
      <4> QED
        BY <1>10, <1>11, <3>1, <4>1, <4>2, Numbers, InAges
    <3>2. CASE check.at # "inspected"
      BY <1>10, <3>2 DEF CheckType
    <3> QED
      BY <3>1, <3>2
  <2>3. check' = [check EXCEPT !.left = Less(check.left), !.read = m]
    BY <1>9, <1>10 DEF CheckType
  <2> HIDE DEF m
  <2>4. check' \in CheckType /\ check'.at = check.at /\ check'.left = Less(check.left) /\ check'.read = m
    BY <1>10, <2>1, <2>2, <2>3 DEF CheckType
  <2> QED
    BY <2>4 DEF m
<1>13. CheckTimely'
  <2>1. check.at = "inspected" => check'.read + check'.left <= CheckTimeout
    <3> SUFFICES ASSUME check.at = "inspected" PROVE check'.read + check'.left <= CheckTimeout
      OBVIOUS
    <3>1. check.read + check.left <= CheckTimeout /\ check.left > 0
      BY <1>11 DEF Inv, CheckTimely
    <3>2. check'.read = check.read + 1 /\ check'.left = check.left - 1
      BY <1>10, <1>12, <3>1, LessIs
    <3> QED
      BY <1>10, <3>1, <3>2, Limits
  <2> QED
    BY <1>11, <1>12, <2>1 DEF Inv, CheckTimely
<1>14. CacheTimely'
  <2>1. CASE cache.left <= 0
    BY <2>1, SameCache DEF Tick
  <2>2. CASE ~(cache.left <= 0)
    <3>1. cache' = [left |-> cache.left - 1, evidence |-> Older(cache.evidence, AnswerLimit)]
      BY <2>2 DEF Tick
    <3>2. /\ cache.left \in -1..TTL /\ cache.evidence \in Nat
          /\ cache.evidence <= AnswerLimit + 1
          /\ cache.left >= 0 => cache.evidence + cache.left <= AnswerLimit
      BY Limits DEF Inv, CacheTimely
    <3>3. /\ Older(cache.evidence, AnswerLimit) \in Ages
          /\ Older(cache.evidence, AnswerLimit) \in Nat
          /\ Older(cache.evidence, AnswerLimit) <= cache.evidence + 1
      <4>1. /\ Older(cache.evidence, AnswerLimit) \in Nat
            /\ Older(cache.evidence, AnswerLimit) <= cache.evidence + 1
            /\ Older(cache.evidence, AnswerLimit) <= AnswerLimit + 1
        BY <3>2, OlderIs, Numbers
      <4> QED
        BY <4>1, InAges
    <3>4. cache.left - 1 \in -1..TTL
      BY <2>2, <3>2, Limits
    <3>5. cache'.left = cache.left - 1 /\ cache'.evidence = Older(cache.evidence, AnswerLimit)
      BY <3>1
    <3>6. cache'.evidence + cache'.left <= AnswerLimit
      BY <2>2, <3>2, <3>3, <3>5, Limits
    <3> QED
      BY <3>1, <3>3, <3>4, <3>6 DEF CacheTimely
  <2> QED
    BY <2>1, <2>2
<1>15. ASSUME NEW r \in Requests PROVE ~(Where(req[r])' = "load")
  <2>1. /\ req'[r] = [req[r] EXCEPT !.left = Less(@),
                    !.policyAge = IF At(r) \in {"acquire", "recheck"} /\ engine = "postgresql"
                                       /\ req[r].op = "batch"
                                  THEN Older(@, ProofLimit + MaxTimeout) ELSE @,
                    !.evidence = IF At(r) = "run" /\ engine = "mysql" /\ req[r].op = "query"
                                 THEN Older(@, AnswerLimit) ELSE @]
        /\ Waits(r)
    BY DEF Tick
  <2>2. Where(req'[r]) = Where(req[r])
    BY <2>1, TickCall
  <2>3. Where(req[r])' = Where(req'[r])
    BY <1>1 DEF Where, Steps
  <2>4. Where(req[r]) # "load"
    BY <2>1, AtStep DEF Waits
  <2> QED
    BY <2>2, <2>3, <2>4
<1>16. ProofTimely'
  <2>1. /\ verified' \in 0..2 * Interval + 1 /\ evidence' \in 0..ProofLimit + 1
        /\ policyAge' \in 0..ProofLimit + MaxTimeout + 1
    BY <1>3, <1>4, <1>5, <1>7, Limits
  <2>2. check'.at # "dated"
    BY <1>11, <1>12
  <2> QED
    BY <1>1, <1>6, <1>8, <1>15, <2>1, <2>2 DEF ProofTimely
<1> QED
  BY <1>12, <1>13, <1>14, <1>16

LEMMA TickKeeps == ASSUME Inv, Tick PROVE Inv'
<1>1. UNCHANGED <<engine, healthy, readers, writer, permits, life, refuted>>
  BY DEF Tick, locks, world
<1>2. ASSUME NEW r \in Requests
      PROVE  Timely(req'[r]) /\ Where(req'[r]) = Where(req[r]) /\ req'[r].op = req[r].op
  <2>1. /\ req'[r] = [req[r] EXCEPT !.left = Less(@),
                    !.policyAge = IF At(r) \in {"acquire", "recheck"} /\ engine = "postgresql"
                                       /\ req[r].op = "batch"
                                  THEN Older(@, ProofLimit + MaxTimeout) ELSE @,
                    !.evidence = IF At(r) = "run" /\ engine = "mysql" /\ req[r].op = "query"
                                 THEN Older(@, AnswerLimit) ELSE @]
        /\ Waits(r)
    BY DEF Tick
  <2> QED
    BY <2>1, TickCall
<1>3. ASSUME NEW q \in Requests
      PROVE  /\ Where(req[q])' = Where(req'[q]) /\ (InGate(req[q])' <=> InGate(req'[q]))
             /\ (Timely(req[q])' <=> Timely(req'[q]))
  BY <1>1 DEF Where, InGate, Timely, gated, Steps
<1>4. CallsTimely'
  <2>1. \A q \in Requests : req'[q] \in CallType
    BY <1>2 DEF Timely
  <2>2. req' \in [Requests -> CallType]
    BY <2>1 DEF Tick
  <2> QED
    BY <1>2, <1>3, <2>2 DEF CallsTimely
<1>5. ProofTimely' /\ CheckTimely' /\ CacheTimely' /\ check'.at = check.at
  BY TickProof
<1>6. \A q \in Requests : InGate(req[q])' <=> InGate(req[q])
  BY <1>2, <1>3 DEF InGate
<1>7. gated' <=> gated
  BY <1>1 DEF gated
<1>8. Gate'
  <2>1. readers' = {q \in Requests : InGate(req[q])'}
    BY <1>1, <1>6 DEF Inv, Gate
  <2> QED
    BY <1>1, <1>5, <1>7, <2>1 DEF Inv, Gate
<1>9. Refuted'
  BY <1>1, <1>5 DEF Inv, Refuted
<1>10. RunsUnrefuted'
  <2>1. \A q \in Requests : Running(q)' <=> Running(q)
    BY <1>2, <1>3 DEF Running, At, Where
  <2> QED
    BY <1>1, <1>7, <2>1 DEF Inv, RunsUnrefuted
<1>11. Others'
  <2>1. sinceTick' = (sinceTick + 1) % Interval /\ due' \in BOOLEAN
    BY DEF Tick
  <2>2. sinceTick \in Nat
    BY Limits DEF Inv, Others
  <2>3. sinceTick' \in 0..(Interval - 1)
    BY <2>1, <2>2, Limits
  <2> QED
    BY <1>1, <2>1, <2>3 DEF Inv, Others
<1> QED
  BY <1>4, <1>5, <1>8, <1>9, <1>10, <1>11 DEF Inv

-----------------------------------------------------------------------------
(* The invariant, and what it says of every state.                         *)

LEMMA InvInit == Init => Inv
<1> SUFFICES ASSUME Init PROVE Inv
  OBVIOUS
<1>1. /\ engine \in Engines /\ healthy = TRUE /\ verified = 0 /\ policyAge = 0 /\ readers = {}
      /\ writer = "none" /\ permits = {} /\ cache = NoEntry
      /\ req = [r \in Requests |-> NoCall] /\ due = FALSE /\ sinceTick = 0 /\ life = "open"
      /\ check = [at |-> "idle", left |-> 0, ok |-> FALSE, read |-> 0]
      /\ evidence = 0 /\ refuted = FALSE
  BY DEF Init
<1>2. NoCall \in CallType /\ NoCall.at = 0 /\ NoCall.op = "query" /\ Where(NoCall) = "idle"
  <2>1. 0 \in 0..7 /\ 0 \in 0..MaxTimeout /\ 0 \in Ages
    BY Limits
  <2> QED
    BY <2>1 DEF NoCall, CallType, Op, Where
<1>3. Timely(NoCall) /\ ~InGate(NoCall)
  <2>1. engine \in Engine
    BY <1>1, SqlAssumption
  <2>2. Len(Steps("query")) \in 1..7
    BY <2>1, Program DEF Op
  <2>3. 0 <= Len(Steps("query"))
    BY <2>2
  <2> QED
    BY <1>2, <2>3 DEF Timely, InGate
<1>4. \A r \in Requests : req[r] = NoCall
  BY <1>1
<1>5. CallsTimely
  BY <1>1, <1>2, <1>3, <1>4 DEF CallsTimely
<1>6. Gate
  BY <1>1, <1>3, <1>4 DEF Gate
<1>7. CheckTimely
  <2>1. 0 \in 0..CheckTimeout /\ 0 \in Ages
    BY Limits
  <2> QED
    BY <1>1, <2>1 DEF CheckTimely, CheckType, CheckPlaces
<1>8. ProofTimely
  <2>1. /\ 0 \in 0..2 * Interval + 1 /\ 0 \in 0..ProofLimit + 1 /\ 0 \in 0..ProofLimit + MaxTimeout + 1
        /\ 0 <= 0 + CheckTimeout
    BY Limits
  <2> QED
    BY <1>1, <1>2, <1>4, <2>1 DEF ProofTimely
<1>9. CacheTimely
  <2>1. -1 \in -1..TTL /\ 0 \in Ages
    BY Limits
  <2> QED
    BY <1>1, <2>1 DEF CacheTimely, NoEntry
<1>10. Others /\ Refuted /\ RunsUnrefuted
  <2>1. 0 \in 0..(Interval - 1)
    BY Limits
  <2> QED
    BY <1>1, <2>1 DEF Others, Refuted, RunsUnrefuted
<1> QED
  BY <1>5, <1>6, <1>7, <1>8, <1>9, <1>10 DEF Inv

LEMMA StutterKeeps == ASSUME Inv, UNCHANGED vars PROVE Inv'
<1>1. UNCHANGED <<engine, healthy, verified, policyAge, readers, writer, permits, cache,
                  req, check, due, sinceTick, life, evidence, refuted>>
  BY DEF vars
<1>2. Others' /\ CheckTimely' /\ Refuted' /\ CacheTimely'
  BY <1>1 DEF Inv, Others, CheckTimely, Refuted, CacheTimely
<1>3. ProofTimely'
  BY <1>1, SameProof
<1> QED
  BY <1>1, <1>2, <1>3, RecheckKeeps DEF Inv, Gate, Judging

LEMMA InvStep == Inv /\ [Next]_vars => Inv'
<1> SUFFICES ASSUME Inv, [Next]_vars PROVE Inv'
  OBVIOUS
<1>1. ASSUME NEW r \in Requests, CallStep(r) PROVE Inv'
  BY <1>1, LoadKeeps, CheckKeeps, CachedKeeps, AcquireKeeps, RLockKeeps, RunKeeps, StoreKeeps DEF CallStep
<1>2. ASSUME NEW r \in Requests, NEW op \in Op, Begin(r, op) PROVE Inv'
  BY <1>2, BeginKeeps
<1>3. CASE CheckBegins \/ CheckStops \/ CheckStep
  BY <1>3, CheckBeginsKeeps, CheckStopsKeeps, CheckAcquiresKeeps, CheckLocksKeeps, CheckReadsKeeps,
     CheckJudgesKeeps, StorePolicyKeeps, StoreTimeKeeps, StoreHealthKeeps DEF CheckStep
<1>4. CASE CloseStops \/ CloseReturns
  BY <1>4, CloseKeeps
<1>5. CASE Tick
  BY <1>5, TickKeeps
<1>6. CASE UNCHANGED vars
  BY <1>6, StutterKeeps
<1> QED
  BY <1>1, <1>2, <1>3, <1>4, <1>5, <1>6 DEF Next

(* The inductive invariant holds in every reachable state.                 *)
LEMMA InvHolds == Spec => []Inv
<1> QED
  BY InvInit, InvStep, PTL DEF Spec

LEMMA InvTyped == Inv => TypeOK
<1> SUFFICES ASSUME Inv PROVE TypeOK
  OBVIOUS
<1>1. verified \in Ages /\ policyAge \in Ages /\ evidence \in Ages
  <2>1. /\ verified \in Nat /\ verified <= 2 * Interval + 1 /\ policyAge \in Nat
        /\ policyAge <= ProofLimit + MaxTimeout + 1 /\ evidence \in Nat /\ evidence <= ProofLimit + 1
    BY Typed, Limits DEF Inv, ProofTimely
  <2>2. /\ verified <= AnswerLimit + 1 /\ policyAge <= AnswerLimit + 1 /\ evidence <= AnswerLimit + 1
    BY <2>1, Limits
  <2> QED
    BY <2>1, <2>2, InAges
<1>2. readers \subseteq Requests
  BY DEF Inv, Gate
<1> QED
  BY <1>1, <1>2 DEF Inv, Others, CallsTimely, CheckTimely, CacheTimely, TypeOK, CallType,
                    CheckType, CheckPlaces

(* In every reachable state the variables have their types.                *)
THEOREM TargetTypeCorrect == Spec => []TypeOK
<1> QED
  BY InvHolds, InvTyped, PTL

(* With a gate no query runs after a recheck has seen excessive privileges *)
(* and before one has found them in order.                                 *)
THEOREM GateExcludesRefuted == Spec => []RunsUnrefuted
<1>1. Inv => RunsUnrefuted
  BY DEF Inv
<1> QED
  BY <1>1, InvHolds, PTL

(* What a cached answer relies on is older than what a query relies on     *)
(* only by the query's time and the entry's lifetime.                      *)
THEOREM CachedAnswersAreRecent == Spec => []CachedProved
<1>1. Inv => CachedProved
  BY DEF Inv, CacheTimely, CachedProved
<1> QED
  BY <1>1, InvHolds, PTL

-----------------------------------------------------------------------------
(* A query starts only as its second look at health succeeds.              *)

LEMMA MoverStarts ==
  ASSUME Inv, engine' = engine, NEW q \in Requests, NEW k, req' = [req EXCEPT ![q] = k],
         NEW r \in Requests, Starts(r)
  PROVE  r = q /\ Where(k) = "run"
<1>1. At(r)' = Where(req'[r]) /\ At(r) = Where(req[r]) /\ At(r) # "run" /\ At(r)' = "run"
  BY DEF At, Where, Steps, Starts, Running
<1>2. req'[r] = IF r = q THEN k ELSE req[r]
  BY DEF Inv, CallsTimely
<1> QED
  BY <1>1, <1>2

(* Every step of a call but the second look leaves it short of running.    *)
LEMMA CallMoves ==
  ASSUME Inv, NEW q \in Requests, CallStep(q), ~(At(q) = "recheck" /\ requireHealthy)
  PROVE  engine' = engine /\ \E k : req' = [req EXCEPT ![q] = k] /\ Where(k) # "run"
<1>1. CASE Return(q)
  <2>1. req' = [req EXCEPT ![q] = NoCall] /\ Where(NoCall) = "idle"
    BY <1>1 DEF Return, NoCall, Where
  <2>2. engine' = engine
    BY DEF CallStep, Load, Check, Cached, Acquire, RLock, Run, Store, world
  <2> QED
    BY <2>1, <2>2
<1>2. CASE Load(q) /\ ~Return(q)
  <2> DEFINE p == IF req[q].op = "batch" THEN policyAge ELSE 0
  <2>1. /\ req' = [req EXCEPT ![q] = Moved([req[q] EXCEPT !.policyAge = p], req[q].at + 1)]
        /\ engine' = engine /\ At(q) = "load"
    BY <1>2, Typed DEF Load, world, Inv, CallsTimely
  <2>2. req[q] \in CallType /\ req[q].evidence \in Ages
    BY Typed DEF CallType
  <2>3. p \in Ages
    <3>1. policyAge \in Ages /\ 0 \in Ages
      BY Limits DEF Inv, ProofTimely
    <3> QED
      BY <3>1
  <2> HIDE DEF p
  <2>4. req' = [req EXCEPT ![q] =
                 Moved([req[q] EXCEPT !.policyAge = p, !.evidence = req[q].evidence], req[q].at + 1)]
    BY <2>1, <2>2, SameFields
  <2>5. PICK k \in CallType : GoneOn(q, k, p, req[q].evidence)
    BY <2>1, <2>2, <2>3, <2>4, GoesOn
  <2>6. req' = [req EXCEPT ![q] = k] /\ Where(k) # "run"
    BY <2>1, <2>5 DEF GoneOn
  <2> QED
    BY <2>1, <2>6
<1>3. CASE Check(q) /\ ~Return(q)
  <2> DEFINE e == Kept(q)
  <2>1. /\ req' = [req EXCEPT ![q] = Moved([req[q] EXCEPT !.evidence = e], req[q].at + 1)]
        /\ engine' = engine /\ requireHealthy /\ At(q) = "check"
    BY <1>3 DEF Check, world, Inv, CallsTimely
  <2>2. req[q] \in CallType /\ req[q].policyAge \in Ages
    BY Typed DEF CallType
  <2>3. e \in Ages
    <3>1. e = 0 /\ 0 \in Ages
      BY <2>1, Limits DEF Kept
    <3> QED
      BY <3>1
  <2> HIDE DEF e
  <2>4. req' = [req EXCEPT ![q] =
                 Moved([req[q] EXCEPT !.policyAge = req[q].policyAge, !.evidence = e], req[q].at + 1)]
    BY <2>1, <2>2, SameFields
  <2>5. PICK k \in CallType : GoneOn(q, k, req[q].policyAge, e)
    BY <2>1, <2>2, <2>3, <2>4, GoesOn
  <2>6. req' = [req EXCEPT ![q] = k] /\ Where(k) # "run"
    BY <2>1, <2>5 DEF GoneOn
  <2> QED
    BY <2>1, <2>6
<1>4. CASE (Cached(q) \/ Acquire(q) \/ RLock(q) \/ Run(q)) /\ ~Return(q)
  <2>1. /\ Advance(q) /\ engine' = engine /\ At(q) \in {"cached", "acquire", "gate", "run"}
        /\ At(q) = "run" => req[q].at < Len(Steps(req[q].op))
    BY <1>4 DEF Cached, Acquire, RLock, Run, world
  <2>2. At(q) = "run" => req[q].at # Len(Steps(req[q].op))
    <3> DEFINE l == Len(Steps(req[q].op))
    <3>1. l \in Nat /\ req[q].at \in Nat /\ (At(q) = "run" => req[q].at < l)
      BY <2>1, Typed
    <3> HIDE DEF l
    <3>2. At(q) = "run" => req[q].at # l
      BY <3>1
    <3> QED
      BY <3>2 DEF l
  <2>3. PICK k \in CallType : GoneOn(q, k, req[q].policyAge, req[q].evidence)
    BY <2>1, <2>2, AdvanceIs
  <2>4. req' = [req EXCEPT ![q] = k] /\ Where(k) # "run"
    BY <2>1, <2>3 DEF GoneOn
  <2> QED
    BY <2>1, <2>4
<1>5. CASE Store(q)
  BY <1>1, <1>5 DEF Store
<1> QED
  BY <1>1, <1>2, <1>3, <1>4, <1>5 DEF CallStep

LEMMA StartsIs ==
  ASSUME Inv, [Next]_vars, NEW r \in Requests, Starts(r)
  PROVE  At(r) = "recheck" /\ requireHealthy
<1>1. ASSUME UNCHANGED <<engine, req>> PROVE FALSE
  BY <1>1 DEF Starts, Running, At, Steps
<1>2. ASSUME NEW q \in Requests, CallStep(q) PROVE At(r) = "recheck" /\ requireHealthy
  <2>1. CASE At(q) = "recheck" /\ requireHealthy
    <3>1. Check(q) /\ engine' = engine
      BY <1>2, <2>1 DEF CallStep, Load, Check, Cached, Acquire, RLock, Run, Store, world
    <3>2. PICK k : req' = [req EXCEPT ![q] = k]
      BY <2>1, <3>1 DEF Check
    <3>3. r = q
      BY <3>1, <3>2, MoverStarts
    <3> QED
      BY <2>1, <3>3
  <2>2. CASE ~(At(q) = "recheck" /\ requireHealthy)
    <3>1. PICK k : req' = [req EXCEPT ![q] = k] /\ Where(k) # "run"
      BY <1>2, <2>2, CallMoves
    <3>2. engine' = engine
      BY <1>2, <2>2, CallMoves
    <3> QED
      BY <3>1, <3>2, MoverStarts
  <2> QED
    BY <2>1, <2>2
<1>3. ASSUME NEW q \in Requests, NEW op \in Op, Begin(q, op) PROVE FALSE
  <2> DEFINE c == [NoCall EXCEPT !.op = op]
             k == Moved(c, 1)
  <2>1. engine' = engine /\ req' = [req EXCEPT ![q] = k]
    BY <1>3 DEF Begin, world
  <2>2. c \in CallType /\ c.op = op
    <3>1. 0 \in 0..7 /\ 0 \in 0..MaxTimeout /\ 0 \in Ages
      BY Limits
    <3> QED
      BY <3>1 DEF NoCall, CallType
  <2>3. 1 \in 1..Len(Steps(op)) /\ Steps(op)[1] # "run"
    <3>1. Len(Steps(op)) \in 1..7 /\ Steps(op)[1] \in {"check", "load", "acquire"}
      BY Typed, Program
    <3>2. 1 \in 1..Len(Steps(op))
      BY <3>1
    <3> QED
      BY <3>1, <3>2
  <2> HIDE DEF c
  <2>4. Where(k) # "run"
    BY <2>2, <2>3, MovedIs, Typed
  <2> QED
    BY <2>1, <2>4, MoverStarts
<1>4. CASE CheckBegins \/ CheckStops \/ CheckStep \/ CloseStops \/ CloseReturns
  BY <1>1, <1>4 DEF CheckBegins, CheckStops, CheckStep, CheckAcquires, CheckLocks, CheckReads,
        CheckJudges, StorePolicy, StoreTime, StoreHealth, CloseStops, CloseReturns, world
<1>5. CASE Tick
  <2>1. /\ engine' = engine /\ Waits(r)
        /\ req'[r] = [req[r] EXCEPT !.left = Less(@),
                    !.policyAge = IF At(r) \in {"acquire", "recheck"} /\ engine = "postgresql"
                                       /\ req[r].op = "batch"
                                  THEN Older(@, ProofLimit + MaxTimeout) ELSE @,
                    !.evidence = IF At(r) = "run" /\ engine = "mysql" /\ req[r].op = "query"
                                 THEN Older(@, AnswerLimit) ELSE @]
    BY <1>5 DEF Tick, world
  <2>2. Where(req'[r]) = Where(req[r])
    BY <2>1, TickCall
  <2>3. At(r)' = Where(req'[r]) /\ At(r) = Where(req[r])
    BY <2>1 DEF At, Where, Steps
  <2> QED
    BY <2>2, <2>3 DEF Starts, Running
<1>6. CASE UNCHANGED vars
  BY <1>1, <1>6 DEF vars
<1> QED
  BY <1>2, <1>3, <1>4, <1>5, <1>6 DEF Next

(* A query starts after a recheck has seen excessive privileges only while *)
(* that recheck has not stored its finding.                                *)
THEOREM StartsBeforeTheFinding == Spec => StartsUnrefuted
<1>1. Inv /\ [Next]_vars => [\A r \in Requests : Starts(r) /\ refuted => check.at = "failed"]_vars
  <2> SUFFICES ASSUME Inv, [Next]_vars, NEW r \in Requests, Starts(r), refuted
               PROVE  check.at = "failed"
    OBVIOUS
  <2>1. healthy
    BY StartsIs DEF requireHealthy
  <2> QED
    BY <2>1 DEF Inv, Refuted
<1> QED
  BY <1>1, InvHolds, PTL DEF Spec, StartsUnrefuted

(* No query starts on a proof older than two intervals and one check.      *)
THEOREM StartsOnRecentProof == Spec => StartsProved
<1>1. Inv /\ [Next]_vars => [\A r \in Requests : Starts(r) => evidence <= ProofLimit]_vars
  <2> SUFFICES ASSUME Inv, [Next]_vars, NEW r \in Requests, Starts(r)
               PROVE  evidence <= ProofLimit
    OBVIOUS
  <2> QED
    BY StartsIs, HealthyIsRecent
<1> QED
  BY <1>1, InvHolds, PTL DEF Spec, StartsProved

(* A PostgreSQL batch starts with a policy no older than that and the      *)
(* batch's own wait.                                                       *)
THEOREM BatchesStartOnRecentPolicy == Spec => BatchPolicyRecent
<1>1. Inv /\ [Next]_vars =>
        [\A r \in Requests :
            Starts(r) /\ engine = "postgresql" /\ req[r].op = "batch"
            => req[r].policyAge <= ProofLimit + MaxTimeout]_vars
  <2> SUFFICES ASSUME Inv, [Next]_vars, NEW r \in Requests, Starts(r), engine = "postgresql",
                      req[r].op = "batch"
               PROVE  req[r].policyAge <= ProofLimit + MaxTimeout
    OBVIOUS
  <2>1. Where(req[r]) = "recheck" /\ Timely(req[r])
    BY StartsIs, AtStep DEF Inv, CallsTimely
  <2> QED
    BY <2>1 DEF Timely
<1> QED
  BY <1>1, InvHolds, PTL DEF Spec, BatchPolicyRecent
=============================================================================
