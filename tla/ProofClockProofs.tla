-------------------------- MODULE ProofClockProofs --------------------------
(***************************************************************************)
(* Proofs about ProofClock for any number of reads and any configured      *)
(* times: what a read relies on is recent, and a Neo4j proof that failed   *)
(* blocks every request until another one has succeeded.                   *)
(***************************************************************************)
EXTENDS ProofClock, TLAPS

Places == {"idle", "ready", "lock", "admit", "inspect", "inspected", "acquire", "run",
           "failed", "stopped"}
ProcType == [at : Places, left : 0..Longest, ok : BOOLEAN, read : 0..ProvedLimit + 1]

Timeout(p) == IF p = Maintenance THEN ProofTimeout ELSE ReadTimeout

(* What a process has read grows older only while its context lasts.       *)
Timely(p, k) ==
    /\ k \in ProcType /\ k.left <= Timeout(p)
    /\ k.at = "inspected" => k.read + k.left <= Longest
    /\ k.at = "acquire" => k.read + k.left <= ProvedLimit
    /\ k.at = "run" => k.read <= ProvedLimit

(* The proof behind checked was read at most one proof before its time.    *)
Ages ==
    /\ checked \in 0..Stale /\ proofAge \in 0..ProvedLimit + 1
    /\ checked <= ProofInterval => proofAge <= checked + Longest
    /\ proc \in [Procs -> ProcType]
    /\ \A p \in Procs : Timely(p, proc[p])

(* Neo4j makes its proofs under Target.mu and takes the last one back      *)
(* first; the one that holds the lock knows what was read last.            *)
Exclusive ==
    dialect = "neo4j" =>
        /\ ~tick /\ proc[Maintenance].at = "idle" /\ shut # "closing"
        /\ \A r \in Readers : /\ proc[r].at \notin {"admit", "failed"}
                              /\ proc[r].at \in {"inspect", "inspected"} <=> mu = r
                              /\ proc[r].at = "inspected" => (proc[r].ok <=> ~excessive)
        /\ mu # Nobody \/ excessive => checked >= ProofInterval

-----------------------------------------------------------------------------
LEMMA Limits ==
  /\ ProofInterval \in Nat /\ ProofTimeout \in Nat /\ ReadTimeout \in Nat
  /\ Longest \in Nat /\ ReadTimeout <= Longest /\ ProofTimeout <= Longest
  /\ ProvedLimit \in Nat /\ ProvedLimit = ProofInterval + Longest + ReadTimeout
  /\ Stale = ProofInterval + 1
  /\ \A p \in Procs : Timeout(p) \in Nat /\ Timeout(p) <= Longest
  /\ \A r \in Readers : Timeout(r) = ReadTimeout
BY ClockAssumption DEF Longest, ProvedLimit, Stale, Timeout

LEMMA IdleIsTimely ==
  ASSUME NEW p \in Procs
  PROVE  Timely(p, IdleProc) /\ IdleProc \in ProcType /\ IdleProc.at = "idle"
BY Limits DEF IdleProc, Timely, ProcType, Places

(* One process changes its record.                                         *)
LEMMA OneChanges ==
  ASSUME Ages, NEW p \in Procs, NEW k, Timely(p, k), proc' = [proc EXCEPT ![p] = k]
  PROVE  /\ proc' \in [Procs -> ProcType] /\ \A q \in Procs : Timely(q, proc'[q])
         /\ proc'[p] = k /\ \A q \in Procs \ {p} : proc'[q] = proc[q]
BY DEF Ages, Timely

LEMMA Goes ==
  ASSUME Ages, NEW p \in Procs, NEW where \in Places \ {"inspected", "acquire"},
         where = "run" => proc[p].read <= ProvedLimit, ProcGoto(p, where)
  PROVE  /\ proc' \in [Procs -> ProcType] /\ \A q \in Procs : Timely(q, proc'[q])
         /\ proc'[p] = [proc[p] EXCEPT !.at = where] /\ proc'[p].at = where
         /\ \A q \in Procs \ {p} : proc'[q] = proc[q]
<1> DEFINE k == [proc[p] EXCEPT !.at = where]
<1>1. Timely(p, proc[p]) /\ proc[p] \in ProcType
  BY DEF Ages
<1>2. Timely(p, k) /\ k.at = where
  BY <1>1 DEF Timely, ProcType
<1>3. proc' = [proc EXCEPT ![p] = k]
  BY DEF ProcGoto, Ages
<1> HIDE DEF k
<1>4. /\ proc' \in [Procs -> ProcType] /\ \A q \in Procs : Timely(q, proc'[q])
      /\ proc'[p] = k /\ \A q \in Procs \ {p} : proc'[q] = proc[q]
  BY <1>2, <1>3, OneChanges
<1> QED
  BY <1>2, <1>4 DEF k

LEMMA ReturnsTimely ==
  ASSUME Ages, NEW p \in Procs, proc' = [proc EXCEPT ![p] = IdleProc]
  PROVE  /\ proc' \in [Procs -> ProcType] /\ \A q \in Procs : Timely(q, proc'[q])
         /\ proc'[p] = IdleProc /\ \A q \in Procs \ {p} : proc'[q] = proc[q]
BY IdleIsTimely, OneChanges

(* A read relies on what is not too old for the time it has left.          *)
LEMMA ReliesTimely ==
  ASSUME Ages, NEW r \in Readers, NEW age \in Nat,
         age <= ProofInterval + Longest, Relies(r, age)
  PROVE  /\ proc' \in [Procs -> ProcType] /\ \A q \in Procs : Timely(q, proc'[q])
         /\ proc'[r].at = "acquire" /\ \A q \in Procs \ {r} : proc'[q] = proc[q]
<1> DEFINE k == [proc[r] EXCEPT !.at = "acquire", !.read = age, !.ok = FALSE]
<1>0. r \in Procs
  BY DEF Procs
<1>1. Timely(r, proc[r]) /\ proc[r] \in ProcType
  BY <1>0 DEF Ages
<1>2. proc[r].left \in Nat /\ proc[r].left <= ReadTimeout
  BY <1>1, Limits DEF Timely, ProcType
<1>3. age \in 0..ProvedLimit + 1 /\ age + proc[r].left <= ProvedLimit
  BY <1>2, Limits
<1>4. Timely(r, k) /\ k.at = "acquire"
  BY <1>1, <1>3 DEF Timely, ProcType, Places
<1>5. proc' = [proc EXCEPT ![r] = k]
  BY <1>0 DEF Relies, Ages
<1> HIDE DEF k
<1> QED
  BY <1>0, <1>4, <1>5, OneChanges

LEMMA AgesInit == ProofInit => Ages
<1> SUFFICES ASSUME ProofInit PROVE Ages
  OBVIOUS
<1>1. proc \in [Procs -> ProcType] /\ \A p \in Procs : Timely(p, proc[p])
  BY IdleIsTimely DEF ProofInit
<1> QED
  BY <1>1, Limits DEF Ages, ProofInit

(* A proof that has just been read, and grows older with the context.      *)
LEMMA ReadsTimely ==
  ASSUME Ages, NEW p \in Procs, ProveReads(p)
  PROVE  /\ Ages'
         /\ proc'[p].at = "inspected" /\ proc'[p].ok \in BOOLEAN /\ excessive' = ~proc'[p].ok
         /\ \A q \in Procs \ {p} : proc'[q] = proc[q]
<1>1. PICK ok \in BOOLEAN :
         /\ proc' = [proc EXCEPT ![p].at = "inspected", ![p].ok = ok, ![p].read = 0]
         /\ excessive' = ~ok
  BY DEF ProveReads
<1> DEFINE k == [proc[p] EXCEPT !.at = "inspected", !.ok = ok, !.read = 0]
<1>2. Timely(p, proc[p]) /\ proc[p] \in ProcType
  BY DEF Ages
<1>3. Timely(p, k) /\ k.at = "inspected" /\ k.ok = ok
  <2>1. k \in ProcType /\ k.at = "inspected" /\ k.ok = ok /\ k.read = 0 /\ k.left = proc[p].left
    <3>1. 0 \in 0..ProvedLimit + 1
      BY Limits
    <3> QED
      BY <1>2, <3>1 DEF ProcType, Places
  <2>2. proc[p].left \in Nat /\ proc[p].left <= Timeout(p)
    BY <1>2, Limits DEF Timely, ProcType
  <2> HIDE DEF k
  <2> QED
    BY <2>1, <2>2, Limits DEF Timely
<1>4. proc' = [proc EXCEPT ![p] = k]
  BY <1>1 DEF Ages
<1> HIDE DEF k
<1>5. /\ proc' \in [Procs -> ProcType] /\ \A q \in Procs : Timely(q, proc'[q])
      /\ proc'[p] = k /\ \A q \in Procs \ {p} : proc'[q] = proc[q]
  BY <1>3, <1>4, OneChanges
<1>6. checked' = checked /\ proofAge' = proofAge
  BY DEF ProveReads
<1>7. Ages'
  BY <1>5, <1>6 DEF Ages
<1> QED
  BY <1>1, <1>3, <1>5, <1>7

(* checked and proofAge are left alone.                                    *)
LEMMA SameProof ==
  ASSUME Ages, checked' = checked, proofAge' = proofAge,
         proc' \in [Procs -> ProcType], \A q \in Procs : Timely(q, proc'[q])
  PROVE  Ages'
BY DEF Ages

LEMMA ReadAges ==
  ASSUME Ages, NEW r \in Readers,
         ReadBegins(r) \/ Ready(r) \/ ProveLocks(r) \/ ReadAcquires(r) \/ ReadRuns(r)
  PROVE  Ages'
<1>0. r \in Procs /\ Timely(r, proc[r]) /\ proc[r] \in ProcType
  BY DEF Procs, Ages
<1>1. CASE ReadBegins(r)
  <2> DEFINE k == [IdleProc EXCEPT !.at = "ready", !.left = ReadTimeout]
  <2>1. Timely(r, k)
    <3>1. k \in ProcType /\ k.at = "ready" /\ k.left = ReadTimeout
      <4>1. ReadTimeout \in 0..Longest /\ 0 \in 0..ProvedLimit + 1
        BY Limits
      <4> QED
        BY <4>1 DEF IdleProc, ProcType, Places
    <3> HIDE DEF k
    <3> QED
      BY <3>1, Limits DEF Timely
  <2> HIDE DEF k
  <2>2. proc' = [proc EXCEPT ![r] = k]
    BY <1>1 DEF ReadBegins, k
  <2> QED
    BY <1>0, <1>1, <2>1, <2>2, OneChanges, SameProof DEF ReadBegins
<1>2. ASSUME Fresh PROVE proofAge \in Nat /\ proofAge <= ProofInterval + Longest
  BY <1>2, Limits DEF Fresh, Ages
<1>3. CASE Ready(r)
  <2>1. CASE ReadReturns(r)
    BY <1>0, <1>3, <2>1, ReturnsTimely, SameProof DEF Ready, ReadReturns
  <2>2. CASE Fresh /\ Relies(r, proofAge)
    BY <1>2, <1>3, <2>2, ReliesTimely, SameProof DEF Ready
  <2>3. CASE ProcGoto(r, "lock") \/ ProcGoto(r, "admit")
    BY <1>0, <1>3, <2>3, Goes, SameProof DEF Ready, Places
  <2> QED
    BY <1>3, <2>1, <2>2, <2>3 DEF Ready
<1>4. CASE ProveLocks(r)
  <2>1. CASE ReadReturns(r) /\ UNCHANGED checked
    BY <1>0, <1>4, <2>1, ReturnsTimely, SameProof DEF ProveLocks, ReadReturns
  <2>2. CASE Fresh /\ Relies(r, proofAge) /\ UNCHANGED checked
    BY <1>2, <1>4, <2>2, ReliesTimely, SameProof DEF ProveLocks
  <2>3. CASE ProcGoto(r, "inspect") /\ checked' = Stale
    <3>1. /\ proc' \in [Procs -> ProcType] /\ \A q \in Procs : Timely(q, proc'[q])
      BY <1>0, <2>3, Goes DEF Places
    <3>2. proofAge' = proofAge
      BY <1>4 DEF ProveLocks
    <3> QED
      BY <2>3, <3>1, <3>2, Limits DEF Ages
  <2> QED
    BY <1>4, <2>1, <2>2, <2>3 DEF ProveLocks
<1>5. CASE ReadAcquires(r)
  <2>1. CASE ReadReturns(r)
    BY <1>0, <1>5, <2>1, ReturnsTimely, SameProof DEF ReadAcquires, ReadReturns
  <2>2. CASE ProcGoto(r, "run")
    <3>1. proc[r].read <= ProvedLimit
      BY <1>0, <1>5, Limits DEF ReadAcquires, Timely, ProcType
    <3> QED
      BY <1>0, <1>5, <2>2, <3>1, Goes, SameProof DEF ReadAcquires, Places
  <2> QED
    BY <1>5, <2>1, <2>2 DEF ReadAcquires
<1>6. CASE ReadRuns(r)
  BY <1>0, <1>6, ReturnsTimely, SameProof DEF ReadRuns, ReadReturns
<1> QED
  BY <1>1, <1>3, <1>4, <1>5, <1>6

LEMMA FailedAges ==
  ASSUME Ages, NEW p \in Procs, Failed(p), checked' = checked, proofAge' = proofAge
  PROVE  Ages'
<1>1. CASE ProcGoto(p, "failed")
  BY <1>1, Goes, SameProof DEF Places
<1>2. CASE ReadReturns(p)
  BY <1>2, ReturnsTimely, SameProof DEF ReadReturns
<1> QED
  BY <1>1, <1>2 DEF Failed

LEMMA ProveAges ==
  ASSUME Ages, NEW p \in Procs, Prove(p)
  PROVE  Ages'
<1>0. Timely(p, proc[p]) /\ proc[p] \in ProcType
  BY DEF Ages
<1>1. CASE ProveAdmitted(p)
  <2>1. CASE ProcGoto(p, "inspect")
    BY <1>1, <2>1, Goes, SameProof DEF ProveAdmitted, Places
  <2>2. CASE Failed(p)
    BY <1>1, <2>2, FailedAges DEF ProveAdmitted
  <2> QED
    BY <1>1, <2>1, <2>2 DEF ProveAdmitted
<1>2. CASE ProveReads(p)
  BY <1>2, ReadsTimely
<1>3. CASE ProveFails(p)
  BY <1>3, FailedAges DEF ProveFails
<1>4. CASE ProveStores(p)
  <2>1. proc[p].read \in Nat /\ proc[p].read <= Longest
    BY <1>0, <1>4, Limits DEF ProveStores, Timely, ProcType
  <2>2. proc' \in [Procs -> ProcType] /\ \A q \in Procs : Timely(q, proc'[q])
    <3>1. CASE p = Maintenance
      BY <1>4, <3>1, ReturnsTimely DEF ProveStores
    <3>2. CASE p # Maintenance
      <4>1. p \in Readers
        BY <3>2 DEF Procs
      <4>2. proc[p].read <= ProofInterval + Longest
        BY <2>1, Limits
      <4> QED
        BY <1>4, <2>1, <3>2, <4>1, <4>2, ReliesTimely DEF ProveStores
    <3> QED
      BY <3>1, <3>2
  <2>3. checked' = 0 /\ proofAge' = proc[p].read
    BY <1>4 DEF ProveStores
  <2> QED
    BY <2>1, <2>2, <2>3, Limits DEF Ages
<1> QED
  BY <1>1, <1>2, <1>3, <1>4 DEF Prove

LEMMA MaintenanceAges ==
  ASSUME Ages, MaintenanceBegins \/ MaintenanceFailed \/ MaintenanceStops
  PROVE  Ages'
<1>0. Maintenance \in Procs
  BY DEF Procs
<1>1. CASE MaintenanceBegins
  <2> DEFINE k == [IdleProc EXCEPT !.at = IF dialect = "qdrant" /\ expiring THEN "failed" ELSE "admit",
                               !.left = IF shut = "open" THEN ProofTimeout ELSE 0]
  <2>1. Timely(Maintenance, k)
    <3>1. k \in ProcType /\ k.at \notin {"inspected", "acquire", "run"} /\ k.left <= ProofTimeout
      <4>1. /\ ProofTimeout \in 0..Longest /\ 0 \in 0..Longest /\ 0 \in 0..ProvedLimit + 1
            /\ 0 <= ProofTimeout /\ ProofTimeout <= ProofTimeout
        BY Limits
      <4> QED
        BY <4>1 DEF IdleProc, ProcType, Places
    <3> HIDE DEF k
    <3> QED
      BY <3>1 DEF Timely, Timeout
  <2>2. proc' = [proc EXCEPT ![Maintenance] = k]
    BY <1>1 DEF MaintenanceBegins
  <2> HIDE DEF k
  <2> QED
    BY <1>0, <1>1, <2>1, <2>2, OneChanges, SameProof DEF MaintenanceBegins
<1>2. CASE MaintenanceFailed
  <2>1. proc' \in [Procs -> ProcType] /\ \A q \in Procs : Timely(q, proc'[q])
    BY <1>0, <1>2, ReturnsTimely DEF MaintenanceFailed
  <2>2. checked' = Stale /\ proofAge' = proofAge
    BY <1>2 DEF MaintenanceFailed
  <2> QED
    BY <2>1, <2>2, Limits DEF Ages
<1>3. CASE MaintenanceStops
  <2> DEFINE k == [IdleProc EXCEPT !.at = "stopped"]
  <2>1. Timely(Maintenance, k)
    <3>1. k \in ProcType /\ k.at \notin {"inspected", "acquire", "run"} /\ k.left <= ProofTimeout
      <4>1. /\ ProofTimeout \in 0..Longest /\ 0 \in 0..Longest /\ 0 \in 0..ProvedLimit + 1
            /\ 0 <= ProofTimeout /\ ProofTimeout <= ProofTimeout
        BY Limits
      <4> QED
        BY <4>1 DEF IdleProc, ProcType, Places
    <3> HIDE DEF k
    <3> QED
      BY <3>1 DEF Timely, Timeout
  <2>2. proc' = [proc EXCEPT ![Maintenance] = k]
    BY <1>3 DEF MaintenanceStops
  <2> HIDE DEF k
  <2> QED
    BY <1>0, <1>3, <2>1, <2>2, OneChanges, SameProof DEF MaintenanceStops
<1> QED
  BY <1>1, <1>2, <1>3

LEMMA CloseAges == ASSUME Ages, ProofCloses PROVE Ages'
<1>1. CASE UNCHANGED proc
  BY <1>1 DEF ProofCloses, Ages
<1>2. CASE proc' = [p \in Procs |-> [proc[p] EXCEPT !.left = 0]]
  <2>1. ASSUME NEW p \in Procs PROVE Timely(p, [proc[p] EXCEPT !.left = 0])
    <3>1. Timely(p, proc[p]) /\ proc[p] \in ProcType
      BY DEF Ages
    <3> QED
      BY <3>1, Limits DEF Timely, ProcType
  <2>2. proc' \in [Procs -> ProcType] /\ \A q \in Procs : Timely(q, proc'[q])
    BY <1>2, <2>1 DEF Timely
  <2> QED
    BY <2>2, SameProof DEF ProofCloses
<1> QED
  BY <1>1, <1>2 DEF ProofCloses

LEMMA TickAges == ASSUME Ages, ProofTick PROVE Ages'
<1>1. ASSUME NEW p \in Procs
      PROVE  Timely(p, [proc[p] EXCEPT !.left = Rest(@),
                        !.read = IF proc[p].at \in {"inspected", "acquire"} THEN @ + 1 ELSE @])
  <2> DEFINE k == [proc[p] EXCEPT !.left = Rest(@),
                        !.read = IF proc[p].at \in {"inspected", "acquire"} THEN @ + 1 ELSE @]
  <2>1. Timely(p, proc[p]) /\ proc[p] \in ProcType
    BY DEF Ages
  <2>2. ProcWaits(p)
    BY DEF ProofTick
  <2>3. proc[p].at \in {"inspected", "acquire"} => proc[p].left > 0
    BY <2>2 DEF ProcWaits
  <2>4. /\ proc[p].left \in Nat /\ proc[p].read \in Nat /\ Rest(proc[p].left) \in Nat
        /\ Rest(proc[p].left) <= proc[p].left
        /\ proc[p].left > 0 => Rest(proc[p].left) = proc[p].left - 1
    BY <2>1, Limits DEF ProcType, Rest
  <2>5. proc[p].at \in {"inspected", "acquire"} => proc[p].read + 1 <= ProvedLimit
    BY <2>1, <2>3, <2>4, Limits DEF Timely
  <2>6. /\ k \in ProcType /\ k.at = proc[p].at /\ k.left = Rest(proc[p].left)
        /\ k.read = IF proc[p].at \in {"inspected", "acquire"} THEN proc[p].read + 1 ELSE proc[p].read
    <3>1. Rest(proc[p].left) \in 0..Longest
      BY <2>1, <2>4, Limits DEF ProcType
    <3>2. proc[p].at \in {"inspected", "acquire"} => proc[p].read + 1 \in 0..ProvedLimit + 1
      BY <2>4, <2>5, Limits
    <3> QED
      BY <2>1, <3>1, <3>2 DEF ProcType
  <2>7. Timely(p, k)
    <3> HIDE DEF k
    <3> QED
      BY <2>1, <2>3, <2>4, <2>6, Limits DEF Timely
  <2> QED
    BY <2>7
<1>2. proc' \in [Procs -> ProcType] /\ \A q \in Procs : Timely(q, proc'[q])
  <2>1. proc' = [p \in Procs |-> [proc[p] EXCEPT !.left = Rest(@),
                        !.read = IF proc[p].at \in {"inspected", "acquire"} THEN @ + 1 ELSE @]]
    BY DEF ProofTick
  <2> QED
    BY <1>1, <2>1 DEF Timely
<1>3. checked' = Grown(checked, ProofInterval) /\ proofAge' = Grown(proofAge, ProvedLimit)
  BY DEF ProofTick
<1> QED
  BY <1>2, <1>3, Limits DEF Ages, Grown

LEMMA AgesStep == Ages /\ [ProofNext]_proofVars => Ages'
<1> SUFFICES ASSUME Ages, [ProofNext]_proofVars PROVE Ages'
  OBVIOUS
<1>1. CASE UNCHANGED proofVars
  BY <1>1 DEF Ages, proofVars
<1>2. Readers \subseteq Procs /\ Maintenance \in Procs
  BY DEF Procs
<1>3. CASE ProofNext
  BY <1>2, <1>3, ReadAges, ProveAges, MaintenanceAges, CloseAges, TickAges
     DEF ProofNext, ReadStep, MaintenanceStep
<1> QED
  BY <1>1, <1>3

(* Whichever of the concurrent proofs wrote checked last, a read starts    *)
(* only on privileges that were read within the recheck interval, one      *)
(* proof and its own wait.                                                 *)
THEOREM ReadsAreProved == ProofSpec => []ReadsProved
<1>1. ProofInit => Ages
  BY AgesInit
<1>2. Ages /\ [ProofNext]_proofVars => Ages'
  BY AgesStep
<1>3. Ages => ReadsProved
  BY DEF Ages, Timely, ReadsProved, Procs
<1> QED
  BY <1>1, <1>2, <1>3, PTL DEF ProofSpec

-----------------------------------------------------------------------------
LEMMA ExclusiveInit == ProofInit => Exclusive
<1> SUFFICES ASSUME ProofInit PROVE Exclusive
  OBVIOUS
<1>1. \A p \in Procs : proc[p].at = "idle"
  BY DEF ProofInit, IdleProc
<1>2. Readers \subseteq Procs /\ Maintenance \in Procs
  BY DEF Procs
<1>3. mu = Nobody /\ ~tick /\ ~excessive /\ shut = "open"
  BY DEF ProofInit
<1>4. \A r \in Readers : mu # r
  BY <1>2, <1>3, ClockAssumption
<1> QED
  BY <1>1, <1>2, <1>3, <1>4 DEF Exclusive

(* A Neo4j read moves to a place where it does not hold the lock, from     *)
(* another one.                                                            *)
LEMMA MovesUnlocked ==
  ASSUME Exclusive, dialect' = dialect, NEW r \in Readers,
         proc[r].at \notin {"inspect", "inspected"},
         proc'[r].at \notin {"inspect", "inspected", "admit", "failed"},
         \A q \in Procs \ {r} : proc'[q] = proc[q],
         UNCHANGED <<checked, mu, tick, shut, excessive>>
  PROVE  Exclusive'
<1>1. Readers \subseteq Procs /\ Maintenance \in Procs \ {r}
  BY ClockAssumption DEF Procs
<1>2. ASSUME NEW q \in Readers, q # r PROVE proc'[q] = proc[q]
  BY <1>1, <1>2
<1> QED
  BY <1>1, <1>2 DEF Exclusive

LEMMA ReturnsUnlocked ==
  ASSUME Ages, Exclusive, NEW r \in Readers, ReadReturns(r),
         UNCHANGED <<dialect, tick, shut, excessive>>,
         checked' = checked
  PROVE  Exclusive'
<1>1. Readers \subseteq Procs /\ Maintenance \in Procs \ {r} /\ r \in Procs
  BY ClockAssumption DEF Procs
<1>2. proc'[r] = IdleProc /\ IdleProc.at = "idle" /\ \A q \in Procs \ {r} : proc'[q] = proc[q]
  BY <1>1, ReturnsTimely, IdleIsTimely DEF ReadReturns
<1>3. mu' = IF mu = r THEN Nobody ELSE mu
  BY DEF ReadReturns, unlocked
<1>4. ASSUME NEW q \in Readers, q # r PROVE proc'[q] = proc[q] /\ q # Nobody
  BY <1>1, <1>2, <1>4, ClockAssumption
<1>5. r # Nobody
  BY <1>1, ClockAssumption
<1>6. mu' # r /\ \A q \in Readers \ {r} : mu' = q <=> mu = q
  BY <1>3, <1>4, <1>5
<1>7. mu' # Nobody => mu # Nobody
  BY <1>3
<1> QED
  BY <1>1, <1>2, <1>4, <1>6, <1>7 DEF Exclusive

LEMMA ReadExclusive ==
  ASSUME Ages, Exclusive, NEW r \in Readers, dialect = "neo4j",
         ReadBegins(r) \/ Ready(r) \/ ProveLocks(r) \/ ReadAcquires(r) \/ ReadRuns(r)
  PROVE  Exclusive'
<1>0. /\ r \in Procs /\ Readers \subseteq Procs /\ Maintenance \in Procs \ {r}
      /\ proc \in [Procs -> ProcType]
  BY ClockAssumption DEF Procs, Ages
<1>1. CASE ReadBegins(r)
  <2>1. proc'[r].at = "ready" /\ \A q \in Procs \ {r} : proc'[q] = proc[q]
    BY <1>0, <1>1 DEF ReadBegins, IdleProc
  <2> QED
    BY <1>1, <2>1, MovesUnlocked DEF ReadBegins, ticker, around
<1>2. CASE Ready(r)
  <2>1. CASE ReadReturns(r)
    BY <1>2, <2>1, ReturnsUnlocked DEF Ready, ticker, around
  <2>2. CASE Relies(r, proofAge) /\ UNCHANGED mu
    <3>1. proc'[r].at = "acquire" /\ \A q \in Procs \ {r} : proc'[q] = proc[q]
      BY <1>0, <2>2 DEF Relies, ProcType
    <3> QED
      BY <1>2, <2>2, <3>1, MovesUnlocked DEF Ready, ticker, around
  <2>3. CASE ProcGoto(r, "lock") /\ UNCHANGED mu
    <3>1. proc'[r].at = "lock" /\ \A q \in Procs \ {r} : proc'[q] = proc[q]
      BY <1>0, <2>3 DEF ProcGoto, ProcType
    <3> QED
      BY <1>2, <2>3, <3>1, MovesUnlocked DEF Ready, ticker, around
  <2> QED
    BY <1>2, <2>1, <2>2, <2>3 DEF Ready
<1>3. CASE ProveLocks(r)
  <2>1. CASE ReadReturns(r) /\ UNCHANGED checked
    BY <1>3, <2>1, ReturnsUnlocked DEF ProveLocks, ticker, around
  <2>2. CASE Relies(r, proofAge) /\ UNCHANGED <<checked, mu>>
    <3>1. proc'[r].at = "acquire" /\ \A q \in Procs \ {r} : proc'[q] = proc[q]
      BY <1>0, <2>2 DEF Relies, ProcType
    <3> QED
      BY <1>3, <2>2, <3>1, MovesUnlocked DEF ProveLocks, ticker, around
  <2>3. CASE ProcGoto(r, "inspect") /\ mu' = r /\ checked' = Stale
    <3>1. proc'[r].at = "inspect" /\ \A q \in Procs \ {r} : proc'[q] = proc[q]
      BY <1>0, <2>3 DEF ProcGoto, ProcType
    <3>2. mu = Nobody /\ UNCHANGED <<dialect, tick, shut, excessive>>
      BY <1>3 DEF ProveLocks, ticker, around
    <3>3. ASSUME NEW q \in Readers, q # r
          PROVE  proc'[q] = proc[q] /\ mu # q /\ mu' # q
      BY <1>0, <2>3, <3>1, <3>2, <3>3, ClockAssumption
    <3>4. checked' >= ProofInterval
      BY <2>3, Limits
    <3>5. proc'[Maintenance] = proc[Maintenance]
      BY <1>0, <3>1
    <3> QED
      BY <2>3, <3>1, <3>2, <3>3, <3>4, <3>5 DEF Exclusive
  <2> QED
    BY <1>3, <2>1, <2>2, <2>3 DEF ProveLocks
<1>4. CASE ReadAcquires(r)
  <2>1. CASE ReadReturns(r)
    BY <1>4, <2>1, ReturnsUnlocked DEF ReadAcquires, ticker, around
  <2>2. CASE ProcGoto(r, "run") /\ UNCHANGED mu
    <3>1. proc'[r].at = "run" /\ \A q \in Procs \ {r} : proc'[q] = proc[q]
      BY <1>0, <2>2 DEF ProcGoto, ProcType
    <3> QED
      BY <1>4, <2>2, <3>1, MovesUnlocked DEF ReadAcquires, ticker, around
  <2> QED
    BY <1>4, <2>1, <2>2 DEF ReadAcquires
<1>5. CASE ReadRuns(r)
  BY <1>5, ReturnsUnlocked DEF ReadRuns, ticker, around
<1> QED
  BY <1>1, <1>2, <1>3, <1>4, <1>5

LEMMA ProveExclusive ==
  ASSUME Ages, Exclusive, NEW r \in Readers, dialect = "neo4j", Prove(r)
  PROVE  Exclusive'
<1>0. /\ r \in Procs /\ Readers \subseteq Procs /\ Maintenance \in Procs \ {r} /\ r # Maintenance
      /\ proc \in [Procs -> ProcType]
  BY ClockAssumption DEF Procs, Ages
<1>1. proc[r].at # "admit"
  BY DEF Exclusive
<1>2. CASE ProveReads(r)
  <2>1. /\ proc'[r].at = "inspected" /\ proc'[r].ok \in BOOLEAN /\ excessive' = ~proc'[r].ok
        /\ \A q \in Procs \ {r} : proc'[q] = proc[q]
    BY <1>0, <1>2, ReadsTimely
  <2>2. mu = r /\ UNCHANGED <<dialect, checked, mu, tick, shut>>
    BY <1>2 DEF ProveReads, Exclusive, ticker, around
  <2>3. ASSUME NEW q \in Readers, q # r
        PROVE  proc'[q] = proc[q] /\ proc[q].at \notin {"inspect", "inspected"}
    BY <1>0, <2>1, <2>2, <2>3 DEF Exclusive
  <2>4. r # Nobody
    BY <1>0, ClockAssumption
  <2>5. proc'[Maintenance] = proc[Maintenance]
    BY <1>0, <2>1
  <2> QED
    BY <2>1, <2>2, <2>3, <2>4, <2>5 DEF Exclusive
<1>3. CASE ProveFails(r)
  BY <1>0, <1>3, ReturnsUnlocked DEF ProveFails, Failed, ticker, around
<1>4. CASE ProveStores(r)
  <2>1. proc'[r].at = "acquire" /\ \A q \in Procs \ {r} : proc'[q] = proc[q]
    BY <1>0, <1>4 DEF ProveStores, Relies, ProcType
  <2>2. mu = r /\ ~excessive
    BY <1>4 DEF ProveStores, Exclusive
  <2>3. mu' = Nobody /\ UNCHANGED <<dialect, tick, shut, excessive>>
    BY <1>4, <2>2 DEF ProveStores, unlocked, ticker, around
  <2>4. r # Nobody
    BY <1>0, ClockAssumption
  <2>5. ASSUME NEW q \in Readers, q # r
        PROVE  proc'[q] = proc[q] /\ proc[q].at \notin {"inspect", "inspected"} /\ q # Nobody
    BY <1>0, <2>1, <2>2, <2>5, ClockAssumption DEF Exclusive
  <2>6. proc'[Maintenance] = proc[Maintenance]
    BY <1>0, <2>1
  <2> QED
    BY <2>1, <2>2, <2>3, <2>4, <2>5, <2>6 DEF Exclusive
<1> QED
  BY <1>1, <1>2, <1>3, <1>4 DEF Prove, ProveAdmitted

LEMMA ExclusiveStep ==
  Ages /\ Exclusive /\ [ProofNext]_proofVars => Exclusive'
<1> SUFFICES ASSUME Ages, Exclusive, [ProofNext]_proofVars, dialect' = "neo4j"
             PROVE  Exclusive'
  BY DEF Exclusive
<1>0. Readers \subseteq Procs /\ Maintenance \in Procs /\ proc \in [Procs -> ProcType]
  BY DEF Procs, Ages
<1>1. CASE UNCHANGED proofVars
  BY <1>1 DEF Exclusive, proofVars
<1>2. CASE ProofNext
  <2>1. dialect = "neo4j"
    BY <1>2 DEF ProofNext, ReadBegins, ReadStep, Ready, ProveLocks, ReadAcquires, ReadRuns, Prove, ProveAdmitted,
       ProveReads, ProveFails, ProveStores, MaintenanceBegins, MaintenanceStep, MaintenanceFailed,
       MaintenanceStops, ProofCloses, ProofTick, around
  <2>2. ~tick /\ proc[Maintenance].at = "idle" /\ shut # "closing"
    BY <2>1 DEF Exclusive
  <2>3. CASE \E r \in Readers : ReadBegins(r) \/ ReadStep(r)
    BY <2>1, <2>3, ReadExclusive, ProveExclusive DEF ReadStep
  <2>4. ~MaintenanceBegins /\ ~MaintenanceStep /\ ~MaintenanceStops
    BY <2>2 DEF MaintenanceBegins, MaintenanceStep, MaintenanceFailed, MaintenanceStops, Prove,
       ProveAdmitted, ProveReads, ProveFails, ProveStores
  <2>5. CASE ProofCloses
    BY <2>1, <2>2, <2>5 DEF ProofCloses, Exclusive, ticker
  <2>6. CASE ProofTick
    <3>1. \A p \in Procs : proc'[p].at = proc[p].at /\ proc'[p].ok = proc[p].ok
      BY <1>0, <2>6 DEF ProofTick, ProcType
    <3>2. UNCHANGED <<mu, shut, excessive>> /\ ~tick'
      BY <2>1, <2>6 DEF ProofTick
    <3>3. checked >= ProofInterval => checked' >= ProofInterval
      <4>1. checked' = Grown(checked, ProofInterval)
        BY <2>6 DEF ProofTick
      <4>2. checked \in Nat /\ ProofInterval \in Nat
        BY Limits DEF Ages
      <4> QED
        BY <4>1, <4>2 DEF Grown
    <3> QED
      BY <1>0, <2>1, <3>1, <3>2, <3>3 DEF Exclusive
  <2> QED
    BY <1>2, <2>3, <2>4, <2>5, <2>6 DEF ProofNext
<1> QED
  BY <1>1, <1>2

(* Neo4j: from a proof that found excessive privileges until the next that *)
(* succeeds, no request passes ensureProof (neo4j/proof.go:33-56).         *)
THEOREM FailedProofBlocks == ProofSpec => []RefusedUntilProved
<1>1. ProofInit => Ages /\ Exclusive
  BY AgesInit, ExclusiveInit
<1>2. Ages /\ Exclusive /\ [ProofNext]_proofVars => Ages' /\ Exclusive'
  BY AgesStep, ExclusiveStep
<1>3. Ages /\ Exclusive => RefusedUntilProved
  BY Limits DEF Ages, Exclusive, RefusedUntilProved, Fresh
<1> QED
  BY <1>1, <1>2, <1>3, PTL DEF ProofSpec

-----------------------------------------------------------------------------
(* What ProofTypeOK says beyond Ages.                                      *)
OtherTypes ==
    /\ dialect \in Dialects /\ mu \in Readers \cup {Nobody}
    /\ tick \in BOOLEAN /\ elapsed \in 0..(ProofPeriod - 1) /\ expiring \in BOOLEAN
    /\ shut \in {"open", "closing", "closed"} /\ excessive \in BOOLEAN

LEMMA PeriodIsPositive == ProofPeriod \in Nat /\ ProofPeriod >= 1
<1>1. ProofInterval \div 2 \in Nat
  BY ClockAssumption
<1> QED
  BY <1>1 DEF ProofPeriod

LEMMA OtherTypesInit == ProofInit => OtherTypes
<1> SUFFICES ASSUME ProofInit PROVE OtherTypes
  OBVIOUS
<1>1. dialect \in Dialects /\ mu \in Readers \cup {Nobody} /\ shut \in {"open", "closing", "closed"}
  BY DEF ProofInit
<1>2. tick \in BOOLEAN
  BY DEF ProofInit
<1>3. expiring \in BOOLEAN
  BY DEF ProofInit
<1>4. excessive \in BOOLEAN
  BY DEF ProofInit
<1>5. elapsed \in 0..(ProofPeriod - 1)
  BY PeriodIsPositive DEF ProofInit
<1> QED
  BY <1>1, <1>2, <1>3, <1>4, <1>5 DEF OtherTypes

LEMMA OtherTypesStep == OtherTypes /\ [ProofNext]_proofVars => OtherTypes'
<1> SUFFICES ASSUME OtherTypes, [ProofNext]_proofVars PROVE OtherTypes'
  OBVIOUS
<1>1. ASSUME NEW r \in Readers, ReadBegins(r) \/ Ready(r) \/ ProveLocks(r) \/ ReadAcquires(r) \/ ReadRuns(r)
      PROVE  OtherTypes'
  <2>1. UNCHANGED <<dialect, tick, elapsed, expiring, shut, excessive>>
    BY <1>1 DEF ReadBegins, Ready, ProveLocks, ReadAcquires, ReadRuns, ticker, around
  <2>2. mu' \in {mu, Nobody, r}
    BY <1>1 DEF ReadBegins, Ready, ProveLocks, ReadAcquires, ReadRuns, ReadReturns, unlocked
  <2> QED
    BY <2>1, <2>2 DEF OtherTypes, ProofPeriod
<1>2. ASSUME NEW p \in Procs, Prove(p) PROVE OtherTypes'
  <2>1. UNCHANGED <<dialect, tick, elapsed, expiring, shut>>
    BY <1>2 DEF Prove, ProveAdmitted, ProveReads, ProveFails, ProveStores, ticker, around
  <2>2. mu' \in {mu, Nobody}
    BY <1>2 DEF Prove, ProveAdmitted, ProveReads, ProveFails, ProveStores, Failed, ReadReturns, unlocked
  <2>3. excessive' \in BOOLEAN
    <3>1. CASE ProveReads(p)
      BY <3>1 DEF ProveReads
    <3>2. CASE ~ProveReads(p)
      BY <1>2, <3>2 DEF Prove, ProveAdmitted, ProveFails, ProveStores, OtherTypes
    <3> QED
      BY <3>1, <3>2
  <2> QED
    BY <2>1, <2>2, <2>3 DEF OtherTypes, ProofPeriod
<1>3. CASE MaintenanceBegins \/ MaintenanceFailed \/ MaintenanceStops
  <2>1. UNCHANGED <<dialect, mu, elapsed, expiring, shut, excessive>>
    BY <1>3 DEF MaintenanceBegins, MaintenanceFailed, MaintenanceStops, ticker, around
  <2>2. tick' \in BOOLEAN
    <3>1. tick' = FALSE \/ tick' = tick
      BY <1>3 DEF MaintenanceBegins, MaintenanceFailed, MaintenanceStops, ticker
    <3> QED
      BY <3>1 DEF OtherTypes
  <2> QED
    BY <2>1, <2>2 DEF OtherTypes, ProofPeriod
<1>4. CASE ProofCloses
  BY <1>4 DEF ProofCloses, ticker, OtherTypes, ProofPeriod
<1>5. CASE ProofTick
  <2>1. UNCHANGED <<dialect, mu, shut, excessive>>
    BY <1>5 DEF ProofTick
  <2>2. elapsed' \in 0..(ProofPeriod - 1)
    <3>1. elapsed \in Nat /\ ProofPeriod \in Nat /\ ProofPeriod >= 1
      BY PeriodIsPositive DEF OtherTypes
    <3>2. elapsed' = 0 \/ elapsed' = (elapsed + 1) % ProofPeriod
      BY <1>5 DEF ProofTick
    <3> HIDE DEF ProofPeriod
    <3>3. (elapsed + 1) % ProofPeriod \in 0..(ProofPeriod - 1)
      BY <3>1
    <3> QED
      BY <3>1, <3>2, <3>3
  <2>3. tick' \in BOOLEAN
    BY <1>5 DEF ProofTick
  <2>4. expiring' \in BOOLEAN
    <3>1. expiring' \in {expiring, TRUE} \/ expiring' \in {FALSE}
      BY <1>5 DEF ProofTick
    <3> QED
      BY <3>1 DEF OtherTypes
  <2> QED
    BY <2>1, <2>2, <2>3, <2>4 DEF OtherTypes, ProofPeriod
<1>6. CASE UNCHANGED proofVars
  BY <1>6 DEF proofVars, OtherTypes, ProofPeriod
<1>7. Readers \subseteq Procs /\ Maintenance \in Procs
  BY DEF Procs
<1> QED
  BY <1>1, <1>2, <1>3, <1>4, <1>5, <1>6, <1>7 DEF ProofNext, ReadStep, MaintenanceStep

(* For any number of reads and any intervals, no context runs longer than  *)
(* its timeout, and the lock is held by a read or by nobody.               *)
THEOREM ClockTypeCorrect == ProofSpec => []ProofTypeOK
<1>1. ProofInit => Ages /\ OtherTypes
  BY AgesInit, OtherTypesInit
<1>2. Ages /\ OtherTypes /\ [ProofNext]_proofVars => (Ages /\ OtherTypes)'
  BY AgesStep, OtherTypesStep
<1>3. Ages /\ OtherTypes => ProofTypeOK
  <2> SUFFICES ASSUME Ages, OtherTypes PROVE ProofTypeOK
    OBVIOUS
  <2>1. proc \in [Procs -> [at : {"idle", "ready", "lock", "admit", "inspect", "inspected",
                                  "acquire", "run", "failed", "stopped"},
                            left : 0..Longest, ok : BOOLEAN, read : 0..ProvedLimit + 1]]
    BY DEF Ages, ProcType, Places
  <2> QED
    BY <2>1 DEF Ages, OtherTypes, ProofTypeOK
<1> QED
  BY <1>1, <1>2, <1>3, PTL DEF ProofSpec
=============================================================================
