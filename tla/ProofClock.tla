------------------------------ MODULE ProofClock ------------------------------
(***************************************************************************)
(* The proof of a MongoDB, Qdrant or Neo4j target's privileges: the time   *)
(* of the last one, which requests and (but for Neo4j) a maintenance       *)
(* goroutine read and write (internal/dialects/{mongodb,qdrant}/target.go, *)
(* neo4j/proof.go).                                                        *)
(*                                                                         *)
(* Times are ages ProofTick lets grow; a goroutine that is not waiting     *)
(* takes no time.  The wait for a permit ends with it or with an error.    *)
(***************************************************************************)
EXTENDS Integers

CONSTANTS
    Readers,        \* the reads (MongoDBRead, QdrantRead, Read, BatchRead, Explain)
    Dialects,       \* the dialects to consider
    ProofInterval,  \* privilege_recheck_interval
    ProofTimeout,   \* connect_timeout + 30 s
    ReadTimeout     \* limits.max_timeout

VARIABLES
    dialect,
    checked,        \* the age of Target.checked, Stale when it is zero or too old
    mu,             \* Neo4j: who holds Target.mu during a proof
    proc,           \* the reads and the maintenance goroutine
    tick, elapsed,  \* a tick waits in the ticker's channel; time since the last
    expiring,       \* Qdrant: the token expires within a minute
    shut,           \* "open", "closing", "closed"
    proofAge,       \* history: the age of the reading behind checked
    excessive       \* history: the last reading showed excessive privileges

proofVars == <<dialect, checked, mu, proc, tick, elapsed, expiring, shut, proofAge, excessive>>

Maintenance == "maintenance"
Nobody == "nobody"
Procs == Readers \cup {Maintenance}

ASSUME ClockAssumption ==
    /\ ProofInterval \in Nat /\ ProofTimeout \in Nat /\ ReadTimeout \in Nat
    /\ Maintenance \notin Readers /\ Nobody \notin Procs

Stale == ProofInterval + 1

Longest == IF ProofTimeout > ReadTimeout THEN ProofTimeout ELSE ReadTimeout
ProvedLimit == ProofInterval + Longest + ReadTimeout

Grown(a, limit) == IF a > limit THEN a ELSE a + 1
Rest(n) == IF n = 0 THEN 0 ELSE n - 1

IdleProc == [at |-> "idle", left |-> 0, ok |-> FALSE, read |-> 0]

(* Open: the startup proof has succeeded.                                  *)
ProofInit ==
    /\ dialect \in Dialects
    /\ checked = 0 /\ mu = Nobody
    /\ proc = [p \in Procs |-> IdleProc]
    /\ tick = FALSE /\ elapsed = 0 /\ expiring = FALSE
    /\ shut = "open"
    /\ proofAge = 0 /\ excessive = FALSE

ProcGoto(p, where) == proc' = [proc EXCEPT ![p].at = where]
unlocked(p) == mu' = IF mu = p THEN Nobody ELSE mu

ticker == <<tick, elapsed>>
around == <<dialect, expiring, shut>>

(* Mutant: a proof is good for ever.                                       *)
FreshForever == TRUE

Fresh == IF dialect = "neo4j" THEN checked < ProofInterval ELSE checked <= ProofInterval
-----------------------------------------------------------------------------
(* The reads.  A read that has ended gives up Target.mu.                   *)

ReadReturns(r) == proc' = [proc EXCEPT ![r] = IdleProc] /\ unlocked(r)

ReadBegins(r) ==
    /\ proc[r].at = "idle"
    /\ proc' = [proc EXCEPT ![r] = [IdleProc EXCEPT !.at = "ready", !.left = ReadTimeout]]
    /\ UNCHANGED <<checked, mu, ticker, around, proofAge, excessive>>

Closed == IF dialect = "neo4j" THEN shut = "closed" ELSE shut # "open"

(* The read relies on the proof it found.                                  *)
Relies(r, age) == proc' = [proc EXCEPT ![r].at = "acquire", ![r].read = age, ![r].ok = FALSE]

(* ready (ensureProof): an error, the proof of before, or a proof of its   *)
(* own.  Neo4j takes Target.mu to look.                                    *)
Ready(r) ==
    /\ proc[r].at = "ready" /\ mu = Nobody
    /\ IF Closed \/ (dialect = "qdrant" /\ expiring) THEN ReadReturns(r)
       ELSE /\ IF Fresh THEN Relies(r, proofAge)
               ELSE ProcGoto(r, IF dialect = "neo4j" THEN "lock" ELSE "admit")
            /\ UNCHANGED mu
    /\ UNCHANGED <<checked, ticker, around, proofAge, excessive>>

(* Mutant: the last proof stays valid while a new one is made.             *)
ProveLocksKeeping(r) ==
    /\ proc[r].at = "lock" /\ mu = Nobody
    /\ CASE shut = "closed" -> ReadReturns(r)
         [] shut # "closed" -> ProcGoto(r, "inspect") /\ mu' = r
    /\ UNCHANGED <<checked, ticker, around, proofAge, excessive>>

(* Neo4j's prove: under Target.mu it looks again, then takes the last      *)
(* proof back before it starts: "A failed refresh blocks new requests."    *)
ProveLocks(r) ==
    /\ proc[r].at = "lock" /\ mu = Nobody
    /\ CASE shut = "closed"          -> ReadReturns(r) /\ UNCHANGED checked
         [] shut # "closed" /\ Fresh -> Relies(r, proofAge) /\ UNCHANGED <<checked, mu>>
         [] OTHER                    -> ProcGoto(r, "inspect") /\ mu' = r /\ checked' = Stale
    /\ UNCHANGED <<ticker, around, proofAge, excessive>>

ReadAcquires(r) ==
    /\ proc[r].at = "acquire"
    /\ \/ proc[r].left > 0 /\ ProcGoto(r, "run") /\ UNCHANGED mu
       \/ ReadReturns(r)
    /\ UNCHANGED <<checked, ticker, around, proofAge, excessive>>

ReadRuns(r) ==
    /\ proc[r].at = "run"
    /\ ReadReturns(r)
    /\ UNCHANGED <<checked, ticker, around, proofAge, excessive>>
-----------------------------------------------------------------------------
(* prove, by a read in its own context or by maintenance.                  *)

(* A failed proof: a read returns, maintenance goes to take the last proof *)
(* back.                                                                   *)
Failed(p) == IF p = Maintenance THEN ProcGoto(p, "failed") /\ UNCHANGED mu ELSE ReadReturns(p)

ProveAdmitted(p) ==
    /\ proc[p].at = "admit"
    /\ \/ proc[p].left > 0 /\ ProcGoto(p, "inspect") /\ UNCHANGED mu
       \/ Failed(p)
    /\ UNCHANGED <<checked, ticker, around, proofAge, excessive>>

(* The privileges are read: they are in order or not.                      *)
ProveReads(p) ==
    /\ proc[p].at = "inspect" /\ proc[p].left > 0
    /\ \E ok \in BOOLEAN :
        /\ proc' = [proc EXCEPT ![p].at = "inspected", ![p].ok = ok, ![p].read = 0]
        /\ excessive' = ~ok
    /\ UNCHANGED <<checked, mu, ticker, around, proofAge>>

(* The remaining probes fail, or what was read is judged.                  *)
ProveFails(p) ==
    /\ proc[p].at \in {"inspect", "inspected"}
    /\ Failed(p)
    /\ UNCHANGED <<checked, ticker, around, proofAge, excessive>>

ProveStores(p) ==
    /\ proc[p].at = "inspected" /\ proc[p].ok /\ proc[p].left > 0
    /\ checked' = 0 /\ proofAge' = proc[p].read
    /\ IF p = Maintenance THEN proc' = [proc EXCEPT ![p] = IdleProc] ELSE Relies(p, proc[p].read)
    /\ unlocked(p)
    /\ UNCHANGED <<ticker, around, excessive>>
-----------------------------------------------------------------------------
(* maintenance (MongoDB and Qdrant).                                       *)

MaintenanceBegins ==
    /\ proc[Maintenance].at = "idle" /\ tick
    /\ tick' = FALSE
    /\ proc' = [proc EXCEPT ![Maintenance] =
                [IdleProc EXCEPT !.at = IF dialect = "qdrant" /\ expiring THEN "failed" ELSE "admit",
                             !.left = IF shut = "open" THEN ProofTimeout ELSE 0]]
    /\ UNCHANGED <<checked, mu, elapsed, around, proofAge, excessive>>

(* The last proof is taken back, whoever made it.                          *)
MaintenanceFailed ==
    /\ proc[Maintenance].at = "failed"
    /\ checked' = Stale
    /\ proc' = [proc EXCEPT ![Maintenance] = IdleProc]
    /\ UNCHANGED <<mu, ticker, around, proofAge, excessive>>

MaintenanceStops ==
    /\ proc[Maintenance].at = "idle" /\ shut = "closing"
    /\ proc' = [proc EXCEPT ![Maintenance] = [IdleProc EXCEPT !.at = "stopped"]]
    /\ UNCHANGED <<checked, mu, ticker, around, proofAge, excessive>>

(* Close: MongoDB and Qdrant cancel every context and wait for maintenance;*)
(* Neo4j waits for Target.mu.                                              *)
ProofCloses ==
    /\ \/ /\ shut = "open" /\ dialect # "neo4j"
          /\ shut' = "closing"
          /\ proc' = [p \in Procs |-> [proc[p] EXCEPT !.left = 0]]
       \/ /\ shut = "open" /\ dialect = "neo4j" /\ mu = Nobody
          /\ shut' = "closed" /\ UNCHANGED proc
       \/ /\ shut = "closing" /\ proc[Maintenance].at = "stopped"
          /\ shut' = "closed" /\ UNCHANGED proc
    /\ UNCHANGED <<dialect, expiring, checked, mu, ticker, proofAge, excessive>>
-----------------------------------------------------------------------------
(* Only waiting takes time, and a context that has ended ends the waits    *)
(* that look at it; the wait for Target.mu does not.                       *)
ProcWaits(p) ==
    \/ proc[p].at = "stopped"
    \/ proc[p].at = "idle" /\ (p = Maintenance => ~tick)
    \/ proc[p].at \in {"ready", "lock"} /\ mu # Nobody
    \/ proc[p].at \in {"admit", "inspect", "inspected", "acquire", "run"} /\ proc[p].left > 0

ProofPeriod == IF ProofInterval \div 2 = 0 THEN 1 ELSE ProofInterval \div 2

ProofTick ==
    /\ \A p \in Procs : ProcWaits(p)
    /\ checked' = Grown(checked, ProofInterval)
    /\ proofAge' = Grown(proofAge, ProvedLimit)
    /\ proc' = [p \in Procs |-> [proc[p] EXCEPT !.left = Rest(@),
                    !.read = IF proc[p].at \in {"inspected", "acquire"} THEN @ + 1 ELSE @]]
    /\ elapsed' = IF dialect = "neo4j" THEN 0 ELSE (elapsed + 1) % ProofPeriod
    /\ tick' = (dialect # "neo4j" /\ (tick \/ elapsed + 1 = ProofPeriod))
    /\ expiring' \in IF dialect = "qdrant" THEN {expiring, TRUE} ELSE {FALSE}
    /\ UNCHANGED <<dialect, mu, shut, excessive>>

Prove(p) == ProveAdmitted(p) \/ ProveReads(p) \/ ProveFails(p) \/ ProveStores(p)
ReadStep(r) == Ready(r) \/ ProveLocks(r) \/ ReadAcquires(r) \/ ReadRuns(r) \/ Prove(r)
MaintenanceStep == Prove(Maintenance) \/ MaintenanceFailed

ProofNext ==
    \/ \E r \in Readers : ReadBegins(r) \/ ReadStep(r)
    \/ MaintenanceBegins \/ MaintenanceStep \/ MaintenanceStops
    \/ ProofCloses \/ ProofTick

ProofSpec == ProofInit /\ [][ProofNext]_proofVars
-----------------------------------------------------------------------------
ProofTypeOK ==
    /\ dialect \in Dialects
    /\ checked \in 0..Stale /\ mu \in Readers \cup {Nobody}
    /\ proc \in [Procs -> [at : {"idle", "ready", "lock", "admit", "inspect", "inspected",
                                 "acquire", "run", "failed", "stopped"},
                           left : 0..Longest, ok : BOOLEAN, read : 0..ProvedLimit + 1]]
    /\ tick \in BOOLEAN /\ elapsed \in 0..(ProofPeriod - 1) /\ expiring \in BOOLEAN
    /\ shut \in {"open", "closing", "closed"}
    /\ proofAge \in 0..ProvedLimit + 1 /\ excessive \in BOOLEAN

(* What a read relies on as it starts was read from the server no longer   *)
(* ago than the recheck interval, one proof and the read's own wait,       *)
(* whichever of the concurrent proofs wrote checked last                   *)
(* (mongodb/target.go:193-229, qdrant/target.go:98-207, neo4j/proof.go).   *)
ReadsProved ==
    \A r \in Readers : proc[r].at = "run" => proc[r].read <= ProvedLimit

(* Neo4j: after a proof that found excessive privileges no request passes  *)
(* ensureProof until another one has succeeded, because the proof is made  *)
(* under the lock and takes its predecessor back first                     *)
(* (neo4j/proof.go:33-56 "A failed refresh blocks new requests").          *)
RefusedUntilProved == dialect = "neo4j" /\ mu = Nobody /\ excessive => ~Fresh
=============================================================================
