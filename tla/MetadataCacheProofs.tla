------------------------ MODULE MetadataCacheProofs ------------------------
(***************************************************************************)
(* Proofs about MetadataCache for any number of calls, keys and versions   *)
(* and any limits: a key is read by one call at a time, the byte count is  *)
(* exact and both limits hold, and, when no version is too large to be     *)
(* stored, metadata never goes back.                                       *)
(***************************************************************************)
EXTENDS MetadataCache, FiniteSetTheorems, SequenceTheorems, WellFoundedInduction, TLAPS

Pcs == {"idle", "get", "lead", "wait", "woken", "reading", "finish"}
CallTypes == [pc : Pcs, key : Keys, fresh : BOOLEAN, version : 0..MaxVersion,
              floor : 0..MaxVersion]

(* The part of TypeOK the arguments rest on.                               *)
Types ==
    /\ entry \in [Keys -> [version : 0..MaxVersion, expires : Nat, bytes : Nat]]
    /\ inflight \in [Keys -> Calls \cup {NoCall}]
    /\ db \in [Keys -> Versions] /\ seen \in [Keys -> 0..MaxVersion]
    /\ call \in [Calls -> CallTypes]
    /\ \A p \in Calls : call[p].pc = "finish" => call[p].version \in Versions

(* What the cache holds of a key is the newest version any call has        *)
(* returned, and the leader that has its answer is about to return one at  *)
(* least as new.                                                           *)
Coherent ==
    /\ \A k \in Keys : entry[k].expires > 0 => entry[k].version = seen[k]
    /\ \A k \in Keys : seen[k] <= db[k]
    /\ \A p \in Calls : /\ call[p].floor <= seen[call[p].key]
                        /\ call[p].pc = "finish" =>
                              /\ call[p].version >= seen[call[p].key]
                              /\ call[p].version \in 1..db[call[p].key]

(* Every version of the metadata fits in the cache.                        *)
AllFit == \A v \in Versions : Size[v] <= MaxBytes

-----------------------------------------------------------------------------
EntryTypes == [version : 0..MaxVersion, expires : Nat, bytes : Nat]

LEMMA VersionsAreNumbers ==
  /\ MaxVersion \in Nat /\ MaxVersion >= 1
  /\ \A v \in Versions : v \in Nat /\ v \in 0..MaxVersion
  /\ \A v \in 0..MaxVersion : v \in Nat
BY ConfigAssumption DEF Versions

LEMMA IdleIsTyped == Idle \in CallTypes /\ Idle.pc = "idle" /\ Idle.floor = 0
                       /\ ~Idle.fresh
<1>1. \E x \in Keys : TRUE
  BY ConfigAssumption
<1>2. (CHOOSE k \in Keys : TRUE) \in Keys
  BY <1>1
<1> QED
  BY <1>2, ConfigAssumption DEF Idle, CallTypes, Pcs

(* How the records of the calls change: one moves on, one returns, or a    *)
(* leader returns and its followers move on.                               *)
Same(q) == /\ call'[q].key = call[q].key /\ call'[q].fresh = call[q].fresh
           /\ call'[q].version = call[q].version
           /\ call'[q].floor = call[q].floor

LEMMA MovesOn ==
  ASSUME NEW p \in Calls, NEW c \in Pcs, Types, call' = [call EXCEPT ![p].pc = c]
  PROVE  /\ call' \in [Calls -> CallTypes]
         /\ call'[p].pc = c /\ Same(p)
         /\ \A q \in Calls \ {p} : call'[q] = call[q]
<1>1. call[p] \in CallTypes /\ call \in [Calls -> CallTypes]
  BY DEF Types
<1>2. [call[p] EXCEPT !.pc = c] \in CallTypes
  BY <1>1 DEF CallTypes
<1>3. call' = [call EXCEPT ![p] = [call[p] EXCEPT !.pc = c]]
  OBVIOUS
<1>4. call'[p] = [call[p] EXCEPT !.pc = c]
  BY <1>1, <1>3
<1> QED
  BY <1>1, <1>2, <1>3, <1>4 DEF Same, CallTypes

LEMMA Leaves ==
  ASSUME NEW p \in Calls, Types, call' = [call EXCEPT ![p] = Idle]
  PROVE  /\ call' \in [Calls -> CallTypes] /\ call'[p] = Idle
         /\ \A q \in Calls \ {p} : call'[q] = call[q]
BY IdleIsTyped DEF Types

LEMMA Wakes ==
  ASSUME NEW p \in Calls, NEW k \in Keys, Types, call' = wake(p, k)
  PROVE  /\ call' \in [Calls -> CallTypes] /\ call'[p] = Idle
         /\ \A q \in Calls \ {p} :
               /\ Same(q)
               /\ call[q].pc = "wait" /\ call[q].key = k => call'[q].pc = "woken"
               /\ ~(call[q].pc = "wait" /\ call[q].key = k) => call'[q] = call[q]
<1>1. ASSUME NEW q \in Calls
      PROVE  /\ call[q] \in CallTypes
             /\ [call[q] EXCEPT !.pc = "woken"] \in CallTypes
  BY DEF Types, CallTypes, Pcs
<1>2. \A q \in Calls : call'[q] = IF q = p THEN Idle
         ELSE IF call[q].pc = "wait" /\ call[q].key = k
              THEN [call[q] EXCEPT !.pc = "woken"] ELSE call[q]
  BY DEF wake
<1>3. call' \in [Calls -> CallTypes]
  BY <1>1, IdleIsTyped DEF wake
<1>4. ASSUME NEW q \in Calls \ {p}
      PROVE  /\ Same(q)
             /\ call[q].pc = "wait" /\ call[q].key = k => call'[q].pc = "woken"
             /\ ~(call[q].pc = "wait" /\ call[q].key = k) => call'[q] = call[q]
  BY <1>1, <1>2 DEF Same, CallTypes
<1> QED
  BY <1>2, <1>3, <1>4

(* get drops an entry or leaves it alone.                                  *)
LEMMA GetKeeps ==
  ASSUME NEW k \in Keys, Types, get(k)
  PROVE  /\ entry' \in [Keys -> EntryTypes]
         /\ \A x \in Keys : entry'[x] = entry[x] \/ entry'[x] = NoEntry
<1>1. NoEntry \in EntryTypes
  BY ConfigAssumption DEF NoEntry, EntryTypes
<1>2. entry' = entry \/ entry' = [entry EXCEPT ![k] = NoEntry]
  BY DEF get, remove, cache
<1> QED
  BY <1>1, <1>2 DEF Types, EntryTypes

(* store puts the new version in its place, or drops it, and changes no    *)
(* other entry except to evict it.                                         *)
LEMMA StoreKeeps ==
  ASSUME NEW k \in Keys, NEW v \in Versions, Types, store(k, v)
  PROVE  /\ entry' \in [Keys -> EntryTypes]
         /\ \A x \in Keys \ {k} : entry'[x] = entry[x] \/ entry'[x] = NoEntry
         /\ AllFit => entry'[k] = NoEntry \/ entry'[k].version = v
<1>1. NoEntry \in EntryTypes
  BY ConfigAssumption DEF NoEntry, EntryTypes
<1>2. CASE Size[v] > MaxBytes
  <2>1. ~AllFit
    BY <1>2, ConfigAssumption DEF AllFit
  <2>2. entry' = entry
    BY <1>2 DEF store, cache
  <2> QED
    BY <2>1, <2>2 DEF Types, EntryTypes
<1>3. CASE ~(Size[v] > MaxBytes)
  <2> DEFINE new == [version |-> v, expires |-> Lifetime(v), bytes |-> Size[v]]
             e == [entry EXCEPT ![k] = new]
  <2>1. new \in EntryTypes
    BY ConfigAssumption DEF EntryTypes, Lifetime, Versions
  <2>2. e \in [Keys -> EntryTypes] /\ e[k] = new
        /\ \A x \in Keys \ {k} : e[x] = entry[x]
    BY <2>1 DEF Types, EntryTypes
  <2>3. PICK gone : entry' = [x \in Keys |-> IF x \in gone THEN NoEntry ELSE e[x]]
    BY <1>3 DEF store
  <2>4. new.version = v
    OBVIOUS
  <2> HIDE DEF e, new
  <2> QED
    BY <1>1, <2>2, <2>3, <2>4
<1> QED
  BY <1>2, <1>3

-----------------------------------------------------------------------------
(* The records and functions an action builds have the types of the        *)
(* variables.                                                              *)
LEMMA TypesInit == Init => Types
<1>1. NoEntry \in [version : 0..MaxVersion, expires : Nat, bytes : Nat]
  BY ConfigAssumption DEF NoEntry
<1>2. 1 \in Versions /\ 0 \in 0..MaxVersion
  BY VersionsAreNumbers DEF Versions
<1> QED
  BY <1>1, <1>2, IdleIsTyped DEF Init, Types

(* A call that asks the cache and returns or goes on.                      *)
LEMMA TypesAnswer ==
  ASSUME Types, NEW p \in Calls, Get(p) \/ Woken(p)
  PROVE  Types'
<1> DEFINE k == call[p].key
<1>1. k \in Keys /\ get(k)
  BY DEF Types, CallTypes, Get, Woken
<1>2. entry' \in [Keys -> EntryTypes]
  BY <1>1, GetKeeps
<1>3. entry[k].version \in 0..MaxVersion
  BY <1>1 DEF Types
<1>4. \/ call' = [call EXCEPT ![p] = Idle]
      \/ call' = [call EXCEPT ![p].pc = "lead"]
      \/ call' = [call EXCEPT ![p].pc = "get"]
  BY DEF Get, Woken, Returns
<1>5. /\ call' \in [Calls -> CallTypes]
      /\ \A q \in Calls : call'[q].pc = "finish" => call'[q].version \in Versions
  <2>1. CASE call' = [call EXCEPT ![p] = Idle]
    BY <2>1, Leaves, IdleIsTyped DEF Types
  <2>2. CASE call' = [call EXCEPT ![p].pc = "lead"]
    BY <2>2, MovesOn DEF Types, Pcs
  <2>3. CASE call' = [call EXCEPT ![p].pc = "get"]
    BY <2>3, MovesOn DEF Types, Pcs
  <2> QED
    BY <1>4, <2>1, <2>2, <2>3
<1>6. seen' \in [Keys -> 0..MaxVersion]
  BY <1>1, <1>3 DEF Get, Woken, Returns, Types
<1>7. UNCHANGED <<inflight, db>>
  BY DEF Get, Woken
<1> QED
  BY <1>2, <1>5, <1>6, <1>7 DEF Types, EntryTypes

LEMMA TypesStep == Types /\ [Next]_vars => Types'
<1> SUFFICES ASSUME Types, [Next]_vars PROVE Types'
  OBVIOUS
<1>1. ASSUME NEW p \in Calls, NEW k \in Keys, NEW fresh \in BOOLEAN,
             Begin(p, k, fresh)
      PROVE  Types'
  <2>1. [pc |-> IF fresh THEN "lead" ELSE "get", key |-> k, fresh |-> fresh,
         version |-> 0, floor |-> seen[k]] \in CallTypes
    BY VersionsAreNumbers DEF Types, CallTypes, Pcs
  <2> QED
    BY <1>1, <2>1 DEF Begin, Types, cache
<1>2. ASSUME NEW p \in Calls, Step(p) PROVE Types'
  <2> DEFINE k == call[p].key
  <2>1. k \in Keys
    BY DEF Types, CallTypes
  <2>2. CASE Get(p) \/ Woken(p)
    BY <2>2, TypesAnswer
  <2>3. CASE Lead(p)
    BY <2>1, <2>3, MovesOn DEF Lead, Types, cache, Pcs
  <2>4. CASE Follow(p)
    BY <2>4, MovesOn DEF Follow, Types, cache, Pcs
  <2>5. CASE Refused(p)
    BY <2>5, Leaves, IdleIsTyped DEF Refused, Types, cache
  <2>6. CASE Read(p)
    <3> DEFINE read == [call[p] EXCEPT !.pc = "finish", !.version = db[k]]
    <3>1. db[k] \in Versions /\ db[k] \in 0..MaxVersion
      BY <2>1, VersionsAreNumbers DEF Types
    <3>2. call[p] \in CallTypes
      BY DEF Types
    <3>3. read \in CallTypes /\ read.version = db[k]
      BY <3>1, <3>2 DEF CallTypes, Pcs
    <3>4. call' = [call EXCEPT ![p] = read]
      BY <2>6 DEF Read
    <3> HIDE DEF read
    <3> QED
      BY <2>6, <3>1, <3>3, <3>4 DEF Read, Types, cache
  <2>7. CASE Fails(p)
    BY <2>1, <2>7, Wakes, IdleIsTyped DEF Fails, Types, cache
  <2>8. CASE Finish(p)
    <3>1. call[p].version \in Versions /\ call[p].version \in 0..MaxVersion
      BY <2>8, VersionsAreNumbers DEF Finish, Types
    <3>2. entry' \in [Keys -> EntryTypes]
      BY <2>1, <2>8, <3>1, StoreKeeps DEF Finish
    <3>3. /\ call' \in [Calls -> CallTypes]
          /\ \A q \in Calls : call'[q].pc = "finish" => call'[q].version \in Versions
      BY <2>1, <2>8, Wakes, IdleIsTyped DEF Finish, Types
    <3>4. /\ seen' \in [Keys -> 0..MaxVersion]
          /\ inflight' \in [Keys -> Calls \cup {NoCall}]
      BY <2>1, <2>8, <3>1 DEF Finish, Types
    <3>5. db' = db
      BY <2>8 DEF Finish
    <3> QED
      BY <3>2, <3>3, <3>4, <3>5 DEF Types, EntryTypes
  <2> QED
    BY <1>2, <2>2, <2>3, <2>4, <2>5, <2>6, <2>7, <2>8 DEF Step
<1>3. ASSUME NEW k \in Keys, Alter(k) PROVE Types'
  <2>1. db[k] + 1 \in Versions
    <3>1. db[k] \in Versions /\ db[k] < MaxVersion
      BY <1>3 DEF Alter, Types
    <3> QED
      BY <3>1, VersionsAreNumbers DEF Versions
  <2>2. db' \in [Keys -> Versions]
    BY <1>3, <2>1 DEF Alter, Types
  <2> QED
    BY <1>3, <2>2 DEF Alter, Types, cache
<1>4. CASE Close
  <2>1. NoEntry \in EntryTypes
    BY ConfigAssumption DEF NoEntry, EntryTypes
  <2> QED
    BY <1>4, <2>1 DEF Close, Types, EntryTypes
<1>5. CASE Tick
  <2>1. ASSUME NEW k \in Keys
        PROVE  [entry[k] EXCEPT !.expires = Countdown(@)] \in EntryTypes
    <3>1. entry[k] \in EntryTypes
      BY DEF Types, EntryTypes
    <3>2. Countdown(entry[k].expires) \in Nat
      BY <3>1 DEF Countdown, EntryTypes
    <3> QED
      BY <3>1, <3>2 DEF EntryTypes
  <2>2. entry' \in [Keys -> EntryTypes]
    BY <1>5, <2>1 DEF Tick
  <2> QED
    BY <1>5, <2>2 DEF Tick, Types, EntryTypes
<1>6. CASE UNCHANGED vars
  BY <1>6 DEF vars, cache, Types
<1> QED
  BY <1>1, <1>2, <1>3, <1>4, <1>5, <1>6 DEF Next

-----------------------------------------------------------------------------
LEMMA SingleFlightInit == Init => SingleFlight
BY ConfigAssumption, IdleIsTyped DEF Init, SingleFlight

(* A step that only moves one call between the states outside a read.      *)
LEMMA SingleFlightOutside ==
  ASSUME Types, SingleFlight, NEW p \in Calls, inflight' = inflight,
         call[p].pc \notin {"reading", "finish"},
         call'[p].pc \notin {"reading", "finish"},
         call'[p].pc = "wait" => inflight[call'[p].key] # NoCall,
         \A q \in Calls \ {p} : call'[q] = call[q]
  PROVE  SingleFlight'
<1>1. \A k \in Keys : inflight[k] # p
  BY ConfigAssumption DEF SingleFlight
<1>2. \A k \in Keys : inflight[k] # NoCall => inflight[k] \in Calls \ {p}
  BY <1>1 DEF Types
<1> QED
  BY <1>2 DEF SingleFlight

(* A leader gives its key back and wakes its followers.                    *)
LEMMA SingleFlightDone ==
  ASSUME Types, SingleFlight, NEW p \in Calls, NEW k \in Keys,
         k = call[p].key, call[p].pc \in {"reading", "finish"},
         call' = wake(p, k), inflight' = [inflight EXCEPT ![k] = NoCall]
  PROVE  SingleFlight'
<1>1. /\ call'[p] = Idle
      /\ \A q \in Calls \ {p} :
            /\ call'[q].key = call[q].key
            /\ call[q].pc = "wait" /\ call[q].key = k => call'[q].pc = "woken"
            /\ ~(call[q].pc = "wait" /\ call[q].key = k) => call'[q] = call[q]
  BY Wakes DEF Same
<1>2. inflight'[k] = NoCall /\ \A x \in Keys \ {k} : inflight'[x] = inflight[x]
  BY DEF Types
<1>3. \A q \in Calls : call[q].key \in Keys
  BY DEF Types, CallTypes
<1>4. ASSUME NEW x \in Keys, inflight'[x] # NoCall
      PROVE  call'[inflight'[x]].key = x
             /\ call'[inflight'[x]].pc \in {"reading", "finish"}
  <2> DEFINE q == inflight[x]
  <2>1. x # k /\ inflight'[x] = q /\ q \in Calls
    BY <1>2, <1>4 DEF Types
  <2>2. call[q].key = x /\ call[q].pc \in {"reading", "finish"}
    BY <1>4, <2>1 DEF SingleFlight
  <2>3. q # p /\ call'[q] = call[q]
    BY <1>1, <2>1, <2>2
  <2> QED
    BY <2>1, <2>2, <2>3
<1>5. ASSUME NEW q \in Calls, call'[q].pc \in {"reading", "finish"}
      PROVE  inflight'[call'[q].key] = q
  <2>1. q # p /\ call'[q] = call[q]
    BY <1>1, <1>5, IdleIsTyped
  <2>2. inflight[call[q].key] = q
    BY <1>5, <2>1 DEF SingleFlight
  <2>3. inflight[k] = p
    BY DEF SingleFlight
  <2> QED
    BY <1>2, <1>3, <2>1, <2>2, <2>3
<1>6. ASSUME NEW q \in Calls, call'[q].pc = "wait"
      PROVE  inflight'[call'[q].key] # NoCall
  <2>1. q # p
    BY <1>1, <1>6, IdleIsTyped
  <2>2. call'[q] = call[q] /\ call[q].key # k
    BY <1>1, <1>6, <2>1
  <2> QED
    BY <1>2, <1>3, <1>6, <2>2 DEF SingleFlight
<1> QED
  BY <1>4, <1>5, <1>6 DEF SingleFlight

LEMMA SingleFlightStep == Types /\ SingleFlight /\ [Next]_vars => SingleFlight'
<1> SUFFICES ASSUME Types, SingleFlight, [Next]_vars PROVE SingleFlight'
  OBVIOUS
<1>1. ASSUME NEW p \in Calls, NEW k \in Keys, NEW fresh \in BOOLEAN,
             Begin(p, k, fresh)
      PROVE  SingleFlight'
  <2>1. /\ call'[p].pc \in {"lead", "get"} /\ call[p].pc = "idle"
        /\ inflight' = inflight
        /\ \A q \in Calls \ {p} : call'[q] = call[q]
    BY <1>1 DEF Begin, Types
  <2> QED
    BY <2>1, SingleFlightOutside
<1>2. ASSUME NEW p \in Calls, Step(p) PROVE SingleFlight'
  <2> DEFINE k == call[p].key
  <2>1. k \in Keys
    BY DEF Types, CallTypes
  <2>2. CASE Get(p) \/ Woken(p)
    <3>1. call[p].pc \in {"get", "woken"} /\ inflight' = inflight
      BY <2>2 DEF Get, Woken
    <3>2. \/ call' = [call EXCEPT ![p] = Idle]
          \/ call' = [call EXCEPT ![p].pc = "lead"]
          \/ call' = [call EXCEPT ![p].pc = "get"]
      BY <2>2 DEF Get, Woken, Returns
    <3>3. /\ call'[p].pc \in {"idle", "lead", "get"}
          /\ \A q \in Calls \ {p} : call'[q] = call[q]
      BY <3>2, MovesOn, Leaves, IdleIsTyped DEF Pcs
    <3> QED
      BY <3>1, <3>3, SingleFlightOutside
  <2>3. CASE Lead(p)
    <3>1. inflight[k] = NoCall /\ inflight' = [inflight EXCEPT ![k] = p]
      BY <2>3 DEF Lead, MayLead
    <3>2. /\ call'[p].pc = "reading" /\ call'[p].key = k
          /\ \A q \in Calls \ {p} : call'[q] = call[q]
      BY <2>3, MovesOn DEF Lead, Pcs, Same
    <3>3. inflight'[k] = p /\ \A x \in Keys \ {k} : inflight'[x] = inflight[x]
      BY <2>1, <3>1 DEF Types
    <3>4. call[p].pc = "lead"
      BY <2>3 DEF Lead
    <3>5. \A q \in Calls : call[q].key \in Keys
      BY DEF Types, CallTypes
    <3>6. ASSUME NEW x \in Keys, inflight'[x] # NoCall
          PROVE  call'[inflight'[x]].key = x
                 /\ call'[inflight'[x]].pc \in {"reading", "finish"}
      <4>1. CASE x = k
        BY <3>2, <3>3, <4>1
      <4>2. CASE x # k
        <5>1. inflight'[x] = inflight[x] /\ inflight[x] \in Calls
          BY <3>3, <3>6, <4>2 DEF Types
        <5>2. inflight[x] # p
          BY <3>4, <3>6, <5>1 DEF SingleFlight
        <5> QED
          BY <3>2, <3>6, <5>1, <5>2 DEF SingleFlight
      <4> QED
        BY <4>1, <4>2
    <3>7. ASSUME NEW q \in Calls, call'[q].pc \in {"reading", "finish"}
          PROVE  inflight'[call'[q].key] = q
      <4>1. CASE q = p
        BY <3>2, <3>3, <4>1
      <4>2. CASE q # p
        <5>1. call'[q] = call[q] /\ inflight[call[q].key] = q
          BY <3>2, <3>7, <4>2 DEF SingleFlight
        <5>2. call[q].key # k
          BY <3>1, <5>1, ConfigAssumption
        <5> QED
          BY <3>3, <3>5, <5>1, <5>2
      <4> QED
        BY <4>1, <4>2
    <3>8. ASSUME NEW q \in Calls, call'[q].pc = "wait"
          PROVE  inflight'[call'[q].key] # NoCall
      <4>1. q # p /\ call'[q] = call[q]
        BY <3>2, <3>8
      <4>2. inflight[call[q].key] # NoCall
        BY <3>8, <4>1 DEF SingleFlight
      <4> QED
        BY <3>1, <3>3, <3>5, <4>1, <4>2
    <3> QED
      BY <3>6, <3>7, <3>8 DEF SingleFlight
  <2>4. CASE Follow(p)
    <3>1. /\ call'[p].pc = "wait" /\ call'[p].key = k
          /\ \A q \in Calls \ {p} : call'[q] = call[q]
      BY <2>4, MovesOn DEF Follow, Pcs, Same
    <3> QED
      BY <2>4, <3>1, SingleFlightOutside DEF Follow, MayLead
  <2>5. CASE Refused(p)
    <3>1. call'[p] = Idle /\ \A q \in Calls \ {p} : call'[q] = call[q]
      BY <2>5, Leaves DEF Refused
    <3>2. call[p].pc \in {"get", "lead", "wait"} /\ inflight' = inflight
      BY <2>5 DEF Refused
    <3> QED
      BY <3>1, <3>2, IdleIsTyped, SingleFlightOutside
  <2>6. CASE Read(p)
    <3>1. call[p].pc = "reading" /\ inflight' = inflight
      BY <2>6 DEF Read
    <3>2. call' = [call EXCEPT ![p] = [@ EXCEPT !.pc = "finish", !.version = db[k]]]
      BY <2>6 DEF Read
    <3>3. /\ call'[p].pc = "finish" /\ call'[p].key = k
          /\ \A q \in Calls \ {p} : call'[q] = call[q]
      BY <3>2 DEF Types, CallTypes
    <3>4. inflight[k] = p
      BY <3>1 DEF SingleFlight
    <3>5. \A x \in Keys : inflight[x] # NoCall => inflight[x] \in Calls
      BY DEF Types
    <3> QED
      BY <3>1, <3>3, <3>4, <3>5 DEF SingleFlight
  <2>7. CASE Fails(p) \/ Finish(p)
    BY <2>1, <2>7, SingleFlightDone DEF Fails, Finish
  <2> QED
    BY <1>2, <2>2, <2>3, <2>4, <2>5, <2>6, <2>7 DEF Step
<1>3. ASSUME NEW k \in Keys, Alter(k) PROVE SingleFlight'
  BY <1>3 DEF Alter, SingleFlight
<1>4. CASE Close
  BY <1>4 DEF Close, SingleFlight
<1>5. CASE Tick
  BY <1>5 DEF Tick, SingleFlight
<1>6. CASE UNCHANGED vars
  BY <1>6 DEF vars, SingleFlight
<1> QED
  BY <1>1, <1>2, <1>3, <1>4, <1>5, <1>6 DEF Next

(* Identical misses coalesce, for any number of calls and keys: a key is   *)
(* read by one call at a time (lead and leadRefresh), and nobody is left   *)
(* waiting on a read that nobody leads (finish).                           *)
THEOREM SingleFlightHolds == Spec => []SingleFlight
<1>1. Init => Types /\ SingleFlight
  BY TypesInit, SingleFlightInit
<1>2. Types /\ SingleFlight /\ [Next]_vars => Types' /\ SingleFlight'
  BY TypesStep, SingleFlightStep
<1> QED
  BY <1>1, <1>2, PTL DEF Spec

-----------------------------------------------------------------------------
LEMMA Numbers ==
  ASSUME Types
  PROVE  /\ \A k \in Keys : db[k] \in Nat /\ seen[k] \in Nat
         /\ \A p \in Calls : call[p].floor \in Nat /\ call[p].version \in Nat
<1>1. (\A v \in Versions : v \in Nat) /\ (\A v \in 0..MaxVersion : v \in Nat)
  BY VersionsAreNumbers
<1>2. \A k \in Keys : db[k] \in Versions /\ seen[k] \in 0..MaxVersion
  BY DEF Types
<1>3. \A p \in Calls : /\ call[p].floor \in 0..MaxVersion
                       /\ call[p].version \in 0..MaxVersion
  BY DEF Types, CallTypes
<1> QED
  BY <1>1, <1>2, <1>3

LEMMA CoherentInit == Init => Coherent
<1> SUFFICES ASSUME Init PROVE Coherent
  OBVIOUS
<1>1. \A k \in Keys : entry[k].expires = 0 /\ seen[k] = 0 /\ db[k] = 1
  BY DEF Init, NoEntry
<1>2. \A p \in Calls : call[p] = Idle /\ call[p].key \in Keys
  BY IdleIsTyped DEF Init, CallTypes
<1> QED
  BY <1>1, <1>2, IdleIsTyped DEF Coherent

(* A step that changes no entry but to drop it, reads nothing and begins   *)
(* nothing.                                                                *)
LEMMA CoherentKept ==
  ASSUME Types, Types', Coherent, UNCHANGED <<seen, db>>,
         \A k \in Keys : \/ entry'[k] = entry[k]
                         \/ entry'[k].expires = 0,
         \A p \in Calls : \/ call'[p] = Idle
                          \/ /\ Same(p)
                             /\ call'[p].pc = "finish" => call[p].pc = "finish"
  PROVE  Coherent'
<1>1. ASSUME NEW k \in Keys
      PROVE  /\ entry'[k].expires > 0 => entry'[k].version = seen'[k]
             /\ seen'[k] <= db'[k]
  BY DEF Coherent
<1>2. ASSUME NEW p \in Calls
      PROVE  /\ call'[p].floor <= seen'[call'[p].key]
             /\ call'[p].pc = "finish" =>
                   /\ call'[p].version >= seen'[call'[p].key]
                   /\ call'[p].version \in 1..db'[call'[p].key]
  <2>1. CASE call'[p] = Idle
    <3>1. Idle.key \in Keys /\ seen[Idle.key] \in Nat
      BY IdleIsTyped, Numbers DEF CallTypes
    <3> QED
      BY <2>1, <3>1, IdleIsTyped
  <2>2. CASE Same(p) /\ (call'[p].pc = "finish" => call[p].pc = "finish")
    BY <2>2 DEF Same, Coherent
  <2> QED
    BY <2>1, <2>2
<1> QED
  BY <1>1, <1>2 DEF Coherent

(* Asking the cache returns the newest version, so it teaches nothing.     *)
LEMMA CoherentAnswer ==
  ASSUME Types, Types', Coherent, NEW p \in Calls, Get(p) \/ Woken(p)
  PROVE  Coherent'
<1> DEFINE k == call[p].key
<1>1. k \in Keys /\ get(k)
  BY DEF Types, CallTypes, Get, Woken
<1>2. \A x \in Keys : entry'[x] = entry[x] \/ entry'[x].expires = 0
  BY <1>1, GetKeeps DEF NoEntry
<1>3. Hit(k) => entry[k].version = seen[k]
  BY <1>1 DEF Hit, Coherent
<1>4. seen[k] \in Nat
  BY <1>1, Numbers
<1>5. \/ seen' = seen
      \/ seen' = [seen EXCEPT ![k] = IF entry[k].version > seen[k]
                                     THEN entry[k].version ELSE seen[k]] /\ Hit(k)
  BY DEF Get, Woken, Returns
<1>6. seen' = seen /\ db' = db
  BY <1>1, <1>3, <1>4, <1>5 DEF Types, Get, Woken
<1>7. \/ call' = [call EXCEPT ![p] = Idle]
      \/ call' = [call EXCEPT ![p].pc = "lead"]
      \/ call' = [call EXCEPT ![p].pc = "get"]
  BY DEF Get, Woken, Returns
<1>8. \A q \in Calls : \/ call'[q] = Idle
                       \/ /\ Same(q)
                          /\ call'[q].pc = "finish" => call[q].pc = "finish"
  <2>1. CASE call' = [call EXCEPT ![p] = Idle]
    BY <2>1, Leaves DEF Same
  <2>2. ASSUME NEW c \in {"lead", "get"}, call' = [call EXCEPT ![p].pc = c]
        PROVE  \A q \in Calls : Same(q) /\ (call'[q].pc = "finish" => call[q].pc = "finish")
    BY <2>2, MovesOn DEF Same, Pcs
  <2> QED
    BY <1>7, <2>1, <2>2
<1> QED
  BY <1>2, <1>6, <1>8, CoherentKept

LEMMA CoherentFinish ==
  ASSUME Types, SingleFlight, Coherent, AllFit, NEW p \in Calls, Finish(p)
  PROVE  Coherent'
<1> DEFINE k == call[p].key
           v == call[p].version
<1>1. k \in Keys /\ v \in Versions /\ call[p].pc = "finish"
  BY DEF Types, CallTypes, Finish
<1>2. v >= seen[k] /\ v \in 1..db[k] /\ seen[k] \in Nat
  BY <1>1, Numbers DEF Coherent
<1>n. v \in Nat /\ \A x \in Keys : seen[x] \in Nat /\ db[x] \in Nat
  BY Numbers
<1>3. /\ seen'[k] = v /\ \A x \in Keys \ {k} : seen'[x] = seen[x]
      /\ db' = db
  <2>1. seen' = [seen EXCEPT ![k] = IF v > seen[k] THEN v ELSE seen[k]] /\ db' = db
    BY DEF Finish
  <2>2. (IF v > seen[k] THEN v ELSE seen[k]) = v
    BY <1>1, <1>2, <1>n
  <2>3. seen \in [Keys -> 0..MaxVersion]
    BY DEF Types
  <2> HIDE DEF k, v
  <2> QED
    BY <1>1, <2>1, <2>2, <2>3
<1>4. /\ \A x \in Keys \ {k} : entry'[x] = entry[x] \/ entry'[x] = NoEntry
      /\ entry'[k] = NoEntry \/ entry'[k].version = v
  BY <1>1, StoreKeeps DEF Finish
<1>5. ASSUME NEW x \in Keys
      PROVE  /\ entry'[x].expires > 0 => entry'[x].version = seen'[x]
             /\ seen'[x] <= db'[x]
  <2>1. db[x] \in Nat /\ NoEntry.expires = 0
    BY Numbers DEF NoEntry
  <2>2. CASE x = k
    BY <1>2, <1>3, <1>4, <2>1, <2>2
  <2>3. CASE x # k
    BY <1>3, <1>4, <2>1, <2>3 DEF Coherent
  <2> QED
    BY <2>2, <2>3
<1>6. /\ call'[p] = Idle
      /\ \A q \in Calls \ {p} : /\ Same(q)
                                /\ call'[q].pc = "finish" => call[q].pc = "finish"
  <2>1. call' = wake(p, k)
    BY DEF Finish
  <2> QED
    BY <1>1, <2>1, Wakes
<1>7. ASSUME NEW q \in Calls
      PROVE  /\ call'[q].floor <= seen'[call'[q].key]
             /\ call'[q].pc = "finish" =>
                   /\ call'[q].version >= seen'[call'[q].key]
                   /\ call'[q].version \in 1..db'[call'[q].key]
  <2>1. CASE q = p
    <3>1. Idle.key \in Keys
      BY IdleIsTyped DEF CallTypes
    <3>2. seen'[Idle.key] >= 0
      BY <1>3, <1>n, <3>1
    <3> QED
      BY <1>6, <2>1, <3>2, IdleIsTyped
  <2>2. CASE q # p
    <3>1. Same(q) /\ call[q].key \in Keys
      BY <1>6, <2>2 DEF Types, CallTypes
    <3>2. call[q].floor <= seen[call[q].key]
      BY DEF Coherent
    <3>3. call[q].floor \in Nat
      BY Numbers
    <3>4. call'[q].floor <= seen'[call'[q].key]
      BY <1>2, <1>3, <1>n, <3>1, <3>2, <3>3 DEF Same
    <3>5. ASSUME call'[q].pc = "finish"
          PROVE  /\ call'[q].version >= seen'[call'[q].key]
                 /\ call'[q].version \in 1..db'[call'[q].key]
      <4>1. call[q].pc = "finish"
        BY <1>6, <2>2, <3>5
      <4>2. call[q].key # k
        BY <1>1, <2>2, <4>1 DEF SingleFlight
      <4> QED
        BY <1>3, <3>1, <4>1, <4>2 DEF Same, Coherent
    <3> QED
      BY <3>4, <3>5
  <2> QED
    BY <2>1, <2>2
<1> QED
  BY <1>5, <1>7 DEF Coherent

LEMMA CoherentStep ==
  ASSUME AllFit
  PROVE  Types /\ SingleFlight /\ Coherent /\ [Next]_vars => Coherent'
<1> SUFFICES ASSUME Types, SingleFlight, Coherent, [Next]_vars PROVE Coherent'
  OBVIOUS
<1>1. Types'
  BY TypesStep
<1>2. ASSUME NEW p \in Calls, NEW k \in Keys, NEW fresh \in BOOLEAN,
             Begin(p, k, fresh)
      PROVE  Coherent'
  <2>1. /\ call'[p].key = k /\ call'[p].floor = seen[k]
        /\ call'[p].pc \in {"lead", "get"}
        /\ \A q \in Calls \ {p} : call'[q] = call[q]
    BY <1>2 DEF Begin, Types
  <2>2. UNCHANGED <<entry, seen, db>> /\ seen[k] \in Nat
    BY <1>2, Numbers DEF Begin, cache
  <2> QED
    BY <2>1, <2>2 DEF Coherent
<1>3. ASSUME NEW p \in Calls, Step(p) PROVE Coherent'
  <2> DEFINE k == call[p].key
  <2>1. k \in Keys
    BY DEF Types, CallTypes
  <2>2. CASE Get(p) \/ Woken(p)
    BY <1>1, <2>2, CoherentAnswer
  <2>3. CASE Lead(p) \/ Follow(p)
    <3>1. \/ call' = [call EXCEPT ![p].pc = "reading"]
          \/ call' = [call EXCEPT ![p].pc = "wait"]
      BY <2>3 DEF Lead, Follow
    <3>2. \A q \in Calls : Same(q) /\ (call'[q].pc = "finish" => call[q].pc = "finish")
      BY <3>1, MovesOn DEF Pcs, Same
    <3>3. UNCHANGED <<entry, seen, db>>
      BY <2>3 DEF Lead, Follow, cache
    <3> QED
      BY <1>1, <3>2, <3>3, CoherentKept
  <2>4. CASE Refused(p)
    <3>1. \A q \in Calls : call'[q] = Idle \/ call'[q] = call[q]
      BY <2>4, Leaves DEF Refused
    <3>2. UNCHANGED <<entry, seen, db>>
      BY <2>4 DEF Refused, cache
    <3> QED
      BY <1>1, <3>1, <3>2, CoherentKept DEF Same
  <2>5. CASE Read(p)
    <3>1. call' = [call EXCEPT ![p] = [@ EXCEPT !.pc = "finish", !.version = db[k]]]
      BY <2>5 DEF Read
    <3>2. /\ call'[p].version = db[k] /\ call'[p].key = k
          /\ call'[p].floor = call[p].floor
          /\ \A q \in Calls \ {p} : call'[q] = call[q]
      BY <3>1 DEF Types, CallTypes
    <3>3. UNCHANGED <<entry, seen, db>>
      BY <2>5 DEF Read, cache
    <3>4. db[k] >= seen[k] /\ db[k] \in 1..db[k]
      <4>1. db[k] \in Versions
        BY <2>1 DEF Types
      <4> QED
        BY <2>1, <4>1, VersionsAreNumbers DEF Coherent, Versions
    <3> QED
      BY <3>2, <3>3, <3>4 DEF Coherent
  <2>6. CASE Fails(p)
    <3>1. call' = wake(p, k) /\ UNCHANGED <<entry, seen, db>>
      BY <2>6 DEF Fails, cache
    <3>2. \A q \in Calls : \/ call'[q] = Idle
                           \/ /\ Same(q)
                              /\ call'[q].pc = "finish" => call[q].pc = "finish"
      BY <2>1, <3>1, Wakes
    <3> QED
      BY <1>1, <3>1, <3>2, CoherentKept
  <2>7. CASE Finish(p)
    BY <2>7, CoherentFinish
  <2> QED
    BY <1>3, <2>2, <2>3, <2>4, <2>5, <2>6, <2>7 DEF Step
<1>4. ASSUME NEW k \in Keys, Alter(k) PROVE Coherent'
  <2>1. /\ db'[k] = db[k] + 1 /\ \A x \in Keys \ {k} : db'[x] = db[x]
        /\ UNCHANGED <<entry, seen, call>>
    BY <1>4 DEF Alter, Types, cache
  <2>2. \A x \in Keys : db[x] \in Nat /\ db'[x] \in Nat /\ db[x] <= db'[x]
    BY <2>1, Numbers
  <2>3. \A q \in Calls : call[q].key \in Keys
    BY DEF Types, CallTypes
  <2> QED
    BY <2>1, <2>2, <2>3, Numbers DEF Coherent
<1>5. CASE Close
  <2>1. \A x \in Keys : entry'[x].expires = 0
    BY <1>5 DEF Close, NoEntry
  <2>2. UNCHANGED <<seen, db, call>>
    BY <1>5 DEF Close
  <2> QED
    BY <2>1, <2>2 DEF Coherent
<1>6. CASE Tick
  <2>1. ASSUME NEW x \in Keys
        PROVE  /\ entry'[x].expires > 0 => entry[x].expires > 0
               /\ entry'[x].version = entry[x].version
    <3>1. entry'[x] = [entry[x] EXCEPT !.expires = Countdown(@)]
      BY <1>6 DEF Tick
    <3>2. entry[x] \in EntryTypes
      BY DEF Types, EntryTypes
    <3> QED
      BY <3>1, <3>2 DEF EntryTypes, Countdown
  <2>2. UNCHANGED <<seen, db, call>>
    BY <1>6 DEF Tick
  <2> QED
    BY <2>1, <2>2 DEF Coherent
<1>7. CASE UNCHANGED vars
  BY <1>7 DEF vars, cache, Coherent
<1> QED
  BY <1>2, <1>3, <1>4, <1>5, <1>6, <1>7 DEF Next

(* What a hit returns is not older than what anybody had been given when   *)
(* the call began.                                                         *)
LEMMA HitIsNewest ==
  ASSUME Types, Coherent, NEW p \in Calls, Hit(call[p].key)
  PROVE  entry[call[p].key].version >= call[p].floor
<1>1. call[p].key \in Keys
  BY DEF Types, CallTypes
<1>2. call[p].floor \in Nat /\ seen[call[p].key] \in Nat
  BY <1>1, Numbers
<1> QED
  BY <1>1, <1>2 DEF Coherent, Hit

(* Metadata never goes back, for any number of calls, keys, versions and   *)
(* any limits, as long as every version fits in the cache: what get returns *)
(* to a call is at least as new as what any call had returned when it      *)
(* began.  Without the premise finish leaves an older entry in place.      *)
THEOREM MonotonicReadsHold == ASSUME AllFit PROVE Spec => MonotonicReads
<1>1. Init => Types /\ SingleFlight /\ Coherent
  BY TypesInit, SingleFlightInit, CoherentInit
<1>2. Types /\ SingleFlight /\ Coherent /\ [Next]_vars
         => Types' /\ SingleFlight' /\ Coherent'
  BY TypesStep, SingleFlightStep, CoherentStep
<1>3. Types /\ Coherent /\ [Next]_vars =>
         [\A p \in Calls :
             LET k == call[p].key
                 v == entry[k].version IN
             call[p].pc \in {"get", "woken"} /\ call'[p].pc = "idle" /\ Hit(k)
                => v >= call[p].floor]_vars
  BY HitIsNewest
<1> QED
  BY <1>1, <1>2, <1>3, PTL DEF Spec, MonotonicReads

-----------------------------------------------------------------------------
(* The list, the map and the byte count.                                   *)

LEMMA MaxIsMember ==
  ASSUME NEW S \in SUBSET Nat, NEW b \in Nat, \A x \in S : x <= b, S # {}
  PROVE  Max(S) \in S
<1> DEFINE Less == OpToRel(<, Nat)
           T == {b - x : x \in S}
<1>1. T \subseteq Nat /\ T # {}
  <2>1. \A x \in S : b - x \in Nat
    OBVIOUS
  <2>2. PICK x : x \in S
    OBVIOUS
  <2> QED
    BY <2>1, <2>2
<1>2. IsWellFoundedOn(Less, Nat)
  BY NatLessThanWellFounded
<1>3. \E x \in T : \A y \in T : ~ (<<y, x>> \in Less)
  <2> HIDE DEF T, Less
  <2> QED
    BY <1>1, <1>2, WFMin
<1>4. PICK x \in T : \A y \in T : ~ (<<y, x>> \in Less)
  BY <1>3
<1>5. \A y \in T : ~(y < x)
  BY <1>1, <1>4 DEF OpToRel
<1>6. PICK m \in S : x = b - m
  BY <1>4
<1>7. \A y \in S : m >= y
  <2> TAKE y \in S
  <2>1. b - y \in T
    OBVIOUS
  <2>2. ~(b - y < b - m)
    BY <1>5, <1>6, <2>1
  <2> QED
    BY <2>2
<1> QED
  BY <1>7 DEF Max

(* A list of different keys, and its keys.                                 *)
KeysOf(s) == {s[i] : i \in DOMAIN s}
Distinct(s) == s \in Seq(Keys) /\ \A i, j \in DOMAIN s : s[i] = s[j] => i = j

LEMMA FirstNumbers ==
  ASSUME NEW n \in Nat
  PROVE  IsFiniteSet(1..n) /\ Cardinality(1..n) = n
<1>1. /\ IsFiniteSet(1..n)
      /\ Cardinality(1..n) = IF 1 > n THEN 0 ELSE n - 1 + 1
  BY FS_Interval
<1> QED
  BY <1>1

LEMMA DistinctCounted ==
  ASSUME NEW s, Distinct(s)
  PROVE  /\ IsFiniteSet(KeysOf(s)) /\ Cardinality(KeysOf(s)) = Len(s)
         /\ KeysOf(s) \subseteq Keys
<1>1. s \in Seq(Keys) /\ Len(s) \in Nat /\ DOMAIN s = 1..Len(s)
  BY DEF Distinct
<1>2. s \in [1..Len(s) -> KeysOf(s)]
  BY <1>1 DEF KeysOf
<1>3. s \in Surjection(1..Len(s), KeysOf(s))
  BY <1>1, <1>2 DEF Surjection, KeysOf
<1>4. s \in Injection(1..Len(s), KeysOf(s))
  BY <1>1, <1>2 DEF Injection, IsInjective, Distinct
<1>5. IsFiniteSet(1..Len(s)) /\ Cardinality(1..Len(s)) = Len(s)
  BY <1>1, FirstNumbers
<1>6. KeysOf(s) \subseteq Keys
  BY <1>1 DEF KeysOf
<1> QED
  BY <1>3, <1>4, <1>5, <1>6, FS_Surjection

LEMMA WithoutKey ==
  ASSUME NEW s, Distinct(s), NEW k \in Keys
  PROVE  Distinct(Without(s, k)) /\ KeysOf(Without(s, k)) = KeysOf(s) \ {k}
<1>1. s \in Seq(Keys) /\ Len(s) \in Nat /\ DOMAIN s = 1..Len(s)
  BY DEF Distinct
<1>2. CASE ~ \E i \in DOMAIN s : s[i] = k
  BY <1>2 DEF Without, KeysOf
<1>3. CASE \E i \in DOMAIN s : s[i] = k
  <2> DEFINE at == CHOOSE i \in DOMAIN s : s[i] = k
             t == SubSeq(s, 1, at - 1) \o SubSeq(s, at + 1, Len(s))
  <2>1. at \in 1..Len(s) /\ s[at] = k
    BY <1>1, <1>3
  <2>2. Without(s, k) = t
    BY <1>3 DEF Without
  <2> HIDE DEF at
  <2> DEFINE front == SubSeq(s, 1, at - 1)
             back == SubSeq(s, at + 1, Len(s))
  <2>a. /\ front \in Seq(Keys) /\ Len(front) = at - 1
        /\ \A i \in 1..(at - 1) : front[i] = s[i]
    BY <1>1, <2>1
  <2>b. /\ back \in Seq(Keys) /\ Len(back) = Len(s) - at
        /\ \A i \in 1..(Len(s) - at) : back[i] = s[at + i]
    <3>1. /\ \A i \in (at + 1)..Len(s) : s[i] \in Keys
          /\ at + 1 \in Int /\ Len(s) \in Int
      BY <1>1, <2>1
    <3>2. /\ back \in Seq(Keys)
          /\ Len(back) = IF at + 1 <= Len(s) THEN Len(s) - (at + 1) + 1 ELSE 0
          /\ \A i \in 1..(Len(s) - (at + 1) + 1) : back[i] = s[(at + 1) + i - 1]
      BY <3>1, SubSeqProperties
    <3> HIDE DEF back
    <3>3. (IF at + 1 <= Len(s) THEN Len(s) - (at + 1) + 1 ELSE 0) = Len(s) - at
      <4>1. Len(s) \in Int /\ at \in Int /\ 1 <= at /\ at <= Len(s)
        BY <1>1, <2>1
      <4> QED
        BY <4>1
    <3>4. \A i \in 1..(Len(s) - at) :
             (at + 1) + i - 1 = at + i /\ i \in 1..(Len(s) - (at + 1) + 1)
      BY <1>1, <2>1
    <3> QED
      BY <3>2, <3>3, <3>4
  <2>c. t = front \o back
    OBVIOUS
  <2> HIDE DEF t, front, back
  <2>3. t \in Seq(Keys) /\ Len(t) = Len(s) - 1
    <3>1. t \in Seq(Keys) /\ Len(t) = Len(front) + Len(back)
      BY <2>a, <2>b, <2>c, ConcatProperties
    <3> QED
      BY <1>1, <2>1, <2>a, <2>b, <3>1
  <2>d. \A i \in 1..Len(t) : t[i] = IF i < at THEN front[i] ELSE back[i - (at - 1)]
    <3>2. \A i \in 1..(Len(front) + Len(back)) :
             t[i] = IF i <= Len(front) THEN front[i] ELSE back[i - Len(front)]
      BY <2>a, <2>b, <2>c, ConcatProperties
    <3>3. Len(front) + Len(back) = Len(t) /\ Len(front) = at - 1
      BY <1>1, <2>1, <2>3, <2>a, <2>b
    <3>4. \A i \in 1..Len(t) : i <= at - 1 <=> i < at
      BY <1>1, <2>1, <2>3
    <3> QED
      BY <3>2, <3>3, <3>4
  <2>4. \A i \in 1..Len(t) : t[i] = IF i < at THEN s[i] ELSE s[i + 1]
    <3> TAKE i \in 1..Len(t)
    <3>1. CASE i < at
      BY <2>1, <2>a, <2>d, <3>1
    <3>2. CASE ~(i < at)
      <4>1. i - (at - 1) \in 1..(Len(s) - at) /\ at + (i - (at - 1)) = i + 1
        BY <1>1, <2>1, <2>3, <3>2
      <4> QED
        BY <2>b, <2>d, <3>2, <4>1
    <3> QED
      BY <3>1, <3>2
  <2>5. DOMAIN t = 1..Len(t)
    BY <2>3
  <2>6. ASSUME NEW i \in 1..Len(t), NEW j \in 1..Len(t), t[i] = t[j] PROVE i = j
    <3> DEFINE a == IF i < at THEN i ELSE i + 1
               b == IF j < at THEN j ELSE j + 1
    <3>1. a \in 1..Len(s) /\ b \in 1..Len(s) /\ s[a] = s[b]
      BY <1>1, <2>1, <2>3, <2>4, <2>6
    <3>2. a = b
      BY <1>1, <3>1 DEF Distinct
    <3> QED
      BY <2>1, <3>2
  <2>7. ASSUME NEW x \in KeysOf(t) PROVE x \in KeysOf(s) \ {k}
    <3>1. PICK i \in 1..Len(t) : x = t[i]
      BY <2>5, <2>7 DEF KeysOf
    <3> DEFINE a == IF i < at THEN i ELSE i + 1
    <3>2. a \in 1..Len(s) /\ x = s[a] /\ a # at
      BY <1>1, <2>1, <2>3, <2>4, <3>1
    <3> QED
      BY <1>1, <2>1, <3>2 DEF Distinct, KeysOf
  <2>8. ASSUME NEW x \in KeysOf(s), x # k PROVE x \in KeysOf(t)
    <3>1. PICK a \in 1..Len(s) : x = s[a]
      BY <1>1, <2>8 DEF KeysOf
    <3>2. a # at
      BY <2>1, <2>8, <3>1
    <3> DEFINE i == IF a < at THEN a ELSE a - 1
    <3>3. i \in 1..Len(t) /\ t[i] = x
      BY <1>1, <2>1, <2>3, <2>4, <3>1, <3>2
    <3> QED
      BY <2>5, <3>3 DEF KeysOf
  <2> QED
    BY <2>2, <2>3, <2>5, <2>6, <2>7, <2>8 DEF Distinct
<1> QED
  BY <1>2, <1>3

LEMMA InFront ==
  ASSUME NEW t, Distinct(t), NEW k \in Keys, k \notin KeysOf(t)
  PROVE  Distinct(<<k>> \o t) /\ KeysOf(<<k>> \o t) = KeysOf(t) \cup {k}
<1> DEFINE s == <<k>> \o t
<1>1. t \in Seq(Keys) /\ Len(t) \in Nat /\ DOMAIN t = 1..Len(t)
  BY DEF Distinct
<1>2. s \in Seq(Keys) /\ Len(s) = Len(t) + 1 /\ DOMAIN s = 1..Len(s)
  BY <1>1
<1>3. \A i \in 1..Len(s) : s[i] = IF i = 1 THEN k ELSE t[i - 1]
  BY <1>1
<1> HIDE DEF s
<1>4. \A i \in 1..Len(t) : t[i] # k
  BY <1>1 DEF KeysOf
<1>5. ASSUME NEW i \in 1..Len(s), NEW j \in 1..Len(s), s[i] = s[j] PROVE i = j
  <2>1. CASE i = 1 \/ j = 1
    BY <1>1, <1>2, <1>3, <1>4, <1>5, <2>1
  <2>2. CASE i # 1 /\ j # 1
    <3>1. i - 1 \in 1..Len(t) /\ j - 1 \in 1..Len(t)
      BY <1>1, <1>2, <2>2
    <3>2. t[i - 1] = t[j - 1]
      BY <1>3, <1>5, <2>2
    <3>3. i - 1 = j - 1
      BY <1>1, <3>1, <3>2 DEF Distinct
    <3> QED
      BY <3>3
  <2> QED
    BY <2>1, <2>2
<1>6. ASSUME NEW x \in KeysOf(s) PROVE x \in KeysOf(t) \cup {k}
  <2>1. PICK i \in 1..Len(s) : x = s[i]
    BY <1>2, <1>6 DEF KeysOf
  <2>2. CASE i = 1
    BY <1>3, <2>1, <2>2
  <2>3. CASE i # 1
    <3>1. i - 1 \in 1..Len(t) /\ x = t[i - 1]
      BY <1>1, <1>2, <1>3, <2>1, <2>3
    <3> QED
      BY <1>1, <3>1 DEF KeysOf
  <2> QED
    BY <2>2, <2>3
<1>7. ASSUME NEW x \in KeysOf(t) \cup {k} PROVE x \in KeysOf(s)
  <2>1. CASE x = k
    <3>1. 1 \in 1..Len(s) /\ s[1] = k
      BY <1>1, <1>2, <1>3
    <3> QED
      BY <1>2, <2>1, <3>1 DEF KeysOf
  <2>2. CASE x \in KeysOf(t)
    <3>1. PICK i \in 1..Len(t) : x = t[i]
      BY <1>1, <2>2 DEF KeysOf
    <3>2. i + 1 \in 1..Len(s) /\ s[i + 1] = x
      BY <1>1, <1>2, <1>3, <3>1
    <3> QED
      BY <1>2, <3>2 DEF KeysOf
  <2> QED
    BY <1>7, <2>1, <2>2
<1>8. Distinct(s) /\ KeysOf(s) = KeysOf(t) \cup {k}
  BY <1>2, <1>5, <1>6, <1>7 DEF Distinct
<1> QED
  BY <1>8 DEF s

(* The first n of different keys, and those behind them.                   *)
LEMMA FrontAndBehind ==
  ASSUME NEW s, Distinct(s), NEW n \in 0..Len(s)
  PROVE  /\ Distinct(SubSeq(s, 1, n)) /\ Len(SubSeq(s, 1, n)) = n
         /\ KeysOf(SubSeq(s, 1, n)) = KeysOf(s) \ Behind(s, n)
         /\ Behind(s, n) \subseteq KeysOf(s)
<1> DEFINE t == SubSeq(s, 1, n)
<1>1. s \in Seq(Keys) /\ Len(s) \in Nat /\ DOMAIN s = 1..Len(s)
  BY DEF Distinct
<1>2. t \in Seq(Keys) /\ Len(t) = n /\ DOMAIN t = 1..n /\ \A i \in 1..n : t[i] = s[i]
  BY <1>1
<1> HIDE DEF t
<1>3. \A i \in 1..n : i \in 1..Len(s)
  BY <1>1
<1>4. Distinct(t)
  BY <1>1, <1>2, <1>3 DEF Distinct
<1>5. ASSUME NEW x \in KeysOf(t) PROVE x \in KeysOf(s) \ Behind(s, n)
  <2>1. PICK i \in 1..n : x = s[i]
    BY <1>2, <1>5 DEF KeysOf
  <2>2. x \in KeysOf(s)
    BY <1>1, <1>3, <2>1 DEF KeysOf
  <2>3. ASSUME NEW j \in (n + 1)..Len(s), x = s[j] PROVE FALSE
    <3>1. j \in 1..Len(s) /\ i \in 1..Len(s) /\ i # j
      BY <1>1, <1>3
    <3> QED
      BY <1>1, <2>1, <2>3, <3>1 DEF Distinct
  <2> QED
    BY <2>2, <2>3 DEF Behind
<1>6. ASSUME NEW x \in KeysOf(s), x \notin Behind(s, n) PROVE x \in KeysOf(t)
  <2>1. PICK i \in 1..Len(s) : x = s[i]
    BY <1>1, <1>6 DEF KeysOf
  <2>2. i \in 1..n
    BY <1>1, <1>6, <2>1 DEF Behind
  <2> QED
    BY <1>2, <2>1, <2>2 DEF KeysOf
<1>7. Behind(s, n) \subseteq KeysOf(s)
  <2>1. \A i \in (n + 1)..Len(s) : i \in 1..Len(s)
    BY <1>1
  <2> QED
    BY <1>1, <2>1 DEF Behind, KeysOf
<1> QED
  BY <1>2, <1>4, <1>5, <1>6, <1>7 DEF t

(* Sums of sizes as numbers of single bytes.                               *)
Sizes == [Keys -> 0..MaxBytes]

LEMMA BytesIn ==
  ASSUME NEW ks, NEW size, NEW u
  PROVE  u \in BytesOf(ks, size) <=> \E k \in ks : u \in {k} \X (1..size[k])
BY DEF BytesOf

LEMMA TotalIsFinite ==
  ASSUME NEW ks \in SUBSET Keys, IsFiniteSet(ks), NEW size \in Sizes
  PROVE  IsFiniteSet(BytesOf(ks, size)) /\ Total(ks, size) \in Nat
<1>1. MaxBytes \in Nat
  BY ConfigAssumption
<1>2. IsFiniteSet(1..MaxBytes)
  BY <1>1, FirstNumbers
<1>3. IsFiniteSet(ks \X (1..MaxBytes))
  BY <1>2, FS_Product
<1>4. BytesOf(ks, size) \subseteq ks \X (1..MaxBytes)
  <2> SUFFICES ASSUME NEW u \in BytesOf(ks, size) PROVE u \in ks \X (1..MaxBytes)
    OBVIOUS
  <2>1. PICK k \in ks : u \in {k} \X (1..size[k])
    BY DEF BytesOf
  <2>2. size[k] \in 0..MaxBytes
    BY DEF Sizes
  <2>3. PICK i \in 1..size[k] : u = <<k, i>>
    BY <2>1
  <2>4. i \in 1..MaxBytes
    BY <1>1, <2>2
  <2> QED
    BY <2>3, <2>4
<1>5. IsFiniteSet(BytesOf(ks, size))
  BY <1>3, <1>4, FS_Subset
<1> QED
  BY <1>5, FS_CardinalityType DEF Total

LEMMA TotalOfTwo ==
  ASSUME NEW ks \in SUBSET Keys, NEW js \in SUBSET Keys, IsFiniteSet(ks),
         IsFiniteSet(js), ks \cap js = {}, NEW size \in Sizes
  PROVE  Total(ks \cup js, size) = Total(ks, size) + Total(js, size)
<1>1. BytesOf(ks \cup js, size) = BytesOf(ks, size) \cup BytesOf(js, size)
  <2>1. ASSUME NEW u
        PROVE  u \in BytesOf(ks \cup js, size)
                  <=> u \in BytesOf(ks, size) \/ u \in BytesOf(js, size)
    BY BytesIn
  <2> QED
    BY <2>1
<1>2. BytesOf(ks, size) \cap BytesOf(js, size) = {}
  <2> SUFFICES ASSUME NEW u \in BytesOf(ks, size), u \in BytesOf(js, size) PROVE FALSE
    OBVIOUS
  <2>1. PICK k \in ks : u \in {k} \X (1..size[k])
    BY DEF BytesOf
  <2>2. PICK j \in js : u \in {j} \X (1..size[j])
    BY DEF BytesOf
  <2>3. u[1] = k /\ u[1] = j
    BY <2>1, <2>2
  <2> QED
    BY <2>3
<1>3. /\ IsFiniteSet(BytesOf(ks, size)) /\ IsFiniteSet(BytesOf(js, size))
      /\ Total(ks, size) \in Nat /\ Total(js, size) \in Nat
  BY TotalIsFinite
<1>4. Cardinality(BytesOf(ks, size) \cup BytesOf(js, size)) =
         Cardinality(BytesOf(ks, size)) + Cardinality(BytesOf(js, size)) - Cardinality({})
  BY <1>2, <1>3, FS_Union
<1>5. Total(ks \cup js, size) = Total(ks, size) + Total(js, size) - Cardinality({})
  BY <1>1, <1>4 DEF Total
<1>6. Cardinality({}) = 0
  BY FS_EmptySet
<1> HIDE DEF Total
<1> QED
  BY <1>3, <1>5, <1>6

LEMMA TotalOfOne ==
  ASSUME NEW k \in Keys, NEW size \in Sizes
  PROVE  Total({k}, size) = size[k]
<1> DEFINE n == size[k]
           f == [i \in 1..n |-> <<k, i>>]
           S == BytesOf({k}, size)
<1>1. n \in Nat
  BY ConfigAssumption DEF Sizes
<1>2. S = {k} \X (1..n)
  BY DEF BytesOf
<1> HIDE DEF n, S
<1>3. f \in Surjection(1..n, S)
  <2>1. f \in [1..n -> S]
    BY <1>2
  <2>2. ASSUME NEW u \in S PROVE \E i \in 1..n : f[i] = u
    <3>1. PICK i \in 1..n : u = <<k, i>>
      BY <1>2
    <3> QED
      BY <3>1
  <2> QED
    BY <2>1, <2>2 DEF Surjection
<1>4. f \in Injection(1..n, S)
  <2>1. f \in [1..n -> S] /\ DOMAIN f = 1..n
    BY <1>3 DEF Surjection
  <2>2. ASSUME NEW i \in 1..n, NEW j \in 1..n, f[i] = f[j] PROVE i = j
    BY <2>2
  <2> HIDE DEF f
  <2> QED
    BY <2>1, <2>2 DEF Injection, IsInjective
<1>5. IsFiniteSet(1..n) /\ Cardinality(1..n) = n
  BY <1>1, FirstNumbers
<1>6. Cardinality(S) = n
  <2> HIDE DEF f
  <2> QED
    BY <1>3, <1>4, <1>5, FS_Surjection
<1> QED
  BY <1>6 DEF n, S, Total

LEMMA TotalOfSame ==
  ASSUME NEW ks, NEW size, NEW other, \A k \in ks : size[k] = other[k]
  PROVE  Total(ks, size) = Total(ks, other)
<1>1. BytesOf(ks, size) = BytesOf(ks, other)
  <2>1. ASSUME NEW u PROVE u \in BytesOf(ks, size) <=> u \in BytesOf(ks, other)
    BY BytesIn
  <2> QED
    BY <2>1
<1> QED
  BY <1>1 DEF Total

LEMMA TotalWithout ==
  ASSUME NEW ks \in SUBSET Keys, IsFiniteSet(ks), NEW js \in SUBSET ks, NEW size \in Sizes
  PROVE  /\ Total(ks \ js, size) = Total(ks, size) - Total(js, size)
         /\ Total(ks, size) \in Nat /\ Total(js, size) \in Nat
         /\ Total(ks \ js, size) \in Nat
<1>1. IsFiniteSet(js) /\ IsFiniteSet(ks \ js)
  BY FS_Subset
<1>2. (ks \ js) \cup js = ks /\ (ks \ js) \cap js = {} /\ js \in SUBSET Keys
      /\ ks \ js \in SUBSET Keys
  OBVIOUS
<1>3. Total((ks \ js) \cup js, size) = Total(ks \ js, size) + Total(js, size)
  BY <1>1, <1>2, TotalOfTwo
<1>4. /\ Total(ks, size) \in Nat /\ Total(js, size) \in Nat
      /\ Total(ks \ js, size) \in Nat
  BY <1>1, <1>2, TotalIsFinite
<1>5. Total((ks \ js) \cup js, size) = Total(ks, size)
  BY <1>2
<1> DEFINE a == Total(ks, size)
           b == Total(js, size)
           c == Total(ks \ js, size)
<1>6. a = c + b /\ a \in Nat /\ b \in Nat /\ c \in Nat
  BY <1>3, <1>4, <1>5
<1> HIDE DEF a, b, c
<1>7. c = a - b
  BY <1>6
<1> QED
  BY <1>6, <1>7 DEF a, b, c

-----------------------------------------------------------------------------
SizesOf(e) == [k \in Keys |-> e[k].bytes]

(* CacheBounded with what makes it inductive: the list holds every key     *)
(* once, a key outside it has no bytes, and no entry is larger than the    *)
(* cache.                                                                  *)
Listed ==
    /\ Distinct(lru)
    /\ \A k \in Keys : /\ entry[k].bytes <= MaxBytes
                       /\ k \notin KeysOf(lru) => entry[k] = NoEntry
                       /\ k \in KeysOf(lru) => entry[k].version # 0
    /\ bytes = Total(KeysOf(lru), SizesOf(entry))
    /\ Len(lru) <= MaxEntries /\ bytes <= MaxBytes

LEMMA ListedSizes ==
  ASSUME Types, Listed
  PROVE  /\ SizesOf(entry) \in Sizes /\ \A k \in Keys : SizesOf(entry)[k] = entry[k].bytes
         /\ KeysOf(lru) \in SUBSET Keys /\ IsFiniteSet(KeysOf(lru))
         /\ Cardinality(KeysOf(lru)) = Len(lru)
         /\ bytes \in Nat
<1>1. \A k \in Keys : entry[k].bytes \in 0..MaxBytes
  BY ConfigAssumption DEF Types, Listed
<1>2. SizesOf(entry) \in Sizes /\ \A k \in Keys : SizesOf(entry)[k] = entry[k].bytes
  BY <1>1 DEF SizesOf, Sizes
<1>3. /\ KeysOf(lru) \in SUBSET Keys /\ IsFiniteSet(KeysOf(lru))
      /\ Cardinality(KeysOf(lru)) = Len(lru)
  BY DistinctCounted DEF Listed
<1>4. bytes \in Nat
  BY <1>2, <1>3, TotalIsFinite DEF Listed
<1> QED
  BY <1>2, <1>3, <1>4

LEMMA ListedIsBounded == Types /\ Listed => CacheBounded
<1> SUFFICES ASSUME Types, Listed PROVE CacheBounded
  OBVIOUS
<1>1. Items = KeysOf(lru)
  BY DEF Items, KeysOf
<1>2. NoEntry.version = 0
  BY DEF NoEntry
<1> QED
  BY <1>1, <1>2, ListedSizes DEF Listed, CacheBounded, SizesOf

LEMMA ListedInit == Init => Listed
<1> SUFFICES ASSUME Init PROVE Listed
  OBVIOUS
<1>1. lru = <<>> /\ KeysOf(lru) = {} /\ Distinct(lru) /\ Len(lru) = 0
  BY DEF Init, KeysOf, Distinct
<1>2. \A k \in Keys : entry[k] = NoEntry /\ entry[k].bytes = 0
  BY DEF Init, NoEntry
<1>3. Total({}, SizesOf(entry)) = 0
  <2>1. BytesOf({}, SizesOf(entry)) = {}
    BY DEF BytesOf
  <2> QED
    BY <2>1, FS_EmptySet DEF Total
<1>4. 0 <= MaxEntries /\ 0 <= MaxBytes
  BY ConfigAssumption
<1>5. bytes = 0 /\ Total(KeysOf(lru), SizesOf(entry)) = 0
  BY <1>1, <1>3 DEF Init
<1> QED
  BY <1>1, <1>2, <1>4, <1>5 DEF Listed

(* A hit moves its entry to the front, and an expired entry goes with its  *)
(* bytes.                                                                  *)
LEMMA ListedGet ==
  ASSUME Types, Listed, NEW k \in Keys, get(k)
  PROVE  Listed'
<1> DEFINE K == KeysOf(lru)
           rest == Without(lru, k)
           size == SizesOf(entry)
<1>1. /\ size \in Sizes /\ \A x \in Keys : size[x] = entry[x].bytes
      /\ K \in SUBSET Keys /\ IsFiniteSet(K) /\ Cardinality(K) = Len(lru)
      /\ bytes \in Nat
  BY ListedSizes
<1>2. Distinct(rest) /\ KeysOf(rest) = K \ {k}
  BY WithoutKey DEF Listed
<1>3. Items = K
  BY DEF Items, KeysOf
<1>4. CASE Hit(k)
  <2>1. lru' = <<k>> \o rest /\ entry' = entry /\ bytes' = bytes /\ k \in K
    BY <1>3, <1>4 DEF get, Hit
  <2>2. Distinct(lru') /\ KeysOf(lru') = K
    <3>1. Distinct(<<k>> \o rest) /\ KeysOf(<<k>> \o rest) = (K \ {k}) \cup {k}
      <4>1. k \notin KeysOf(rest)
        BY <1>2
      <4> HIDE DEF rest
      <4> QED
        BY <1>2, <4>1, InFront
    <3> QED
      BY <2>1, <3>1
  <2>3. Len(lru') = Len(lru)
    BY <1>1, <2>2, DistinctCounted
  <2> QED
    BY <2>1, <2>2, <2>3 DEF Listed, SizesOf
<1>5. CASE ~Hit(k) /\ k \in Items
  <2>1. /\ lru' = rest /\ entry' = [entry EXCEPT ![k] = NoEntry]
        /\ bytes' = bytes - entry[k].bytes /\ k \in K
    BY <1>3, <1>5 DEF get, remove
  <2>2. entry'[k] = NoEntry /\ \A x \in Keys \ {k} : entry'[x] = entry[x]
    BY <2>1 DEF Types
  <2>3. Distinct(lru') /\ KeysOf(lru') = K \ {k}
    BY <1>2, <2>1
  <2>4. Len(lru') <= MaxEntries
    <3>1. IsFiniteSet(K \ {k}) /\ Cardinality(K \ {k}) = Cardinality(K) - 1
      BY <1>1, <2>1, FS_RemoveElement
    <3>2. Len(lru') = Len(lru) - 1
      BY <1>1, <2>3, <3>1, DistinctCounted
    <3>3. Len(lru) \in Int /\ Len(lru) <= MaxEntries
      BY DEF Listed, Distinct
    <3> QED
      BY <3>2, <3>3, ConfigAssumption
  <2>5. bytes' = Total(K \ {k}, size) /\ bytes' <= MaxBytes
    <3>1. {k} \in SUBSET K
      BY <2>1
    <3>2. /\ Total(K \ {k}, size) = Total(K, size) - Total({k}, size)
          /\ Total({k}, size) \in Nat
      BY <1>1, <3>1, TotalWithout
    <3>3. Total({k}, size) = entry[k].bytes
      BY <1>1, TotalOfOne
    <3>4. bytes = Total(K, size) /\ bytes <= MaxBytes
      BY DEF Listed
    <3>5. bytes' = Total(K \ {k}, size)
      BY <2>1, <3>2, <3>3, <3>4
    <3>6. entry[k].bytes \in Nat
      BY <3>2, <3>3
    <3> QED
      BY <1>1, <2>1, <3>4, <3>5, <3>6, ConfigAssumption
  <2>6. Total(K \ {k}, size) = Total(K \ {k}, SizesOf(entry'))
    <3>1. \A x \in K \ {k} : size[x] = SizesOf(entry')[x]
      BY <1>1, <2>2 DEF SizesOf
    <3> QED
      BY <3>1, TotalOfSame
  <2>7. ASSUME NEW x \in Keys
        PROVE  /\ entry'[x].bytes <= MaxBytes
               /\ x \notin K \ {k} => entry'[x] = NoEntry
               /\ x \in K \ {k} => entry'[x].version # 0
    <3>1. NoEntry.bytes <= MaxBytes
      BY ConfigAssumption DEF NoEntry
    <3> QED
      BY <2>2, <3>1 DEF Listed
  <2> QED
    BY <2>3, <2>4, <2>5, <2>6, <2>7 DEF Listed, SizesOf
<1>6. CASE ~Hit(k) /\ k \notin Items
  BY <1>6 DEF get, cache, Listed, SizesOf
<1> QED
  BY <1>4, <1>5, <1>6

(* A stored version takes the place of the one before it, and the loop     *)
(* finds a number of elements to keep, since the bytes it counts down are  *)
(* those of the elements in the list.                                      *)
LEMMA ListedStore ==
  ASSUME Types, Listed, NEW k \in Keys, NEW v \in Versions, store(k, v)
  PROVE  Listed'
<1>1. CASE Size[v] > MaxBytes
  BY <1>1 DEF store, cache, Listed, SizesOf
<1>2. CASE ~(Size[v] > MaxBytes)
  <2> DEFINE K == KeysOf(lru)
             rest == Without(lru, k)
             old == SizesOf(entry)
             new == [version |-> v, expires |-> Lifetime(v), bytes |-> Size[v]]
             e == [entry EXCEPT ![k] = new]
             size == [x \in Keys |-> e[x].bytes]
             s == <<k>> \o rest
             all == bytes - entry[k].bytes + Size[v]
             n == Kept(s, size, all)
  <2>1. /\ lru' = SubSeq(s, 1, n)
        /\ entry' = [x \in Keys |-> IF x \in Behind(s, n) THEN NoEntry ELSE e[x]]
        /\ bytes' = all - Total(Behind(s, n), size)
    BY <1>2 DEF store
  <2>2. /\ new.version = v /\ new.bytes = Size[v] /\ new.bytes \in 0..MaxBytes
        /\ v # 0 /\ MaxBytes \in Nat
    BY <1>2, ConfigAssumption DEF Versions
  <2>3. /\ old \in Sizes /\ \A x \in Keys : old[x] = entry[x].bytes
        /\ K \in SUBSET Keys /\ IsFiniteSet(K) /\ bytes \in Nat
    BY ListedSizes
  <2> HIDE DEF new, old
  <2>4. e[k] = new /\ \A x \in Keys \ {k} : e[x] = entry[x]
    BY DEF Types
  <2> HIDE DEF e
  <2>5. /\ size \in Sizes /\ size[k] = Size[v]
        /\ \A x \in Keys : size[x] = e[x].bytes
        /\ \A x \in Keys \ {k} : size[x] = old[x]
    <3>1. \A x \in Keys : e[x].bytes \in 0..MaxBytes
      <4> TAKE x \in Keys
      <4>1. old[x] \in 0..MaxBytes
        BY <2>3 DEF Sizes
      <4> QED
        BY <2>2, <2>3, <2>4, <4>1
    <3> QED
      BY <2>2, <2>3, <2>4, <3>1 DEF Sizes
  <2> HIDE DEF size
  <2>6. Distinct(rest) /\ KeysOf(rest) = K \ {k}
    BY WithoutKey DEF Listed
  <2>7. Distinct(s) /\ KeysOf(s) = (K \ {k}) \cup {k}
    <3>1. k \notin KeysOf(rest)
      BY <2>6
    <3> HIDE DEF rest
    <3> QED
      BY <2>6, <3>1, InFront
  <2>8. IsFiniteSet(KeysOf(s)) /\ KeysOf(s) \in SUBSET Keys
    BY <2>7, DistinctCounted
  <2> HIDE DEF rest
  <2>9. Total(KeysOf(s), size) = all /\ all \in Nat
    <3>1. bytes = Total(K, old) /\ (k \notin K => entry[k] = NoEntry)
      BY DEF Listed, old
    <3>2. Total(K \ {k}, old) = bytes - entry[k].bytes
      <4>1. CASE k \in K
        <5>1. {k} \in SUBSET K
          BY <4>1
        <5>2. Total(K \ {k}, old) = Total(K, old) - Total({k}, old)
          BY <2>3, <5>1, TotalWithout
        <5>3. Total({k}, old) = entry[k].bytes
          BY <2>3, TotalOfOne
        <5> QED
          BY <3>1, <5>2, <5>3
      <4>2. CASE k \notin K
        <5>1. K \ {k} = K /\ entry[k].bytes = 0
          BY <3>1, <4>2 DEF NoEntry
        <5>2. bytes - 0 = bytes
          BY <2>3
        <5> QED
          BY <3>1, <5>1, <5>2
      <4> QED
        BY <4>1, <4>2
    <3>3. Total(K \ {k}, size) = Total(K \ {k}, old)
      <4>1. \A x \in K \ {k} : size[x] = old[x]
        BY <2>3, <2>5
      <4> QED
        BY <4>1, TotalOfSame
    <3>4. /\ IsFiniteSet(K \ {k}) /\ IsFiniteSet({k}) /\ (K \ {k}) \cap {k} = {}
          /\ K \ {k} \in SUBSET Keys /\ {k} \in SUBSET Keys
      BY <2>3, FS_RemoveElement, FS_Singleton
    <3>5. Total(KeysOf(s), size) = Total(K \ {k}, size) + Total({k}, size)
      BY <2>5, <2>7, <3>4, TotalOfTwo
    <3>6. Total({k}, size) = Size[v]
      BY <2>5, TotalOfOne
    <3>7. Total(KeysOf(s), size) \in Nat
      BY <2>5, <2>8, TotalIsFinite
    <3> QED
      BY <3>2, <3>3, <3>5, <3>6, <3>7
  <2> HIDE DEF all
  <2> DEFINE S == {i \in 0..Len(s) :
                     i <= MaxEntries /\ all - Total(Behind(s, i), size) <= MaxBytes}
  <2>10. Len(s) \in Nat /\ DOMAIN s = 1..Len(s)
    BY <2>7 DEF Distinct
  <2>11. n \in S
    <3>1. Behind(s, 0) = KeysOf(s)
      BY <2>10 DEF Behind, KeysOf
    <3>2. all - Total(Behind(s, 0), size) = 0
      BY <2>9, <3>1
    <3>3. 0 \in S
      BY <2>10, <3>2, ConfigAssumption
    <3>4. S \in SUBSET Nat /\ \A i \in S : i <= Len(s)
      BY <2>10
    <3>5. n = Max(S)
      BY DEF Kept
    <3> HIDE DEF S, n
    <3> QED
      BY <2>10, <3>3, <3>4, <3>5, MaxIsMember
  <2>12. /\ n \in 0..Len(s) /\ n <= MaxEntries
         /\ all - Total(Behind(s, n), size) <= MaxBytes
    BY <2>11
  <2> HIDE DEF S, n, s
  <2>13. /\ Distinct(lru') /\ Len(lru') = n
         /\ KeysOf(lru') = KeysOf(s) \ Behind(s, n)
         /\ Behind(s, n) \in SUBSET KeysOf(s)
    BY <2>1, <2>7, <2>12, FrontAndBehind
  <2>14. ASSUME NEW x \in Keys
         PROVE  /\ x \in Behind(s, n) => entry'[x] = NoEntry
                /\ x \notin Behind(s, n) => entry'[x] = e[x]
    BY <2>1
  <2>15. bytes' = Total(KeysOf(lru'), SizesOf(entry'))
    <3>1. Total(KeysOf(s) \ Behind(s, n), size)
             = Total(KeysOf(s), size) - Total(Behind(s, n), size)
      BY <2>5, <2>8, <2>13, TotalWithout
    <3>2. \A x \in KeysOf(lru') : size[x] = SizesOf(entry')[x]
      BY <2>5, <2>8, <2>13, <2>14 DEF SizesOf
    <3>3. Total(KeysOf(lru'), size) = Total(KeysOf(lru'), SizesOf(entry'))
      BY <3>2, TotalOfSame
    <3> QED
      BY <2>1, <2>9, <2>13, <3>1, <3>3
  <2>16. ASSUME NEW x \in Keys
         PROVE  /\ entry'[x].bytes <= MaxBytes
                /\ x \notin KeysOf(lru') => entry'[x] = NoEntry
                /\ x \in KeysOf(lru') => entry'[x].version # 0
    <3>1. NoEntry.bytes <= MaxBytes /\ new.bytes <= MaxBytes
      BY <2>2, ConfigAssumption DEF NoEntry
    <3>2. CASE x \in Behind(s, n)
      BY <2>13, <2>14, <3>1, <3>2
    <3>3. CASE x \notin Behind(s, n) /\ x = k
      BY <2>2, <2>4, <2>7, <2>13, <2>14, <3>1, <3>3
    <3>4. CASE x \notin Behind(s, n) /\ x # k
      <4>1. entry'[x] = entry[x] /\ (x \in KeysOf(lru') <=> x \in K)
        BY <2>4, <2>7, <2>13, <2>14, <3>4
      <4> QED
        BY <4>1 DEF Listed
    <3> QED
      BY <3>2, <3>3, <3>4
  <2>17. Len(lru') <= MaxEntries /\ bytes' <= MaxBytes
    BY <2>1, <2>12, <2>13
  <2> QED
    BY <2>13, <2>15, <2>16, <2>17 DEF Listed, SizesOf
<1> QED
  BY <1>1, <1>2

LEMMA ListedStep == Types /\ Listed /\ [Next]_vars => Listed'
<1> SUFFICES ASSUME Types, Listed, [Next]_vars PROVE Listed'
  OBVIOUS
<1>1. ASSUME UNCHANGED cache PROVE Listed'
  BY <1>1 DEF cache, Listed, SizesOf
<1>2. ASSUME NEW p \in Calls, Get(p) \/ Woken(p) PROVE Listed'
  <2>1. call[p].key \in Keys /\ get(call[p].key)
    BY <1>2 DEF Get, Woken, Types, CallTypes
  <2> QED
    BY <2>1, ListedGet
<1>3. ASSUME NEW p \in Calls, Finish(p) PROVE Listed'
  <2>1. call[p].key \in Keys /\ call[p].version \in Versions
        /\ store(call[p].key, call[p].version)
    BY <1>3 DEF Finish, Types, CallTypes
  <2> QED
    BY <2>1, ListedStore
<1>4. CASE Close
  <2>1. /\ lru' = <<>> /\ entry' = [k \in Keys |-> NoEntry] /\ bytes' = 0
    BY <1>4 DEF Close
  <2>2. KeysOf(lru') = {} /\ Distinct(lru') /\ Len(lru') = 0
    BY <2>1 DEF KeysOf, Distinct
  <2>3. \A k \in Keys : entry'[k] = NoEntry /\ entry'[k].bytes = 0
    BY <2>1 DEF NoEntry
  <2>4. Total({}, SizesOf(entry')) = 0
    <3>1. BytesOf({}, SizesOf(entry')) = {}
      BY DEF BytesOf
    <3> QED
      BY <3>1, FS_EmptySet DEF Total
  <2>5. 0 <= MaxEntries /\ 0 <= MaxBytes
    BY ConfigAssumption
  <2>6. bytes' = Total(KeysOf(lru'), SizesOf(entry'))
    BY <2>1, <2>2, <2>4
  <2> QED
    BY <2>1, <2>2, <2>3, <2>5, <2>6 DEF Listed, SizesOf
<1>5. CASE Tick
  <2>1. lru' = lru /\ bytes' = bytes
    BY <1>5 DEF Tick
  <2>2. ASSUME NEW k \in Keys
        PROVE  /\ entry'[k].bytes = entry[k].bytes /\ entry'[k].version = entry[k].version
               /\ entry[k] = NoEntry => entry'[k] = NoEntry
    <3>1. entry[k] \in EntryTypes
      BY DEF Types, EntryTypes
    <3>2. entry'[k] = [entry[k] EXCEPT !.expires = Countdown(entry[k].expires)]
      BY <1>5 DEF Tick
    <3>3. entry'[k].bytes = entry[k].bytes /\ entry'[k].version = entry[k].version
      BY <3>1, <3>2 DEF EntryTypes
    <3>4. ASSUME entry[k] = NoEntry PROVE entry'[k] = NoEntry
      <4>1. Countdown(0) = 0
        BY DEF Countdown
      <4> QED
        BY <3>2, <3>4, <4>1 DEF NoEntry
    <3> QED
      BY <3>3, <3>4
  <2>3. SizesOf(entry') = SizesOf(entry)
    BY <2>2 DEF SizesOf
  <2> QED
    BY <2>1, <2>2, <2>3 DEF Listed, SizesOf
<1> QED
  BY <1>1, <1>2, <1>3, <1>4, <1>5
     DEF Next, Step, Begin, Lead, Follow, Refused, Read, Fails, Alter, vars, cache

(* For any calls, keys, sizes and limits: the list, the map and the byte   *)
(* count of the cache describe the same entries, within both limits, so    *)
(* that its eviction loop (metadata_cache.go:118) always stops with enough *)
(* evicted and never at an empty list.                                     *)
THEOREM LimitsHold == Spec => []CacheBounded
<1>1. Init => Types /\ Listed
  BY TypesInit, ListedInit
<1>2. Types /\ Listed /\ [Next]_vars => (Types /\ Listed)'
  BY TypesStep, ListedStep
<1> QED
  BY <1>1, <1>2, ListedIsBounded, PTL DEF Spec

-----------------------------------------------------------------------------
(* What TypeOK says beyond Types and Listed.                               *)
Rest == /\ lastRefresh \in [Keys -> Nat] /\ closed \in BOOLEAN
        /\ reread \subseteq Calls

LEMMA RestStep == Types /\ Rest /\ [Next]_vars => Rest'
<1> SUFFICES ASSUME Types, Rest, [Next]_vars PROVE Rest'
  OBVIOUS
<1>1. ASSUME NEW p \in Calls, Step(p) PROVE Rest'
  <2>1. call[p].key \in Keys /\ FreshCooldown \in Nat
    BY ConfigAssumption DEF Types, CallTypes
  <2>2. lastRefresh' \in [Keys -> Nat] /\ closed' = closed
    BY <1>1, <2>1 DEF Rest, Step, Get, Lead, Follow, Refused, Woken, Read, Fails, Finish
  <2>3. reread' \subseteq Calls
    BY <1>1 DEF Rest, Step, Get, Returns, Lead, Follow, Refused, Woken, Read, Fails, Finish
  <2> QED
    BY <2>2, <2>3 DEF Rest
<1>2. ASSUME NEW p \in Calls, NEW k \in Keys, NEW fresh \in BOOLEAN, Begin(p, k, fresh)
      PROVE  Rest'
  BY <1>2 DEF Begin, Rest
<1>3. ASSUME NEW k \in Keys, Alter(k) PROVE Rest'
  BY <1>3 DEF Alter, Rest
<1>4. CASE Close
  BY <1>4 DEF Close, Rest
<1>5. CASE Tick
  <2>1. \A k \in Keys : Countdown(lastRefresh[k]) \in Nat
    BY DEF Rest, Countdown
  <2> QED
    BY <1>5, <2>1 DEF Tick, Rest
<1>6. CASE UNCHANGED vars
  BY <1>6 DEF vars, Rest
<1> QED
  BY <1>1, <1>2, <1>3, <1>4, <1>5, <1>6 DEF Next

(* The cache, the reads in flight and the calls are well typed in every    *)
(* reachable state; that the byte count is never negative needs the whole  *)
(* accounting.                                                             *)
THEOREM CacheTypeCorrect == Spec => []TypeOK
<1>1. Init => Types /\ Listed /\ Rest
  <2>1. ASSUME Init PROVE Rest
    <3>1. lastRefresh \in [Keys -> Nat]
      BY <2>1 DEF Init
    <3>2. closed \in BOOLEAN
      BY <2>1 DEF Init
    <3>3. reread \subseteq Calls
      BY <2>1 DEF Init
    <3> QED
      BY <3>1, <3>2, <3>3 DEF Rest
  <2> QED
    BY <2>1, TypesInit, ListedInit
<1>2. Types /\ Listed /\ Rest /\ [Next]_vars => (Types /\ Listed /\ Rest)'
  BY TypesStep, ListedStep, RestStep
<1>3. Types /\ Listed /\ Rest => TypeOK
  <2> SUFFICES ASSUME Types, Listed, Rest PROVE TypeOK
    OBVIOUS
  <2>1. bytes \in Nat
    BY ListedSizes
  <2>2. lru \in Seq(Keys)
    BY DEF Listed, Distinct
  <2>3. call \in [Calls -> [pc : {"idle", "get", "lead", "wait", "woken",
                                  "reading", "finish"},
                            key : Keys, fresh : BOOLEAN,
                            version : 0..MaxVersion, floor : 0..MaxVersion]]
    BY DEF Types, CallTypes, Pcs
  <2> QED
    BY <2>1, <2>2, <2>3 DEF Types, Rest, TypeOK
<1> QED
  BY <1>1, <1>2, <1>3, PTL DEF Spec
=============================================================================
