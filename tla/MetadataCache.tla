---------------------------- MODULE MetadataCache ----------------------------
(***************************************************************************)
(* The metadata cache of a MySQL target with the calls that use it         *)
(* (internal/dialects/mysql: metadata_cache.go, and ListTables and         *)
(* DescribeTable of target.go).                                            *)
(*                                                                         *)
(* A key stands for one listing or description.  Its content in the        *)
(* database is a version that only grows; Size and Missing say how large a *)
(* version is encoded and whether it is the absence of the table.  Each    *)
(* action is one critical section of the cache's mutex or one step of the  *)
(* database; times are kept as the time left, counted down by Tick.        *)
(***************************************************************************)
EXTENDS Integers, Sequences, FiniteSets, FiniteSetsExt

CONSTANTS
    Calls,              \* the calls that may be in progress
    Keys, MaxVersion,   \* MaxVersion bounds the schema changes
    Size, Missing,      \* version -> encoded bytes; the negative versions
    MaxEntries, MaxBytes, TTL, NegativeTTL, FreshCooldown,
    NoCall

Versions == 1..MaxVersion

ASSUME ConfigAssumption ==
    /\ Keys # {} /\ MaxVersion \in Nat \ {0}
    /\ Size \in [Versions -> Nat]
    /\ Missing \subseteq Versions
    /\ MaxEntries \in Nat \ {0} /\ MaxBytes \in Nat \ {0}
    /\ TTL \in Nat \ {0} /\ NegativeTTL \in Nat \ {0} /\ FreshCooldown \in Nat
    /\ NoCall \notin Calls

VARIABLES
    lru,          \* keys of the entries, most recently used first
    entry,        \* key -> its entry's version, time to expiry and bytes
    bytes,        \* metadataCache.bytes
    inflight,     \* key -> the call that leads its read, or NoCall
    lastRefresh,  \* key -> time left of its refresh cooldown
    db,           \* key -> current version in the database
    closed,       \* has Close closed the database handle?
    call,         \* call -> where it is
    seen,         \* key -> newest version any call has returned
    reread        \* calls during which their key has been read and stored

cache == <<lru, entry, bytes>>
vars == <<cache, inflight, lastRefresh, db, closed, call, seen, reread>>

NoEntry == [version |-> 0, expires |-> 0, bytes |-> 0]
Idle == [pc |-> "idle", key |-> CHOOSE k \in Keys : TRUE, fresh |-> FALSE,
         version |-> 0, floor |-> 0]

(* newMetadataCache *)
Init ==
    /\ lru = <<>> /\ entry = [k \in Keys |-> NoEntry] /\ bytes = 0
    /\ inflight = [k \in Keys |-> NoCall]
    /\ lastRefresh = [k \in Keys |-> 0]
    /\ db = [k \in Keys |-> 1] /\ closed = FALSE
    /\ call = [p \in Calls |-> Idle]
    /\ seen = [k \in Keys |-> 0]
    /\ reread = {}

-----------------------------------------------------------------------------
Items == {lru[i] : i \in DOMAIN lru}            \* metadataCache.items

(* The list s once the element of key k is unlinked.                       *)
Without(s, k) ==
    IF \E i \in DOMAIN s : s[i] = k
    THEN LET at == CHOOSE i \in DOMAIN s : s[i] = k IN
         SubSeq(s, 1, at - 1) \o SubSeq(s, at + 1, Len(s))
    ELSE s

Lifetime(v) == IF v \in Missing THEN NegativeTTL ELSE TTL

(* Mutant: the size of a removed entry stays accounted.                    *)
removeUncounted(k) ==
    /\ lru' = Without(lru, k)
    /\ entry' = [entry EXCEPT ![k] = NoEntry]
    /\ bytes' = bytes

remove(k) ==
    /\ lru' = Without(lru, k)
    /\ entry' = [entry EXCEPT ![k] = NoEntry]
    /\ bytes' = bytes - entry[k].bytes

(* The bytes of the entries of the keys ks, one by one, and their number.  *)
BytesOf(ks, size) == UNION {{k} \X (1..size[k]) : k \in ks}
Total(ks, size) == Cardinality(BytesOf(ks, size))

Hit(k) == k \in Items /\ entry[k].expires > 0

(* The effect of get: a hit moves to the front, an expired entry goes.     *)
get(k) ==
    IF Hit(k)
    THEN lru' = <<k>> \o Without(lru, k) /\ UNCHANGED <<entry, bytes>>
    ELSE IF k \in Items THEN remove(k) ELSE UNCHANGED cache

(* The keys of the elements of s behind the first n.                       *)
Behind(s, n) == {s[i] : i \in (n + 1)..Len(s)}

(* How many elements of s the eviction loop leaves, when the entries have  *)
(* all bytes together: it drops from the back until the entries are few    *)
(* and small enough.                                                       *)
Kept(s, size, all) ==
    Max({n \in 0..Len(s) : /\ n <= MaxEntries
                           /\ all - Total(Behind(s, n), size) <= MaxBytes})

(* The part of finish that stores version v.  Too large a value is not     *)
(* stored, and leaves what was there.  The bytes of the replaced entry,    *)
(* none if there was none, are given back, those of the new one added and  *)
(* those of the evicted ones given back.                                   *)
store(k, v) ==
    IF Size[v] > MaxBytes THEN UNCHANGED cache
    ELSE LET e == [entry EXCEPT ![k] = [version |-> v, expires |-> Lifetime(v),
                                        bytes |-> Size[v]]]
             size == [x \in Keys |-> e[x].bytes]
             s == <<k>> \o Without(lru, k)
             all == bytes - entry[k].bytes + Size[v]
             n == Kept(s, size, all) IN
         /\ lru' = SubSeq(s, 1, n)
         /\ entry' = [x \in Keys |-> IF x \in Behind(s, n) THEN NoEntry ELSE e[x]]
         /\ bytes' = all - Total(Behind(s, n), size)

(* Mutant: the channel is forgotten but not closed.                        *)
wakeNobody(p, k) == [call EXCEPT ![p] = Idle]

(* Closing the channel of the read that p led wakes every call parked on   *)
(* it.  The leader itself returns.                                         *)
wake(p, k) ==
    [q \in Calls |->
       IF q = p THEN Idle
       ELSE IF call[q].pc = "wait" /\ call[q].key = k
            THEN [call[q] EXCEPT !.pc = "woken"] ELSE call[q]]

-----------------------------------------------------------------------------
Returns(p, v) ==
    /\ call' = [call EXCEPT ![p] = Idle]
    /\ seen' = [seen EXCEPT ![call[p].key] = IF v > @ THEN v ELSE @]
    /\ reread' = reread \ {p}

(* ListTables or DescribeTable is called; fresh skips the cache.           *)
Begin(p, k, fresh) ==
    /\ call[p].pc = "idle"
    /\ call' = [call EXCEPT ![p] =
                  [pc |-> IF fresh THEN "lead" ELSE "get", key |-> k,
                   fresh |-> fresh, version |-> 0, floor |-> seen[k]]]
    /\ UNCHANGED <<cache, inflight, lastRefresh, db, closed, seen, reread>>

Get(p) ==
    LET k == call[p].key IN
    /\ call[p].pc = "get"
    /\ get(k)
    /\ IF Hit(k) THEN Returns(p, entry[k].version)
       ELSE /\ call' = [call EXCEPT ![p].pc = "lead"]
            /\ UNCHANGED <<seen, reread>>
    /\ UNCHANGED <<inflight, lastRefresh, db, closed>>

(* Mutant: a refresh does not wait for a read in progress.                 *)
MayLeadRefresh(p) == call[p].fresh \/ inflight[call[p].key] = NoCall

MayLead(p) == inflight[call[p].key] = NoCall

(* lead and leadRefresh: lead the read of the key, or wait for its leader. *)
Lead(p) ==
    LET k == call[p].key IN
    /\ call[p].pc = "lead" /\ MayLead(p)
    /\ call[p].fresh => lastRefresh[k] = 0
    /\ inflight' = [inflight EXCEPT ![k] = p]
    /\ lastRefresh' = IF call[p].fresh
                      THEN [lastRefresh EXCEPT ![k] = FreshCooldown]
                      ELSE lastRefresh
    /\ call' = [call EXCEPT ![p].pc = "reading"]
    /\ UNCHANGED <<cache, db, closed, seen, reread>>

Follow(p) ==
    /\ call[p].pc = "lead" /\ ~MayLead(p)
    /\ call' = [call EXCEPT ![p].pc = "wait"]
    /\ UNCHANGED <<cache, inflight, lastRefresh, db, closed, seen, reread>>

(* An unhealthy target, errRefreshCooldown, or ctx.Done while waiting: the *)
(* call returns an error.                                                  *)
Refused(p) ==
    LET k == call[p].key IN
    /\ \/ call[p].pc = "get"
       \/ /\ call[p].pc = "lead" /\ call[p].fresh /\ MayLead(p)
          /\ lastRefresh[k] > 0
       \/ call[p].pc = "wait"
    /\ call' = [call EXCEPT ![p] = Idle]
    /\ reread' = reread \ {p}
    /\ UNCHANGED <<cache, inflight, lastRefresh, db, closed, seen>>

(* The channel was closed: ask the cache again.  Without an entry a        *)
(* refresh fails and an ordinary call starts over.                         *)
Woken(p) ==
    LET k == call[p].key IN
    /\ call[p].pc = "woken"
    /\ get(k)
    /\ IF Hit(k) THEN Returns(p, entry[k].version)
       ELSE /\ call' = [call EXCEPT ![p] =
                          IF @.fresh THEN Idle ELSE [@ EXCEPT !.pc = "get"]]
            /\ reread' = IF call[p].fresh THEN reread \ {p} ELSE reread
            /\ UNCHANGED seen
    /\ UNCHANGED <<inflight, lastRefresh, db, closed>>

(* The leader's query sees the database.                                   *)
Read(p) ==
    /\ call[p].pc = "reading" /\ ~closed
    /\ call' = [call EXCEPT ![p].pc = "finish", ![p].version = db[call[p].key]]
    /\ UNCHANGED <<cache, inflight, lastRefresh, db, closed, seen, reread>>

(* Admission, health, a query or the response budget fails: the deferred   *)
(* finish stores nothing.  An absent table has nothing left to fail.       *)
Fails(p) ==
    LET k == call[p].key IN
    /\ \/ call[p].pc = "reading"
       \/ call[p].pc = "finish" /\ call[p].version \notin Missing
    /\ call' = wake(p, k)
    /\ inflight' = [inflight EXCEPT ![k] = NoCall]
    /\ reread' = reread \ {p}
    /\ UNCHANGED <<cache, lastRefresh, db, closed, seen>>

Finish(p) ==
    LET k == call[p].key
        v == call[p].version IN
    /\ call[p].pc = "finish"
    /\ store(k, v)
    /\ call' = wake(p, k)
    /\ inflight' = [inflight EXCEPT ![k] = NoCall]
    /\ seen' = [seen EXCEPT ![k] = IF v > @ THEN v ELSE @]
    /\ reread' = (reread \ {p}) \cup
                 {q \in Calls \ {p} : call[q].pc # "idle" /\ call[q].key = k}
    /\ UNCHANGED <<lastRefresh, db, closed>>

(* Close clears the cache and closes the database handle; a read that has  *)
(* its answer goes on and stores it.                                       *)
Close ==
    /\ ~closed /\ closed' = TRUE
    /\ lru' = <<>> /\ entry' = [k \in Keys |-> NoEntry] /\ bytes' = 0
    /\ lastRefresh' = [k \in Keys |-> 0]
    /\ UNCHANGED <<inflight, db, call, seen, reread>>

(* Somebody alters the schema.                                             *)
Alter(k) ==
    /\ db[k] < MaxVersion
    /\ db' = [db EXCEPT ![k] = @ + 1]
    /\ UNCHANGED <<cache, inflight, lastRefresh, closed, call, seen, reread>>

(* Mutant: nothing stops at zero.                                          *)
CountdownBelow(t) == t - 1

Countdown(t) == IF t > 0 THEN t - 1 ELSE 0

Tick ==
    /\ entry' = [k \in Keys |-> [entry[k] EXCEPT !.expires = Countdown(@)]]
    /\ lastRefresh' = [k \in Keys |-> Countdown(lastRefresh[k])]
    /\ UNCHANGED <<lru, bytes, inflight, db, closed, call, seen, reread>>

Step(p) ==
    \/ Get(p) \/ Lead(p) \/ Follow(p) \/ Refused(p) \/ Woken(p)
    \/ Read(p) \/ Fails(p) \/ Finish(p)

Next ==
    \/ \E p \in Calls :
          \/ \E k \in Keys, fresh \in BOOLEAN : Begin(p, k, fresh)
          \/ Step(p)
    \/ \E k \in Keys : Alter(k)
    \/ Close \/ Tick

Spec == Init /\ [][Next]_vars

-----------------------------------------------------------------------------
(* Properties *)

(* Entries, calls and the database have the types the code gives them.     *)
TypeOK ==
    /\ lru \in Seq(Keys) /\ bytes \in Nat
    /\ entry \in [Keys -> [version : 0..MaxVersion, expires : Nat,
                           bytes : Nat]]
    /\ inflight \in [Keys -> Calls \cup {NoCall}]
    /\ lastRefresh \in [Keys -> Nat]
    /\ db \in [Keys -> Versions] /\ closed \in BOOLEAN
    /\ seen \in [Keys -> 0..MaxVersion]
    /\ reread \subseteq Calls
    /\ call \in [Calls -> [pc : {"idle", "get", "lead", "wait", "woken",
                                 "reading", "finish"},
                           key : Keys, fresh : BOOLEAN,
                           version : 0..MaxVersion, floor : 0..MaxVersion]]

(* The list, the map and the byte count describe the same entries, within  *)
(* both limits, whatever mix of hits, expiries, evictions, replacements    *)
(* and clears led there.                                                   *)
CacheBounded ==
    /\ Cardinality(Items) = Len(lru)
    /\ \A k \in Keys : k \in Items <=> entry[k].version # 0
    /\ bytes = Total(Items, [k \in Keys |-> entry[k].bytes])
    /\ Len(lru) <= MaxEntries /\ bytes <= MaxBytes

(* Identical misses coalesce: a key is read by one call at a time, its     *)
(* leader, and nobody waits for a read that no longer has one, whatever    *)
(* became of its leader.                                                   *)
SingleFlight ==
    /\ \A k \in Keys : inflight[k] # NoCall =>
          /\ call[inflight[k]].key = k
          /\ call[inflight[k]].pc \in {"reading", "finish"}
    /\ \A p \in Calls : call[p].pc \in {"reading", "finish"}
                           => inflight[call[p].key] = p
    /\ \A p \in Calls : call[p].pc = "wait" => inflight[call[p].key] # NoCall

(* Metadata never goes back: a call that begins after another has returned *)
(* version v of a key never returns an older one, although reads, stores,  *)
(* expiries and evictions of several calls interleave.  That is so when    *)
(* every version fits in the cache (AllFit): finish does not store a value *)
(* that is too large and leaves the older entry (metadata_cache.go:111).   *)
MonotonicReads ==
    [][\A p \in Calls :
          LET k == call[p].key
              v == entry[k].version IN
          call[p].pc \in {"get", "woken"} /\ call'[p].pc = "idle" /\ Hit(k)
             => v >= call[p].floor]_vars

(* docs/RFC-0001: "Refresh failure is returned to the caller and never     *)
(* silently falls back to stale metadata": a fresh call only answers from  *)
(* the cache what a read that ended during the call has stored.            *)
RefreshNeverStale ==
    [][\A p \in Calls :
          call[p].pc = "woken" /\ call[p].fresh /\ Woken(p) /\ Hit(call[p].key)
             => p \in reread]_vars
=============================================================================
