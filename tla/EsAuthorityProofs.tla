-------------------------- MODULE EsAuthorityProofs -------------------------
(***************************************************************************)
(* Proofs about EsAuthority for any number of calls and authorities and    *)
(* any configured times: a request goes out under an authority that was    *)
(* reported recently, and a cursor does not outlive a lapse of the proof   *)
(* that no refresh under way was renewing.                                 *)
(***************************************************************************)
EXTENDS EsAuthority, TLAPS

Ages == 0..(ReadLimit + 1)
CallType == [at : {"idle", "wait", "use", "dispatch", "epoch", "send", "sent", "verify", "bump"},
             kind : {"query", "open", "next"}, left : 0..RequestTimeout]
CursorType == [open : BOOLEAN, current : BOOLEAN, hash : Authorities, lapsed : BOOLEAN]
RefreshType == [at : {"idle", "addFirst", "acquire", "attest", "attested", "addChanged",
                      "store", "addFailed", "stopped"},
                left : 0..ConnectTimeout, got : Authorities]

Typed ==
    /\ esHealthy \in BOOLEAN /\ closed \in BOOLEAN
    /\ esChecked \in Ages /\ hash \in Authorities /\ lastRead \in [Authorities -> Ages]
    /\ cursor \in CursorType /\ refresh \in RefreshType
    /\ esCall \in [Callers -> CallType]

(* What attest read is young enough for the time the refresh has left; the *)
(* current hash was read at most one attestation before checked.           *)
HashRead ==
    /\ refresh.at = "attested" => lastRead[refresh.got] + refresh.left <= ConnectTimeout
    /\ refresh.at \in {"addChanged", "store"} => lastRead[hash] <= ConnectTimeout
    /\ lastRead[hash] <= esChecked + ConnectTimeout

(* A cursor of this epoch was opened under the current hash, but for the   *)
(* moment between the new hash and its epoch.                              *)
CursorRead ==
    cursor.current => /\ cursor.open
                      /\ cursor.hash = hash \/ refresh.at = "addChanged"
                      /\ lastRead[cursor.hash] <= esChecked + ConnectTimeout

(* One call holds the gate of the cursor.                                  *)
OneUser == \A c, d \in Callers : UsesCursor(c) /\ UsesCursor(d) => c = d

CallRead(c) ==
    /\ esCall[c].at = "epoch" => esChecked <= AuthorityRecheck
    /\ esCall[c].at = "send" => lastRead[hash] <= ReadLimit
    /\ esCall[c].at = "send" /\ esCall[c].kind # "query" => lastRead[cursor.hash] <= ReadLimit

ReadInv == Typed /\ HashRead /\ CursorRead /\ OneUser /\ \A c \in Callers : CallRead(c)

-----------------------------------------------------------------------------
(* Somebody has taken healthy back and not yet begun the new epoch.        *)
Invalidating ==
    HalfInvalidated \/ refresh.at \in {"addFirst", "addFailed", "addChanged"}

(* A refresh that is under way ends before the proof it found valid has    *)
(* lapsed.                                                                 *)
RefreshInTime ==
    /\ refresh.at \in {"acquire", "attest", "attested"} =>
        ~esHealthy \/ esChecked + refresh.left <= ReadLimit
    /\ refresh.at \in {"addFirst", "addFailed"} => ~esHealthy
    /\ refresh.at = "stopped" => closed

CurrentIsHealthy == cursor.current /\ ~closed => esHealthy \/ Opening \/ Invalidating

LapsedEnds ==
    cursor.lapsed /\ cursor.current /\ ~closed =>
        \/ HalfInvalidated
        \/ refresh.at \in {"addFirst", "addFailed"}
        \/ esChecked >= AuthorityRecheck /\ esHealthy /\ refresh.at = "idle"

EpochInv == RefreshInTime /\ CurrentIsHealthy /\ LapsedEnds

-----------------------------------------------------------------------------
LEMMA Limits ==
  /\ AuthorityRecheck \in Nat /\ ConnectTimeout \in Nat /\ RequestTimeout \in Nat
  /\ ReadLimit \in Nat /\ ReadLimit = AuthorityRecheck + ConnectTimeout
BY AuthorityAssumption DEF ReadLimit

LEMMA IdleTyped == IdleCall \in CallType /\ IdleCall.at = "idle" /\ IdleCall.kind = "query"
<1> SUFFICES IdleCall \in CallType
  BY DEF IdleCall
<1>1. 0 \in 0..RequestTimeout
  BY Limits
<1> QED
  BY <1>1 DEF IdleCall, CallType

LEMMA NoCursorTyped == Typed => NoCursor \in CursorType /\ ~NoCursor.current
BY DEF Typed, NoCursor, CursorType

LEMMA InitRead == EsInit => ReadInv
<1> SUFFICES ASSUME EsInit PROVE ReadInv
  OBVIOUS
<1>1. 0 \in Ages /\ ReadLimit + 1 \in Ages /\ 0 \in 0..ConnectTimeout
  BY Limits DEF Ages
<1>2. lastRead \in [Authorities -> Ages] /\ lastRead[hash] = 0 /\ hash \in Authorities /\ esChecked \in Ages
  BY <1>1 DEF EsInit
<1>3. cursor \in CursorType /\ ~cursor.current
  BY <1>2 DEF EsInit, NoCursor, CursorType
<1>4. refresh \in RefreshType /\ refresh.at = "idle"
  BY <1>1, <1>2 DEF EsInit, IdleRefresh, RefreshType
<1>5. esCall \in [Callers -> CallType] /\ \A c \in Callers : esCall[c].at = "idle"
  BY IdleTyped DEF EsInit
<1>6. Typed
  BY <1>2, <1>3, <1>4, <1>5 DEF Typed, EsInit
<1>7. HashRead
  BY <1>2, <1>4, Limits DEF HashRead, EsInit
<1>8. CursorRead /\ OneUser /\ \A c \in Callers : CallRead(c)
  BY <1>3, <1>5 DEF CursorRead, OneUser, CallRead, UsesCursor
<1> QED
  BY <1>6, <1>7, <1>8 DEF ReadInv

(* A call step leaves the proof and the refresh alone and changes one      *)
(* call; the hash of the cursor changes only by the call that holds it.    *)
LEMMA CallReads ==
  ASSUME ReadInv, NEW c \in Callers, NEW k \in CallType,
         esCall' = [esCall EXCEPT ![c] = k], UNCHANGED <<esChecked, hash, closed, refresh, lastRead>>,
         esHealthy' \in BOOLEAN,
         k.at # "idle" /\ k.kind # "query" => UsesCursor(c) \/ \A d \in Callers : ~UsesCursor(d),
         k.at = "epoch" => esChecked <= AuthorityRecheck,
         k.at = "send" => lastRead[hash] <= ReadLimit,
         k.at = "send" /\ k.kind # "query" => lastRead[cursor'.hash] <= ReadLimit,
         cursor' \in CursorType, CursorRead',
         cursor'.hash = cursor.hash \/ UsesCursor(c)
  PROVE  ReadInv'
<1>1. esCall \in [Callers -> CallType]
  BY DEF ReadInv, Typed
<1>2. esCall'[c] = k /\ \A d \in Callers \ {c} : esCall'[d] = esCall[d]
  BY <1>1
<1>3. Typed'
  BY <1>1 DEF ReadInv, Typed
<1>4. HashRead'
  BY DEF ReadInv, HashRead
<1>5. OneUser'
  BY <1>2 DEF ReadInv, OneUser, UsesCursor
<1>6. ASSUME NEW d \in Callers PROVE CallRead(d)'
  <2>1. CASE d = c
    BY <1>2, <2>1 DEF CallRead
  <2>2. CASE d # c
    <3>1. CallRead(d) /\ esCall'[d] = esCall[d]
      BY <1>2, <2>2 DEF ReadInv
    <3>2. esCall[d].at = "send" /\ esCall[d].kind # "query" => cursor'.hash = cursor.hash
      BY <2>2 DEF ReadInv, OneUser, UsesCursor
    <3> QED
      BY <3>1, <3>2 DEF CallRead
  <2> QED
    BY <2>1, <2>2
<1> QED
  BY <1>3, <1>4, <1>5, <1>6 DEF ReadInv

(* The cursor as calls leave it.                                           *)
LEMMA CursorKept ==
  ASSUME ReadInv, UNCHANGED <<esChecked, hash, refresh, lastRead>>,
         \/ cursor' = cursor
         \/ cursor' = NoCursor
         \/ NextEpoch
  PROVE  /\ cursor' \in CursorType /\ CursorRead'
         /\ cursor' # NoCursor => cursor'.hash = cursor.hash
         /\ cursor'.current => cursor' = cursor
<1>1. cursor \in CursorType /\ NoCursor \in CursorType /\ ~NoCursor.current
  BY NoCursorTyped DEF ReadInv, Typed
<1>2. CASE cursor' = cursor
  BY <1>1, <1>2 DEF ReadInv, CursorRead
<1>3. CASE cursor' = NoCursor
  BY <1>1, <1>3 DEF CursorRead
<1>4. CASE NextEpoch
  BY <1>1, <1>4 DEF NextEpoch, CursorRead, CursorType
<1> QED
  BY <1>2, <1>3, <1>4

-----------------------------------------------------------------------------
(* How the epoch fares in a call step.                                     *)
LEMMA CallEpochs ==
  ASSUME ReadInv, EpochInv, NEW c \in Callers, NEW k \in CallType,
         esCall' = [esCall EXCEPT ![c] = k], UNCHANGED <<esChecked, closed, refresh>>,
         esHealthy' \in BOOLEAN, esHealthy' => esHealthy,
         \/ ~cursor'.current
         \/ ~cursor'.lapsed /\ k.kind = "open" /\ k.at = "dispatch" /\ esCall[c].at # "bump"
         \/ /\ cursor' = cursor /\ esCall[c].at # "bump"
            /\ \/ k.at = "bump"
               \/ /\ esHealthy' = esHealthy
                  /\ esCall[c].kind = "open" /\ esCall[c].at = "dispatch" => esHealthy
  PROVE  EpochInv'
<1>1. esCall \in [Callers -> CallType]
  BY DEF ReadInv, Typed
<1>2. esCall'[c] = k /\ \A d \in Callers \ {c} : esCall'[d] = esCall[d]
  BY <1>1
<1>3. RefreshInTime'
  BY DEF EpochInv, RefreshInTime
<1>4. CASE ~cursor'.current
  BY <1>3, <1>4 DEF EpochInv, CurrentIsHealthy, LapsedEnds
<1>5. CASE ~cursor'.lapsed /\ k.kind = "open" /\ k.at = "dispatch" /\ esCall[c].at # "bump"
  <2>1. Opening'
    BY <1>2, <1>5 DEF Opening
  <2> QED
    BY <1>3, <1>5, <2>1 DEF EpochInv, CurrentIsHealthy, LapsedEnds
<1>6. CASE cursor' = cursor /\ esCall[c].at # "bump" /\ k.at = "bump"
  <2>1. HalfInvalidated'
    BY <1>2, <1>6 DEF HalfInvalidated
  <2> QED
    BY <1>3, <2>1 DEF EpochInv, CurrentIsHealthy, LapsedEnds, Invalidating
<1>7. CASE /\ cursor' = cursor /\ esCall[c].at # "bump" /\ esHealthy' = esHealthy
           /\ esCall[c].kind = "open" /\ esCall[c].at = "dispatch" => esHealthy
  <2>1. HalfInvalidated => HalfInvalidated'
    BY <1>2, <1>7 DEF HalfInvalidated
  <2>2. Opening => Opening' \/ esHealthy
    BY <1>2, <1>7 DEF Opening
  <2> QED
    BY <1>3, <1>7, <2>1, <2>2 DEF EpochInv, CurrentIsHealthy, LapsedEnds, Invalidating
<1> QED
  BY <1>4, <1>5, <1>6, <1>7

Inv == ReadInv /\ EpochInv

Around == UNCHANGED <<esChecked, hash, closed, refresh, lastRead>>

(* A call goes on, keeping its kind and its time.                          *)
LEMMA GotoKeeps ==
  ASSUME Inv, NEW c \in Callers,
         NEW where \in {"dispatch", "use", "epoch", "send", "sent", "verify"},
         esCall[c].at \notin {"idle", "bump"},
         RequestGoto(c, where), UNCHANGED esHealthy, Around,
         where = "epoch" => esChecked <= AuthorityRecheck,
         where = "send" => lastRead[hash] <= ReadLimit,
         where = "send" /\ esCall[c].kind # "query" => lastRead[cursor.hash] <= ReadLimit,
         esCall[c].kind = "open" /\ esCall[c].at = "dispatch" => esHealthy
  PROVE  Inv'
<1> DEFINE k == [esCall[c] EXCEPT !.at = where]
<1>1. esCall \in [Callers -> CallType] /\ esHealthy \in BOOLEAN
  BY DEF Inv, ReadInv, Typed
<1>2. k \in CallType /\ k.at = where /\ k.kind = esCall[c].kind
  BY <1>1 DEF CallType
<1>3. esCall' = [esCall EXCEPT ![c] = k] /\ cursor' = cursor
  BY <1>1 DEF RequestGoto
<1>4. UsesCursor(c) <=> esCall[c].kind # "query"
  BY DEF UsesCursor
<1>5. cursor' \in CursorType /\ CursorRead'
  BY <1>3, CursorKept DEF Inv, Around
<1> HIDE DEF k
<1>6. ReadInv'
  BY <1>1, <1>2, <1>3, <1>4, <1>5, CallReads DEF Inv, Around
<1>7. EpochInv'
  BY <1>1, <1>2, <1>3, CallEpochs DEF Inv, Around
<1> QED
  BY <1>6, <1>7 DEF Inv

LEMMA FailsKeeps ==
  ASSUME Inv, NEW c \in Callers, esCall[c].at # "bump",
         Fails(c), UNCHANGED esHealthy, Around
  PROVE  Inv'
<1>1. esHealthy \in BOOLEAN /\ IdleCall \in CallType /\ IdleCall.at = "idle"
  BY IdleTyped DEF Inv, ReadInv, Typed
<1>2. cursor' = cursor \/ cursor' = NoCursor
  BY DEF Fails
<1>3. cursor' = NoCursor /\ cursor # NoCursor => UsesCursor(c)
  BY DEF Fails, HoldsCursor, UsesCursor
<1>4. /\ cursor' \in CursorType /\ CursorRead'
      /\ cursor' # NoCursor => cursor'.hash = cursor.hash
  BY <1>2, CursorKept DEF Inv, Around
<1>5. ReadInv'
  BY <1>1, <1>2, <1>3, <1>4, CallReads DEF Inv, Around, Fails
<1>6. esCall[c].kind = "open" /\ esCall[c].at = "dispatch" => cursor' = NoCursor
  BY DEF Fails, HoldsCursor
<1>7. ~NoCursor.current
  BY NoCursorTyped DEF Inv, ReadInv
<1>8. EpochInv'
  BY <1>1, <1>2, <1>6, <1>7, CallEpochs DEF Inv, Around, Fails
<1> QED
  BY <1>5, <1>8 DEF Inv

LEMMA ReturnsKeeps ==
  ASSUME Inv, NEW c \in Callers, esCall[c].at \notin {"bump", "dispatch"},
         RequestReturns(c), UNCHANGED esHealthy, Around
  PROVE  Inv'
<1>1. esHealthy \in BOOLEAN /\ IdleCall \in CallType /\ IdleCall.at = "idle"
  BY IdleTyped DEF Inv, ReadInv, Typed
<1>2. cursor' = cursor /\ cursor' \in CursorType /\ CursorRead'
  BY CursorKept DEF Inv, Around, RequestReturns
<1>3. ReadInv'
  BY <1>1, <1>2, CallReads DEF Inv, Around, RequestReturns
<1>4. EpochInv'
  BY <1>1, <1>2, CallEpochs DEF Inv, Around, RequestReturns
<1> QED
  BY <1>3, <1>4 DEF Inv

(* invalidateAuthority: the first of its two steps.                        *)
LEMMA InvalidatesKeeps ==
  ASSUME Inv, NEW c \in Callers, esCall[c].at # "bump", Invalidates(c), Around
  PROVE  Inv'
<1> DEFINE k == IF esHealthy THEN [IdleCall EXCEPT !.at = "bump"] ELSE IdleCall
<1>1. esHealthy \in BOOLEAN /\ IdleCall \in CallType /\ IdleCall.at = "idle" /\ IdleCall.kind = "query"
  BY IdleTyped DEF Inv, ReadInv, Typed
<1>2. k \in CallType /\ k.kind = "query" /\ k.at \in {"idle", "bump"} /\ (esHealthy => k.at = "bump")
  BY <1>1 DEF CallType
<1>3. esCall' = [esCall EXCEPT ![c] = k] /\ esHealthy' = FALSE
  BY DEF Invalidates
<1> HIDE DEF k
<1>4. cursor' = cursor \/ cursor' = NoCursor
  BY DEF Invalidates
<1>5. cursor' = NoCursor /\ cursor # NoCursor => UsesCursor(c)
  BY DEF Invalidates, HoldsCursor, UsesCursor
<1>6. /\ cursor' \in CursorType /\ CursorRead'
      /\ cursor' # NoCursor => cursor'.hash = cursor.hash
  BY <1>4, CursorKept DEF Inv, Around
<1>7. ReadInv'
  BY <1>2, <1>3, <1>4, <1>5, <1>6, CallReads DEF Inv, Around
<1>8. esCall[c].kind = "open" /\ esCall[c].at = "dispatch" => cursor' = NoCursor
  BY DEF Invalidates, HoldsCursor
<1>9. ~NoCursor.current
  BY NoCursorTyped DEF Inv, ReadInv
<1>10. EpochInv'
  BY <1>1, <1>2, <1>3, <1>4, <1>8, <1>9, CallEpochs DEF Inv, Around
<1> QED
  BY <1>7, <1>10 DEF Inv

-----------------------------------------------------------------------------
LEMMA BeginKeeps == ASSUME Inv, NEW c \in Callers, RequestBegins(c) PROVE Inv'
<1>1. Around /\ esCall[c].at = "idle"
  BY DEF RequestBegins, Around, clock
<1>2. CASE Refused(c)
  BY <1>1, <1>2, InvalidatesKeeps DEF Refused
<1>3. CASE ~Refused(c)
  <2>1. PICK kind \in {"query", "open", "next"} :
           /\ kind # "query" => \A d \in Callers : ~UsesCursor(d)
           /\ UNCHANGED <<esHealthy, cursor>>
           /\ esCall' = [esCall EXCEPT ![c] = [at |-> "wait", kind |-> kind, left |-> RequestTimeout]]
    BY <1>3 DEF RequestBegins
  <2> DEFINE k == [at |-> "wait", kind |-> kind, left |-> RequestTimeout]
  <2>2. k \in CallType /\ k.at = "wait" /\ k.kind = kind
    <3>1. RequestTimeout \in 0..RequestTimeout
      BY Limits
    <3> QED
      BY <3>1 DEF CallType
  <2>3. esCall' = [esCall EXCEPT ![c] = k]
    BY <2>1
  <2> HIDE DEF k
  <2>4. cursor' \in CursorType /\ CursorRead' /\ esHealthy' \in BOOLEAN
    BY <1>1, <2>1, CursorKept DEF Inv, ReadInv, Typed, Around
  <2>5. ReadInv'
    BY <1>1, <2>1, <2>2, <2>3, <2>4, CallReads DEF Inv, Around
  <2>6. EpochInv'
    BY <1>1, <2>1, <2>2, <2>3, <2>4, CallEpochs DEF Inv, Around
  <2> QED
    BY <2>5, <2>6 DEF Inv
<1> QED
  BY <1>2, <1>3

LEMMA ReserveKeeps == ASSUME Inv, NEW c \in Callers, Reserve(c) PROVE Inv'
<1>1. Around /\ esCall[c].at = "use" /\ esCall[c].kind = "open" /\ UNCHANGED esHealthy
  BY DEF Reserve, Around, clock, proof
<1>2. CASE Fails(c)
  BY <1>1, <1>2, FailsKeeps
<1>3. CASE /\ cursor' = [open |-> TRUE, current |-> TRUE, hash |-> hash, lapsed |-> FALSE]
           /\ esCall' = [esCall EXCEPT ![c].at = "dispatch"]
  <2> DEFINE k == [esCall[c] EXCEPT !.at = "dispatch"]
  <2>1. esCall \in [Callers -> CallType] /\ esHealthy \in BOOLEAN /\ hash \in Authorities
    BY DEF Inv, ReadInv, Typed
  <2>2. k \in CallType /\ k.at = "dispatch" /\ k.kind = "open"
    BY <1>1, <2>1 DEF CallType
  <2>3. esCall' = [esCall EXCEPT ![c] = k]
    BY <1>3, <2>1
  <2> HIDE DEF k
  <2>4. cursor' \in CursorType
    BY <1>3, <2>1 DEF CursorType
  <2>5. CursorRead'
    BY <1>1, <1>3 DEF Inv, ReadInv, HashRead, CursorRead, Around
  <2>6. UsesCursor(c)
    BY <1>1 DEF UsesCursor
  <2>7. ReadInv'
    BY <1>1, <2>1, <2>2, <2>3, <2>4, <2>5, <2>6, CallReads DEF Inv, Around
  <2>8. EpochInv'
    BY <1>1, <1>3, <2>1, <2>2, <2>3, CallEpochs DEF Inv, Around
  <2> QED
    BY <2>7, <2>8 DEF Inv
<1> QED
  BY <1>2, <1>3 DEF Reserve

LEMMA UsableKeeps == ASSUME Inv, NEW c \in Callers, Usable(c) PROVE Inv'
<1>1. /\ Around /\ esCall[c].at \in {"use", "verify"}
      /\ esCall[c].at = "use" => esCall[c].kind = "next"
  BY DEF Usable, Around, clock
<1>2. CASE Fails(c) /\ UNCHANGED esHealthy
  BY <1>1, <1>2, FailsKeeps
<1>3. CASE Refused(c)
  BY <1>1, <1>3, InvalidatesKeeps DEF Refused
<1>4. CASE Proceeds(c, "dispatch")
  BY <1>1, <1>4, GotoKeeps DEF Proceeds
<1>5. CASE RequestReturns(c) /\ UNCHANGED esHealthy
  BY <1>1, <1>5, ReturnsKeeps
<1> QED
  BY <1>2, <1>3, <1>4, <1>5 DEF Usable

(* ready is the last look at the proof before a query goes out.            *)
LEMMA DispatchKeeps == ASSUME Inv, NEW c \in Callers, Dispatch(c) PROVE Inv'
<1>1. Around /\ esCall[c].at = "dispatch"
  BY DEF Dispatch, Around, clock
<1>2. CASE Refused(c)
  BY <1>1, <1>2, InvalidatesKeeps DEF Refused
<1>3. CASE Proceeds(c, IF esCall[c].kind = "query" THEN "send" ELSE "epoch")
  <2>1. readyOK /\ UNCHANGED esHealthy
    BY <1>3 DEF Proceeds
  <2>2. esChecked <= AuthorityRecheck /\ esHealthy
    <3>1. esChecked < AuthorityRecheck /\ esChecked \in Nat /\ AuthorityRecheck \in Nat
      BY <2>1, Limits DEF readyOK, Inv, ReadInv, Typed, Ages
    <3> QED
      BY <2>1, <3>1 DEF readyOK
  <2>3. lastRead[hash] <= ReadLimit
    <3>1. esChecked \in Nat /\ lastRead[hash] \in Nat /\ lastRead[hash] <= esChecked + ConnectTimeout
      BY Limits DEF Inv, ReadInv, Typed, HashRead, Ages
    <3> QED
      BY <2>2, <3>1, Limits
  <2>4. CASE esCall[c].kind = "query"
    <3>1. RequestGoto(c, "send")
      BY <1>3, <2>4 DEF Proceeds
    <3> QED
      BY <1>1, <2>1, <2>2, <2>3, <2>4, <3>1, GotoKeeps
  <2>5. CASE esCall[c].kind # "query"
    <3>1. RequestGoto(c, "epoch")
      BY <1>3, <2>5 DEF Proceeds
    <3> QED
      BY <1>1, <2>1, <2>2, <2>3, <2>5, <3>1, GotoKeeps
  <2> QED
    BY <2>4, <2>5
<1> QED
  BY <1>2, <1>3 DEF Dispatch

(* The epoch vouches for the authority of the opening.                     *)
LEMMA DispatchEpochKeeps ==
  ASSUME Inv, NEW c \in Callers, DispatchEpoch(c) PROVE Inv'
<1>1. Around /\ esCall[c].at = "epoch" /\ UNCHANGED esHealthy
  BY DEF DispatchEpoch, Around, clock, proof
<1>2. CASE Fails(c)
  BY <1>1, <1>2, FailsKeeps
<1>3. CASE cursor.current /\ RequestGoto(c, "send")
  <2>1. esChecked <= AuthorityRecheck /\ esChecked \in Nat
    BY <1>1, Limits DEF Inv, ReadInv, CallRead, Typed, Ages
  <2>2. lastRead[hash] \in Nat /\ lastRead[hash] <= esChecked + ConnectTimeout
    BY Limits DEF Inv, ReadInv, Typed, HashRead, Ages
  <2>3. lastRead[cursor.hash] \in Nat /\ lastRead[cursor.hash] <= esChecked + ConnectTimeout
    <3>1. cursor.hash \in Authorities
      BY DEF Inv, ReadInv, Typed, CursorType
    <3> QED
      BY <1>3, <3>1, Limits DEF Inv, ReadInv, Typed, CursorRead, Ages
  <2>4. lastRead[hash] <= ReadLimit /\ lastRead[cursor.hash] <= ReadLimit
    BY <2>1, <2>2, <2>3, Limits
  <2> QED
    BY <1>1, <1>3, <2>4, GotoKeeps
<1> QED
  BY <1>2, <1>3 DEF DispatchEpoch

LEMMA BumpKeeps == ASSUME Inv, NEW c \in Callers, Bump(c) PROVE Inv'
<1>1. Around /\ UNCHANGED esHealthy /\ NextEpoch /\ esCall' = [esCall EXCEPT ![c] = IdleCall]
  BY DEF Bump, Around, clock, proof
<1>2. esHealthy \in BOOLEAN /\ IdleCall \in CallType /\ IdleCall.at = "idle"
  BY IdleTyped DEF Inv, ReadInv, Typed
<1>3. cursor' \in CursorType /\ CursorRead'
  BY <1>1, CursorKept DEF Inv, Around
<1>4. cursor'.hash = cursor.hash /\ ~cursor'.current
  BY <1>1 DEF NextEpoch, Inv, ReadInv, Typed, CursorType
<1>5. ReadInv'
  BY <1>1, <1>2, <1>3, <1>4, CallReads DEF Inv, Around
<1>6. EpochInv'
  BY <1>1, <1>2, <1>4, CallEpochs DEF Inv, Around
<1> QED
  BY <1>5, <1>6 DEF Inv

LEMMA CallStepKeeps == ASSUME Inv, NEW c \in Callers, RequestStep(c) PROVE Inv'
<1>1. CASE Admitted(c)
  <2>1. Around /\ esCall[c].at = "wait" /\ UNCHANGED esHealthy
    BY <1>1 DEF Admitted, Around, clock, proof
  <2>2. CASE Fails(c)
    BY <2>1, <2>2, FailsKeeps
  <2>3. CASE RequestGoto(c, IF esCall[c].kind = "query" THEN "dispatch" ELSE "use")
    BY <2>1, <2>3, GotoKeeps
  <2> QED
    BY <1>1, <2>2, <2>3 DEF Admitted
<1>2. CASE Send(c)
  BY <1>2, GotoKeeps DEF Send, Around, clock, proof
<1>3. CASE Answered(c)
  <2>1. Around /\ esCall[c].at = "sent"
    BY <1>3 DEF Answered, Around, clock
  <2>2. CASE RequestReturns(c) /\ UNCHANGED esHealthy
    BY <2>1, <2>2, ReturnsKeeps
  <2>3. CASE RequestGoto(c, "verify") /\ UNCHANGED esHealthy
    BY <2>1, <2>3, GotoKeeps
  <2>4. CASE Fails(c) /\ UNCHANGED esHealthy
    BY <2>1, <2>4, FailsKeeps
  <2>5. CASE Invalidates(c)
    BY <2>1, <2>5, InvalidatesKeeps
  <2> QED
    BY <1>3, <2>2, <2>3, <2>4, <2>5 DEF Answered
<1> QED
  BY <1>1, <1>2, <1>3, BeginKeeps, ReserveKeeps, UsableKeeps, DispatchKeeps,
     DispatchEpochKeeps, BumpKeeps DEF RequestStep

-----------------------------------------------------------------------------
LEMMA RetiredKeeps == ASSUME Inv, CursorRetired PROVE Inv'
<1>1. /\ UNCHANGED <<esHealthy, esChecked, hash, closed, esCall, refresh, lastRead>> /\ cursor' = NoCursor
      /\ \A c \in Callers : ~UsesCursor(c)
  BY DEF CursorRetired, proof, clock
<1>2. cursor' \in CursorType /\ ~cursor'.current
  BY <1>1, NoCursorTyped DEF Inv, ReadInv
<1>3. Typed' /\ HashRead' /\ CursorRead' /\ OneUser'
  BY <1>1, <1>2 DEF Inv, ReadInv, Typed, HashRead, CursorRead, OneUser, UsesCursor
<1>4. ASSUME NEW c \in Callers PROVE CallRead(c)'
  BY <1>1 DEF Inv, ReadInv, CallRead, UsesCursor
<1>5. EpochInv'
  BY <1>1, <1>2 DEF Inv, EpochInv, RefreshInTime, CurrentIsHealthy, LapsedEnds
<1> QED
  BY <1>3, <1>4, <1>5 DEF Inv, ReadInv

(* A step of refresh that stores nothing.                                  *)
LEMMA RefreshReads ==
  ASSUME ReadInv, UNCHANGED <<esChecked, hash, closed, esCall, lastRead>>, esHealthy' \in BOOLEAN,
         refresh' \in RefreshType, cursor' = cursor \/ NextEpoch,
         refresh'.at = "attested" => refresh' = refresh,
         refresh'.at \in {"addChanged", "store"} => refresh.at \in {"addChanged", "store"},
         refresh.at = "addChanged" => ~cursor'.current
  PROVE  ReadInv'
<1>1. cursor' \in CursorType /\ cursor'.hash = cursor.hash /\ (cursor'.current => cursor' = cursor)
  BY DEF ReadInv, Typed, NextEpoch, CursorType
<1>2. Typed' /\ HashRead' /\ OneUser'
  BY <1>1 DEF ReadInv, Typed, HashRead, OneUser, UsesCursor
<1>3. CursorRead'
  BY <1>1 DEF ReadInv, CursorRead
<1>4. ASSUME NEW c \in Callers PROVE CallRead(c)'
  BY <1>1 DEF ReadInv, CallRead
<1> QED
  BY <1>2, <1>3, <1>4 DEF ReadInv

(* The calls are where they were.                                          *)
LEMMA SameCalls ==
  ASSUME UNCHANGED esCall
  PROVE  (HalfInvalidated' <=> HalfInvalidated) /\ (Opening' <=> Opening)
BY DEF HalfInvalidated, Opening

LEMMA RefreshBeginsKeeps == ASSUME Inv, RefreshBegins PROVE Inv'
<1>1. /\ refresh.at = "idle" /\ UNCHANGED <<esChecked, hash, closed, cursor, esCall, lastRead>>
      /\ esHealthy' = (esHealthy /\ ~(esChecked >= AuthorityRecheck))
      /\ refresh' = [at |-> IF esChecked >= AuthorityRecheck /\ esHealthy THEN "addFirst" ELSE "acquire",
                       left |-> IF closed THEN 0 ELSE ConnectTimeout, got |-> hash]
  BY DEF RefreshBegins
<1>2. /\ refresh' \in RefreshType
      /\ refresh'.at = (IF esChecked >= AuthorityRecheck /\ esHealthy THEN "addFirst" ELSE "acquire")
      /\ refresh'.left \in Nat /\ refresh'.left <= ConnectTimeout
  <2>1. 0 \in 0..ConnectTimeout /\ ConnectTimeout \in 0..ConnectTimeout /\ hash \in Authorities
        /\ closed \in BOOLEAN
    BY Limits DEF Inv, ReadInv, Typed
  <2> DEFINE n == IF closed THEN 0 ELSE ConnectTimeout
  <2>2. n \in 0..ConnectTimeout
    BY <2>1
  <2>3. refresh'.left = n
    BY <1>1
  <2> HIDE DEF n
  <2>4. refresh' \in RefreshType
    BY <1>1, <2>1, <2>2 DEF RefreshType, n
  <2> QED
    BY <1>1, <2>2, <2>3, <2>4, Limits
<1>3. esHealthy' \in BOOLEAN
  BY <1>1
<1>4. ReadInv'
  BY <1>1, <1>2, <1>3, RefreshReads DEF Inv
<1>5. esChecked \in Nat /\ esHealthy \in BOOLEAN
  BY Limits DEF Inv, ReadInv, Typed, Ages
<1>6. RefreshInTime'
  <2>1. CASE esChecked >= AuthorityRecheck
    BY <1>1, <1>2, <2>1 DEF RefreshInTime
  <2>2. CASE ~(esChecked >= AuthorityRecheck)
    <3>1. esChecked + refresh'.left <= ReadLimit /\ esChecked' = esChecked /\ refresh'.at = "acquire"
      BY <1>1, <1>2, <1>5, <2>2, Limits
    <3> QED
      BY <3>1 DEF RefreshInTime
  <2> QED
    BY <2>1, <2>2
<1>7. /\ esHealthy' \/ refresh'.at = "addFirst" \/ ~esHealthy
      /\ esChecked >= AuthorityRecheck /\ esHealthy => refresh'.at = "addFirst"
  BY <1>1, <1>2, <1>5, Limits
<1>8. CurrentIsHealthy' /\ LapsedEnds'
  BY <1>1, <1>7, SameCalls DEF Inv, EpochInv, CurrentIsHealthy, LapsedEnds, Invalidating
<1> QED
  BY <1>4, <1>6, <1>8 DEF Inv, EpochInv

LEMMA RefreshAddsKeeps == ASSUME Inv, RefreshAdds PROVE Inv'
<1>1. /\ UNCHANGED <<esHealthy, esChecked, hash, closed, esCall, lastRead>> /\ NextEpoch
      /\ refresh.at \in {"addFirst", "addChanged", "addFailed"}
      /\ refresh' = [refresh EXCEPT !.at = IF refresh.at = "addFirst" THEN "acquire"
                                           ELSE IF refresh.at = "addChanged" THEN "store" ELSE "idle"]
  BY DEF RefreshAdds, Step, proof, clock
<1>2. /\ refresh' \in RefreshType
      /\ refresh'.at = (IF refresh.at = "addFirst" THEN "acquire"
                                           ELSE IF refresh.at = "addChanged" THEN "store" ELSE "idle")
  BY <1>1 DEF Inv, ReadInv, Typed, RefreshType
<1>3. ~cursor'.current
  BY <1>1 DEF NextEpoch, Inv, ReadInv, Typed, CursorType
<1>4. ReadInv'
  <2>1. esHealthy' \in BOOLEAN
    BY <1>1 DEF Inv, ReadInv, Typed
  <2> QED
    BY <1>1, <1>2, <1>3, <2>1, RefreshReads DEF Inv
<1>5. RefreshInTime'
  BY <1>1, <1>2 DEF Inv, EpochInv, RefreshInTime
<1> QED
  BY <1>3, <1>4, <1>5 DEF Inv, EpochInv, CurrentIsHealthy, LapsedEnds

LEMMA RefreshFailsKeeps == ASSUME Inv, RefreshFails PROVE Inv'
<1>1. /\ UNCHANGED <<esChecked, hash, closed, cursor, esCall, lastRead>> /\ esHealthy' = FALSE
      /\ refresh.at \in {"acquire", "attest", "attested"}
      /\ refresh' = [refresh EXCEPT !.at = IF esHealthy THEN "addFailed" ELSE "idle"]
  BY DEF RefreshFails, RefreshInvalidates, Step, clock
<1>2. refresh' \in RefreshType /\ refresh'.at = IF esHealthy THEN "addFailed" ELSE "idle"
  BY <1>1 DEF Inv, ReadInv, Typed, RefreshType
<1>3. ReadInv'
  <2>1. esHealthy' \in BOOLEAN
    BY <1>1
  <2>2. refresh'.at \notin {"attested", "addChanged", "store"}
    BY <1>2
  <2> QED
    BY <1>1, <1>2, <2>1, <2>2, RefreshReads DEF Inv
<1>4. EpochInv'
  BY <1>1, <1>2, SameCalls DEF Inv, EpochInv, RefreshInTime, CurrentIsHealthy, LapsedEnds, Invalidating
<1> QED
  BY <1>3, <1>4 DEF Inv

LEMMA AdmittedOrStopsKeeps ==
  ASSUME Inv, RefreshAdmitted \/ MaintainStops PROVE Inv'
<1>1. /\ UNCHANGED <<esHealthy, esChecked, hash, closed, cursor, esCall, lastRead>>
      /\ \/ refresh.at = "acquire" /\ refresh' = [refresh EXCEPT !.at = "attest"]
         \/ refresh.at = "idle" /\ closed /\ refresh' = [refresh EXCEPT !.at = "stopped"]
  BY DEF RefreshAdmitted, MaintainStops, Step, proof, clock
<1>2. /\ refresh' \in RefreshType /\ refresh'.left = refresh.left
      /\ \/ refresh.at = "acquire" /\ refresh'.at = "attest"
         \/ refresh.at = "idle" /\ closed /\ refresh'.at = "stopped"
  BY <1>1 DEF Inv, ReadInv, Typed, RefreshType
<1>3. ReadInv'
  <2>1. esHealthy' \in BOOLEAN
    BY <1>1 DEF Inv, ReadInv, Typed
  <2> QED
    BY <1>1, <1>2, <2>1, RefreshReads DEF Inv
<1>4. EpochInv'
  BY <1>1, <1>2, SameCalls DEF Inv, EpochInv, RefreshInTime, CurrentIsHealthy, LapsedEnds, Invalidating
<1> QED
  BY <1>3, <1>4 DEF Inv

LEMMA AttestReadsKeeps == ASSUME Inv, AttestReads PROVE Inv'
<1>1. PICK a \in Authorities :
        /\ refresh' = [refresh EXCEPT !.at = "attested", !.got = a]
        /\ lastRead' = [lastRead EXCEPT ![a] = 0]
  BY DEF AttestReads
<1>2. UNCHANGED <<esHealthy, esChecked, hash, closed, cursor, esCall>> /\ refresh.at = "attest"
  BY DEF AttestReads, proof
<1>3. /\ refresh \in RefreshType /\ lastRead \in [Authorities -> Ages] /\ 0 \in Ages
      /\ hash \in Authorities /\ cursor.hash \in Authorities
  BY Limits DEF Inv, ReadInv, Typed, CursorType, Ages
<1>4. /\ refresh' \in RefreshType /\ refresh'.at = "attested" /\ refresh'.got = a
      /\ refresh'.left = refresh.left
  BY <1>1, <1>3 DEF RefreshType
<1>5. /\ lastRead' \in [Authorities -> Ages] /\ lastRead'[a] = 0
      /\ \A b \in Authorities : b # a => lastRead'[b] = lastRead[b]
  BY <1>1, <1>3
<1>6. \A b \in Authorities : lastRead'[b] \in Nat /\ lastRead[b] \in Nat /\ lastRead'[b] <= lastRead[b]
  BY <1>3, <1>5, Limits DEF Ages
<1>7. refresh.left \in Nat /\ refresh.left <= ConnectTimeout /\ esChecked \in Nat
  BY <1>3, Limits DEF RefreshType, Inv, ReadInv, Typed, Ages
<1>8. Typed' /\ OneUser'
  BY <1>2, <1>4, <1>5 DEF Inv, ReadInv, Typed, OneUser, UsesCursor
<1>9. HashRead'
  <2>1. lastRead[hash] <= esChecked + ConnectTimeout
    BY DEF Inv, ReadInv, HashRead
  <2>2. lastRead'[hash] <= esChecked + ConnectTimeout
    BY <1>3, <1>6, <1>7, <2>1, Limits
  <2> QED
    BY <1>2, <1>4, <1>5, <1>7, <2>2, Limits DEF HashRead
<1>10. CursorRead'
  <2>1. cursor.current => cursor.open /\ cursor.hash = hash /\ lastRead[cursor.hash] <= esChecked + ConnectTimeout
    BY <1>2 DEF Inv, ReadInv, CursorRead
  <2>2. cursor.current => lastRead'[cursor.hash] <= esChecked + ConnectTimeout
    BY <1>3, <1>6, <1>7, <2>1, Limits
  <2> QED
    BY <1>2, <2>1, <2>2 DEF CursorRead
<1>11. ASSUME NEW c \in Callers PROVE CallRead(c)'
  <2>1. lastRead[hash] <= ReadLimit => lastRead'[hash] <= ReadLimit
    BY <1>3, <1>6, Limits
  <2>2. lastRead[cursor.hash] <= ReadLimit => lastRead'[cursor.hash] <= ReadLimit
    BY <1>3, <1>6, Limits
  <2> QED
    BY <1>2, <2>1, <2>2 DEF Inv, ReadInv, CallRead
<1>12. RefreshInTime'
  BY <1>2, <1>4 DEF Inv, EpochInv, RefreshInTime
<1>13. EpochInv'
  <2>1. (HalfInvalidated' <=> HalfInvalidated) /\ (Opening' <=> Opening)
    BY <1>2, SameCalls
  <2> QED
    BY <1>2, <1>4, <1>12, <2>1 DEF Inv, EpochInv, CurrentIsHealthy, LapsedEnds, Invalidating
<1> QED
  BY <1>8, <1>9, <1>10, <1>11, <1>13 DEF Inv, ReadInv

(* Another hash: the cursors of the old one are current until the Add.     *)
LEMMA AttestEndsKeeps == ASSUME Inv, AttestEnds PROVE Inv'
<1>1. /\ UNCHANGED <<esHealthy, esChecked, closed, cursor, esCall, lastRead>>
      /\ refresh.at = "attested" /\ hash' = refresh.got
      /\ refresh' = [refresh EXCEPT !.at = IF refresh.got = hash THEN "store" ELSE "addChanged"]
  BY DEF AttestEnds, Step, clock
<1>2. /\ refresh' \in RefreshType /\ hash' \in Authorities
      /\ refresh'.at = IF hash' = hash THEN "store" ELSE "addChanged"
  BY <1>1 DEF Inv, ReadInv, Typed, RefreshType
<1>3. lastRead[hash'] \in Nat /\ lastRead[hash'] <= ConnectTimeout /\ esChecked \in Nat
  <2>1. refresh.left \in Nat /\ lastRead[refresh.got] \in Nat /\ esChecked \in Nat
        /\ lastRead[refresh.got] + refresh.left <= ConnectTimeout
    BY <1>1, <1>2, Limits DEF Inv, ReadInv, Typed, RefreshType, Ages, HashRead
  <2> QED
    BY <1>1, <2>1, Limits
<1>4. Typed' /\ OneUser'
  BY <1>1, <1>2 DEF Inv, ReadInv, Typed, OneUser, UsesCursor
<1>5. HashRead'
  <2>1. lastRead[hash'] <= esChecked + ConnectTimeout
    BY <1>3, Limits
  <2> QED
    BY <1>1, <1>2, <1>3, <2>1 DEF HashRead
<1>6. CursorRead'
  BY <1>1, <1>2 DEF Inv, ReadInv, CursorRead
<1>7. ASSUME NEW c \in Callers PROVE CallRead(c)'
  <2>1. lastRead[hash'] <= ReadLimit
    BY <1>3, Limits
  <2> QED
    BY <1>1, <2>1 DEF Inv, ReadInv, CallRead
<1>8. EpochInv'
  <2>1. (HalfInvalidated' <=> HalfInvalidated) /\ (Opening' <=> Opening)
    BY <1>1, SameCalls
  <2>2. RefreshInTime'
    BY <1>1, <1>2 DEF Inv, EpochInv, RefreshInTime
  <2> QED
    BY <1>1, <1>2, <2>1, <2>2 DEF Inv, EpochInv, CurrentIsHealthy, LapsedEnds, Invalidating
<1> QED
  BY <1>4, <1>5, <1>6, <1>7, <1>8 DEF Inv, ReadInv

LEMMA RefreshStoresKeeps == ASSUME Inv, RefreshStores PROVE Inv'
<1>1. /\ UNCHANGED <<hash, closed, cursor, esCall, lastRead>>
      /\ refresh.at = "store" /\ esChecked' = 0 /\ esHealthy' = TRUE
      /\ refresh' = [refresh EXCEPT !.at = "idle"]
  BY DEF RefreshStores, Step, clock
<1>2. refresh' \in RefreshType /\ refresh'.at = "idle"
  BY <1>1 DEF Inv, ReadInv, Typed, RefreshType
<1>3. lastRead[hash] <= ConnectTimeout /\ (cursor.current => cursor.open /\ cursor.hash = hash)
  BY <1>1 DEF Inv, ReadInv, HashRead, CursorRead
<1>4. lastRead[hash] <= 0 + ConnectTimeout
  BY <1>3, Limits
<1>5. Typed' /\ OneUser'
  <2>1. 0 \in Ages
    BY Limits DEF Ages
  <2> QED
    BY <1>1, <1>2, <2>1 DEF Inv, ReadInv, Typed, OneUser, UsesCursor
<1>6. HashRead' /\ CursorRead'
  BY <1>1, <1>2, <1>3, <1>4 DEF HashRead, CursorRead
<1>7. ASSUME NEW c \in Callers PROVE CallRead(c)'
  <2>1. 0 <= AuthorityRecheck
    BY Limits
  <2> QED
    BY <1>1, <2>1 DEF Inv, ReadInv, CallRead
<1>8. EpochInv'
  BY <1>1, <1>2, SameCalls DEF Inv, EpochInv, RefreshInTime, CurrentIsHealthy, LapsedEnds, Invalidating
<1> QED
  BY <1>5, <1>6, <1>7, <1>8 DEF Inv, ReadInv

-----------------------------------------------------------------------------
LEMMA CloseKeeps == ASSUME Inv, EsCloses PROVE Inv'
<1>1. /\ UNCHANGED <<esChecked, hash, cursor, lastRead>> /\ closed' = TRUE /\ esHealthy' = FALSE
      /\ esCall' = [c \in Callers |-> [esCall[c] EXCEPT !.left = 0]]
      /\ refresh' = [refresh EXCEPT !.left = 0]
  BY DEF EsCloses, clock
<1>2. 0 \in 0..ConnectTimeout /\ 0 \in 0..RequestTimeout
  BY Limits
<1>3. refresh' \in RefreshType /\ refresh'.at = refresh.at /\ refresh'.got = refresh.got /\ refresh'.left = 0
  BY <1>1, <1>2 DEF Inv, ReadInv, Typed, RefreshType
<1>4. /\ esCall' \in [Callers -> CallType]
      /\ \A c \in Callers : esCall'[c].at = esCall[c].at /\ esCall'[c].kind = esCall[c].kind
  BY <1>1, <1>2 DEF Inv, ReadInv, Typed, CallType
<1>5. Typed' /\ OneUser'
  BY <1>1, <1>3, <1>4 DEF Inv, ReadInv, Typed, OneUser, UsesCursor
<1>6. HashRead'
  <2>1. refresh.at = "attested" => lastRead[refresh.got] + 0 <= ConnectTimeout
    <3>1. /\ lastRead[refresh.got] \in Nat /\ refresh.left \in Nat
          /\ refresh.at = "attested" => lastRead[refresh.got] + refresh.left <= ConnectTimeout
      BY Limits DEF Inv, ReadInv, Typed, RefreshType, Ages, HashRead
    <3> QED
      BY <3>1, Limits
  <2> QED
    BY <1>1, <1>3, <2>1 DEF Inv, ReadInv, HashRead
<1>7. CursorRead'
  BY <1>1, <1>3 DEF Inv, ReadInv, CursorRead
<1>8. ASSUME NEW c \in Callers PROVE CallRead(c)'
  BY <1>1, <1>4 DEF Inv, ReadInv, CallRead
<1>9. EpochInv'
  BY <1>1, <1>3 DEF Inv, EpochInv, RefreshInTime, CurrentIsHealthy, LapsedEnds
<1> QED
  BY <1>5, <1>6, <1>7, <1>8, <1>9 DEF Inv, ReadInv

LEMMA OlderAges ==
  ASSUME NEW a \in Ages
  PROVE  /\ ReadOlder(a) \in Ages /\ a \in Nat /\ ReadOlder(a) \in Nat /\ ReadOlder(a) >= a /\ ReadOlder(a) <= a + 1
         /\ a <= ReadLimit => ReadOlder(a) = a + 1
         /\ a > ReadLimit => ReadOlder(a) > ReadLimit
BY Limits DEF ReadOlder, Ages

(* What is at most ConnectTimeout older than another age stays so.         *)
LEMMA OlderTogether ==
  ASSUME NEW a \in Ages, NEW b \in Ages, a <= b + ConnectTimeout
  PROVE  ReadOlder(a) <= ReadOlder(b) + ConnectTimeout
BY Limits DEF ReadOlder, Ages

LEMMA TickKeeps == ASSUME Inv, EsTick PROVE Inv'
<1>0. /\ esChecked' = ReadOlder(esChecked) /\ lastRead' = [a \in Authorities |-> ReadOlder(lastRead[a])]
      /\ esCall' = [c \in Callers |-> [esCall[c] EXCEPT !.left = TimeLess(@)]]
      /\ refresh' = [refresh EXCEPT !.left = TimeLess(@)]
      /\ cursor' = [cursor EXCEPT !.lapsed = @ \/ (cursor.open /\ ~Opening /\ Lapsing(esChecked'))]
      /\ UNCHANGED <<esHealthy, hash, closed>>
  BY DEF EsTick
<1>1. /\ esChecked \in Ages /\ lastRead \in [Authorities -> Ages] /\ cursor \in CursorType
      /\ refresh \in RefreshType /\ esCall \in [Callers -> CallType] /\ hash \in Authorities
      /\ cursor.hash \in Authorities /\ refresh.got \in Authorities
  BY DEF Inv, ReadInv, Typed, CursorType, RefreshType
<1>2. \A c \in Callers : esCall[c].at \in {"idle", "wait", "dispatch", "sent"}
  BY DEF EsTick, RequestWaits
<1>3. /\ refresh.at \in {"idle", "stopped", "acquire", "attest", "attested"}
      /\ refresh.at \in {"acquire", "attest", "attested"} => refresh.left > 0
  BY DEF EsTick, RefreshWaits
<1>4. /\ esChecked' \in Ages /\ lastRead' \in [Authorities -> Ages]
      /\ \A a \in Authorities : lastRead'[a] = ReadOlder(lastRead[a])
  BY <1>0, <1>1, OlderAges
<1>5. /\ refresh' \in RefreshType /\ refresh'.at = refresh.at /\ refresh'.got = refresh.got
      /\ refresh.left \in Nat /\ refresh'.left \in Nat
      /\ refresh.left > 0 => refresh'.left = refresh.left - 1
  <2>1. TimeLess(refresh.left) \in 0..ConnectTimeout /\ refresh.left \in Nat
        /\ (refresh.left > 0 => TimeLess(refresh.left) = refresh.left - 1)
    BY <1>1, Limits DEF RefreshType, TimeLess
  <2>2. /\ refresh'.left = TimeLess(refresh.left) /\ refresh'.at = refresh.at /\ refresh'.got = refresh.got
        /\ refresh' \in RefreshType
    BY <1>0, <1>1, <2>1 DEF RefreshType
  <2> QED
    BY <2>1, <2>2
<1>6. /\ esCall' \in [Callers -> CallType]
      /\ \A c \in Callers : esCall'[c].at = esCall[c].at /\ esCall'[c].kind = esCall[c].kind
  <2>1. ASSUME NEW c \in Callers PROVE TimeLess(esCall[c].left) \in 0..RequestTimeout
    BY <1>1, Limits DEF CallType, TimeLess
  <2> QED
    BY <1>0, <1>1, <2>1 DEF CallType
<1>7. /\ cursor' \in CursorType /\ cursor'.current = cursor.current /\ cursor'.open = cursor.open
      /\ cursor'.hash = cursor.hash
      /\ cursor'.lapsed => cursor.lapsed \/ (cursor.open /\ ~Opening /\ Lapsing(esChecked'))
  BY <1>0, <1>1 DEF CursorType
<1>8. Typed' /\ OneUser'
  BY <1>0, <1>1, <1>4, <1>5, <1>6, <1>7 DEF Inv, ReadInv, Typed, OneUser, UsesCursor
<1>9. HashRead'
  <2>1. lastRead'[hash] <= esChecked' + ConnectTimeout
    BY <1>0, <1>1, <1>4, OlderTogether DEF Inv, ReadInv, HashRead
  <2>2. refresh.at = "attested" => lastRead'[refresh.got] + refresh'.left <= ConnectTimeout
    <3>1. /\ refresh.at = "attested" => lastRead[refresh.got] + refresh.left <= ConnectTimeout
          /\ lastRead'[refresh.got] = ReadOlder(lastRead[refresh.got])
          /\ lastRead[refresh.got] \in Ages
      BY <1>1, <1>4 DEF Inv, ReadInv, HashRead
    <3>2. /\ ReadOlder(lastRead[refresh.got]) <= lastRead[refresh.got] + 1 /\ lastRead[refresh.got] \in Nat
          /\ ReadOlder(lastRead[refresh.got]) \in Nat
      BY <3>1, OlderAges
    <3> QED
      BY <1>3, <1>5, <3>1, <3>2, Limits
  <2> QED
    BY <1>0, <1>3, <1>5, <2>1, <2>2 DEF HashRead
<1>10. CursorRead'
  <2>1. cursor.current => cursor.open /\ cursor.hash = hash /\ lastRead[cursor.hash] <= esChecked + ConnectTimeout
    BY <1>3 DEF Inv, ReadInv, CursorRead
  <2>2. cursor.current => lastRead'[cursor.hash] <= esChecked' + ConnectTimeout
    BY <1>0, <1>1, <1>4, <2>1, OlderTogether
  <2> QED
    BY <1>0, <1>7, <2>1, <2>2 DEF CursorRead
<1>11. ASSUME NEW c \in Callers PROVE CallRead(c)'
  BY <1>2, <1>6 DEF CallRead
<1>12. /\ ~HalfInvalidated /\ ~HalfInvalidated' /\ (Opening' <=> Opening)
  BY <1>2, <1>6 DEF HalfInvalidated, Opening
<1>13. RefreshInTime'
  <2>1. CASE refresh.at \in {"acquire", "attest", "attested"} /\ esHealthy
    <3>1. esChecked + refresh.left <= ReadLimit
      BY <2>1 DEF Inv, EpochInv, RefreshInTime
    <3>2. esChecked \in Nat /\ esChecked' \in Nat /\ esChecked' <= esChecked + 1
      BY <1>0, <1>1, OlderAges
    <3>3. esChecked' + refresh'.left <= ReadLimit
      BY <1>3, <1>5, <2>1, <3>1, <3>2, Limits
    <3> QED
      BY <1>0, <1>5, <2>1, <3>3 DEF RefreshInTime
  <2>2. CASE ~(refresh.at \in {"acquire", "attest", "attested"} /\ esHealthy)
    BY <1>0, <1>3, <1>5, <2>2 DEF Inv, EpochInv, RefreshInTime
  <2> QED
    BY <2>1, <2>2
<1>14. CurrentIsHealthy'
  BY <1>0, <1>5, <1>7, <1>12 DEF Inv, EpochInv, CurrentIsHealthy, Invalidating
<1>15. LapsedEnds'
  <2> SUFFICES ASSUME cursor'.lapsed, cursor'.current, ~closed'
               PROVE  esChecked' >= AuthorityRecheck /\ esHealthy' /\ refresh'.at = "idle"
    BY DEF LapsedEnds
  <2>1. cursor.current /\ ~closed
    BY <1>0, <1>7
  <2>2. CASE cursor.lapsed
    <3>1. esChecked >= AuthorityRecheck /\ esHealthy /\ refresh.at = "idle"
      BY <1>3, <1>12, <2>1, <2>2 DEF Inv, EpochInv, LapsedEnds
    <3>2. esChecked \in Nat /\ esChecked' \in Nat /\ esChecked' >= esChecked
      BY <1>0, <1>1, OlderAges
    <3>3. esChecked' >= AuthorityRecheck
      BY <3>1, <3>2, Limits
    <3> QED
      BY <1>0, <1>5, <3>1, <3>3
  <2>3. CASE ~cursor.lapsed
    <3>1. /\ ~Opening /\ esChecked' >= AuthorityRecheck
          /\ refresh.at \in {"idle", "stopped"} \/ esChecked' > ReadLimit
      BY <1>7, <2>3 DEF Lapsing
    <3>2. esHealthy
      BY <1>3, <1>12, <2>1, <3>1 DEF Inv, EpochInv, CurrentIsHealthy, Invalidating
    <3>3. refresh.at # "stopped"
      BY <2>1 DEF Inv, EpochInv, RefreshInTime
    <3>4. refresh.at \notin {"acquire", "attest", "attested"}
      <4>1. esChecked' \in Nat
        BY <1>0, <1>1, OlderAges
      <4>2. refresh.at \in {"acquire", "attest", "attested"} => esChecked' + refresh'.left <= ReadLimit
        BY <1>0, <1>5, <1>13, <3>2 DEF RefreshInTime
      <4> QED
        BY <1>5, <3>1, <4>1, <4>2, Limits
    <3> QED
      BY <1>0, <1>3, <1>5, <3>1, <3>2, <3>3, <3>4
  <2> QED
    BY <2>2, <2>3
<1> QED
  BY <1>8, <1>9, <1>10, <1>11, <1>13, <1>14, <1>15 DEF Inv, ReadInv, EpochInv

-----------------------------------------------------------------------------
LEMMA InvInit == EsInit => Inv
<1> SUFFICES ASSUME EsInit PROVE EpochInv
  BY InitRead DEF Inv
<1>1. ~cursor.current /\ refresh.at = "idle"
  BY DEF EsInit, NoCursor, IdleRefresh
<1> QED
  BY <1>1 DEF EpochInv, RefreshInTime, CurrentIsHealthy, LapsedEnds

LEMMA InvStep == Inv /\ [EsNext]_esVars => Inv'
<1> SUFFICES ASSUME Inv, [EsNext]_esVars PROVE Inv'
  OBVIOUS
<1>1. CASE UNCHANGED esVars
  <2>1. UNCHANGED <<esHealthy, esChecked, hash, closed, cursor, esCall, refresh, lastRead>>
    BY <1>1 DEF esVars
  <2>2. ReadInv'
    BY <2>1 DEF Inv, ReadInv, Typed, HashRead, CursorRead, OneUser, CallRead, UsesCursor
  <2>3. EpochInv'
    BY <2>1, SameCalls DEF Inv, EpochInv, RefreshInTime, CurrentIsHealthy, LapsedEnds, Invalidating
  <2> QED
    BY <2>2, <2>3 DEF Inv
<1>2. CASE \E c \in Callers : RequestStep(c)
  BY <1>2, CallStepKeeps
<1>3. CASE RefreshStep
  BY <1>3, RefreshBeginsKeeps, RefreshAddsKeeps, RefreshFailsKeeps, AdmittedOrStopsKeeps,
     AttestReadsKeeps, AttestEndsKeeps, RefreshStoresKeeps DEF RefreshStep
<1> QED
  BY <1>1, <1>2, <1>3, RetiredKeeps, CloseKeeps, TickKeeps DEF EsNext

(* For any recheck interval and timeouts, a query goes out under a hash    *)
(* that the cluster reported within AuthorityRecheck + ConnectTimeout, and *)
(* the page of a cursor under the hash of its opening, as recently so      *)
(* (target.go:80-103, 126-132, cursor.go:315-321).                         *)
THEOREM RequestsAreProved == EsSpec => []DispatchProved
<1>1. EsInit => Inv
  BY InvInit
<1>2. Inv /\ [EsNext]_esVars => Inv'
  BY InvStep
<1>3. Inv => DispatchProved
  BY DEF Inv, ReadInv, CallRead, DispatchProved
<1> QED
  BY <1>1, <1>2, <1>3, PTL DEF EsSpec

(* For any recheck interval and timeouts, a cursor that was open at the    *)
(* recheck interval while no refresh begun before was under way, or at     *)
(* ConnectTimeout beyond it, is not usable again once the two steps of the *)
(* invalidation are done, although refresh stores checked and healthy      *)
(* whatever was invalidated meanwhile (target.go:81-83, 100-101,           *)
(* authority.go:181-185).  A refresh begun before the lapse and ended in   *)
(* its time does renew the handle: the code has that case.                 *)
THEOREM LapsedCursorsEnd == EsSpec => []LapseClosesHandles
<1>1. EsInit => Inv
  BY InvInit
<1>2. Inv /\ [EsNext]_esVars => Inv'
  BY InvStep
<1>3. Inv => LapseClosesHandles
  <2> SUFFICES ASSUME Inv, cursor.open, cursor.lapsed, cursor.current, readyOK
               PROVE  HalfInvalidated
    BY DEF LapseClosesHandles
  <2>1. ~closed /\ esHealthy /\ esChecked < AuthorityRecheck
    BY DEF readyOK
  <2>2. esChecked \in Nat
    BY Limits DEF Inv, ReadInv, Typed, Ages
  <2>3. ~(esChecked >= AuthorityRecheck)
    BY <2>1, <2>2, Limits
  <2> QED
    BY <2>1, <2>3 DEF Inv, EpochInv, LapsedEnds, RefreshInTime
<1> QED
  BY <1>1, <1>2, <1>3, PTL DEF EsSpec

-----------------------------------------------------------------------------
(* The ticker of the maintenance goroutine.                                *)
TickerTyped == esDue \in BOOLEAN /\ since \in 0..(RefreshPeriod - 1)

LEMMA PeriodIsPositive == RefreshPeriod \in Nat /\ RefreshPeriod >= 1
<1>1. AuthorityRecheck \div 2 \in Nat
  BY AuthorityAssumption
<1> QED
  BY <1>1 DEF RefreshPeriod

LEMMA TickerStep == TickerTyped /\ [EsNext]_esVars => TickerTyped'
<1> SUFFICES ASSUME TickerTyped, [EsNext]_esVars PROVE TickerTyped'
  OBVIOUS
<1>1. CASE EsTick
  <2>1. since \in Nat /\ RefreshPeriod \in Nat /\ RefreshPeriod >= 1
    BY PeriodIsPositive DEF TickerTyped
  <2>2. since' = (since + 1) % RefreshPeriod
    BY <1>1 DEF EsTick
  <2>3. esDue' \in BOOLEAN
    BY <1>1 DEF EsTick
  <2>4. since' \in 0..(RefreshPeriod - 1)
    <3> HIDE DEF RefreshPeriod
    <3> QED
      BY <2>1, <2>2
  <2> QED
    BY <2>3, <2>4 DEF TickerTyped, RefreshPeriod
<1>2. ASSUME since' = since, esDue' = esDue \/ esDue' = FALSE PROVE TickerTyped'
  <2>1. esDue' \in BOOLEAN
    BY <1>2 DEF TickerTyped
  <2> QED
    BY <1>2, <2>1 DEF TickerTyped, RefreshPeriod
<1>3. ASSUME NEW c \in Callers, RequestStep(c) PROVE since' = since /\ esDue' = esDue
  BY <1>3 DEF RequestStep, RequestBegins, Admitted, Reserve, Usable, Dispatch, DispatchEpoch, Send,
              Answered, Bump, clock
<1>4. CASE RefreshStep
  BY <1>2, <1>4 DEF RefreshStep, RefreshBegins, RefreshAdds, RefreshFails, RefreshAdmitted,
                    AttestReads, AttestEnds, RefreshStores, MaintainStops, clock
<1>5. CASE CursorRetired \/ EsCloses
  BY <1>2, <1>5 DEF CursorRetired, EsCloses, clock
<1>6. CASE UNCHANGED esVars
  BY <1>2, <1>6 DEF esVars
<1> QED
  BY <1>1, <1>2, <1>3, <1>4, <1>5, <1>6 DEF EsNext

(* For any recheck interval and timeouts, no call and no attestation runs  *)
(* longer than its timeout, and the ticker keeps at most one tick.         *)
THEOREM AuthorityTypeCorrect == EsSpec => []AuthorityTypeOK
<1>1. EsInit => Inv /\ TickerTyped
  <2>1. ASSUME EsInit PROVE TickerTyped
    <3>1. esDue \in BOOLEAN
      BY <2>1 DEF EsInit
    <3>2. since \in 0..(RefreshPeriod - 1)
      BY <2>1, PeriodIsPositive DEF EsInit
    <3> QED
      BY <3>1, <3>2 DEF TickerTyped
  <2> QED
    BY <2>1, InvInit
<1>2. Inv /\ TickerTyped /\ [EsNext]_esVars => (Inv /\ TickerTyped)'
  BY InvStep, TickerStep
<1>3. Inv /\ TickerTyped => AuthorityTypeOK
  BY DEF Inv, ReadInv, Typed, Ages, CallType, CursorType, RefreshType, TickerTyped, AuthorityTypeOK
<1> QED
  BY <1>1, <1>2, <1>3, PTL DEF EsSpec
=============================================================================
