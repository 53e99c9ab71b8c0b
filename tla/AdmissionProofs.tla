--------------------------- MODULE AdmissionProofs ---------------------------
(***************************************************************************)
(* Proofs about the admission controller, for every number of calls and    *)
(* targets and every configuration that config.validate accepts.           *)
(* IInv is the inductive invariant; the refinement of Permits, the action  *)
(* properties and the service of the round robin follow from it.           *)
(***************************************************************************)
EXTENDS AdmissionService, FiniteSetTheorems, SequenceTheorems, WellFoundedInduction, TLAPS
-----------------------------------------------------------------------------
(* Facts about sets of naturals and about the queue operations.            *)

(* A nonempty set of naturals has a least element.                         *)
LEMMA NatMin ==
    ASSUME NEW S \in SUBSET Nat, S # {}
    PROVE  \E x \in S : \A y \in S : x <= y
<1>1. \E x \in S : \A y \in S : ~ (<<y, x>> \in OpToRel(<, Nat))
  BY NatLessThanWellFounded, WFMin, Zenon
<1>2. PICK x \in S : \A y \in S : ~ (<<y, x>> \in OpToRel(<, Nat))
  BY <1>1
<1>3. ASSUME NEW y \in S PROVE x <= y
  <2>1. x \in Nat /\ y \in Nat
    OBVIOUS
  <2>2. ~ (y < x)
    BY <1>2, <2>1, Zenon DEF OpToRel
  <2> QED BY <2>1, <2>2
<1> QED BY <1>3

(* First picks the least element (admission.go:149-155).                   *)
LEMMA FirstIsLeast ==
    ASSUME NEW S \in SUBSET Nat, S # {}
    PROVE  First(S) \in S /\ \A j \in S : First(S) <= j
BY NatMin DEF First

(* Queueing at the end adds one waiter (admission.go:69).                  *)
LEMMA AppendFacts ==
    ASSUME NEW q \in Seq(Waiters), NEW w \in Waiters
    PROVE  /\ Append(q, w) \in Seq(Waiters)
           /\ Elems(Append(q, w)) = Elems(q) \cup {w}
           /\ Distinct(q) /\ w \notin Elems(q) => Distinct(Append(q, w))
<1> DEFINE r == Append(q, w)
<1>1. /\ r \in Seq(Waiters) /\ Len(r) = Len(q) + 1
      /\ \A i \in 1..Len(q) : r[i] = q[i]
      /\ r[Len(q) + 1] = w
  BY AppendProperties
<1>2. DOMAIN q = 1..Len(q) /\ DOMAIN r = 1..Len(r) /\ Len(q) \in Nat
  BY <1>1
<1>3. Elems(r) = Elems(q) \cup {w}
  <2>1. Elems(r) \subseteq Elems(q) \cup {w}
    BY <1>1, <1>2 DEF Elems
  <2>2. ASSUME NEW x \in Elems(q) PROVE x \in Elems(r)
    <3>1. PICK i \in 1..Len(q) : x = q[i]
      BY <1>2 DEF Elems
    <3>2. i \in DOMAIN r /\ r[i] = x
      BY <1>1, <1>2, <3>1
    <3> QED BY <3>2 DEF Elems
  <2>3. w \in Elems(r)
    <3>1. Len(q) + 1 \in DOMAIN r /\ r[Len(q) + 1] = w
      BY <1>1, <1>2
    <3> QED BY <3>1 DEF Elems
  <2> QED BY <2>1, <2>2, <2>3
<1>4. ASSUME Distinct(q), w \notin Elems(q) PROVE Distinct(r)
  <2>1. SUFFICES ASSUME NEW i \in DOMAIN r, NEW j \in DOMAIN r, r[i] = r[j]
                 PROVE  i = j
    BY DEF Distinct
  <2>2. \A k \in 1..Len(q) : r[k] = q[k] /\ q[k] \in Elems(q)
    BY <1>1, <1>2 DEF Elems
  <2>3. \A k, l \in 1..Len(q) : q[k] = q[l] => k = l
    BY <1>2, <1>4 DEF Distinct
  <2>4. i \in 1..(Len(q) + 1) /\ j \in 1..(Len(q) + 1)
    BY <1>1, <1>2
  <2> QED BY <1>1, <1>2, <1>4, <2>1, <2>2, <2>3, <2>4
<1> QED BY <1>1, <1>3, <1>4

(* Taking one waiter out of a queue leaves the others, in their order      *)
(* (admission.go:160).                                                     *)
LEMMA WithoutFacts ==
    ASSUME NEW q \in Seq(Waiters), NEW i \in 1..Len(q), Distinct(q)
    PROVE  /\ Without(q, i) \in Seq(Waiters)
           /\ Elems(Without(q, i)) = Elems(q) \ {q[i]}
           /\ Distinct(Without(q, i))
<1> DEFINE a == SubSeq(q, 1, i - 1)
           b == SubSeq(q, i + 1, Len(q))
           r == Without(q, i)
<1> HIDE DEF a, b, r
<1>1. Len(q) \in Nat /\ DOMAIN q = 1..Len(q) /\ \A k \in 1..Len(q) : q[k] \in Waiters
  OBVIOUS
<1>2. /\ a \in Seq(Waiters) /\ Len(a) = i - 1
      /\ \A k \in 1..(i - 1) : a[k] = q[k]
  <2>1. \A k \in 1..(i - 1) : q[k] \in Waiters
    BY <1>1
  <2>2. i - 1 \in Int /\ 1 \in Int /\ (1 <= i - 1 \/ i - 1 = 0)
    BY <1>1
  <2>3. /\ a \in Seq(Waiters)
        /\ Len(a) = IF 1 <= i - 1 THEN (i - 1) - 1 + 1 ELSE 0
        /\ \A k \in 1..((i - 1) - 1 + 1) : a[k] = q[1 + k - 1]
    BY <2>1, <2>2, SubSeqProperties DEF a
  <2> QED BY <1>1, <2>2, <2>3
<1>3. /\ b \in Seq(Waiters) /\ Len(b) = Len(q) - i
      /\ \A k \in 1..(Len(q) - i) : b[k] = q[i + k]
  <2>1. \A k \in (i + 1)..Len(q) : q[k] \in Waiters
    BY <1>1
  <2>2. i + 1 \in Int /\ Len(q) \in Int
    BY <1>1
  <2>3. /\ b \in Seq(Waiters)
        /\ Len(b) = IF i + 1 <= Len(q) THEN Len(q) - (i + 1) + 1 ELSE 0
        /\ \A k \in 1..(Len(q) - (i + 1) + 1) : b[k] = q[(i + 1) + k - 1]
    BY <2>1, <2>2, SubSeqProperties DEF b
  <2>4. Len(b) = Len(q) - i
    <3>1. Len(q) \in Nat /\ i \in Int /\ 1 <= i /\ i <= Len(q)
      BY <1>1
    <3>2. (IF i + 1 <= Len(q) THEN Len(q) - (i + 1) + 1 ELSE 0) = Len(q) - i
      BY <3>1
    <3> QED BY <2>3, <3>2
  <2>5. \A k \in 1..(Len(q) - i) : (i + 1) + k - 1 = i + k /\ k \in 1..(Len(q) - (i + 1) + 1)
    BY <1>1
  <2> QED BY <2>3, <2>4, <2>5
<1>4. /\ r \in Seq(Waiters) /\ Len(r) = Len(q) - 1
      /\ \A k \in 1..(Len(q) - 1) : r[k] = IF k < i THEN q[k] ELSE q[k + 1]
  <2>1. r = a \o b
    BY DEF Without, a, b, r
  <2>2. /\ a \o b \in Seq(Waiters) /\ Len(a \o b) = Len(a) + Len(b)
        /\ \A k \in 1..(Len(a) + Len(b)) :
              (a \o b)[k] = IF k <= Len(a) THEN a[k] ELSE b[k - Len(a)]
    BY <1>2, <1>3, ConcatProperties
  <2>3. r \in Seq(Waiters) /\ Len(r) = Len(q) - 1
    BY <1>1, <1>2, <1>3, <2>1, <2>2
  <2>4. ASSUME NEW k \in 1..(Len(q) - 1)
        PROVE  r[k] = IF k < i THEN q[k] ELSE q[k + 1]
    <3>1. r[k] = IF k <= i - 1 THEN a[k] ELSE b[k - (i - 1)]
      BY <1>1, <1>2, <1>3, <2>1, <2>2
    <3>2. CASE k < i
      BY <1>1, <1>2, <3>1, <3>2
    <3>3. CASE ~(k < i)
      <4>1. k - (i - 1) \in 1..(Len(q) - i) /\ i + (k - (i - 1)) = k + 1
        BY <1>1, <3>3
      <4> QED BY <1>1, <1>3, <3>1, <3>3, <4>1
    <3> QED BY <3>2, <3>3
  <2> QED BY <2>3, <2>4
<1>5. DOMAIN r = 1..(Len(q) - 1)
  BY <1>4
<1>6. \A k \in DOMAIN r : (IF k < i THEN k ELSE k + 1) \in 1..Len(q)
  BY <1>1, <1>5
<1>7. Distinct(r)
  <2>1. SUFFICES ASSUME NEW k \in DOMAIN r, NEW l \in DOMAIN r, r[k] = r[l]
                 PROVE  k = l
    BY DEF Distinct
  <2>2. q[IF k < i THEN k ELSE k + 1] = q[IF l < i THEN l ELSE l + 1]
    BY <1>4, <1>5, <2>1
  <2>3. (IF k < i THEN k ELSE k + 1) = (IF l < i THEN l ELSE l + 1)
    BY <1>1, <1>6, <2>2 DEF Distinct
  <2> QED BY <1>1, <1>5, <2>3
<1>8. Elems(r) = Elems(q) \ {q[i]}
  <2>1. ASSUME NEW k \in DOMAIN r PROVE r[k] \in Elems(q) \ {q[i]}
    <3> DEFINE m == IF k < i THEN k ELSE k + 1
    <3>1. r[k] = q[m] /\ m \in DOMAIN q /\ m # i
      BY <1>1, <1>4, <1>5, <1>6
    <3>2. q[m] # q[i]
      BY <1>1, <3>1 DEF Distinct
    <3> QED BY <3>1, <3>2 DEF Elems
  <2>2. ASSUME NEW m \in DOMAIN q, q[m] # q[i] PROVE q[m] \in Elems(r)
    <3> DEFINE k == IF m < i THEN m ELSE m - 1
    <3>1. m # i /\ k \in 1..(Len(q) - 1)
      BY <1>1, <2>2
    <3>2. r[k] = q[m]
      BY <1>1, <1>4, <3>1
    <3> QED BY <1>5, <3>1, <3>2 DEF Elems
  <2> QED BY <2>1, <2>2 DEF Elems
<1> QED BY <1>4, <1>7, <1>8 DEF r

(* What is left of a queue without the canceled waiters at its front       *)
(* (admission.go:144-148): its end from some position on.                  *)
LEMMA PrunedShape ==
    ASSUME NEW q \in Seq(Waiters), canceled \in [Waiters -> BOOLEAN]
    PROVE  \E k \in 1..(Len(q) + 1) :
              /\ \A i \in 1..(k - 1) : canceled[q[i]]
              /\ Pruned(q) \in Seq(Waiters) /\ Len(Pruned(q)) = Len(q) - k + 1
              /\ \A i \in 1..(Len(q) - k + 1) : Pruned(q)[i] = q[k + i - 1]
<1> DEFINE S == {k \in 1..(Len(q) + 1) : k <= Len(q) => ~canceled[q[k]]}
           r == Pruned(q)
<1> HIDE DEF r
<1>1. Len(q) \in Nat /\ DOMAIN q = 1..Len(q) /\ \A k \in 1..Len(q) : q[k] \in Waiters
  OBVIOUS
<1>2. LiveFrom(q) # {}
  <2>1. S \in SUBSET Nat /\ Len(q) + 1 \in S
    BY <1>1
  <2>2. PICK k \in S : \A j \in S : k <= j
    BY <2>1, NatMin
  <2>3. ASSUME NEW i \in 1..(k - 1) PROVE canceled[q[i]]
    <3>1. i \notin S /\ i \in 1..Len(q)
      BY <1>1, <2>1, <2>2
    <3> QED BY <1>1, <3>1
  <2>4. k \in LiveFrom(q)
    BY <1>1, <2>2, <2>3 DEF LiveFrom
  <2> QED BY <2>4
<1>3. PICK k \in LiveFrom(q) : r = SubSeq(q, k, Len(q))
  BY <1>2 DEF Pruned, r
<1>4. k \in 1..(Len(q) + 1) /\ \A i \in 1..(k - 1) : canceled[q[i]]
  BY <1>3 DEF LiveFrom
<1>5. /\ r \in Seq(Waiters) /\ Len(r) = Len(q) - k + 1
      /\ \A i \in 1..(Len(q) - k + 1) : r[i] = q[k + i - 1]
  <2>1. \A i \in k..Len(q) : q[i] \in Waiters
    BY <1>1, <1>4
  <2>2. k \in Int /\ Len(q) \in Int
    BY <1>1, <1>4
  <2>3. /\ SubSeq(q, k, Len(q)) \in Seq(Waiters)
        /\ Len(SubSeq(q, k, Len(q))) = IF k <= Len(q) THEN Len(q) - k + 1 ELSE 0
        /\ \A i \in 1..(Len(q) - k + 1) : SubSeq(q, k, Len(q))[i] = q[k + i - 1]
    BY <2>1, <2>2, SubSeqProperties
  <2> QED BY <1>1, <1>3, <1>4, <2>3
<1> QED BY <1>4, <1>5 DEF r

(* Dropping the canceled waiters at the front of a queue drops no live one *)
(* (admission.go:144-148).                                                 *)
LEMMA PrunedFacts ==
    ASSUME NEW q \in Seq(Waiters), canceled \in [Waiters -> BOOLEAN]
    PROVE  /\ Pruned(q) \in Seq(Waiters)
           /\ Elems(Pruned(q)) \subseteq Elems(q)
           /\ \A w \in Elems(q) : ~canceled[w] => w \in Elems(Pruned(q))
           /\ Distinct(q) => Distinct(Pruned(q))
<1> DEFINE r == Pruned(q)
<1>1. Len(q) \in Nat /\ DOMAIN q = 1..Len(q) /\ \A k \in 1..Len(q) : q[k] \in Waiters
  OBVIOUS
<1>2. PICK k \in 1..(Len(q) + 1) :
        /\ \A i \in 1..(k - 1) : canceled[q[i]]
        /\ r \in Seq(Waiters) /\ Len(r) = Len(q) - k + 1
        /\ \A i \in 1..(Len(q) - k + 1) : r[i] = q[k + i - 1]
  BY PrunedShape
<1> HIDE DEF r
<1>3. k \in 1..(Len(q) + 1) /\ \A i \in 1..(k - 1) : canceled[q[i]]
  BY <1>2
<1>4. /\ r \in Seq(Waiters) /\ Len(r) = Len(q) - k + 1
      /\ \A i \in 1..(Len(q) - k + 1) : r[i] = q[k + i - 1]
  BY <1>2
<1>5. DOMAIN r = 1..(Len(q) - k + 1)
  BY <1>4
<1>6. ASSUME NEW i \in DOMAIN r PROVE r[i] = q[k + i - 1] /\ k + i - 1 \in DOMAIN q
  <2>1. r[i] = q[k + i - 1]
    BY <1>4, <1>5
  <2>2. i \in 1..(Len(q) - k + 1)
    BY <1>5
  <2>3. k + i - 1 \in DOMAIN q
    BY <1>1, <1>3, <2>2
  <2> QED BY <2>1, <2>3
<1>7. Elems(r) \subseteq Elems(q)
  BY <1>6 DEF Elems
<1>8. ASSUME NEW w \in Elems(q), ~canceled[w] PROVE w \in Elems(r)
  <2>1. PICK m \in DOMAIN q : w = q[m]
    BY DEF Elems
  <2>2. m \notin 1..(k - 1)
    BY <1>3, <1>8, <2>1
  <2>3. m - k + 1 \in DOMAIN r /\ k + (m - k + 1) - 1 = m
    BY <1>1, <1>3, <1>5, <2>2
  <2>4. r[m - k + 1] = w
    BY <1>4, <1>5, <2>1, <2>3
  <2> QED BY <2>3, <2>4 DEF Elems
<1>9. ASSUME Distinct(q) PROVE Distinct(r)
  <2>1. SUFFICES ASSUME NEW i \in DOMAIN r, NEW j \in DOMAIN r, r[i] = r[j]
                 PROVE  i = j
    BY DEF Distinct
  <2>2. k + i - 1 = k + j - 1
    BY <1>6, <1>9, <2>1 DEF Distinct
  <2> QED BY <1>1, <1>3, <1>5, <2>2
<1> QED BY <1>4, <1>7, <1>8, <1>9 DEF r
-----------------------------------------------------------------------------
(* Counting grants.                                                        *)

(* One more grant counts once in total, and once for its own label.        *)
LEMMA CountAdd ==
    ASSUME NEW G \in SUBSET Waiters, NEW w \in Waiters, w \notin G, NEW P \in SUBSET Waiters
    PROVE  /\ Cardinality(G \cup {w}) = Cardinality(G) + 1
           /\ w \in P => Cardinality((G \cup {w}) \cap P) = Cardinality(G \cap P) + 1
           /\ w \notin P => Cardinality((G \cup {w}) \cap P) = Cardinality(G \cap P)
<1>1. IsFiniteSet(G) /\ IsFiniteSet(G \cap P)
  <2>1. G \subseteq Waiters /\ G \cap P \subseteq Waiters
    OBVIOUS
  <2> QED BY <2>1, CallsAssumption, FS_Subset, Zenon
<1>2. Cardinality(G \cup {w}) = Cardinality(G) + 1
  BY <1>1, FS_AddElement
<1>3. ASSUME w \in P PROVE Cardinality((G \cup {w}) \cap P) = Cardinality(G \cap P) + 1
  <2>1. (G \cup {w}) \cap P = (G \cap P) \cup {w} /\ w \notin G \cap P
    BY <1>3
  <2> QED BY <1>1, <2>1, FS_AddElement
<1>4. ASSUME w \notin P PROVE Cardinality((G \cup {w}) \cap P) = Cardinality(G \cap P)
  <2>1. (G \cup {w}) \cap P = G \cap P
    BY <1>4
  <2> QED BY <2>1
<1> QED BY <1>2, <1>3, <1>4

(* One grant given back is uncounted once.                                 *)
LEMMA CountRemove ==
    ASSUME NEW G \in SUBSET Waiters, NEW w \in G, NEW P \in SUBSET Waiters
    PROVE  /\ Cardinality(G \ {w}) = Cardinality(G) - 1
           /\ w \in P => Cardinality((G \ {w}) \cap P) = Cardinality(G \cap P) - 1
           /\ w \notin P => Cardinality((G \ {w}) \cap P) = Cardinality(G \cap P)
<1>1. IsFiniteSet(G) /\ IsFiniteSet(G \cap P)
  <2>1. G \subseteq Waiters /\ G \cap P \subseteq Waiters
    OBVIOUS
  <2> QED BY <2>1, CallsAssumption, FS_Subset, Zenon
<1>2. Cardinality(G \ {w}) = Cardinality(G) - 1
  BY <1>1, FS_RemoveElement
<1>3. ASSUME w \in P PROVE Cardinality((G \ {w}) \cap P) = Cardinality(G \cap P) - 1
  <2>1. (G \ {w}) \cap P = (G \cap P) \ {w} /\ w \in G \cap P
    BY <1>3
  <2>2. Cardinality((G \cap P) \ {w}) = Cardinality(G \cap P) - 1
    BY <1>1, <2>1, FS_RemoveElement, Zenon
  <2> QED BY <2>1, <2>2
<1>4. ASSUME w \notin P PROVE Cardinality((G \ {w}) \cap P) = Cardinality(G \cap P)
  <2>1. (G \ {w}) \cap P = G \cap P
    BY <1>4
  <2> QED BY <2>1
<1> QED BY <1>2, <1>3, <1>4

(* Counts of grants are natural numbers.                                   *)
LEMMA CountType ==
    ASSUME NEW S \in SUBSET Waiters
    PROVE  Cardinality(S) \in Nat /\ IsFiniteSet(S)
<1>1. S \subseteq Waiters
  OBVIOUS
<1> QED BY <1>1, CallsAssumption, FS_Subset, FS_CardinalityType
-----------------------------------------------------------------------------
(* What the two steps of dispatchLocked do, in terms of sets of waiters.   *)

(* A grant takes one live waiter that can run out of its class's queue and *)
(* drops otherwise only canceled ones.                                     *)
LEMMA GrantEffect ==
    ASSUME TypeOK, WaitersQueuedOnce, DispatchGrant
    PROVE  \E c \in Class : \E w \in Queued(c) :
            /\ ~canceled[w] /\ canRunLocked(w)
            /\ queues' \in [Class -> Seq(Waiters)]
            /\ \A d \in Class :
                /\ Distinct(queues'[d])
                /\ Elems(queues'[d]) \subseteq Queued(d) \ {w}
                /\ \A v \in Queued(d) \ {w} : ~canceled[v] => v \in Elems(queues'[d])
            /\ active' = active + 1
            /\ byTarget' = [byTarget EXCEPT ![target[w]] = @ + 1]
            /\ byClass' = [byClass EXCEPT ![c] = @ + 1]
            /\ next' \in 0..5
            /\ ready' = [ready EXCEPT ![w] = TRUE]
<1>1. PICK n \in 0..5 :
        /\ ScanStopsAt(n)
        /\ LET c == classAt(n)
               i == First(Candidates(c))
               w == Pruned(queues[c])[i]
               passed == {classAt(m) : m \in 0..(n - 1)}
           IN  /\ queues' = [d \in Class |->
                                CASE d = c -> Without(Pruned(queues[d]), i)
                                  [] d \in passed \ {c} -> Pruned(queues[d])
                                  [] OTHER -> queues[d]]
               /\ active' = active + 1
               /\ byTarget' = [byTarget EXCEPT ![target[w]] = @ + 1]
               /\ byClass' = [byClass EXCEPT ![c] = @ + 1]
               /\ next' = nextAfter(n)
               /\ ready' = [ready EXCEPT ![w] = TRUE]
  BY DEF DispatchGrant
<1> DEFINE c == classAt(n)
           i == First(Candidates(c))
           p == Pruned(queues[c])
           w == p[i]
<1>2. next \in 0..5 /\ c \in Class
  <2>1. ((next + n) % 6) + 1 \in 1..6
    BY DEF TypeOK
  <2> QED BY <2>1 DEF TypeOK, classAt, order, Class
<1>3. \A d \in Class :
        /\ queues[d] \in Seq(Waiters) /\ Distinct(queues[d])
        /\ Pruned(queues[d]) \in Seq(Waiters)
        /\ Elems(Pruned(queues[d])) \subseteq Queued(d)
        /\ \A v \in Queued(d) : ~canceled[v] => v \in Elems(Pruned(queues[d]))
        /\ Distinct(Pruned(queues[d]))
  BY PrunedFacts DEF TypeOK, WaitersQueuedOnce, Queued
<1>4. i \in 1..Len(p) /\ ~canceled[w] /\ canRunLocked(w)
  <2>1. DOMAIN p = 1..Len(p) /\ Len(p) \in Nat
    BY <1>2, <1>3
  <2>2. Candidates(c) = {k \in DOMAIN p : ~canceled[p[k]] /\ canRunLocked(p[k])}
    BY DEF Candidates
  <2>3. Candidates(c) \in SUBSET Nat /\ Candidates(c) # {}
    BY <1>1, <2>1, <2>2 DEF ScanStopsAt
  <2>4. i \in Candidates(c)
    BY <2>3, FirstIsLeast
  <2> HIDE DEF i, p, c
  <2> QED BY <2>1, <2>2, <2>4
<1>5. /\ Without(p, i) \in Seq(Waiters)
      /\ Elems(Without(p, i)) = Elems(p) \ {w}
      /\ Distinct(Without(p, i))
  <2>1. p \in Seq(Waiters) /\ Distinct(p)
    BY <1>2, <1>3
  <2> HIDE DEF i, p
  <2> QED BY <2>1, <1>4, WithoutFacts
<1>6. w \in Queued(c) /\ \A d \in Class : w \in Queued(d) => d = c
  <2>1. w \in Elems(p)
    <3>1. i \in DOMAIN p
      BY <1>2, <1>3, <1>4
    <3> HIDE DEF p, i
    <3> QED BY <3>1 DEF Elems
  <2>2. w \in Queued(c)
    BY <1>2, <1>3, <2>1
  <2> QED BY <1>2, <2>2 DEF WaitersQueuedOnce
<1>7. next' \in 0..5
  BY <1>1, <1>2 DEF nextAfter
<1>8. \A d \in Class :
        \/ d = c /\ queues'[d] = Without(p, i)
        \/ d # c /\ queues'[d] = Pruned(queues[d])
        \/ d # c /\ queues'[d] = queues[d]
  BY <1>1
<1>9. queues' \in [Class -> Seq(Waiters)]
  <2>1. DOMAIN queues' = Class /\ queues' = [d \in Class |-> queues'[d]]
    BY <1>1
  <2>2. \A d \in Class : queues'[d] \in Seq(Waiters)
    BY <1>3, <1>5, <1>8
  <2> QED BY <2>1, <2>2
<1>10. ASSUME NEW d \in Class
       PROVE  /\ Distinct(queues'[d])
              /\ Elems(queues'[d]) \subseteq Queued(d) \ {w}
              /\ \A v \in Queued(d) \ {w} : ~canceled[v] => v \in Elems(queues'[d])
  <2> HIDE DEF i, w, p, c
  <2>1. CASE d = c /\ queues'[d] = Without(p, i)
    BY <1>2, <1>3, <1>5, <2>1 DEF p
  <2>2. CASE d # c /\ queues'[d] = Pruned(queues[d])
    BY <1>3, <1>6, <2>2
  <2>3. CASE d # c /\ queues'[d] = queues[d]
    BY <1>3, <1>6, <2>3 DEF Queued
  <2> QED BY <1>8, <2>1, <2>2, <2>3
<1>11. /\ active' = active + 1
       /\ byTarget' = [byTarget EXCEPT ![target[w]] = @ + 1]
       /\ byClass' = [byClass EXCEPT ![c] = @ + 1]
       /\ ready' = [ready EXCEPT ![w] = TRUE]
  BY <1>1
<1> HIDE DEF i, w, p, c
<1> QED BY <1>2, <1>4, <1>6, <1>7, <1>9, <1>10, <1>11

(* The end of dispatchLocked drops only canceled waiters.                  *)
LEMMA ReturnEffect ==
    ASSUME TypeOK, WaitersQueuedOnce, DispatchReturn
    PROVE  /\ queues' \in [Class -> Seq(Waiters)]
           /\ \A d \in Class :
                /\ Distinct(queues'[d])
                /\ Elems(queues'[d]) \subseteq Queued(d)
                /\ \A v \in Queued(d) : ~canceled[v] => v \in Elems(queues'[d])
<1>1. \A d \in Class :
        /\ queues[d] \in Seq(Waiters) /\ Distinct(queues[d])
        /\ Pruned(queues[d]) \in Seq(Waiters)
        /\ Elems(Pruned(queues[d])) \subseteq Queued(d)
        /\ \A v \in Queued(d) : ~canceled[v] => v \in Elems(Pruned(queues[d]))
        /\ Distinct(Pruned(queues[d]))
  BY PrunedFacts DEF TypeOK, WaitersQueuedOnce, Queued
<1>2. CASE UNCHANGED queues
  BY <1>1, <1>2 DEF TypeOK, Queued
<1>3. CASE queues' = [c \in Class |-> Pruned(queues[c])]
  BY <1>1, <1>3
<1> QED BY <1>2, <1>3 DEF DispatchReturn
-----------------------------------------------------------------------------
(* The invariant.                                                          *)

(* If no queued live waiter can run although the controller has a free     *)
(* slot, then none is below its ceilings: the waiters for whose sake       *)
(* another one is held back could run themselves (admission.go:175-192).   *)
LEMMA NobodyHeldBackForNobody ==
    ASSUME TypeOK, WaitersQueuedOnce,
           \A c \in Class : \A w \in Queued(c) : ~canceled[w] => ~canRunLocked(w)
    PROVE  \A c \in Class : \A w \in Queued(c) : ~canceled[w] => ~BelowCeilings(w)
<1>1. \A c \in Class : \A w \in Queued(c) : class[w] = c
  BY DEF WaitersQueuedOnce
<1>2. ~hasRunnableLocked("metadata")
  <2>1. SUFFICES ASSUME NEW w \in Queued("metadata"), ~canceled[w],
                        byTarget[target[w]] < PerTarget
                 PROVE  FALSE
    BY DEF hasRunnableLocked
  <2>2. "metadata" \in Class /\ class[w] = "metadata"
    BY <1>1 DEF Class
  <2>3. canRunLocked(w)
    BY <2>1, <2>2 DEF canRunLocked, BelowCeilings
  <2> QED BY <2>1, <2>2, <2>3
<1>3. ~hasRunnableLocked("interactive")
  <2>1. SUFFICES ASSUME NEW w \in Queued("interactive"), ~canceled[w],
                        byTarget[target[w]] < PerTarget
                 PROVE  FALSE
    BY DEF hasRunnableLocked
  <2>2. "interactive" \in Class /\ class[w] = "interactive"
    BY <1>1 DEF Class
  <2>3. canRunLocked(w)
    BY <1>2, <2>1, <2>2 DEF canRunLocked, BelowCeilings
  <2> QED BY <2>1, <2>2, <2>3
<1> QED BY <1>2, <1>3 DEF canRunLocked

(* The initial state satisfies the invariant.                              *)
LEMMA InitInv == Init => IInv
<1> SUFFICES ASSUME Init PROVE IInv
  OBVIOUS
<1> USE ConfigAssumption, CallsAssumption
<1>1. TypeOK
  <2>1. (CHOOSE t \in Targets : TRUE) \in Targets
    OBVIOUS
  <2> QED BY <2>1 DEF Init, TypeOK, Class, PcSet
<1>2. \A c \in Class : Queued(c) = {} /\ Distinct(queues[c])
  BY DEF Init, Queued, Elems, Distinct
<1>3. LiveQueued = {} /\ Granted = {}
  BY <1>2 DEF LiveQueued, Granted, Init
<1>4. Cardinality({}) = 0
  BY FS_EmptySet
<1>5. CallsConsistent /\ CanceledNeverGranted
  BY DEF Init, CallsConsistent, CanceledNeverGranted
<1>6. \A t : {w \in Granted : target[w] = t} = {} /\ {w \in Granted : class[w] = t} = {}
  BY <1>3
<1>7. CapacityAccounted
  BY <1>3, <1>4, <1>6 DEF Init, CapacityAccounted
<1>8. CeilingsRespected
  BY <1>3, <1>4, <1>6 DEF CeilingsRespected
<1>9. WaitersQueuedOnce
  BY <1>2 DEF Init, WaitersQueuedOnce, Waiting
<1>10. WorkConserving /\ BoundedWaiting /\ LiveWaits
  BY <1>3, <1>4 DEF WorkConserving, BoundedWaiting, LiveWaits
<1> QED BY <1>1, <1>5, <1>7, <1>8, <1>9, <1>10 DEF IInv

(* If every live queued waiter was one before, the bound on waiting calls  *)
(* is kept.                                                                *)
LEMMA WaitingShrinks ==
    ASSUME BoundedWaiting, LiveQueued' \subseteq LiveQueued
    PROVE  BoundedWaiting'
<1>1. LiveQueued \subseteq Waiters
  BY DEF LiveQueued
<1>2. /\ IsFiniteSet(LiveQueued) /\ Cardinality(LiveQueued) \in Nat
  BY <1>1, CountType
<1>3. Cardinality(LiveQueued') <= Cardinality(LiveQueued) /\ Cardinality(LiveQueued') \in Nat
  BY <1>2, FS_Subset, FS_CardinalityType
<1> QED BY <1>2, <1>3, ConfigAssumption DEF BoundedWaiting

(* A grant keeps the invariant.                                            *)
LEMMA GrantInv == IInv /\ DispatchGrant => IInv'
<1> SUFFICES ASSUME IInv, DispatchGrant PROVE IInv'
  OBVIOUS
<1> USE ConfigAssumption, CallsAssumption
<1>1. /\ TypeOK /\ LiveWaits /\ CallsConsistent /\ CapacityAccounted /\ CeilingsRespected
      /\ WaitersQueuedOnce /\ WorkConserving /\ BoundedWaiting /\ CanceledNeverGranted
  BY DEF IInv
<1>2. /\ UNCHANGED <<mutex, target, class, canceled, pc>>
      /\ active < Global /\ mutex # NoWaiter
  BY DEF DispatchGrant
<1>3. PICK c \in Class : \E v \in Queued(c) :
            /\ ~canceled[v] /\ canRunLocked(v)
            /\ queues' \in [Class -> Seq(Waiters)]
            /\ \A d \in Class :
                /\ Distinct(queues'[d])
                /\ Elems(queues'[d]) \subseteq Queued(d) \ {v}
                /\ \A u \in Queued(d) \ {v} : ~canceled[u] => u \in Elems(queues'[d])
            /\ active' = active + 1
            /\ byTarget' = [byTarget EXCEPT ![target[v]] = @ + 1]
            /\ byClass' = [byClass EXCEPT ![c] = @ + 1]
            /\ next' \in 0..5
            /\ ready' = [ready EXCEPT ![v] = TRUE]
  BY <1>1, GrantEffect
<1>4. PICK w \in Queued(c) :
            /\ ~canceled[w] /\ canRunLocked(w)
            /\ queues' \in [Class -> Seq(Waiters)]
            /\ \A d \in Class :
                /\ Distinct(queues'[d])
                /\ Elems(queues'[d]) \subseteq Queued(d) \ {w}
                /\ \A u \in Queued(d) \ {w} : ~canceled[u] => u \in Elems(queues'[d])
            /\ active' = active + 1
            /\ byTarget' = [byTarget EXCEPT ![target[w]] = @ + 1]
            /\ byClass' = [byClass EXCEPT ![c] = @ + 1]
            /\ next' \in 0..5
            /\ ready' = [ready EXCEPT ![w] = TRUE]
  BY <1>3
<1>5. /\ w \in Waiters /\ class[w] = c /\ ~ready[w] /\ BelowCeilings(w)
      /\ target[w] \in Targets
  <2>1. queues[c] \in Seq(Waiters)
    BY <1>1 DEF TypeOK
  <2>2. w \in Waiters
    BY <1>4, <2>1 DEF Queued, Elems
  <2> QED BY <1>1, <1>4, <2>2 DEF TypeOK, WaitersQueuedOnce, canRunLocked
<1>6. TypeOK'
  BY <1>1, <1>2, <1>4, <1>5 DEF TypeOK
<1>7. CallsConsistent' /\ CanceledNeverGranted'
  BY <1>1, <1>2, <1>4, <1>5 DEF CallsConsistent, CanceledNeverGranted, TypeOK
<1>8. WaitersQueuedOnce'
  <2>1. \A d \in Class : Queued(d)' = Elems(queues'[d]) /\ Distinct(queues'[d])
    BY <1>4 DEF Queued
  <2>2. ASSUME NEW v \in Waiters, pc'[v] \in Waiting, ~ready'[v]
        PROVE  v \in Elems(queues'[class'[v]]) /\ class'[v] \in Class
    <3>1. v # w /\ ~ready[v] /\ ~canceled[v] /\ class[v] \in Class /\ class'[v] = class[v]
      BY <1>1, <1>2, <1>4, <1>5, <2>2 DEF TypeOK, CallsConsistent
    <3>2. v \in Queued(class[v])
      BY <1>1, <1>2, <2>2, <3>1 DEF WaitersQueuedOnce
    <3> QED BY <1>4, <3>1, <3>2
  <2>3. ASSUME NEW d \in Class, NEW v \in Elems(queues'[d])
        PROVE  class'[v] = d /\ ~ready'[v]
    <3>1. v \in Queued(d) /\ v # w
      BY <1>4
    <3>2. class[v] = d /\ ~ready[v]
      BY <1>1, <3>1 DEF WaitersQueuedOnce
    <3>3. ready'[v] = ready[v]
      BY <1>1, <1>4, <3>1 DEF TypeOK
    <3> QED BY <1>2, <3>2, <3>3
  <2> QED BY <2>1, <2>2, <2>3 DEF WaitersQueuedOnce
<1>9. WorkConserving'
  BY <1>2 DEF WorkConserving
<1>10. BoundedWaiting' /\ LiveWaits'
  <2>1. LiveQueued' \subseteq LiveQueued
    BY <1>2, <1>4 DEF LiveQueued, Queued
  <2> QED BY <1>1, <1>2, <2>1, WaitingShrinks DEF LiveWaits
<1>11. w \notin Granted /\ Granted' = Granted \cup {w} /\ Granted \in SUBSET Waiters
  <2>1. pc[w] \in Waiting
    BY <1>1, <1>4, <1>5 DEF LiveWaits, LiveQueued
  <2> QED BY <1>1, <1>2, <1>4, <1>5, <2>1 DEF Granted, TypeOK
<1>12. CapacityAccounted'
  <2>1. active' = Cardinality(Granted')
    BY <1>1, <1>4, <1>5, <1>11, CountAdd DEF CapacityAccounted
  <2>2. ASSUME NEW t \in Targets
        PROVE  byTarget'[t] = Cardinality({v \in Granted' : target'[v] = t})
    <3> DEFINE P == {v \in Waiters : target[v] = t}
    <3>1. byTarget'[t] = IF w \in P THEN byTarget[t] + 1 ELSE byTarget[t]
      BY <1>1, <1>4, <1>5 DEF TypeOK
    <3>2. /\ {v \in Granted : target[v] = t} = Granted \cap P
          /\ {v \in Granted' : target'[v] = t} = (Granted \cup {w}) \cap P
      BY <1>2, <1>5, <1>11
    <3>3. byTarget[t] = Cardinality(Granted \cap P)
      BY <1>1, <3>2 DEF CapacityAccounted
    <3>4. P \in SUBSET Waiters
      OBVIOUS
    <3> HIDE DEF P
    <3> QED BY <1>5, <1>11, <3>1, <3>2, <3>3, <3>4, CountAdd
  <2>3. ASSUME NEW d \in Class
        PROVE  byClass'[d] = Cardinality({v \in Granted' : class'[v] = d})
    <3> DEFINE P == {v \in Waiters : class[v] = d}
    <3>1. byClass'[d] = IF w \in P THEN byClass[d] + 1 ELSE byClass[d]
      BY <1>1, <1>4, <1>5 DEF TypeOK
    <3>2. /\ {v \in Granted : class[v] = d} = Granted \cap P
          /\ {v \in Granted' : class'[v] = d} = (Granted \cup {w}) \cap P
      BY <1>2, <1>5, <1>11
    <3>3. byClass[d] = Cardinality(Granted \cap P)
      BY <1>1, <3>2 DEF CapacityAccounted
    <3>4. P \in SUBSET Waiters
      OBVIOUS
    <3> HIDE DEF P
    <3> QED BY <1>5, <1>11, <3>1, <3>2, <3>3, <3>4, CountAdd
  <2> QED BY <2>1, <2>2, <2>3 DEF CapacityAccounted
<1>13. CeilingsRespected'
  <2>1. active' <= Global
    BY <1>1, <1>2, <1>4 DEF TypeOK
  <2>2. \A t \in Targets : byTarget'[t] <= PerTarget
    <3>1. \A t \in Targets : byTarget[t] <= PerTarget /\ byTarget[t] \in Int
      BY <1>1 DEF TypeOK, CapacityAccounted, CeilingsRespected
    <3>2. byTarget[target[w]] < PerTarget
      BY <1>5 DEF BelowCeilings
    <3> QED BY <1>1, <1>4, <1>5, <3>1, <3>2 DEF TypeOK
  <2>3. "batch" \in Class /\ "maintenance" \in Class
    BY DEF Class
  <2>4. byClass'["batch"] <= BatchMax /\ byClass'["maintenance"] <= MaintenanceMax
    <3>1. /\ byClass["batch"] <= BatchMax /\ byClass["maintenance"] <= MaintenanceMax
          /\ byClass["batch"] \in Int /\ byClass["maintenance"] \in Int
      BY <1>1, <2>3 DEF TypeOK, CapacityAccounted, CeilingsRespected
    <3>2. /\ c = "batch" => byClass["batch"] < BatchMax
          /\ c = "maintenance" => byClass["maintenance"] < MaintenanceMax
      BY <1>5 DEF BelowCeilings
    <3> QED BY <1>1, <1>4, <2>3, <3>1, <3>2 DEF TypeOK
  <2> QED BY <1>12, <2>1, <2>2, <2>3, <2>4 DEF CapacityAccounted, CeilingsRespected
<1> QED BY <1>6, <1>7, <1>8, <1>9, <1>10, <1>12, <1>13 DEF IInv

(* Leaving dispatchLocked keeps the invariant; this is where the           *)
(* controller promises that it left nobody waiting for nothing.            *)
LEMMA ReturnInv == IInv /\ DispatchReturn => IInv'
<1> SUFFICES ASSUME IInv, DispatchReturn PROVE IInv'
  OBVIOUS
<1> USE ConfigAssumption, CallsAssumption
<1>1. /\ TypeOK /\ LiveWaits /\ CallsConsistent /\ CapacityAccounted /\ CeilingsRespected
      /\ WaitersQueuedOnce /\ WorkConserving /\ BoundedWaiting /\ CanceledNeverGranted
  BY DEF IInv
<1>2. /\ UNCHANGED <<active, byTarget, byClass, next, target, class, ready, canceled>>
      /\ mutex' = NoWaiter /\ mutex \in Waiters
      /\ pc' = [pc EXCEPT ![mutex] = Unlocked(@)]
  BY <1>1 DEF DispatchReturn, TypeOK
<1>3. /\ queues' \in [Class -> Seq(Waiters)]
      /\ \A d \in Class :
            /\ Distinct(queues'[d])
            /\ Elems(queues'[d]) \subseteq Queued(d)
            /\ \A v \in Queued(d) : ~canceled[v] => v \in Elems(queues'[d])
  BY <1>1, ReturnEffect
<1>4. \/ pc[mutex] = "acquiring" /\ pc'[mutex] = "select"
      \/ pc[mutex] = "canceling" /\ pc'[mutex] = "idle"
      \/ pc[mutex] = "releasing" /\ pc'[mutex] = "released"
  <2>1. pc[mutex] \in {"acquiring", "canceling", "releasing"}
    BY <1>1, <1>2 DEF CallsConsistent
  <2> QED BY <1>1, <1>2, <2>1 DEF TypeOK, Unlocked
<1>5. \A v \in Waiters : v # mutex => pc'[v] = pc[v]
  BY <1>1, <1>2 DEF TypeOK
<1>6. TypeOK'
  <2>1. pc' \in [Waiters -> PcSet]
    BY <1>1, <1>2, <1>4 DEF TypeOK, PcSet
  <2> QED BY <1>1, <1>2, <1>3, <2>1 DEF TypeOK
<1>7. \A v \in Waiters : pc'[v] \in Waiting <=> pc[v] \in Waiting
  BY <1>2, <1>4, <1>5 DEF Waiting
<1>8. \A v \in Waiters : pc'[v] = "holding" <=> pc[v] = "holding"
  BY <1>2, <1>4, <1>5
<1>9. CallsConsistent'
  <2>1. ASSUME NEW v \in Waiters
        PROVE  pc'[v] \notin {"acquiring", "canceling", "releasing"} /\ mutex' # v
    BY <1>1, <1>2, <1>4, <1>5 DEF CallsConsistent
  <2> QED BY <1>1, <1>2, <1>7, <1>8, <2>1 DEF CallsConsistent
<1>10. CanceledNeverGranted'
  BY <1>1, <1>2 DEF CanceledNeverGranted
<1>11. Granted' = Granted
  BY <1>2, <1>7, <1>8 DEF Granted
<1>12. CapacityAccounted' /\ CeilingsRespected'
  BY <1>1, <1>2, <1>11 DEF CapacityAccounted, CeilingsRespected
<1>13. LiveQueued' \subseteq LiveQueued
  BY <1>2, <1>3 DEF LiveQueued, Queued
<1>14. BoundedWaiting' /\ LiveWaits'
  <2>1. LiveQueued \subseteq Waiters
    BY DEF LiveQueued
  <2> QED BY <1>1, <1>7, <1>13, <2>1, WaitingShrinks DEF LiveWaits
<1>15. WaitersQueuedOnce'
  <2>1. \A d \in Class : Queued(d)' = Elems(queues'[d]) /\ Distinct(queues'[d])
    BY <1>3 DEF Queued
  <2>2. ASSUME NEW v \in Waiters, pc'[v] \in Waiting, ~ready'[v]
        PROVE  v \in Elems(queues'[class'[v]]) /\ class'[v] \in Class
    <3>1. ~ready[v] /\ pc[v] \in Waiting /\ ~canceled[v] /\ class[v] \in Class
      BY <1>1, <1>2, <1>7, <2>2 DEF TypeOK, CallsConsistent
    <3>2. v \in Queued(class[v])
      BY <1>1, <3>1 DEF WaitersQueuedOnce
    <3> QED BY <1>2, <1>3, <3>1, <3>2
  <2>3. ASSUME NEW d \in Class, NEW v \in Elems(queues'[d])
        PROVE  class'[v] = d /\ ~ready'[v]
    <3>1. v \in Queued(d)
      BY <1>3
    <3>2. class[v] = d /\ ~ready[v]
      BY <1>1, <3>1 DEF WaitersQueuedOnce
    <3> QED BY <1>2, <3>2
  <2> QED BY <2>1, <2>2, <2>3 DEF WaitersQueuedOnce
<1>16. WorkConserving'
  <2>1. SUFFICES ASSUME active < Global, NEW w \in LiveQueued'
                 PROVE  ~BelowCeilings(w)'
    BY <1>2 DEF WorkConserving
  <2>2. \A c \in Class : Candidates(c) = {}
    BY <1>1, <2>1 DEF DispatchReturn, TypeOK
  <2>3. ASSUME NEW c \in Class, NEW v \in Queued(c), ~canceled[v] PROVE ~canRunLocked(v)
    <3>1. v \in Elems(Pruned(queues[c]))
      <4>1. queues[c] \in Seq(Waiters) /\ canceled \in [Waiters -> BOOLEAN]
        BY <1>1 DEF TypeOK
      <4>2. v \in Elems(queues[c])
        BY <2>3 DEF Queued
      <4> QED BY <2>3, <4>1, <4>2, PrunedFacts
    <3>2. PICK i \in DOMAIN Pruned(queues[c]) : v = Pruned(queues[c])[i]
      BY <3>1 DEF Elems
    <3> QED BY <2>2, <2>3, <3>2 DEF Candidates
  <2>4. w \in LiveQueued
    BY <1>13, <2>1
  <2>5. ~BelowCeilings(w)
    BY <1>1, <2>3, <2>4, NobodyHeldBackForNobody DEF LiveQueued
  <2> QED BY <1>2, <2>5 DEF BelowCeilings
<1> QED BY <1>6, <1>9, <1>10, <1>12, <1>14, <1>15, <1>16 DEF IInv

(* Queueing a call keeps the invariant.                                    *)
LEMMA AcquireInv ==
    ASSUME IInv, NEW w \in Waiters, NEW t \in Targets, NEW c \in Class, AcquireQueue(w, t, c)
    PROVE  IInv'
<1> USE ConfigAssumption, CallsAssumption
<1>1. /\ TypeOK /\ LiveWaits /\ CallsConsistent /\ CapacityAccounted /\ CeilingsRespected
      /\ WaitersQueuedOnce /\ WorkConserving /\ BoundedWaiting /\ CanceledNeverGranted
  BY DEF IInv
<1>2. /\ mutex = NoWaiter /\ mutex' = w
      /\ pc[w] \in {"idle", "released"} /\ \A d \in Class : w \notin Queued(d)
      /\ totalQueuedLocked < MaxQueued
      /\ target' = [target EXCEPT ![w] = t]
      /\ class' = [class EXCEPT ![w] = c]
      /\ ready' = [ready EXCEPT ![w] = FALSE]
      /\ canceled' = [canceled EXCEPT ![w] = FALSE]
      /\ queues' = [queues EXCEPT ![c] = Append(@, w)]
      /\ pc' = [pc EXCEPT ![w] = "acquiring"]
      /\ UNCHANGED <<active, byTarget, byClass, next>>
  <2>1. totalQueuedLocked \in Nat
    BY CountType DEF totalQueuedLocked, LiveQueued
  <2> QED BY <2>1 DEF AcquireQueue, Free, Overloaded
<1>3. /\ queues[c] \in Seq(Waiters) /\ queues' \in [Class -> Seq(Waiters)]
      /\ Elems(queues'[c]) = Queued(c) \cup {w} /\ Distinct(queues'[c])
      /\ \A d \in Class \ {c} : queues'[d] = queues[d]
  <2>1. queues[c] \in Seq(Waiters) /\ Distinct(queues[c]) /\ w \notin Elems(queues[c])
    BY <1>1, <1>2 DEF TypeOK, WaitersQueuedOnce, Queued
  <2>2. queues'[c] = Append(queues[c], w) /\ \A d \in Class \ {c} : queues'[d] = queues[d]
    BY <1>1, <1>2 DEF TypeOK
  <2>3. /\ Append(queues[c], w) \in Seq(Waiters)
        /\ Elems(Append(queues[c], w)) = Elems(queues[c]) \cup {w}
        /\ Distinct(Append(queues[c], w))
    BY <2>1, AppendFacts
  <2> QED BY <1>1, <1>2, <2>1, <2>2, <2>3 DEF TypeOK, Queued
<1>4. /\ target'[w] = t /\ class'[w] = c /\ ready'[w] = FALSE /\ canceled'[w] = FALSE
      /\ pc'[w] = "acquiring"
      /\ \A v \in Waiters \ {w} :
            /\ target'[v] = target[v] /\ class'[v] = class[v] /\ ready'[v] = ready[v]
            /\ canceled'[v] = canceled[v] /\ pc'[v] = pc[v]
  BY <1>1, <1>2 DEF TypeOK
<1>5. TypeOK'
  BY <1>1, <1>2, <1>3 DEF TypeOK, PcSet
<1>6. CallsConsistent' /\ CanceledNeverGranted'
  <2>1. ASSUME NEW v \in Waiters
        PROVE  /\ pc'[v] \in {"acquiring", "canceling", "releasing"} <=> mutex' = v
               /\ pc'[v] \in Waiting => ~canceled'[v]
               /\ pc'[v] = "holding" => ready'[v]
               /\ ~(canceled'[v] /\ ready'[v])
    <3>1. CASE v = w
      BY <1>2, <1>4, <3>1
    <3>2. CASE v # w
      BY <1>1, <1>2, <1>4, <3>2 DEF CallsConsistent, CanceledNeverGranted
    <3> QED BY <3>1, <3>2
  <2> QED BY <2>1 DEF CallsConsistent, CanceledNeverGranted
<1>7. Granted' = Granted /\ w \notin Granted /\ Granted \subseteq Waiters
  BY <1>2, <1>4 DEF Granted, Waiting
<1>8. CapacityAccounted' /\ CeilingsRespected'
  <2>1. \A x : /\ {v \in Granted' : target'[v] = x} = {v \in Granted : target[v] = x}
               /\ {v \in Granted' : class'[v] = x} = {v \in Granted : class[v] = x}
    BY <1>4, <1>7
  <2>2. CapacityAccounted'
    BY <1>1, <1>2, <1>7, <2>1, Zenon DEF CapacityAccounted
  <2>3. CeilingsRespected'
    BY <1>1, <1>7, <2>1 DEF CeilingsRespected
  <2> QED BY <2>2, <2>3
<1>9. LiveQueued' \subseteq LiveQueued \cup {w}
  BY <1>3, <1>4 DEF LiveQueued, Queued
<1>10. BoundedWaiting'
  <2>1. LiveQueued \in SUBSET Waiters /\ w \notin LiveQueued
    BY <1>2 DEF LiveQueued
  <2>2. IsFiniteSet(LiveQueued) /\ Cardinality(LiveQueued) \in Nat
    BY <2>1, CountType
  <2>3. Cardinality(LiveQueued \cup {w}) = Cardinality(LiveQueued) + 1
        /\ IsFiniteSet(LiveQueued \cup {w})
    BY <2>1, <2>2, FS_AddElement
  <2>4. /\ Cardinality(LiveQueued') <= Cardinality(LiveQueued \cup {w})
        /\ Cardinality(LiveQueued') \in Nat
    BY <1>9, <2>3, FS_Subset, FS_CardinalityType
  <2>5. Cardinality(LiveQueued) < MaxQueued
    BY <1>2 DEF totalQueuedLocked
  <2> QED BY <2>2, <2>3, <2>4, <2>5 DEF BoundedWaiting
<1>11. LiveWaits'
  <2>1. ASSUME NEW v \in LiveQueued' PROVE pc'[v] \in Waiting
    <3>1. CASE v = w
      BY <1>4, <3>1 DEF Waiting
    <3>2. CASE v # w
      <4>1. v \in LiveQueued /\ v \in Waiters
        BY <1>9, <2>1, <3>2 DEF LiveQueued
      <4> QED BY <1>1, <1>4, <3>2, <4>1 DEF LiveWaits
    <3> QED BY <3>1, <3>2
  <2> QED BY <2>1 DEF LiveWaits
<1>12. WaitersQueuedOnce'
  <2>1. \A d \in Class : Queued(d)' = Elems(queues'[d]) /\ Distinct(queues'[d])
    BY <1>1, <1>3 DEF Queued, WaitersQueuedOnce
  <2>2. ASSUME NEW v \in Waiters, pc'[v] \in Waiting, ~ready'[v]
        PROVE  v \in Elems(queues'[class'[v]]) /\ class'[v] \in Class
    <3>1. CASE v = w
      BY <1>3, <1>4, <3>1
    <3>2. CASE v # w
      <4>1. v \in Queued(class[v]) /\ class[v] \in Class /\ class'[v] = class[v]
        BY <1>1, <1>4, <2>2, <3>2 DEF WaitersQueuedOnce, TypeOK
      <4> QED BY <1>3, <4>1 DEF Queued
    <3> QED BY <3>1, <3>2
  <2>3. ASSUME NEW d \in Class, NEW v \in Elems(queues'[d])
        PROVE  class'[v] = d /\ ~ready'[v]
    <3>1. CASE v = w
      <4>1. d = c
        BY <1>2, <1>3, <2>3, <3>1 DEF Queued
      <4> QED BY <1>4, <3>1, <4>1
    <3>2. CASE v # w
      <4>1. v \in Queued(d)
        BY <1>3, <2>3, <3>2 DEF Queued
      <4>2. class[v] = d /\ ~ready[v]
        BY <1>1, <4>1 DEF WaitersQueuedOnce
      <4>3. v \in Waiters
        BY <1>1, <4>1 DEF Queued, Elems, TypeOK
      <4> QED BY <1>4, <3>2, <4>2, <4>3
    <3> QED BY <3>1, <3>2
  <2> QED BY <2>1, <2>2, <2>3 DEF WaitersQueuedOnce
<1>13. WorkConserving'
  BY <1>2 DEF WorkConserving
<1> QED BY <1>5, <1>6, <1>8, <1>10, <1>11, <1>12, <1>13 DEF IInv

(* Giving a grant back, from Release or from a cancellation that lost the  *)
(* race against its grant, keeps the invariant.                            *)
LEMMA GiveBackInv ==
    ASSUME IInv, NEW w \in Granted, mutex = NoWaiter, releaseLocked(w), mutex' = w,
           \/ pc[w] = "givingUp" /\ pc' = [pc EXCEPT ![w] = "canceling"]
           \/ pc[w] = "holding" /\ pc' = [pc EXCEPT ![w] = "releasing"],
           UNCHANGED <<queues, next, target, class, ready, canceled>>
    PROVE  IInv'
<1> USE ConfigAssumption, CallsAssumption
<1>1. /\ TypeOK /\ LiveWaits /\ CallsConsistent /\ CapacityAccounted /\ CeilingsRespected
      /\ WaitersQueuedOnce /\ WorkConserving /\ BoundedWaiting /\ CanceledNeverGranted
  BY DEF IInv
<1>2. /\ active' = active - 1
      /\ byTarget' = [byTarget EXCEPT ![target[w]] = @ - 1]
      /\ byClass' = [byClass EXCEPT ![class[w]] = @ - 1]
      /\ UNCHANGED <<queues, next, target, class, ready, canceled>>
  BY DEF releaseLocked
<1>3. /\ w \in Waiters /\ ready[w] /\ ~canceled[w]
      /\ target[w] \in Targets /\ class[w] \in Class
  BY <1>1 DEF Granted, TypeOK, CanceledNeverGranted
<1>4. /\ pc[w] \in {"givingUp", "holding"} /\ pc'[w] \in {"canceling", "releasing"}
      /\ \A v \in Waiters \ {w} : pc'[v] = pc[v]
      /\ pc' \in [Waiters -> PcSet]
  BY <1>1, <1>3 DEF TypeOK, PcSet
<1>5. TypeOK'
  BY <1>1, <1>2, <1>3, <1>4 DEF TypeOK
<1>6. CallsConsistent' /\ CanceledNeverGranted'
  <2>1. ASSUME NEW v \in Waiters
        PROVE  /\ pc'[v] \in {"acquiring", "canceling", "releasing"} <=> mutex' = v
               /\ pc'[v] \in Waiting => ~canceled'[v]
               /\ pc'[v] = "holding" => ready'[v]
    <3>1. CASE v = w
      BY <1>2, <1>3, <1>4, <3>1
    <3>2. CASE v # w
      BY <1>1, <1>2, <1>4, <3>2 DEF CallsConsistent
    <3> QED BY <3>1, <3>2
  <2> QED BY <1>1, <1>2, <2>1 DEF CallsConsistent, CanceledNeverGranted
<1>7. Granted' = Granted \ {w} /\ Granted \in SUBSET Waiters
  BY <1>2, <1>3, <1>4 DEF Granted, Waiting
<1>8. CapacityAccounted'
  <2>1. ASSUME NEW Q \in SUBSET Waiters
        PROVE  /\ w \in Q => Cardinality((Granted \ {w}) \cap Q) = Cardinality(Granted \cap Q) - 1
               /\ w \notin Q => Cardinality((Granted \ {w}) \cap Q) = Cardinality(Granted \cap Q)
    <3> DEFINE G == Granted
    <3>1. G \in SUBSET Waiters /\ w \in G
      BY <1>7
    <3> HIDE DEF G
    <3>2. /\ w \in Q => Cardinality((G \ {w}) \cap Q) = Cardinality(G \cap Q) - 1
          /\ w \notin Q => Cardinality((G \ {w}) \cap Q) = Cardinality(G \cap Q)
      BY ONLY <3>1, <2>1, CountRemove
    <3> QED BY <3>2 DEF G
  <2>2. active' = Cardinality(Granted')
    BY <1>1, <1>2, <1>7, CountRemove DEF CapacityAccounted
  <2>3. ASSUME NEW t \in Targets
        PROVE  byTarget'[t] = Cardinality({v \in Granted' : target'[v] = t})
    <3> DEFINE P == {v \in Waiters : target[v] = t}
    <3>1. byTarget'[t] = IF w \in P THEN byTarget[t] - 1 ELSE byTarget[t]
      BY <1>1, <1>2, <1>3 DEF TypeOK
    <3>2. /\ {v \in Granted : target[v] = t} = Granted \cap P
          /\ {v \in Granted' : target'[v] = t} = (Granted \ {w}) \cap P
      BY <1>2, <1>3, <1>7
    <3>3. byTarget[t] = Cardinality(Granted \cap P)
      BY <1>1, <3>2 DEF CapacityAccounted
    <3>4. P \in SUBSET Waiters
      OBVIOUS
    <3> HIDE DEF P
    <3> QED BY <2>1, <3>1, <3>2, <3>3, <3>4
  <2>4. ASSUME NEW d \in Class
        PROVE  byClass'[d] = Cardinality({v \in Granted' : class'[v] = d})
    <3> DEFINE P == {v \in Waiters : class[v] = d}
    <3>1. byClass'[d] = IF w \in P THEN byClass[d] - 1 ELSE byClass[d]
      BY <1>1, <1>2, <1>3 DEF TypeOK
    <3>2. /\ {v \in Granted : class[v] = d} = Granted \cap P
          /\ {v \in Granted' : class'[v] = d} = (Granted \ {w}) \cap P
      BY <1>2, <1>3, <1>7
    <3>3. byClass[d] = Cardinality(Granted \cap P)
      BY <1>1, <3>2 DEF CapacityAccounted
    <3>4. P \in SUBSET Waiters
      OBVIOUS
    <3> HIDE DEF P
    <3> QED BY <2>1, <3>1, <3>2, <3>3, <3>4
  <2> QED BY <2>2, <2>3, <2>4 DEF CapacityAccounted
<1>9. CeilingsRespected'
  <2>1. active' <= Global
    BY <1>1, <1>2 DEF TypeOK, CapacityAccounted, CeilingsRespected
  <2>2. \A t \in Targets : byTarget'[t] <= PerTarget
    <3>1. \A t \in Targets : byTarget[t] <= PerTarget
      BY <1>1 DEF CapacityAccounted, CeilingsRespected
    <3> QED BY <1>1, <1>2, <1>3, <3>1 DEF TypeOK
  <2>3. "batch" \in Class /\ "maintenance" \in Class
    BY DEF Class
  <2>4. byClass'["batch"] <= BatchMax /\ byClass'["maintenance"] <= MaintenanceMax
    <3>1. /\ byClass["batch"] <= BatchMax /\ byClass["maintenance"] <= MaintenanceMax
          /\ byClass["batch"] \in Int /\ byClass["maintenance"] \in Int
      BY <1>1, <2>3 DEF TypeOK, CapacityAccounted, CeilingsRespected
    <3> QED BY <1>1, <1>2, <1>3, <2>3, <3>1 DEF TypeOK
  <2> QED BY <1>8, <2>1, <2>2, <2>3, <2>4 DEF CapacityAccounted, CeilingsRespected
<1>10. LiveQueued' = LiveQueued /\ \A d \in Class : Queued(d)' = Queued(d)
  BY <1>2 DEF LiveQueued, Queued
<1>11. w \notin LiveQueued
  BY <1>1, <1>3 DEF WaitersQueuedOnce, LiveQueued
<1>12. LiveWaits' /\ BoundedWaiting'
  <2>1. LiveQueued \subseteq Waiters
    BY DEF LiveQueued
  <2> QED BY <1>1, <1>4, <1>10, <1>11, <2>1 DEF LiveWaits, BoundedWaiting
<1>13. WaitersQueuedOnce'
  <2>1. \A v \in Waiters : pc'[v] \in Waiting /\ ~ready'[v] => v \in Queued(class'[v])
    BY <1>1, <1>2, <1>3, <1>4 DEF WaitersQueuedOnce
  <2>2. \A v \in Waiters : class'[v] \in Class
    BY <1>5 DEF TypeOK
  <2> QED BY <1>1, <1>2, <1>10, <2>1, <2>2 DEF WaitersQueuedOnce
<1>14. WorkConserving'
  BY <1>3 DEF WorkConserving
<1> QED BY <1>5, <1>6, <1>8, <1>9, <1>12, <1>13, <1>14 DEF IInv

(* Marking a waiter canceled keeps the invariant.                          *)
LEMMA MarkCanceledInv ==
    ASSUME IInv, NEW w \in Waiters, mutex = NoWaiter, pc[w] = "givingUp", ~ready[w],
           canceled' = [canceled EXCEPT ![w] = TRUE], mutex' = w,
           pc' = [pc EXCEPT ![w] = "canceling"],
           UNCHANGED <<queues, active, byTarget, byClass, next, target, class, ready>>
    PROVE  IInv'
<1> USE ConfigAssumption, CallsAssumption
<1>1. /\ TypeOK /\ LiveWaits /\ CallsConsistent /\ CapacityAccounted /\ CeilingsRespected
      /\ WaitersQueuedOnce /\ WorkConserving /\ BoundedWaiting /\ CanceledNeverGranted
  BY DEF IInv
<1>2. /\ pc'[w] = "canceling" /\ canceled'[w] = TRUE
      /\ \A v \in Waiters \ {w} : pc'[v] = pc[v] /\ canceled'[v] = canceled[v]
      /\ pc' \in [Waiters -> PcSet] /\ canceled' \in [Waiters -> BOOLEAN]
  BY <1>1 DEF TypeOK, PcSet
<1>3. TypeOK'
  BY <1>1, <1>2 DEF TypeOK
<1>4. CallsConsistent' /\ CanceledNeverGranted'
  <2>1. ASSUME NEW v \in Waiters
        PROVE  /\ pc'[v] \in {"acquiring", "canceling", "releasing"} <=> mutex' = v
               /\ pc'[v] \in Waiting => ~canceled'[v]
               /\ pc'[v] = "holding" => ready'[v]
               /\ ~(canceled'[v] /\ ready'[v])
    <3>1. CASE v = w
      BY <1>2, <3>1 DEF Waiting
    <3>2. CASE v # w
      BY <1>1, <1>2, <3>2 DEF CallsConsistent, CanceledNeverGranted
    <3> QED BY <3>1, <3>2
  <2> QED BY <2>1 DEF CallsConsistent, CanceledNeverGranted
<1>5. Granted' = Granted
  BY <1>2 DEF Granted
<1>6. CapacityAccounted' /\ CeilingsRespected'
  BY <1>1, <1>5 DEF CapacityAccounted, CeilingsRespected
<1>7. \A d \in Class : Queued(d)' = Queued(d)
  BY DEF Queued
<1>8. LiveQueued' \subseteq LiveQueued /\ w \notin LiveQueued' /\ LiveQueued \subseteq Waiters
  BY <1>2, <1>7 DEF LiveQueued
<1>9. BoundedWaiting' /\ LiveWaits'
  BY <1>1, <1>2, <1>8, WaitingShrinks DEF LiveWaits
<1>10. WaitersQueuedOnce'
  <2>1. \A v \in Waiters : pc'[v] \in Waiting /\ ~ready'[v] => v \in Queued(class'[v])
    BY <1>1, <1>2 DEF WaitersQueuedOnce, Waiting
  <2>2. \A v \in Waiters : class'[v] \in Class
    BY <1>3 DEF TypeOK
  <2> QED BY <1>1, <1>7, <2>1, <2>2 DEF WaitersQueuedOnce
<1>11. WorkConserving'
  BY DEF WorkConserving
<1> QED BY <1>3, <1>4, <1>6, <1>9, <1>10, <1>11 DEF IInv

(* A call that leaves its select, with or without its grant, keeps the     *)
(* invariant.                                                              *)
LEMMA SelectInv ==
    ASSUME IInv, NEW w \in Waiters, pc[w] = "select",
           \/ ready[w] /\ pc' = [pc EXCEPT ![w] = "holding"]
           \/ pc' = [pc EXCEPT ![w] = "givingUp"],
           UNCHANGED <<ctrl, mutex, target, class, ready, canceled>>
    PROVE  IInv'
<1> USE ConfigAssumption, CallsAssumption
<1>1. /\ TypeOK /\ LiveWaits /\ CallsConsistent /\ CapacityAccounted /\ CeilingsRespected
      /\ WaitersQueuedOnce /\ WorkConserving /\ BoundedWaiting /\ CanceledNeverGranted
  BY DEF IInv
<1>2. /\ (pc'[w] = "holding" /\ ready[w]) \/ pc'[w] = "givingUp"
      /\ \A v \in Waiters \ {w} : pc'[v] = pc[v]
      /\ pc' \in [Waiters -> PcSet]
  BY <1>1 DEF TypeOK, PcSet
<1>3. UNCHANGED <<queues, active, byTarget, byClass, next, mutex, target, class, ready, canceled>>
  BY DEF ctrl
<1>4. TypeOK'
  BY <1>1, <1>2, <1>3 DEF TypeOK
<1>5. CallsConsistent' /\ CanceledNeverGranted'
  <2>1. ASSUME NEW v \in Waiters
        PROVE  /\ pc'[v] \in {"acquiring", "canceling", "releasing"} <=> mutex' = v
               /\ pc'[v] \in Waiting => ~canceled'[v]
               /\ pc'[v] = "holding" => ready'[v]
    <3>1. CASE v = w
      BY <1>1, <1>2, <1>3, <3>1 DEF CallsConsistent, Waiting
    <3>2. CASE v # w
      BY <1>1, <1>2, <1>3, <3>2 DEF CallsConsistent
    <3> QED BY <3>1, <3>2
  <2> QED BY <1>1, <1>3, <2>1 DEF CallsConsistent, CanceledNeverGranted
<1>6. Granted' = Granted
  BY <1>2, <1>3 DEF Granted, Waiting
<1>7. CapacityAccounted' /\ CeilingsRespected'
  BY <1>1, <1>3, <1>6 DEF CapacityAccounted, CeilingsRespected
<1>8. LiveQueued' = LiveQueued /\ \A d \in Class : Queued(d)' = Queued(d)
  BY <1>3 DEF LiveQueued, Queued
<1>9. BoundedWaiting' /\ WorkConserving'
  BY <1>1, <1>3, <1>8 DEF BoundedWaiting, WorkConserving, BelowCeilings
<1>10. LiveWaits'
  <2>1. \A v \in LiveQueued : ~(ready[v]) /\ v \in Waiters
    BY <1>1 DEF WaitersQueuedOnce, LiveQueued
  <2> QED BY <1>1, <1>2, <1>8, <2>1 DEF LiveWaits, Waiting
<1>11. WaitersQueuedOnce'
  <2>1. \A v \in Waiters : pc'[v] \in Waiting /\ ~ready'[v] => v \in Queued(class'[v])
    BY <1>1, <1>2, <1>3 DEF WaitersQueuedOnce, Waiting
  <2>2. \A v \in Waiters : class'[v] \in Class
    BY <1>4 DEF TypeOK
  <2> QED BY <1>1, <1>3, <1>8, <2>1, <2>2 DEF WaitersQueuedOnce
<1> QED BY <1>4, <1>5, <1>7, <1>9, <1>10, <1>11 DEF IInv

(* Every step of the controller keeps the invariant.                       *)
LEMMA NextInv == IInv /\ [Next]_vars => IInv'
<1> SUFFICES ASSUME IInv, [Next]_vars PROVE IInv'
  OBVIOUS
<1>1. CASE DispatchGrant
  BY <1>1, GrantInv
<1>2. CASE DispatchReturn
  BY <1>2, ReturnInv
<1>3. ASSUME NEW w \in Waiters, NEW r \in Requests, AcquireQueue(w, r[1], r[2]) PROVE IInv'
  <2>1. r[1] \in Targets /\ r[2] \in Class
    BY CallsAssumption
  <2> QED BY <1>3, <2>1, AcquireInv
<1>4. ASSUME NEW w \in Waiters, Admit(w) PROVE IInv'
  BY <1>4, SelectInv DEF Admit
<1>5. ASSUME NEW w \in Waiters, GiveUp(w) PROVE IInv'
  BY <1>5, SelectInv DEF GiveUp
<1>6. ASSUME NEW w \in Waiters, cancel(w) PROVE IInv'
  <2>1. CASE ready[w]
    <3>1. w \in Granted
      BY <1>6, <2>1 DEF cancel, Granted, Waiting
    <3> QED BY <1>6, <2>1, <3>1, GiveBackInv DEF cancel
  <2>2. CASE ~ready[w]
    BY <1>6, <2>2, MarkCanceledInv DEF cancel
  <2> QED BY <2>1, <2>2
<1>7. CASE UNCHANGED vars
  <2>1. Granted' = Granted /\ LiveQueued' = LiveQueued /\ \A d \in Class : Queued(d)' = Queued(d)
    BY <1>7 DEF vars, Granted, LiveQueued, Queued
  <2>2. (TypeOK /\ CallsConsistent /\ CanceledNeverGranted)'
    BY <1>7 DEF vars, IInv, TypeOK, CallsConsistent, CanceledNeverGranted
  <2>3. (CapacityAccounted /\ CeilingsRespected)'
    BY <1>7, <2>1 DEF vars, IInv, CapacityAccounted, CeilingsRespected
  <2>4. (LiveWaits /\ WorkConserving /\ BoundedWaiting)'
    BY <1>7, <2>1 DEF vars, IInv, LiveWaits, WorkConserving, BoundedWaiting, BelowCeilings
  <2>5. WaitersQueuedOnce'
    <3>1. \A v \in Waiters : class[v] \in Class
      BY DEF IInv, TypeOK
    <3> QED BY <1>7, <2>1, <3>1 DEF vars, IInv, WaitersQueuedOnce
  <2> QED BY <2>2, <2>3, <2>4, <2>5 DEF IInv
<1>8. ASSUME NEW w \in Waiters, Release(w) PROVE IInv'
  <2>1. CASE pc[w] = "holding"
    <3>1. w \in Granted
      BY <2>1 DEF IInv, CallsConsistent, Granted
    <3> QED BY <1>8, <2>1, <3>1, GiveBackInv DEF Release
  <2>2. CASE pc[w] # "holding"
    BY <1>7, <1>8, <2>2 DEF Release
  <2> QED BY <2>1, <2>2
<1>9. ASSUME NEW w \in Waiters, AcquireReject(w) PROVE IInv'
  BY <1>7, <1>9 DEF AcquireReject
<1> QED BY <1>1, <1>2, <1>3, <1>4, <1>5, <1>6, <1>7, <1>8, <1>9 DEF Next
-----------------------------------------------------------------------------
(* The invariant holds in every reachable state.                           *)
THEOREM Invariance == Spec => []IInv
BY InitInv, NextInv, PTL DEF Spec

(* The state is always well typed.                                         *)
THEOREM TypeCorrect == Spec => []TypeOK
<1>1. IInv => TypeOK
  BY DEF IInv
<1> QED BY <1>1, Invariance, PTL

(* For every configuration and any number of concurrent callers, no unit   *)
(* of capacity is leaked or given back twice (admission.go:111-134).       *)
THEOREM CapacitySafe == Spec => []CapacityAccounted
<1>1. IInv => CapacityAccounted
  BY DEF IInv
<1> QED BY <1>1, Invariance, PTL

(* The permits that exist never exceed the global, per-target and          *)
(* per-class ceilings (admission.go:175-192).                              *)
THEOREM CeilingsSafe == Spec => []CeilingsRespected
<1>1. IInv => CeilingsRespected
  BY DEF IInv
<1> QED BY <1>1, Invariance, PTL

(* The reservations are work-conserving.                                   *)
THEOREM NoIdleCapacity == Spec => []WorkConserving
<1>1. IInv => WorkConserving
  BY DEF IInv
<1> QED BY <1>1, Invariance, PTL

(* No wakeup is lost: a call that waits is in its queue exactly once       *)
(* (admission.go:144-160).                                                 *)
THEOREM NoLostWaiter == Spec => []WaitersQueuedOnce
<1>1. IInv => WaitersQueuedOnce
  BY DEF IInv
<1> QED BY <1>1, Invariance, PTL

(* A call that gave up is never granted (admission.go:111-121, 145-151).   *)
THEOREM NoLateGrant == Spec => []CanceledNeverGranted
<1>1. IInv => CanceledNeverGranted
  BY DEF IInv
<1> QED BY <1>1, Invariance, PTL

(* The number of waiting calls stays within max_queued_requests.           *)
THEOREM WaitingIsBounded == Spec => []BoundedWaiting
<1>1. IInv => BoundedWaiting
  BY DEF IInv
<1> QED BY <1>1, Invariance, PTL
-----------------------------------------------------------------------------
(* The controller implements the abstract permits.                         *)

(* The abstract sets of calls, in terms of the controller's state: the     *)
(* calls that wait are the live waiters in the queues.                     *)
LEMMA AbstractSets ==
    ASSUME IInv
    PROVE  /\ Abstract!In("granted") = Granted
           /\ Abstract!In("waiting") = LiveQueued
           /\ \A t : Abstract!ForTarget(t) = {w \in Granted : target[w] = t}
           /\ \A c : Abstract!OfClass(c) = {w \in Granted : class[w] = c}
<1>1. Abstract!In("granted") = Granted
  BY DEF Abstract!In, CallState, Granted
<1>2. ASSUME NEW w \in Waiters
      PROVE  CallState[w] = "waiting" <=> w \in LiveQueued
  <2>1. CallState[w] = "waiting" <=> pc[w] \in Waiting /\ ~ready[w]
    BY DEF CallState, IInv, CallsConsistent
  <2>2. ASSUME pc[w] \in Waiting, ~ready[w] PROVE w \in LiveQueued
    <3>1. class[w] \in Class /\ w \in Queued(class[w]) /\ ~canceled[w]
      BY <2>2 DEF IInv, TypeOK, WaitersQueuedOnce, CallsConsistent
    <3> QED BY <3>1 DEF LiveQueued
  <2>3. ASSUME w \in LiveQueued PROVE pc[w] \in Waiting /\ ~ready[w]
    BY <2>3 DEF IInv, LiveWaits, LiveQueued, WaitersQueuedOnce
  <2> QED BY <2>1, <2>2, <2>3
<1>3. Abstract!In("waiting") = LiveQueued
  <2>1. Abstract!In("waiting") = {w \in Waiters : CallState[w] = "waiting"}
    BY DEF Abstract!In
  <2>2. LiveQueued \subseteq Waiters
    BY DEF LiveQueued
  <2> QED BY <1>2, <2>1, <2>2
<1>4. Granted \subseteq Waiters
  BY DEF Granted
<1>5. \A t : Abstract!ForTarget(t) = {w \in Granted : target[w] = t}
  BY <1>1, <1>4 DEF Abstract!ForTarget, Asked
<1>6. \A c : Abstract!OfClass(c) = {w \in Granted : class[w] = c}
  BY <1>1, <1>4 DEF Abstract!OfClass, Asked
<1> QED BY <1>1, <1>3, <1>5, <1>6

(* Both modules count with the same operator.                              *)
LEMMA SameCount == \A S : Abstract!Cardinality(S) = Cardinality(S)
BY DEF Cardinality, IsFiniteSet, Abstract!Cardinality, Abstract!IsFiniteSet

(* A grant is a Grant of the waiter that dispatchLocked chose.             *)
LEMMA GrantImplements ==
    ASSUME IInv, DispatchGrant
    PROVE  \E w \in Waiters : Abstract!Grant(w)
<1>1. PICK c \in Class : \E w \in Queued(c) :
        ~canceled[w] /\ canRunLocked(w) /\ ready' = [ready EXCEPT ![w] = TRUE]
  BY GrantEffect DEF IInv
<1>2. PICK w \in Queued(c) :
        ~canceled[w] /\ canRunLocked(w) /\ ready' = [ready EXCEPT ![w] = TRUE]
  BY <1>1
<1>3. w \in Waiters /\ w \in LiveQueued
  <2>1. queues[c] \in Seq(Waiters)
    BY DEF IInv, TypeOK
  <2>2. w \in Waiters
    BY <2>1 DEF Queued, Elems
  <2> QED BY <1>2, <2>2 DEF LiveQueued
<1>4. pc[w] \in Waiting /\ ~ready[w]
  BY <1>3 DEF IInv, LiveWaits, WaitersQueuedOnce, LiveQueued
<1>5. /\ active < Global
      /\ UNCHANGED <<mutex, target, class, canceled, pc>>
  BY DEF DispatchGrant
<1>6. /\ Cardinality(Granted) < Global
      /\ Cardinality({v \in Granted : target[v] = target[w]}) < PerTarget
      /\ class[w] = "batch" => Cardinality({v \in Granted : class[v] = "batch"}) < BatchMax
      /\ class[w] = "maintenance" =>
            Cardinality({v \in Granted : class[v] = "maintenance"}) < MaintenanceMax
  <2>1. target[w] \in Targets /\ "batch" \in Class /\ "maintenance" \in Class
    BY <1>3 DEF IInv, TypeOK, Class
  <2> QED BY <1>2, <1>5, <2>1 DEF IInv, CapacityAccounted, canRunLocked, BelowCeilings
<1>7. CallState[w] = "waiting" /\ CallState' = [CallState EXCEPT ![w] = "granted"]
  <2>1. ready \in [Waiters -> BOOLEAN]
    BY DEF IInv, TypeOK
  <2> QED BY <1>2, <1>3, <1>4, <1>5, <2>1 DEF CallState
<1>8. Asked[w][1] = target[w] /\ Asked[w][2] = class[w] /\ UNCHANGED Asked
  BY <1>3, <1>5 DEF Asked
<1>9. /\ Cardinality(Abstract!In("granted")) < Global
      /\ Cardinality(Abstract!ForTarget(Asked[w][1])) < PerTarget
      /\ Asked[w][2] = "batch" => Cardinality(Abstract!OfClass("batch")) < BatchMax
      /\ Asked[w][2] = "maintenance" =>
            Cardinality(Abstract!OfClass("maintenance")) < MaintenanceMax
  BY <1>6, <1>8, AbstractSets
<1>10. Abstract!Grant(w)
  BY <1>7, <1>8, <1>9, SameCount DEF Abstract!Grant
<1> QED BY <1>3, <1>10

(* Queueing a call is a Request of it.                                     *)
LEMMA AcquireImplements ==
    ASSUME IInv, NEW w \in Waiters, NEW r \in Requests, AcquireQueue(w, r[1], r[2])
    PROVE  Abstract!Request(w, r)
<1>1. r \in Targets \X Class /\ r = <<r[1], r[2]>>
  BY CallsAssumption
<1>2. CallState[w] = "none"
  BY DEF AcquireQueue, Free, CallState, Waiting
<1>3. Cardinality(Abstract!In("waiting")) < MaxQueued
  <2>1. LiveQueued \in SUBSET Waiters
    BY DEF LiveQueued
  <2>2. Cardinality(LiveQueued) \in Nat /\ MaxQueued \in Nat
    BY <2>1, CountType, ConfigAssumption
  <2> QED BY <2>2, AbstractSets DEF AcquireQueue, Overloaded, totalQueuedLocked
<1>4. CallState' = [CallState EXCEPT ![w] = "waiting"]
  BY DEF IInv, TypeOK, AcquireQueue, CallState, Waiting
<1>5. Asked' = [Asked EXCEPT ![w] = r]
  BY <1>1 DEF IInv, TypeOK, AcquireQueue, Asked
<1> QED BY <1>2, <1>3, <1>4, <1>5, SameCount DEF Abstract!Request

(* A step outside the mutex, and the end of dispatchLocked, are invisible. *)
LEMMA SelectImplements ==
    ASSUME IInv, NEW w \in Waiters, Admit(w) \/ GiveUp(w)
    PROVE  UNCHANGED <<CallState, Asked>>
<1>1. UNCHANGED <<target, class, ready>>
  BY DEF Admit, GiveUp
<1>2. PICK p \in {"holding", "givingUp"} : pc[w] = "select" /\ pc' = [pc EXCEPT ![w] = p]
  BY DEF Admit, GiveUp
<1>3. UNCHANGED CallState
  BY <1>1, <1>2 DEF IInv, TypeOK, CallState, Waiting
<1> QED BY <1>1, <1>3 DEF Asked

LEMMA ReturnImplements ==
    ASSUME IInv, DispatchReturn
    PROVE  UNCHANGED <<CallState, Asked>>
<1>1. /\ UNCHANGED <<target, class, ready>>
      /\ mutex # NoWaiter /\ pc' = [pc EXCEPT ![mutex] = Unlocked(@)]
  BY DEF DispatchReturn
<1>2. mutex \in Waiters
  BY <1>1 DEF IInv, TypeOK
<1>3. pc[mutex] \in {"acquiring", "canceling", "releasing"}
  BY <1>2 DEF IInv, CallsConsistent
<1>4. pc[mutex] \in Waiting <=> Unlocked(pc[mutex]) \in Waiting
  BY <1>3 DEF Unlocked, Waiting
<1>5. pc[mutex] # "holding" /\ Unlocked(pc[mutex]) # "holding"
  BY <1>3 DEF Unlocked
<1>6. \A v \in Waiters :
        pc'[v] \in Waiting \cup {"holding"} <=> pc[v] \in Waiting \cup {"holding"}
  BY <1>1, <1>2, <1>4, <1>5 DEF IInv, TypeOK
<1>7. UNCHANGED CallState
  BY <1>1, <1>6 DEF CallState
<1> QED BY <1>1, <1>7 DEF Asked

(* Giving up and releasing are a Finish of the call.                       *)
LEMMA FinishImplements ==
    ASSUME IInv, NEW w \in Waiters, pc[w] \in Waiting \cup {"holding"},
           NEW p \in {"canceling", "releasing"}, pc' = [pc EXCEPT ![w] = p],
           UNCHANGED <<target, class, ready>>
    PROVE  Abstract!Finish(w)
<1>1. CallState[w] \in {"waiting", "granted"}
  BY DEF CallState
<1>2. CallState' = [CallState EXCEPT ![w] = "none"]
  BY DEF IInv, TypeOK, CallState, Waiting
<1> QED BY <1>1, <1>2 DEF Abstract!Finish, Asked

(* Every step of the controller is a step of the abstract permits or       *)
(* changes nothing a caller can see.                                       *)
LEMMA NextImplements == IInv /\ [Next]_vars => [Abstract!Next]_(Abstract!vars)
<1> SUFFICES ASSUME IInv, [Next]_vars PROVE Abstract!Next \/ UNCHANGED Abstract!vars
  OBVIOUS
<1>1. CASE DispatchGrant
  BY <1>1, GrantImplements DEF Abstract!Next
<1>2. CASE DispatchReturn
  BY <1>2, ReturnImplements DEF Abstract!vars
<1>3. ASSUME NEW w \in Waiters, NEW r \in Requests, AcquireQueue(w, r[1], r[2])
      PROVE  Abstract!Next
  BY <1>3, AcquireImplements DEF Abstract!Next
<1>4. ASSUME NEW w \in Waiters, Admit(w) \/ GiveUp(w) PROVE UNCHANGED Abstract!vars
  BY <1>4, SelectImplements DEF Abstract!vars
<1>5. ASSUME NEW w \in Waiters, cancel(w) PROVE Abstract!Next
  <2>1. Abstract!Finish(w)
    BY <1>5, FinishImplements DEF cancel, Waiting
  <2> QED BY <2>1 DEF Abstract!Next
<1>6. CASE UNCHANGED vars
  BY <1>6 DEF vars, Abstract!vars, CallState, Asked
<1>7. ASSUME NEW w \in Waiters, Release(w) PROVE Abstract!Next \/ UNCHANGED vars
  <2>1. CASE pc[w] = "holding"
    <3>1. Abstract!Finish(w)
      BY <1>7, <2>1, FinishImplements DEF Release
    <3> QED BY <3>1 DEF Abstract!Next
  <2> QED BY <1>7, <2>1 DEF Release
<1>8. ASSUME NEW w \in Waiters, AcquireReject(w) PROVE UNCHANGED vars
  BY <1>8 DEF AcquireReject
<1> QED BY <1>1, <1>2, <1>3, <1>4, <1>5, <1>6, <1>7, <1>8 DEF Next

(* The admission controller implements Permits, for every configuration    *)
(* and any number of concurrent calls.                                     *)
THEOREM Refinement == Spec => ImplementsPermits
<1>1. Init => Abstract!Init
  <2> SUFFICES ASSUME Init PROVE Abstract!Init
    OBVIOUS
  <2>1. TypeOK
    BY InitInv DEF IInv
  <2>2. Asked \in [Waiters -> Targets \X Class]
    BY <2>1 DEF TypeOK, Asked
  <2>3. CallState = [w \in Waiters |-> "none"]
    BY DEF Init, CallState, Waiting
  <2> QED BY <2>2, <2>3 DEF Abstract!Init
<1> QED BY <1>1, NextImplements, Invariance, PTL DEF Spec, Abstract!Spec, ImplementsPermits

-----------------------------------------------------------------------------
(* What a single grant may do.                                             *)

(* Only a dispatch grants.                                                 *)
LEMMA OnlyDispatchGrants ==
    ASSUME TypeOK, [Next]_vars, NEW w \in Waiters, ~ready[w], ready'[w]
    PROVE  DispatchGrant
<1>1. ASSUME ready' = ready PROVE FALSE
  BY <1>1
<1>2. ASSUME NEW v \in Waiters, ready' = [ready EXCEPT ![v] = FALSE] PROVE FALSE
  BY <1>2 DEF TypeOK
<1>3. ASSUME NEW v \in Waiters, NEW r \in Requests, AcquireQueue(v, r[1], r[2]) PROVE FALSE
  BY <1>2, <1>3 DEF AcquireQueue
<1>4. CASE UNCHANGED vars
  BY <1>1, <1>4 DEF vars
<1>5. ASSUME NEW v \in Waiters,
             AcquireReject(v) \/ Admit(v) \/ GiveUp(v) \/ cancel(v) \/ Release(v)
      PROVE  FALSE
  BY <1>1, <1>5 DEF AcquireReject, Admit, GiveUp, cancel, Release, vars
<1>6. CASE DispatchReturn
  BY <1>1, <1>6 DEF DispatchReturn
<1> QED BY <1>3, <1>4, <1>5, <1>6 DEF Next

(* The scan stops at one class, whose first candidate is the granted one   *)
(* (admission.go:140-165).                                                 *)
ChosenAt(n) ==
    LET c == classAt(n)
        i == First(Candidates(c))
        w == Pruned(queues[c])[i]
    IN  /\ c \in Class /\ w \in Queued(c) /\ w \in Waiters
        /\ Candidates(c) \in SUBSET Nat /\ i \in Candidates(c)
        /\ \A j \in Candidates(c) : i <= j
        /\ ~canceled[w] /\ canRunLocked(w) /\ class[w] = c /\ ~ready[w]
        /\ ready' = [ready EXCEPT ![w] = TRUE]
        /\ active' = active + 1 /\ next' = nextAfter(n)

LEMMA GrantChoice ==
    ASSUME TypeOK, WaitersQueuedOnce, DispatchGrant
    PROVE  \E n \in 0..5 : ScanStopsAt(n) /\ ChosenAt(n)
<1>1. PICK n \in 0..5 :
        /\ ScanStopsAt(n)
        /\ LET c == classAt(n)
               i == First(Candidates(c))
               w == Pruned(queues[c])[i]
           IN  /\ active' = active + 1
               /\ next' = nextAfter(n)
               /\ ready' = [ready EXCEPT ![w] = TRUE]
  BY DEF DispatchGrant
<1> DEFINE c == classAt(n)
           i == First(Candidates(c))
           p == Pruned(queues[c])
           w == p[i]
<1>2. c \in Class
  <2>1. ((next + n) % 6) + 1 \in 1..6
    BY DEF TypeOK
  <2> QED BY <2>1 DEF TypeOK, classAt, order, Class
<1>3. /\ p \in Seq(Waiters) /\ Elems(p) \subseteq Queued(c)
      /\ Queued(c) \subseteq Waiters
  <2>1. queues[c] \in Seq(Waiters) /\ canceled \in [Waiters -> BOOLEAN]
    BY <1>2 DEF TypeOK
  <2>2. Elems(queues[c]) \subseteq Waiters
    BY <2>1 DEF Elems
  <2> HIDE DEF c
  <2> QED BY <2>1, <2>2, PrunedFacts DEF Queued
<1>4. DOMAIN p = 1..Len(p) /\ Len(p) \in Nat
  BY <1>3
<1>5. Candidates(c) = {k \in DOMAIN p : ~canceled[p[k]] /\ canRunLocked(p[k])}
  BY DEF Candidates
<1>6. Candidates(c) \in SUBSET Nat /\ Candidates(c) # {}
  BY <1>1, <1>4, <1>5 DEF ScanStopsAt
<1>7. i \in Candidates(c) /\ \A j \in Candidates(c) : i <= j
  BY <1>6, FirstIsLeast
<1>8. i \in DOMAIN p /\ ~canceled[w] /\ canRunLocked(w)
  <2> HIDE DEF i, p, c
  <2> QED BY <1>5, <1>7
<1>9. w \in Queued(c) /\ w \in Waiters
  <2>1. w \in Elems(p)
    <3> HIDE DEF i, p
    <3> QED BY <1>8 DEF Elems
  <2> QED BY <1>3, <2>1
<1>10. class[w] = c /\ ~ready[w]
  BY <1>2, <1>9 DEF WaitersQueuedOnce
<1>11. ChosenAt(n)
  BY <1>1, <1>2, <1>6, <1>7, <1>8, <1>9, <1>10 DEF ChosenAt
<1> QED BY <1>1, <1>11

(* The permit a metadata waiter is waiting for is not given to others      *)
(* beyond the reserve (admission.go:185-187), for any configuration.       *)
THEOREM ReserveHolds == Spec => ReserveKept
<1>1. ASSUME IInv, [Next]_vars, NEW w \in Waiters, ~ready[w], ready'[w],
             class[w] # "metadata", NEW v \in LiveQueued, class[v] = "metadata",
             byTarget[target[v]] < PerTarget
      PROVE  active' <= Global - MetadataReserved \/ MetadataReserved = 0
  <2>1. DispatchGrant
    BY <1>1, OnlyDispatchGrants DEF IInv
  <2>2. PICK n \in 0..5 : ScanStopsAt(n) /\ ChosenAt(n)
    BY <1>1, <2>1, GrantChoice DEF IInv
  <2> DEFINE u == Pruned(queues[classAt(n)])[First(Candidates(classAt(n)))]
  <2>3. /\ u \in Waiters /\ canRunLocked(u) /\ ready' = [ready EXCEPT ![u] = TRUE]
        /\ active' = active + 1
    BY <2>2 DEF ChosenAt
  <2> HIDE DEF u
  <2>4. u = w
    BY <1>1, <2>3 DEF IInv, TypeOK
  <2>5. hasRunnableLocked("metadata")
    <3>1. PICK d \in Class : v \in Queued(d)
      BY <1>1 DEF LiveQueued
    <3>2. d = "metadata" /\ ~canceled[v]
      BY <1>1, <3>1 DEF IInv, WaitersQueuedOnce, LiveQueued
    <3> QED BY <1>1, <3>1, <3>2 DEF hasRunnableLocked
  <2>6. ~(MetadataReserved > 0 /\ active >= Global - MetadataReserved)
    BY <1>1, <2>3, <2>4, <2>5 DEF canRunLocked
  <2>7. active \in Int /\ Global \in Int /\ MetadataReserved \in Nat
    BY <1>1, ConfigAssumption DEF IInv, TypeOK
  <2> QED BY <2>3, <2>6, <2>7
<1>2. ASSUME IInv, [Next]_vars
      PROVE  [\A w \in Waiters :
                /\ ~ready[w] /\ ready'[w] /\ class[w] # "metadata"
                /\ \E v \in LiveQueued :
                      class[v] = "metadata" /\ byTarget[target[v]] < PerTarget
                => active' <= Global - MetadataReserved \/ MetadataReserved = 0]_vars
  BY <1>1, <1>2
<1> QED BY <1>2, Invariance, PTL DEF Spec, ReserveKept

(* Dropping canceled waiters from the front moves every live one forward   *)
(* by the same distance.                                                   *)
LEMMA PrunedKeepsOrder ==
    ASSUME NEW q \in Seq(Waiters), canceled \in [Waiters -> BOOLEAN]
    PROVE  \E d \in Nat : \A m \in DOMAIN q :
              ~canceled[q[m]] => m - d \in DOMAIN Pruned(q) /\ Pruned(q)[m - d] = q[m]
<1> DEFINE r == Pruned(q)
<1>1. Len(q) \in Nat /\ DOMAIN q = 1..Len(q)
  OBVIOUS
<1>2. PICK k \in 1..(Len(q) + 1) :
        /\ \A i \in 1..(k - 1) : canceled[q[i]]
        /\ r \in Seq(Waiters) /\ Len(r) = Len(q) - k + 1
        /\ \A i \in 1..(Len(q) - k + 1) : r[i] = q[k + i - 1]
  BY PrunedShape
<1> HIDE DEF r
<1>3. /\ r \in Seq(Waiters) /\ Len(r) = Len(q) - k + 1
      /\ \A i \in 1..(Len(q) - k + 1) : r[i] = q[k + i - 1]
  BY <1>2
<1>4. ASSUME NEW m \in DOMAIN q, ~canceled[q[m]]
      PROVE  m - (k - 1) \in DOMAIN r /\ r[m - (k - 1)] = q[m]
  <2>1. m \notin 1..(k - 1)
    BY <1>2, <1>4
  <2>2. m - (k - 1) \in 1..(Len(q) - k + 1) /\ k + (m - (k - 1)) - 1 = m
    BY <1>1, <2>1
  <2>3. DOMAIN r = 1..(Len(q) - k + 1)
    BY <1>3
  <2> QED BY <1>3, <2>2, <2>3
<1>5. k - 1 \in Nat
  BY <1>1, <1>2
<1> QED BY <1>4, <1>5 DEF r

(* First come, first served, within a class and target, for any number of  *)
(* callers that give up in between (admission.go:149-160).                 *)
THEOREM FirstComeFirstServed == Spec => FifoPerTarget
<1>1. ASSUME IInv, [Next]_vars, NEW c \in Class, NEW i \in DOMAIN queues[c],
             NEW j \in DOMAIN queues[c], i < j, ready'[queues[c][j]],
             target[queues[c][i]] = target[queues[c][j]]
      PROVE  canceled[queues[c][i]]
  <2> SUFFICES ASSUME ~canceled[queues[c][i]] PROVE FALSE
    OBVIOUS
  <2> DEFINE v == queues[c][i]
             w == queues[c][j]
             p == Pruned(queues[c])
  <2>1. /\ queues[c] \in Seq(Waiters) /\ DOMAIN queues[c] = 1..Len(queues[c])
        /\ canceled \in [Waiters -> BOOLEAN] /\ ready \in [Waiters -> BOOLEAN]
        /\ Len(queues[c]) \in Nat
    BY <1>1 DEF IInv, TypeOK
  <2>2. /\ v \in Queued(c) /\ w \in Queued(c) /\ v \in Waiters /\ w \in Waiters
        /\ class[v] = c /\ class[w] = c /\ ~ready[w] /\ i \in Int /\ j \in Int
    <3>1. v \in Queued(c) /\ w \in Queued(c)
      BY DEF Queued, Elems
    <3> QED BY <1>1, <2>1, <3>1 DEF IInv, WaitersQueuedOnce
  <2>3. DispatchGrant
    BY <1>1, <2>2, OnlyDispatchGrants DEF IInv
  <2>4. PICK n \in 0..5 : ScanStopsAt(n) /\ ChosenAt(n)
    BY <1>1, <2>3, GrantChoice DEF IInv
  <2> DEFINE a == First(Candidates(classAt(n)))
             u == Pruned(queues[classAt(n)])[a]
  <2>5. /\ u \in Waiters /\ ready' = [ready EXCEPT ![u] = TRUE] /\ class[u] = classAt(n)
        /\ a \in Candidates(classAt(n)) /\ \A x \in Candidates(classAt(n)) : a <= x
        /\ ~canceled[u] /\ canRunLocked(u)
    BY <2>4 DEF ChosenAt
  <2>6. u = w
    <3> HIDE DEF u, v, w
    <3> QED BY <1>1, <2>1, <2>2, <2>5 DEF w
  <2>7. classAt(n) = c /\ p[a] = w
    BY <2>2, <2>5, <2>6
  <2>8. Distinct(p) /\ p \in Seq(Waiters)
    BY <1>1, <2>1, PrunedFacts DEF IInv, WaitersQueuedOnce
  <2>9. PICK d \in Nat : \A m \in DOMAIN queues[c] :
           ~canceled[queues[c][m]] => m - d \in DOMAIN p /\ p[m - d] = queues[c][m]
    BY <2>1, PrunedKeepsOrder
  <2>10. ~canceled[w] /\ canRunLocked(w)
    BY <2>5, <2>6
  <2>11. j - d \in DOMAIN p /\ p[j - d] = w /\ i - d \in DOMAIN p /\ p[i - d] = v
    BY <2>9, <2>10
  <2>12. a \in DOMAIN p /\ a = j - d
    <3>1. a \in DOMAIN p
      BY <2>5, <2>7 DEF Candidates
    <3> HIDE DEF a, p, w, v
    <3> QED BY <2>7, <2>8, <2>11, <3>1 DEF Distinct
  <2>13. canRunLocked(v)
    <3>1. target[v] = target[w] /\ class[v] = class[w]
      BY <1>1, <2>2
    <3> HIDE DEF v, w
    <3> QED BY <2>10, <3>1 DEF canRunLocked, BelowCeilings
  <2>14. i - d \in Candidates(c)
    <3>1. ~canceled[p[i - d]] /\ canRunLocked(p[i - d])
      BY <2>11, <2>13
    <3> QED BY <2>11, <3>1 DEF Candidates
  <2>15. j - d <= i - d
    BY <2>5, <2>7, <2>12, <2>14
  <2> QED BY <1>1, <2>2, <2>9, <2>15
<1>2. ASSUME IInv, [Next]_vars
      PROVE  [\A c \in Class : \A i, j \in DOMAIN queues[c] :
                LET v == queues[c][i]  w == queues[c][j]
                IN  i < j /\ ready'[w] /\ target[v] = target[w]
                       => ready'[v] \/ canceled[v]]_vars
  BY <1>1, <1>2
<1> QED BY <1>2, Invariance, PTL DEF Spec, FifoPerTarget

-----------------------------------------------------------------------------
(* The service of the classes.                                             *)

(* How far the scan is from the next place of a class in its order.        *)
MetadataAhead(x) == CASE x \in {0, 2} -> 0 [] x \in {1, 5} -> 1 [] x = 4 -> 2 [] x = 3 -> 3
InteractiveAhead(x) == CASE x \in {1, 3} -> 0 [] x \in {0, 2} -> 1 [] x = 5 -> 2 [] x = 4 -> 3
BatchAhead(x) == IF x = 5 THEN 5 ELSE 4 - x

Ahead(c, x) == CASE c = "metadata" -> MetadataAhead(x)
                 [] c = "interactive" -> InteractiveAhead(x)
                 [] c = "batch" -> BatchAhead(x)

Farthest(c) == IF c = "batch" THEN 5 ELSE 3

LEMMA AheadFacts ==
    ASSUME NEW c \in Served, NEW x \in 0..5
    PROVE  /\ Ahead(c, x) \in 0..Farthest(c) /\ Ahead(c, x) \in 0..5 /\ Farthest(c) \in Nat
           /\ order[((x + Ahead(c, x)) % 6) + 1] = c
           /\ \A n \in 0..5 : n < Ahead(c, x) => Ahead(c, (x + n + 1) % 6) = Ahead(c, x) - n - 1
<1>1. c \in {"metadata", "interactive", "batch"} /\ x \in {0, 1, 2, 3, 4, 5}
  BY DEF Served, Class
<1>2. ASSUME NEW n \in 0..5 PROVE n \in {0, 1, 2, 3, 4, 5}
  OBVIOUS
<1>3. CASE c = "metadata"
  <2>1. CASE x = 0
    BY <1>2, <1>3, <2>1 DEF Ahead, MetadataAhead, Farthest, order
  <2>2. CASE x = 1
    BY <1>2, <1>3, <2>2 DEF Ahead, MetadataAhead, Farthest, order
  <2>3. CASE x = 2
    BY <1>2, <1>3, <2>3 DEF Ahead, MetadataAhead, Farthest, order
  <2>4. CASE x = 3
    BY <1>2, <1>3, <2>4 DEF Ahead, MetadataAhead, Farthest, order
  <2>5. CASE x = 4
    BY <1>2, <1>3, <2>5 DEF Ahead, MetadataAhead, Farthest, order
  <2>6. CASE x = 5
    BY <1>2, <1>3, <2>6 DEF Ahead, MetadataAhead, Farthest, order
  <2> QED BY <1>1, <2>1, <2>2, <2>3, <2>4, <2>5, <2>6
<1>4. CASE c = "interactive"
  <2>1. CASE x = 0
    BY <1>2, <1>4, <2>1 DEF Ahead, InteractiveAhead, Farthest, order
  <2>2. CASE x = 1
    BY <1>2, <1>4, <2>2 DEF Ahead, InteractiveAhead, Farthest, order
  <2>3. CASE x = 2
    BY <1>2, <1>4, <2>3 DEF Ahead, InteractiveAhead, Farthest, order
  <2>4. CASE x = 3
    BY <1>2, <1>4, <2>4 DEF Ahead, InteractiveAhead, Farthest, order
  <2>5. CASE x = 4
    BY <1>2, <1>4, <2>5 DEF Ahead, InteractiveAhead, Farthest, order
  <2>6. CASE x = 5
    BY <1>2, <1>4, <2>6 DEF Ahead, InteractiveAhead, Farthest, order
  <2> QED BY <1>1, <2>1, <2>2, <2>3, <2>4, <2>5, <2>6
<1>5. CASE c = "batch"
  <2>1. CASE x = 0
    BY <1>2, <1>5, <2>1 DEF Ahead, BatchAhead, Farthest, order
  <2>2. CASE x = 1
    BY <1>2, <1>5, <2>2 DEF Ahead, BatchAhead, Farthest, order
  <2>3. CASE x = 2
    BY <1>2, <1>5, <2>3 DEF Ahead, BatchAhead, Farthest, order
  <2>4. CASE x = 3
    BY <1>2, <1>5, <2>4 DEF Ahead, BatchAhead, Farthest, order
  <2>5. CASE x = 4
    BY <1>2, <1>5, <2>5 DEF Ahead, BatchAhead, Farthest, order
  <2>6. CASE x = 5
    BY <1>2, <1>5, <2>6 DEF Ahead, BatchAhead, Farthest, order
  <2> QED BY <1>1, <2>1, <2>2, <2>3, <2>4, <2>5, <2>6
<1> QED BY <1>1, <1>3, <1>4, <1>5

(* The classes whose work is held back by nothing but the round robin.     *)
Entitled == {c \in Served : c = "metadata" \/ MetadataReserved = 0}

(* A class has been passed over at most as often as the scan has come      *)
(* closer to its next place in the order.                                  *)
Closer ==
    /\ passedOver \in [Served -> Nat]
    /\ \A c \in Entitled : passedOver[c] + Ahead(c, next) <= Farthest(c)

(* The scan finds a servable class, so it does not go past it.             *)
LEMMA ServableIsFound ==
    ASSUME IInv, NEW c \in Entitled, Servable(c)
    PROVE  Candidates(c) # {}
<1>1. PICK w \in LiveQueued : class[w] = c /\ BelowCeilings(w)
  BY DEF Servable
<1>2. PICK d \in Class : w \in Queued(d)
  BY DEF LiveQueued
<1>3. d = c /\ ~canceled[w] /\ w \in Waiters
  BY <1>1, <1>2 DEF IInv, WaitersQueuedOnce, LiveQueued
<1>4. canRunLocked(w)
  BY <1>1, <1>3 DEF canRunLocked, Entitled, Served, Class
<1>5. queues[c] \in Seq(Waiters) /\ canceled \in [Waiters -> BOOLEAN]
  BY <1>2, <1>3 DEF IInv, TypeOK
<1>6. w \in Elems(Pruned(queues[c]))
  BY <1>2, <1>3, <1>5, PrunedFacts DEF Queued
<1>7. PICK i \in DOMAIN Pruned(queues[c]) : Pruned(queues[c])[i] = w
  BY <1>6 DEF Elems
<1> QED BY <1>3, <1>4, <1>7 DEF Candidates

LEMMA ServiceStep ==
    ASSUME IInv, Closer, ServiceNext
    PROVE  Closer'
<1>1. Next /\ TypeOK /\ WaitersQueuedOnce /\ next \in 0..5
  BY DEF ServiceNext, IInv, TypeOK
<1>2. ASSUME NEW c \in Served
      PROVE  /\ passedOver'[c] \in Nat
             /\ \/ passedOver'[c] = 0
                \/ GrantedClass = {} /\ passedOver'[c] = passedOver[c]
                \/ /\ GrantedClass # {} /\ c \notin GrantedClass /\ Servable(c)
                   /\ passedOver'[c] <= passedOver[c] + 1
  <2>1. passedOver[c] \in Nat /\ CountLimit \in Nat
    BY CountAssumption DEF Closer
  <2>2. passedOver'[c] =
          CASE GrantedClass = {} /\ Backlogged(c) -> passedOver[c]
            [] GrantedClass # {} /\ c \notin GrantedClass /\ Servable(c) ->
                  IF passedOver[c] < CountLimit THEN passedOver[c] + 1 ELSE CountLimit
            [] OTHER -> 0
    BY DEF ServiceNext
  <2>3. CASE GrantedClass = {} /\ Backlogged(c)
    BY <2>1, <2>2, <2>3
  <2>4. CASE GrantedClass # {} /\ c \notin GrantedClass /\ Servable(c)
    <3>1. passedOver'[c] = IF passedOver[c] < CountLimit THEN passedOver[c] + 1
                           ELSE CountLimit
      BY <2>2, <2>4
    <3> QED BY <2>1, <2>4, <3>1
  <2>5. CASE /\ ~(GrantedClass = {} /\ Backlogged(c))
             /\ ~(GrantedClass # {} /\ c \notin GrantedClass /\ Servable(c))
    BY <2>1, <2>2, <2>5
  <2> QED BY <2>3, <2>4, <2>5
<1>3. passedOver' \in [Served -> Nat]
  <2>1. passedOver' = [c \in Served |-> passedOver'[c]]
    BY DEF ServiceNext
  <2> QED BY <1>2, <2>1
<1>4. CASE DispatchGrant
  <2>1. PICK n \in 0..5 : ScanStopsAt(n) /\ ChosenAt(n)
    BY <1>1, <1>4, GrantChoice
  <2> DEFINE w == Pruned(queues[classAt(n)])[First(Candidates(classAt(n)))]
  <2>2. /\ w \in Waiters /\ class[w] = classAt(n) /\ ~ready[w]
        /\ ready' = [ready EXCEPT ![w] = TRUE] /\ next' = (next + n + 1) % 6
    BY <2>1 DEF ChosenAt, nextAfter
  <2> HIDE DEF w
  <2>3. classAt(n) \in GrantedClass
    <3>1. ready'[w]
      BY <1>1, <2>2 DEF TypeOK
    <3> QED BY <2>2, <3>1 DEF GrantedClass
  <2>4. next' \in 0..5
    BY <1>1, <2>2
  <2>5. ASSUME NEW c \in Entitled PROVE passedOver'[c] + Ahead(c, next') <= Farthest(c)
    <3>1. c \in Served
      BY DEF Entitled
    <3>2. /\ Ahead(c, next') \in 0..Farthest(c) /\ Farthest(c) \in Nat
          /\ Ahead(c, next) \in 0..5
      BY <1>1, <2>4, <3>1, AheadFacts
    <3>3. CASE passedOver'[c] = 0
      BY <3>2, <3>3
    <3>4. CASE passedOver'[c] # 0
      <4>1. c \notin GrantedClass /\ Servable(c) /\ passedOver'[c] <= passedOver[c] + 1
        BY <1>2, <2>3, <3>1, <3>4
      <4>2. Candidates(c) # {}
        BY <4>1, ServableIsFound
      <4>3. classAt(Ahead(c, next)) = c
        BY <1>1, <3>1, AheadFacts DEF classAt
      <4>4. n # Ahead(c, next)
        BY <2>3, <4>1, <4>3
      <4>5. ~(Ahead(c, next) < n)
        <5>1. ASSUME Ahead(c, next) < n PROVE FALSE
          <6>1. Ahead(c, next) \in 0..(n - 1)
            BY <3>2, <5>1
          <6>2. Candidates(classAt(Ahead(c, next))) = {}
            BY <2>1, <6>1 DEF ScanStopsAt
          <6> QED BY <4>2, <4>3, <6>2
        <5> QED BY <5>1
      <4>6. n < Ahead(c, next)
        BY <3>2, <4>4, <4>5
      <4>7. Ahead(c, next') = Ahead(c, next) - n - 1
        BY <1>1, <2>2, <3>1, <4>6, AheadFacts
      <4>8. passedOver[c] + Ahead(c, next) <= Farthest(c) /\ passedOver[c] \in Nat
        BY <3>1 DEF Closer
      <4>9. passedOver'[c] \in Nat
        BY <1>2, <3>1
      <4> DEFINE a == Ahead(c, next)
                 b == Ahead(c, next')
                 f == Farthest(c)
                 x == passedOver[c]
                 y == passedOver'[c]
      <4>10. /\ a \in Int /\ f \in Int /\ x \in Int /\ y \in Int /\ n \in Int /\ n >= 0
             /\ b = a - n - 1 /\ x + a <= f /\ y <= x + 1
        BY <3>2, <4>1, <4>7, <4>8, <4>9
      <4> HIDE DEF a, b, f, x, y
      <4>11. y + b <= f
        BY <4>10
      <4> QED BY <4>11 DEF b, f, y
    <3> QED BY <3>3, <3>4
  <2> QED BY <1>3, <2>5 DEF Closer, Ahead, Farthest, MetadataAhead, InteractiveAhead, BatchAhead, Entitled
<1>5. CASE ~DispatchGrant
  <2>1. GrantedClass = {}
    <3>1. ASSUME NEW w \in Waiters, ~ready[w], ready'[w] PROVE FALSE
      BY <1>1, <1>5, <3>1, OnlyDispatchGrants
    <3> QED BY <3>1 DEF GrantedClass
  <2>2. next' = next
    BY <1>1, <1>5 DEF Next, DispatchReturn, AcquireQueue, AcquireReject, Admit, GiveUp,
                      cancel, Release, ctrl, vars
  <2>3. ASSUME NEW c \in Entitled PROVE passedOver'[c] + Ahead(c, next) <= Farthest(c)
    <3>1. c \in Served
      BY DEF Entitled
    <3>2. passedOver'[c] = 0 \/ passedOver'[c] = passedOver[c]
      BY <1>2, <2>1, <3>1
    <3>3. Ahead(c, next) \in 0..Farthest(c) /\ Farthest(c) \in Nat
      BY <1>1, <3>1, AheadFacts
    <3>4. passedOver[c] + Ahead(c, next) <= Farthest(c)
      BY DEF Closer
    <3> QED BY <3>2, <3>3, <3>4
  <2> QED BY <1>3, <2>2, <2>3 DEF Closer, Ahead, Farthest, MetadataAhead, InteractiveAhead, BatchAhead, Entitled
<1> QED BY <1>4, <1>5

(* For any number of calls and targets and every configuration: metadata   *)
(* work that can run is passed over at most three times in a row, and      *)
(* without a metadata reserve interactive work at most three and batch     *)
(* work at most five times (the order of admission.go:137).                *)
THEOREM ServiceIsWeighted == ServiceSpec => []WeightedService
<1>1. ServiceInit => IInv /\ Closer
  <2> SUFFICES ASSUME ServiceInit PROVE IInv /\ Closer
    OBVIOUS
  <2>1. IInv /\ next \in 0..5
    BY InitInv DEF ServiceInit, Init
  <2>2. passedOver \in [Served -> Nat] /\ \A c \in Served : passedOver[c] = 0
    BY DEF ServiceInit
  <2>3. ASSUME NEW c \in Entitled PROVE passedOver[c] + Ahead(c, next) <= Farthest(c)
    <3>1. c \in Served
      BY DEF Entitled
    <3>2. Ahead(c, next) \in 0..Farthest(c) /\ Farthest(c) \in Nat
      BY <2>1, <3>1, AheadFacts
    <3> QED BY <2>2, <3>1, <3>2
  <2> QED BY <2>1, <2>2, <2>3 DEF Closer
<1>2. IInv /\ Closer /\ [ServiceNext]_serviceVars => (IInv /\ Closer)'
  <2>1. ASSUME IInv, Closer, ServiceNext PROVE (IInv /\ Closer)'
    <3>1. IInv'
      BY <2>1, NextInv DEF ServiceNext
    <3> QED BY <2>1, <3>1, ServiceStep
  <2>2. ASSUME IInv, Closer, UNCHANGED serviceVars PROVE (IInv /\ Closer)'
    <3>1. UNCHANGED vars /\ passedOver' = passedOver /\ next' = next
      BY <2>2 DEF serviceVars, vars, ctrl
    <3>2. IInv'
      BY <2>2, <3>1, NextInv
    <3> QED BY <2>2, <3>1, <3>2 DEF Closer, Ahead, Farthest, MetadataAhead, InteractiveAhead,
                                    BatchAhead, Entitled
  <2> QED BY <2>1, <2>2
<1>3. IInv /\ Closer => WeightedService
  <2> SUFFICES ASSUME IInv, Closer PROVE WeightedService
    OBVIOUS
  <2>1. ASSUME NEW c \in Entitled PROVE passedOver[c] <= Farthest(c)
    <3>1. c \in Served /\ next \in 0..5
      BY DEF Entitled, IInv, TypeOK
    <3>2. Ahead(c, next) \in 0..Farthest(c) /\ Farthest(c) \in Nat
      BY <3>1, AheadFacts
    <3> QED BY <3>1, <3>2 DEF Closer
  <2>2. "metadata" \in Entitled
    BY DEF Entitled, Served, Class
  <2>3. MetadataReserved = 0 => "interactive" \in Entitled /\ "batch" \in Entitled
    BY DEF Entitled, Served, Class
  <2> QED BY <2>1, <2>2, <2>3 DEF WeightedService, Farthest
<1> QED BY <1>1, <1>2, <1>3, PTL DEF ServiceSpec
=============================================================================
