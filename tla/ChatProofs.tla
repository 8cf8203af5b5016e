------------------------------ MODULE ChatProofs ------------------------------
(***************************************************************************)
(* One channel of service/chat for any senders, idempotency keys, bounds   *)
(* and pages.  The invariant ties everything to the log of what was ever   *)
(* stored: the ring is its tail, the ledger knows the last message of each *)
(* key or has forgotten it for as many others as it remembers, and what a  *)
(* client has is one run of it.                                            *)
(***************************************************************************)
EXTENDS Chat, SequenceTheorems, FiniteSetTheorems, TLAPS

\* The ring is the tail of the log, whose messages carry their place.
LogInv ==
  /\ evicted + Len(ring) = lastSeq /\ Len(log) = lastSeq
  /\ \A i \in 1 .. lastSeq : log[i].seq = i
  /\ \A i \in 1 .. Len(ring) : ring[i] = log[evicted + i]

\* The ledger knows the last message of each key; a key it does not know was last used
\* as many messages ago as it knows keys, or never.
KeysInv ==
  /\ \A r \in RequestIds : requests[r] # 0 => log[requests[r]].request = r
  /\ \A i \in 1 .. lastSeq :
       \/ requests[log[i].request] >= i
       \/ requests[log[i].request] = 0 /\ lastSeq - i >= requestKeyBudget

OnceInv ==
  \A i, j \in 1 .. lastSeq :
    i < j /\ log[i].request = log[j].request => j - i > requestKeyBudget

AnswerInv ==
  answer # NoAnswer =>
    /\ answer.message.from = answer.for
    /\ answer.message.request = answer.key
    /\ answer.message.seq \in 1 .. lastSeq
    /\ log[answer.message.seq] = answer.message

ChatInv == TypeOK /\ LogInv /\ KeysInv /\ OnceInv /\ AnswerInv /\ FeedHasNoHoles

-----------------------------------------------------------------------------
(* Lengths and bounds.                                                     *)

LEMMA Budget == requestKeyBudget \in Nat \ {0}
BY ChatAssumption DEF requestKeyBudget, LeastOf

LEMMA Lengths ==
  ASSUME TypeOK
  PROVE  /\ lastSeq \in Nat /\ evicted \in Nat /\ Retain \in Nat \ {0}
         /\ Len(ring) \in Nat /\ DOMAIN ring = 1 .. Len(ring)
         /\ Len(log) \in Nat /\ DOMAIN log = 1 .. Len(log)
         /\ \A i \in 1 .. Len(ring) : ring[i] \in Message
         /\ \A i \in 1 .. Len(log) : log[i] \in Message
BY LenProperties, ElementOfSeq, ChatAssumption DEF TypeOK

\* A stretch of a sequence, by its places.
LEMMA Stretch ==
  ASSUME NEW S, NEW q \in Seq(S), NEW from \in Nat, NEW to \in Nat, from <= to, to <= Len(q)
  PROVE  /\ SubSeq(q, from + 1, to) \in Seq(S)
         /\ Len(SubSeq(q, from + 1, to)) = to - from
         /\ \A i \in 1 .. to - from : SubSeq(q, from + 1, to)[i] = q[from + i]
<1>1. \A i \in from + 1 .. to : q[i] \in S
  BY ElementOfSeq, LenProperties
<1>2. from + 1 \in Int /\ to \in Int
  OBVIOUS
<1>3. /\ SubSeq(q, from + 1, to) \in Seq(S)
      /\ Len(SubSeq(q, from + 1, to)) = IF from + 1 <= to THEN to - (from + 1) + 1 ELSE 0
      /\ \A i \in 1 .. to - (from + 1) + 1 : SubSeq(q, from + 1, to)[i] = q[from + 1 + i - 1]
  BY <1>1, <1>2, SubSeqProperties
<1>4. to - (from + 1) + 1 = to - from /\ \A i \in 1 .. to - from : from + 1 + i - 1 = from + i
  OBVIOUS
<1>5. QED
  BY <1>3, <1>4

\* What is not empty and numbered has a smallest.
LEMMA Smallest ==
  ASSUME NEW K, K # {}, NEW f \in [K -> Nat]
  PROVE  \E m \in K : \A k \in K : f[m] <= f[k]
<1> DEFINE T == {f[k] : k \in K}
<1>1. T \subseteq Nat /\ T # {}
  OBVIOUS
<1>2. \E x \in T : \A y \in T : ~(<<y, x>> \in OpToRel(<, Nat))
  <2> HIDE DEF T
  <2>1. QED
    BY <1>1, NatLessThanWellFounded, WFMin, Zenon
<1>3. PICK x \in T : \A y \in T : ~(<<y, x>> \in OpToRel(<, Nat))
  BY <1>2
<1>4. \A y \in T : ~(y < x)
  BY <1>1, <1>3 DEF OpToRel
<1>5. QED
  BY <1>1, <1>4

-----------------------------------------------------------------------------
(* The ledger.                                                             *)

\* As many keys lie above a sequence as there are sequences above it, at most.
LEMMA KeysAbove ==
  ASSUME NEW n \in Nat, NEW keys \in [RequestIds -> 0 .. n],
         \A q, r \in RequestIds : keys[q] = keys[r] /\ keys[q] # 0 => q = r,
         NEW m \in 0 .. n
  PROVE  /\ IsFiniteSet({q \in RequestIds : keys[q] > m})
         /\ Cardinality({q \in RequestIds : keys[q] > m}) \in Nat
         /\ Cardinality({q \in RequestIds : keys[q] > m}) <= n - m
<1> DEFINE A == {q \in RequestIds : keys[q] > m}
           f == [q \in A |-> keys[q]]
<1>1. f \in Injection(A, m + 1 .. n)
  BY DEF Injection, IsInjective
<1>2. IsFiniteSet(m + 1 .. n) /\ Cardinality(m + 1 .. n) = n - m
  <2>1. m + 1 \in Int /\ n \in Int
    OBVIOUS
  <2>2. IsFiniteSet(m + 1 .. n) /\ Cardinality(m + 1 .. n) = IF m + 1 > n THEN 0 ELSE n - (m + 1) + 1
    BY <2>1, FS_Interval
  <2>3. QED
    BY <2>2
<1>3. IsFiniteSet(A) /\ Cardinality(A) <= Cardinality(m + 1 .. n)
  <2> HIDE DEF A, f
  <2>1. QED
    BY <1>1, <1>2, FS_Injection
<1>4. Cardinality(A) \in Nat
  BY <1>3, FS_CardinalityType
<1>5. QED
  BY <1>2, <1>3, <1>4

\* TrimKeys forgets a key only for as many that came later, and keeps no more than that.
LEMMA TrimmedKeys ==
  ASSUME NEW n \in Nat, NEW keys \in [RequestIds -> 0 .. n],
         \A q, r \in RequestIds : keys[q] = keys[r] /\ keys[q] # 0 => q = r
  PROVE  /\ TrimKeys(keys) \in [RequestIds -> 0 .. n]
         /\ \A r \in RequestIds :
              \/ TrimKeys(keys)[r] = keys[r]
              \/ TrimKeys(keys)[r] = 0 /\ n - keys[r] >= requestKeyBudget
         /\ Cardinality({r \in RequestIds : TrimKeys(keys)[r] # 0}) <= requestKeyBudget
<1> DEFINE T == TrimKeys(keys)
           Above(m) == {q \in RequestIds : keys[q] > m}
           K == {r \in RequestIds : T[r] # 0}
<1>1. \A m \in 0 .. n :
        IsFiniteSet(Above(m)) /\ Cardinality(Above(m)) \in Nat /\ Cardinality(Above(m)) <= n - m
  BY KeysAbove
<1>2. ASSUME NEW r \in RequestIds
      PROVE  /\ T[r] = IF Cardinality(Above(keys[r])) < requestKeyBudget THEN keys[r] ELSE 0
             /\ T[r] \in 0 .. n /\ keys[r] \in 0 .. n
  BY DEF TrimKeys
<1>3. T \in [RequestIds -> 0 .. n]
  BY DEF TrimKeys
<1> HIDE DEF Above, T
<1>4. ASSUME NEW r \in RequestIds
      PROVE  T[r] = keys[r] \/ (T[r] = 0 /\ n - keys[r] >= requestKeyBudget)
  BY <1>1, <1>2, Budget
<1>5. ASSUME K = {}
      PROVE  Cardinality(K) <= requestKeyBudget
  BY <1>5, FS_EmptySet, Budget
<1>6. ASSUME K # {}
      PROVE  Cardinality(K) <= requestKeyBudget
  <2>1. PICK m \in K : \A k \in K : T[m] <= T[k]
    <3> DEFINE f == [k \in K |-> T[k]]
    <3>1. f \in [K -> Nat]
      BY <1>2
    <3>2. \E m \in K : \A k \in K : f[m] <= f[k]
      <4> HIDE DEF f, K
      <4>1. QED
        BY <1>6, <3>1, Smallest
    <3>3. QED
      BY <3>2
  <2>2. /\ m \in RequestIds /\ T[m] = keys[m] /\ T[m] # 0 /\ keys[m] \in 0 .. n
        /\ Cardinality(Above(keys[m])) < requestKeyBudget
    BY <1>2
  <2>3. \A k \in K : k \in RequestIds /\ T[k] = keys[k] /\ keys[k] # 0 /\ keys[k] >= keys[m]
                     /\ keys[k] \in 0 .. n
    BY <1>2, <2>1, <2>2
  <2>4. K \ {m} \subseteq Above(keys[m])
    BY <2>2, <2>3 DEF Above
  <2>5. /\ IsFiniteSet(K \ {m}) /\ Cardinality(K \ {m}) \in Nat
        /\ Cardinality(K \ {m}) <= Cardinality(Above(keys[m]))
    <3> HIDE DEF K
    <3>1. QED
      BY <1>1, <2>2, <2>4, FS_Subset, FS_CardinalityType
  <2>6. Cardinality(K) <= Cardinality(K \ {m}) + 1
    <3>1. K = (K \ {m}) \cup {m}
      OBVIOUS
    <3>2. Cardinality((K \ {m}) \cup {m}) = Cardinality(K \ {m}) + 1
      <4> HIDE DEF K
      <4>1. QED
        BY <2>5, FS_AddElement
    <3>3. QED
      BY <2>5, <3>1, <3>2
  <2>7. Cardinality(Above(keys[m])) \in Nat /\ Cardinality(K) \in Nat
    <3>1. IsFiniteSet(K)
      <4>1. K = (K \ {m}) \cup {m}
        OBVIOUS
      <4> HIDE DEF K
      <4>2. QED
        BY <2>5, <4>1, FS_AddElement
    <3>2. QED
      BY <1>1, <2>2, <3>1, FS_CardinalityType
  <2>8. Cardinality(K) <= requestKeyBudget
    <3> HIDE DEF K
    <3>1. QED
      BY <2>2, <2>5, <2>6, <2>7, Budget
  <2>9. QED
    BY <2>8
<1>7. QED
  BY <1>3, <1>4, <1>5, <1>6 DEF T

-----------------------------------------------------------------------------
(* Publishing.                                                             *)

\* What Store makes of the ring and the log.
LEMMA Stored ==
  ASSUME TypeOK, LogInv, NEW f \in Senders, NEW r \in RequestIds, Store(f, r)
  PROVE  LET message == [seq |-> lastSeq + 1, from |-> f, request |-> r] IN
         /\ message \in Message /\ lastSeq' = lastSeq + 1
         /\ answer' = [for |-> f, key |-> r, message |-> message]
         /\ log' \in Seq(Message) /\ Len(log') = lastSeq + 1
         /\ \A i \in 1 .. lastSeq : log'[i] = log[i]
         /\ log'[lastSeq + 1] = message
         /\ ring' \in Seq(Message) /\ Len(ring') <= Retain
         /\ evicted' \in Nat /\ evicted' + Len(ring') = lastSeq + 1
         /\ \A i \in 1 .. Len(ring') : ring'[i] = log'[evicted' + i]
<1> DEFINE message == [seq |-> lastSeq + 1, from |-> f, request |-> r]
           next == Append(ring, message)
           drop == Surplus(next)
<1>1. /\ lastSeq \in Nat /\ evicted \in Nat /\ Retain \in Nat \ {0} /\ Len(ring) \in Nat
      /\ Len(ring) <= Retain /\ evicted + Len(ring) = lastSeq /\ Len(log) = lastSeq
  BY Lengths DEF TypeOK, LogInv
<1>2. message \in Message
  BY <1>1 DEF Message
<1>3. /\ ring' = SubSeq(next, drop + 1, Len(next)) /\ evicted' = evicted + drop
      /\ log' = Append(log, message) /\ lastSeq' = lastSeq + 1
      /\ answer' = [for |-> f, key |-> r, message |-> message]
  BY DEF Store
<1>4. /\ log' \in Seq(Message) /\ Len(log') = lastSeq + 1
      /\ \A i \in 1 .. lastSeq : log'[i] = log[i]
      /\ log'[lastSeq + 1] = message
  <2> HIDE DEF message
  <2>1. QED
    BY <1>1, <1>2, <1>3, AppendProperties DEF TypeOK
<1>5. /\ next \in Seq(Message) /\ Len(next) = Len(ring) + 1
      /\ \A i \in 1 .. Len(ring) : next[i] = ring[i]
      /\ next[Len(ring) + 1] = message
  <2> HIDE DEF message
  <2>1. QED
    BY <1>2, AppendProperties DEF TypeOK
<1> HIDE DEF next
<1>6. drop \in Nat /\ drop <= Len(next) /\ Len(next) - drop <= Retain
  BY <1>1, <1>5 DEF Surplus
<1> HIDE DEF drop
<1>7. Len(next) \in Nat
  BY <1>1, <1>5
<1>8. /\ ring' \in Seq(Message) /\ Len(ring') = Len(next) - drop
      /\ \A i \in 1 .. Len(next) - drop : ring'[i] = next[drop + i]
  BY <1>3, <1>5, <1>6, <1>7, Stretch
<1>9. evicted' \in Nat /\ evicted' + Len(ring') = lastSeq + 1 /\ Len(ring') <= Retain
  <2>1. Len(ring') = (Len(ring) + 1) - drop /\ evicted' = evicted + drop
    BY <1>3, <1>5, <1>8
  <2>2. drop \in Nat /\ (Len(ring) + 1) - drop <= Retain
    BY <1>5, <1>6
  <2>3. QED
    BY <1>1, <2>1, <2>2
<1>10. ASSUME NEW i \in 1 .. Len(ring')
       PROVE  ring'[i] = log'[evicted' + i]
  <2>1. ring'[i] = next[drop + i] /\ drop + i \in 1 .. Len(ring) + 1
    BY <1>1, <1>5, <1>6, <1>8
  <2>2. CASE drop + i = Len(ring) + 1
    <3>1. evicted' + i = lastSeq + 1
      BY <1>1, <1>3, <1>6, <2>2
    <3>2. QED
      BY <1>4, <1>5, <2>1, <2>2, <3>1
  <2>3. CASE drop + i \in 1 .. Len(ring)
    <3>1. ring'[i] = log[evicted + (drop + i)]
      BY <1>5, <2>1, <2>3 DEF LogInv
    <3>2. evicted + (drop + i) = evicted' + i /\ evicted' + i \in 1 .. lastSeq
      BY <1>1, <1>3, <1>6, <2>3
    <3>3. QED
      BY <1>4, <3>1, <3>2
  <2>4. QED
    BY <1>1, <2>1, <2>2, <2>3
<1>11. QED
  BY <1>2, <1>3, <1>4, <1>8, <1>9, <1>10

\* No two keys point to one message, also with the one that is added.
LEMMA KeysDiffer ==
  ASSUME TypeOK, KeysInv, NEW r \in RequestIds,
         NEW keys, keys = [requests EXCEPT ![r] = lastSeq + 1]
  PROVE  /\ keys \in [RequestIds -> 0 .. lastSeq + 1]
         /\ \A p, q \in RequestIds : keys[p] = keys[q] /\ keys[p] # 0 => p = q
<1>1. lastSeq \in Nat /\ requests \in [RequestIds -> 0 .. lastSeq]
  BY DEF TypeOK
<1>2. \A q \in RequestIds : keys[q] = IF q = r THEN lastSeq + 1 ELSE requests[q]
  BY <1>1
<1>3. \A p, q \in RequestIds : requests[p] = requests[q] /\ requests[p] # 0 => p = q
  BY DEF KeysInv
<1>4. \A q \in RequestIds : requests[q] # lastSeq + 1
  BY <1>1
<1>5. QED
  BY <1>1, <1>2, <1>3, <1>4

LEMMA StoreStep ==
  ASSUME TypeOK, LogInv, KeysInv, OnceInv, NEW f \in Senders, NEW r \in RequestIds, Store(f, r)
  PROVE  /\ LogInv' /\ KeysInv' /\ OnceInv' /\ AnswerInv'
         /\ requests' \in [RequestIds -> 0 .. lastSeq']
         /\ Cardinality({q \in RequestIds : requests'[q] # 0}) <= requestKeyBudget
<1> DEFINE keys == [requests EXCEPT ![r] = lastSeq + 1]
           message == [seq |-> lastSeq + 1, from |-> f, request |-> r]
<1>1. /\ lastSeq \in Nat /\ requests \in [RequestIds -> 0 .. lastSeq]
      /\ requests[r] = 0 /\ lastSeq' = lastSeq + 1 /\ requests' = TrimKeys(keys)
  BY DEF TypeOK, Store
<1>2. \A q \in RequestIds : keys[q] = IF q = r THEN lastSeq + 1 ELSE requests[q]
  BY <1>1
<1>3. /\ keys \in [RequestIds -> 0 .. lastSeq + 1]
      /\ \A p, q \in RequestIds : keys[p] = keys[q] /\ keys[p] # 0 => p = q
  BY KeysDiffer
<1>4. /\ message.seq = lastSeq + 1 /\ message.from = f /\ message.request = r
      /\ \A i \in 1 .. lastSeq : log'[i] = log[i]
      /\ log'[lastSeq + 1] = message
      /\ answer' = [for |-> f, key |-> r, message |-> message]
  BY Stored
<1> HIDE DEF keys, message
<1>5. /\ requests' \in [RequestIds -> 0 .. lastSeq + 1]
      /\ \A q \in RequestIds :
           \/ requests'[q] = keys[q]
           \/ requests'[q] = 0 /\ (lastSeq + 1) - keys[q] >= requestKeyBudget
      /\ Cardinality({q \in RequestIds : requests'[q] # 0}) <= requestKeyBudget
  <2>1. lastSeq + 1 \in Nat
    BY <1>1
  <2>2. QED
    BY <1>1, <1>3, <2>1, TrimmedKeys
<1>6. LogInv'
  <2>1. \A i \in 1 .. lastSeq' : log'[i].seq = i
    BY <1>1, <1>4 DEF LogInv
  <2>2. QED
    BY <1>1, <2>1, Stored DEF LogInv
<1>7. \A i \in 1 .. lastSeq : log[i].request \in RequestIds
  BY Lengths DEF LogInv, Message
<1>8. ASSUME NEW q \in RequestIds, requests'[q] # 0
      PROVE  log'[requests'[q]].request = q
  <2>1. requests'[q] = keys[q]
    BY <1>5, <1>8
  <2>2. CASE q = r
    BY <1>2, <1>4, <2>1, <2>2
  <2>3. CASE q # r
    <3>1. requests'[q] = requests[q] /\ requests[q] \in 1 .. lastSeq
      BY <1>1, <1>2, <1>8, <2>1, <2>3
    <3>2. QED
      BY <1>4, <1>8, <3>1 DEF KeysInv
  <2>4. QED
    BY <2>2, <2>3
<1>9. ASSUME NEW i \in 1 .. lastSeq + 1
      PROVE  \/ requests'[log'[i].request] >= i
             \/ requests'[log'[i].request] = 0 /\ (lastSeq + 1) - i >= requestKeyBudget
  <2> DEFINE q == log'[i].request
  <2>1. q \in RequestIds
    BY <1>1, <1>4, <1>7
  <2>2. /\ keys[q] \in Nat
        /\ keys[q] >= i \/ (keys[q] = 0 /\ (lastSeq + 1) - i >= requestKeyBudget)
    <3>1. CASE i = lastSeq + 1
      BY <1>1, <1>2, <1>4, <3>1
    <3>2. CASE i \in 1 .. lastSeq
      <4>1. q = log[i].request
        BY <1>4, <3>2
      <4>2. \/ requests[q] >= i
            \/ requests[q] = 0 /\ lastSeq - i >= requestKeyBudget
        BY <3>2, <4>1 DEF KeysInv
      <4>3. CASE q = r
        BY <1>1, <1>2, <2>1, <3>2, <4>3
      <4>4. CASE q # r
        <5>1. keys[q] = requests[q] /\ requests[q] \in Nat
          BY <1>1, <1>2, <2>1, <4>4
        <5>2. QED
          BY <1>1, <3>2, <4>2, <5>1, Budget
      <4>5. QED
        BY <4>3, <4>4
    <3>3. QED
      BY <1>1, <3>1, <3>2
  <2>3. requests'[q] = keys[q] \/ (requests'[q] = 0 /\ (lastSeq + 1) - keys[q] >= requestKeyBudget)
    BY <1>5, <2>1
  <2> HIDE DEF q
  <2>4. \/ requests'[q] >= i
        \/ requests'[q] = 0 /\ (lastSeq + 1) - i >= requestKeyBudget
    BY <1>1, <2>2, <2>3, Budget
  <2>5. QED
    BY <2>4 DEF q
<1>10. KeysInv'
  BY <1>1, <1>8, <1>9 DEF KeysInv, requestKeyBudget
<1>11. ASSUME NEW i \in 1 .. lastSeq + 1, NEW j \in 1 .. lastSeq + 1, i < j,
              log'[i].request = log'[j].request
       PROVE  j - i > requestKeyBudget
  <2>1. i \in 1 .. lastSeq /\ log'[i] = log[i]
    BY <1>1, <1>4, <1>11
  <2>2. CASE j \in 1 .. lastSeq
    BY <1>4, <1>11, <2>1, <2>2 DEF OnceInv
  <2>3. CASE j = lastSeq + 1
    <3>1. log[i].request = r
      BY <1>4, <1>11, <2>1, <2>3
    <3>2. lastSeq - i >= requestKeyBudget
      BY <1>1, <2>1, <3>1 DEF KeysInv
    <3>3. QED
      BY <1>1, <2>1, <2>3, <3>2, Budget
  <2>4. QED
    BY <1>1, <2>2, <2>3
<1>12. OnceInv'
  BY <1>1, <1>11 DEF OnceInv, requestKeyBudget
<1>13. AnswerInv'
  <2>1. /\ answer'.message = message /\ answer'.for = f /\ answer'.key = r
        /\ lastSeq + 1 \in 1 .. lastSeq'
    BY <1>1, <1>4
  <2>2. QED
    BY <1>4, <2>1 DEF AnswerInv
<1>14. QED
  BY <1>1, <1>5, <1>6, <1>10, <1>12, <1>13

LEMMA ReplayStep ==
  ASSUME TypeOK, LogInv, KeysInv, NEW f \in Senders, NEW r \in RequestIds, Replay(f, r)
  PROVE  AnswerInv' /\ answer' \in [for: Senders, key: RequestIds, message: Message]
<1>1. PICK i \in 1 .. Len(ring) :
        /\ requests[r] # 0 /\ ring[i].seq = requests[r] /\ ring[i].from = f
        /\ answer' = [for |-> f, key |-> r, message |-> ring[i]]
        /\ log' = log /\ lastSeq' = lastSeq
  BY Lengths DEF Replay, state
<1>2. /\ ring[i] \in Message /\ ring[i] = log[evicted + i] /\ evicted + i \in 1 .. lastSeq
      /\ log[evicted + i].seq = evicted + i
  BY Lengths DEF LogInv
<1>3. ring[i].request = r
  BY <1>1, <1>2 DEF KeysInv
<1>4. /\ answer'.message = ring[i] /\ answer'.for = f /\ answer'.key = r
  BY <1>1
<1>5. AnswerInv'
  BY <1>1, <1>2, <1>3, <1>4 DEF AnswerInv
<1>6. QED
  BY <1>1, <1>2, <1>5

LEMMA PruneStep ==
  ASSUME TypeOK, LogInv, NEW n \in 1 .. Retain, Prune(n)
  PROVE  /\ LogInv' /\ evicted' \in Nat
         /\ ring' \in Seq(Message) /\ Len(ring') <= Retain
<1>1. /\ lastSeq \in Nat /\ evicted \in Nat /\ Retain \in Nat \ {0} /\ Len(ring) \in Nat
      /\ Len(ring) <= Retain /\ evicted + Len(ring) = lastSeq /\ ring \in Seq(Message)
  BY Lengths DEF TypeOK, LogInv
<1>2. /\ n \in 1 .. Len(ring) /\ ring' = SubSeq(ring, n + 1, Len(ring))
      /\ evicted' = evicted + n /\ lastSeq' = lastSeq /\ log' = log
  BY DEF Prune
<1>3. /\ ring' \in Seq(Message) /\ Len(ring') = Len(ring) - n
      /\ \A i \in 1 .. Len(ring) - n : ring'[i] = ring[n + i]
  <2>1. n \in Nat /\ n <= Len(ring)
    BY <1>1, <1>2
  <2>2. /\ SubSeq(ring, n + 1, Len(ring)) \in Seq(Message)
        /\ Len(SubSeq(ring, n + 1, Len(ring))) = Len(ring) - n
        /\ \A i \in 1 .. Len(ring) - n : SubSeq(ring, n + 1, Len(ring))[i] = ring[n + i]
    BY <1>1, <2>1, Stretch
  <2>3. QED
    BY <1>2, <2>2
<1>4. ASSUME NEW i \in 1 .. Len(ring')
      PROVE  ring'[i] = log'[evicted' + i]
  <2>1. n + i \in 1 .. Len(ring) /\ evicted + (n + i) = evicted' + i
    BY <1>1, <1>2, <1>3
  <2>2. QED
    BY <1>2, <1>3, <2>1 DEF LogInv
<1>5. evicted' \in Nat /\ evicted' + Len(ring') = lastSeq' /\ Len(ring') <= Retain
  <2>1. n \in 1 .. Len(ring) /\ evicted' = evicted + n /\ lastSeq' = lastSeq
    BY <1>2
  <2>2. Len(ring') = Len(ring) - n
    BY <1>3
  <2>3. QED
    BY <1>1, <2>1, <2>2
<1>6. QED
  BY <1>2, <1>3, <1>4, <1>5 DEF LogInv

-----------------------------------------------------------------------------
(* Reading.                                                                *)

\* How much of the ring a cursor is past, by arithmetic.
LEMMA UpToIs ==
  ASSUME TypeOK, LogInv, NEW s \in Int
  PROVE  /\ UpTo(s) \in 0 .. Len(ring)
         /\ s <= evicted => UpTo(s) = 0
         /\ s \in evicted .. lastSeq => UpTo(s) = s - evicted
<1>1. /\ evicted \in Nat /\ lastSeq \in Nat /\ Len(ring) \in Nat /\ evicted + Len(ring) = lastSeq
      /\ DOMAIN ring = 1 .. Len(ring)
  BY Lengths DEF LogInv
<1>2. \A i \in 1 .. Len(ring) : ring[i].seq = evicted + i
  BY <1>1 DEF LogInv
<1> DEFINE A == {i \in DOMAIN ring : ring[i].seq <= s}
           k == IF s <= evicted THEN 0 ELSE IF s >= lastSeq THEN Len(ring) ELSE s - evicted
<1>3. k \in 0 .. Len(ring) /\ A = 1 .. k
  BY <1>1, <1>2
<1>4. Cardinality(1 .. k) = k
  <2>1. k \in Int /\ 1 \in Int /\ k >= 0
    BY <1>1, <1>3
  <2>2. Cardinality(1 .. k) = IF 1 > k THEN 0 ELSE k - 1 + 1
    <3> HIDE DEF k
    <3>1. QED
      BY <2>1, FS_Interval
  <2>3. QED
    <3> HIDE DEF k
    <3>1. QED
      BY <2>1, <2>2
<1>5. UpTo(s) = k
  BY <1>3, <1>4 DEF UpTo
<1>6. QED
  BY <1>1, <1>3, <1>5

\* A page of a stretch of the ring: its sequences follow each other up to the last one.
IsStretch(page, from, to) ==
  /\ Seqs(page) \in Seq(Nat) /\ Len(Seqs(page)) = to - from
  /\ \A i \in 1 .. to - from : Seqs(page)[i] = (evicted + from) + i
  /\ from = to => page.messages = << >>
  /\ from # to => /\ page.messages # << >>
                  /\ page.messages[Len(page.messages)].seq = evicted + to

LEMMA PageIs ==
  ASSUME TypeOK, LogInv, NEW from \in Nat, NEW to \in Nat, from <= to, to <= Len(ring),
         NEW page, page.messages = SubSeq(ring, from + 1, to)
  PROVE  IsStretch(page, from, to)
<1> DEFINE messages == SubSeq(ring, from + 1, to)
<1>1. /\ evicted \in Nat /\ Len(ring) \in Nat
      /\ \A i \in 1 .. Len(ring) : ring[i].seq = evicted + i
  BY Lengths DEF LogInv
<1>2. /\ messages \in Seq(Message) /\ Len(messages) = to - from
      /\ \A i \in 1 .. to - from : messages[i] = ring[from + i]
  BY Stretch DEF TypeOK
<1>3. \A i \in 1 .. to - from : messages[i].seq = (evicted + from) + i
  <2>1. \A i \in 1 .. to - from : from + i \in 1 .. Len(ring) /\ evicted + (from + i) = (evicted + from) + i
    BY <1>1
  <2>2. QED
    BY <1>1, <1>2, <2>1
<1>4. page.messages = messages
  OBVIOUS
<1> HIDE DEF messages
<1>5. DOMAIN messages = 1 .. to - from /\ to - from \in Nat
  BY <1>1, <1>2, LenProperties
<1>6. Seqs(page) = [i \in 1 .. to - from |-> messages[i].seq]
  BY <1>4, <1>5 DEF Seqs
<1>7. Seqs(page) \in [1 .. to - from -> Nat]
  BY <1>1, <1>3, <1>5, <1>6
<1>8. Seqs(page) \in Seq(Nat) /\ Len(Seqs(page)) = to - from
  BY <1>5, <1>7
<1>9. \A i \in 1 .. to - from : Seqs(page)[i] = (evicted + from) + i
  BY <1>3, <1>6
<1>10. ASSUME from # to
       PROVE  messages # << >> /\ messages[Len(messages)].seq = evicted + to
  <2>1. messages # << >> /\ to - from \in 1 .. to - from
    BY <1>2, <1>5, <1>10, EmptySeq
  <2>2. messages[Len(messages)].seq = (evicted + from) + (to - from)
    BY <1>2, <1>3, <2>1
  <2>3. QED
    BY <1>1, <2>1, <2>2
<1>11. from = to => messages = << >>
  BY <1>2, EmptySeq
<1>12. QED
  BY <1>4, <1>8, <1>9, <1>10, <1>11 DEF IsStretch

\* What the reader has, as a run: its places count up from one sequence to the cursor.
IsRun(q, s) == q \in Seq(Nat) /\ \A i \in 1 .. Len(q) : q[i] = s + i

LEMMA FeedIsRun ==
  ASSUME TypeOK, FeedHasNoHoles, reader.feed # << >>
  PROVE  /\ IsRun(reader.feed, Head(reader.feed) - 1)
         /\ Head(reader.feed) \in Nat
         /\ Head(reader.feed) - 1 + Len(reader.feed) = reader.cursor
         /\ Len(reader.feed) \in Nat \ {0}
<1>1. /\ reader.feed \in Seq(Nat) /\ Len(reader.feed) \in Nat \ {0}
      /\ DOMAIN reader.feed = 1 .. Len(reader.feed)
      /\ Head(reader.feed) \in Nat
  BY LenProperties, EmptySeq, HeadTailProperties DEF TypeOK
<1>2. \A i \in 1 .. Len(reader.feed) : reader.feed[i] = Head(reader.feed) + i - 1
  BY <1>1 DEF FeedHasNoHoles
<1>3. \A i \in 1 .. Len(reader.feed) : Head(reader.feed) + i - 1 = (Head(reader.feed) - 1) + i
  BY <1>1
<1>4. reader.feed[Len(reader.feed)] = reader.cursor
  BY DEF FeedHasNoHoles
<1>5. IsRun(reader.feed, Head(reader.feed) - 1)
  BY <1>1, <1>2, <1>3 DEF IsRun
<1>6. Len(reader.feed) \in 1 .. Len(reader.feed)
  BY <1>1
<1>7. Head(reader.feed) - 1 + Len(reader.feed) = reader.cursor
  BY <1>2, <1>3, <1>4, <1>6
<1>8. QED
  BY <1>1, <1>5, <1>7

LEMMA RunIsFeed ==
  ASSUME NEW s \in Int, IsRun(reader'.feed, s),
         reader'.feed # << >> => s + Len(reader'.feed) = reader'.cursor
  PROVE  FeedHasNoHoles'
<1> DEFINE q == reader'.feed
<1>1. q \in Seq(Nat) /\ Len(q) \in Nat /\ DOMAIN q = 1 .. Len(q)
  BY LenProperties DEF IsRun
<1>2. CASE q = << >>
  BY <1>1, <1>2, EmptySeq DEF FeedHasNoHoles
<1>3. CASE q # << >>
  <2>1. Len(q) \in Nat \ {0} /\ Head(q) = q[1]
    BY <1>1, <1>3, EmptySeq
  <2>2. Head(q) = s + 1 /\ \A i \in 1 .. Len(q) : q[i] = s + i
    BY <2>1 DEF IsRun
  <2>3. \A i \in 1 .. Len(q) : s + i = (s + 1) + i - 1
    BY <1>1
  <2>4. q[Len(q)] = reader'.cursor
    BY <1>3, <2>1, <2>2
  <2>5. QED
    BY <1>1, <2>2, <2>3, <2>4 DEF FeedHasNoHoles
<1>4. QED
  BY <1>2, <1>3

\* Two runs of which one begins where the other ends are one.
LEMMA RunsJoin ==
  ASSUME NEW p, NEW q, NEW s \in Int, NEW t \in Int, IsRun(p, s), IsRun(q, t), s + Len(p) = t
  PROVE  IsRun(p \o q, s) /\ Len(p \o q) = Len(p) + Len(q)
<1>1. p \in Seq(Nat) /\ q \in Seq(Nat) /\ Len(p) \in Nat /\ Len(q) \in Nat
  BY LenProperties DEF IsRun
<1>2. /\ p \o q \in Seq(Nat) /\ Len(p \o q) = Len(p) + Len(q)
      /\ \A i \in 1 .. Len(p) + Len(q) :
           (p \o q)[i] = IF i <= Len(p) THEN p[i] ELSE q[i - Len(p)]
  BY <1>1, ConcatProperties
<1>3. ASSUME NEW i \in 1 .. Len(p) + Len(q)
      PROVE  (p \o q)[i] = s + i
  <2>1. CASE i <= Len(p)
    BY <1>1, <1>2, <2>1 DEF IsRun
  <2>2. CASE ~(i <= Len(p))
    <3>1. \A m, n \in Nat : \A j \in 1 .. m + n :
            ~(j <= m) => j - m \in 1 .. n /\ (s + m) + (j - m) = s + j
      OBVIOUS
    <3>2. i - Len(p) \in 1 .. Len(q) /\ t + (i - Len(p)) = s + i
      BY <1>1, <2>2, <3>1
    <3>3. QED
      BY <1>2, <2>2, <3>2 DEF IsRun
  <2>3. QED
    BY <2>1, <2>2
<1>4. QED
  BY <1>2, <1>3 DEF IsRun

\* The state a client is left in, and that a read leaves the channel alone.
ReaderOK ==
  /\ reader' \in [cursor: 0 .. lastSeq, feed: Seq(Nat), current: BOOLEAN]
  /\ FeedHasNoHoles'

LEMMA OpenStep ==
  ASSUME TypeOK, LogInv, NEW limit \in 1 .. MaxPage, Open(limit)
  PROVE  ReaderOK /\ ~reader'.current
<1> DEFINE start == IF Len(ring) > limit THEN Len(ring) - limit ELSE 0
<1>0. PICK page : page = Page(start, Len(ring), lastSeq, start > 0, FALSE)
  OBVIOUS
<1>1. /\ lastSeq \in Nat /\ evicted \in Nat /\ Len(ring) \in Nat /\ limit \in Nat
      /\ evicted + Len(ring) = lastSeq
  BY Lengths, ChatAssumption DEF LogInv
<1>2. start \in Nat /\ start <= Len(ring)
  BY <1>1
<1>3. reader' = [cursor |-> page.next, feed |-> Seqs(page), current |-> FALSE]
  BY <1>0 DEF Open, NewestPage
<1>4. /\ page.messages = SubSeq(ring, start + 1, Len(ring))
      /\ page.next = IF page.messages = << >> THEN lastSeq
                     ELSE page.messages[Len(page.messages)].seq
  BY <1>0 DEF Page
<1> HIDE DEF start
<1>5. /\ page.next = lastSeq
      /\ Seqs(page) \in Seq(Nat) /\ Len(Seqs(page)) = Len(ring) - start
      /\ \A i \in 1 .. Len(ring) - start : Seqs(page)[i] = (evicted + start) + i
  <2>1. Len(ring) <= Len(ring)
    BY <1>1
  <2>2. IsStretch(page, start, Len(ring))
    BY <1>1, <1>2, <1>4, <2>1, PageIs
  <2>3. QED
    BY <1>1, <1>4, <2>2 DEF IsStretch
<1>6. /\ reader'.cursor = lastSeq /\ reader'.feed = Seqs(page)
      /\ reader' \in [cursor: 0 .. lastSeq, feed: Seq(Nat), current: BOOLEAN]
  BY <1>1, <1>3, <1>5
<1>7. IsRun(reader'.feed, evicted + start) /\ evicted + start + Len(reader'.feed) = lastSeq
  <2>1. IsRun(Seqs(page), evicted + start)
    BY <1>5 DEF IsRun
  <2>2. evicted + start + (Len(ring) - start) = lastSeq
    BY <1>1, <1>2
  <2>3. QED
    BY <1>5, <1>6, <2>1, <2>2
<1>8. FeedHasNoHoles'
  <2>1. evicted + start \in Int
    BY <1>1, <1>2
  <2>2. QED
    BY <1>6, <1>7, <2>1, RunIsFeed
<1>9. QED
  BY <1>3, <1>6, <1>8 DEF ReaderOK

\* The next page joins what the client has, or it is told of a gap; and when it is told
\* neither of a gap nor of more it has all.
LEMMA ForwardStep ==
  ASSUME TypeOK, LogInv, FeedHasNoHoles, NEW limit \in 1 .. MaxPage, Forward(limit)
  PROVE  ReaderOK /\ (reader'.current => reader'.cursor = lastSeq)
<1> DEFINE c == reader.cursor
           start == UpTo(c)
           end == LeastOf(start + limit, Len(ring))
           gap == GapAfter(c)
           page == Page(start, end, c, end < Len(ring), gap)
<1>1. /\ lastSeq \in Nat /\ evicted \in Nat /\ Len(ring) \in Nat /\ limit \in Nat \ {0}
      /\ evicted + Len(ring) = lastSeq /\ c \in 0 .. lastSeq /\ c > 0
  BY Lengths, ChatAssumption DEF LogInv, TypeOK, Forward
<1>2. /\ start \in 0 .. Len(ring)
      /\ c <= evicted => start = 0
      /\ c \in evicted .. lastSeq => start = c - evicted
  <2>1. c \in Int
    BY <1>1
  <2> HIDE DEF c
  <2>2. QED
    BY <2>1, UpToIs
<1>3. ~gap => c >= evicted
  <2>1. CASE ring = << >>
    BY <1>1, <2>1, EmptySeq DEF GapAfter
  <2>2. CASE ring # << >>
    <3>1. 1 \in 1 .. Len(ring) /\ evicted + 1 \in 1 .. lastSeq
      BY <1>1, <2>2, EmptySeq DEF TypeOK
    <3>2. ring[1].seq = evicted + 1
      BY <3>1 DEF LogInv
    <3>3. QED
      BY <1>1, <2>2, <3>2 DEF GapAfter, OldestSeq
  <2>3. QED
    BY <2>1, <2>2
<1>4. reader' = [cursor |-> page.next,
                 feed |-> IF page.gap THEN Seqs(page) ELSE reader.feed \o Seqs(page),
                 current |-> ~page.hasMore /\ ~page.gap]
  BY DEF Forward, PageAfter
<1> HIDE DEF start, gap, c
<1>5. end \in Nat /\ start <= end /\ end <= Len(ring) /\ (end = start => start = Len(ring))
  BY <1>1, <1>2 DEF LeastOf
<1>6. /\ page.messages = SubSeq(ring, start + 1, end)
      /\ page.next = IF page.messages = << >> THEN c ELSE page.messages[Len(page.messages)].seq
      /\ page.hasMore = (end < Len(ring)) /\ page.gap = gap
  BY DEF Page
<1> HIDE DEF end, page
<1>7. /\ page.next = IF start = end THEN c ELSE evicted + end
      /\ Seqs(page) \in Seq(Nat) /\ Len(Seqs(page)) = end - start
      /\ \A i \in 1 .. end - start : Seqs(page)[i] = (evicted + start) + i
  <2>1. start \in Nat /\ end \in Nat
    BY <1>2, <1>5
  <2>2. IsStretch(page, start, end)
    BY <1>5, <1>6, <2>1, PageIs
  <2>3. QED
    BY <1>6, <2>2 DEF IsStretch
<1>8. /\ IsRun(Seqs(page), evicted + start)
      /\ evicted + start + Len(Seqs(page)) = evicted + end
      /\ Seqs(page) = << >> <=> start = end
  BY <1>1, <1>2, <1>5, <1>7, EmptySeq DEF IsRun
<1>9. /\ reader'.cursor = page.next
      /\ reader'.feed = IF gap THEN Seqs(page) ELSE reader.feed \o Seqs(page)
      /\ reader'.current => ~(end < Len(ring)) /\ ~gap
  BY <1>4, <1>6
<1>10. page.next \in 0 .. lastSeq
  BY <1>1, <1>5, <1>7
<1>11. reader.feed \in Seq(Nat) /\ reader.feed \o Seqs(page) \in Seq(Nat)
  BY <1>7, ConcatProperties DEF TypeOK
<1>12. reader' \in [cursor: 0 .. lastSeq, feed: Seq(Nat), current: BOOLEAN]
  <2>1. (~page.hasMore /\ ~page.gap) \in BOOLEAN
    OBVIOUS
  <2>2. (IF page.gap THEN Seqs(page) ELSE reader.feed \o Seqs(page)) \in Seq(Nat)
    BY <1>7, <1>11
  <2>3. QED
    BY <1>4, <1>10, <2>1, <2>2
<1>13. evicted + start \in Int
  BY <1>1, <1>2
<1>14. ASSUME reader'.feed = Seqs(page)
       PROVE  FeedHasNoHoles'
  <2>1. IsRun(reader'.feed, evicted + start)
    BY <1>8, <1>14
  <2>2. reader'.feed # << >> => evicted + start + Len(reader'.feed) = reader'.cursor
    BY <1>7, <1>8, <1>9, <1>14
  <2>3. QED
    BY <1>13, <2>1, <2>2, RunIsFeed
<1>15. ASSUME ~gap, reader.feed # << >>
       PROVE  FeedHasNoHoles'
  <2> DEFINE s == Head(reader.feed) - 1
  <2>1. /\ IsRun(reader.feed, s) /\ s \in Int /\ s + Len(reader.feed) = c
        /\ Len(reader.feed) \in Nat \ {0}
    <3>1. IsRun(reader.feed, s) /\ s + Len(reader.feed) = c /\ Len(reader.feed) \in Nat \ {0}
          /\ Head(reader.feed) \in Nat
      BY <1>15, FeedIsRun DEF c
    <3>2. QED
      BY <3>1
  <2> HIDE DEF s
  <2>2. evicted + start = c
    BY <1>1, <1>2, <1>3, <1>15
  <2>3. /\ IsRun(reader'.feed, s)
        /\ Len(reader'.feed) = Len(reader.feed) + Len(Seqs(page))
    BY <1>8, <1>9, <1>13, <1>15, <2>1, <2>2, RunsJoin
  <2>4. s + Len(reader'.feed) = reader'.cursor
    <3>1. Len(Seqs(page)) = end - start /\ reader'.cursor = IF start = end THEN c ELSE evicted + end
      BY <1>7, <1>9
    <3>2. reader'.cursor = evicted + end
      BY <2>2, <3>1
    <3>3. Len(reader'.feed) = Len(reader.feed) + (end - start)
      BY <2>3, <3>1
    <3>4. s \in Int /\ Len(reader.feed) \in Nat /\ s + Len(reader.feed) = evicted + start
      BY <2>1, <2>2
    <3>5. evicted \in Nat /\ start \in Nat /\ end \in Nat
      BY <1>1, <1>2, <1>5
    <3>6. QED
      BY <3>2, <3>3, <3>4, <3>5
  <2>5. QED
    BY <2>1, <2>3, <2>4, RunIsFeed
<1>16. ASSUME reader.feed = << >>
       PROVE  reader'.feed = Seqs(page)
  BY <1>7, <1>9, <1>16, ConcatEmptySeq
<1>17. ASSUME reader'.current
       PROVE  reader'.cursor = lastSeq
  <2>1. end = Len(ring) /\ c >= evicted
    BY <1>1, <1>3, <1>5, <1>9, <1>17
  <2>2. c \in evicted .. lastSeq
    BY <1>1, <2>1
  <2>3. QED
    BY <1>1, <1>2, <1>7, <1>9, <2>1, <2>2
<1>18. QED
  BY <1>9, <1>12, <1>14, <1>15, <1>16, <1>17 DEF ReaderOK

\* The page before what the client has joins it at the other end.
LEMMA BackStep ==
  ASSUME TypeOK, LogInv, FeedHasNoHoles, NEW limit \in 1 .. MaxPage, Back(limit)
  PROVE  ReaderOK /\ ~reader'.current
<1> DEFINE s == Head(reader.feed) - 1
           end == UpTo(s)
           start == IF end > limit THEN end - limit ELSE 0
           page == Page(start, end, lastSeq, start > 0, FALSE)
<1>1. /\ lastSeq \in Nat /\ evicted \in Nat /\ Len(ring) \in Nat /\ limit \in Nat \ {0}
      /\ evicted + Len(ring) = lastSeq /\ reader.cursor \in 0 .. lastSeq
      /\ reader.feed # << >>
  BY Lengths, ChatAssumption DEF LogInv, TypeOK, Back
<1>2. /\ IsRun(reader.feed, s) /\ Head(reader.feed) \in Nat
      /\ s + Len(reader.feed) = reader.cursor /\ Len(reader.feed) \in Nat \ {0}
  BY <1>1, FeedIsRun
<1>3. reader' = [reader EXCEPT !.feed = Seqs(page) \o @, !.current = FALSE]
  BY DEF Back, PageBefore
<1>4. s \in Int
  BY <1>2
<1> HIDE DEF s
<1>5. s <= lastSeq
  BY <1>1, <1>2, <1>4
<1>6. /\ end \in 0 .. Len(ring)
      /\ s <= evicted => end = 0
      /\ s \in evicted .. lastSeq => end = s - evicted
  BY <1>4, UpToIs
<1> HIDE DEF end
<1>7. start \in Nat /\ start <= end /\ end \in Nat /\ end <= Len(ring)
  BY <1>1, <1>6
<1>8. page.messages = SubSeq(ring, start + 1, end)
  BY DEF Page
<1> HIDE DEF start, page
<1>9. /\ Seqs(page) \in Seq(Nat) /\ Len(Seqs(page)) = end - start
      /\ \A i \in 1 .. end - start : Seqs(page)[i] = (evicted + start) + i
  <2>1. IsStretch(page, start, end)
    BY <1>7, <1>8, PageIs
  <2>2. QED
    BY <2>1 DEF IsStretch
<1>10. /\ reader'.feed = Seqs(page) \o reader.feed /\ reader'.cursor = reader.cursor
      /\ ~reader'.current
      /\ reader.feed \in Seq(Nat)
  BY <1>3 DEF TypeOK
<1>11. reader' \in [cursor: 0 .. lastSeq, feed: Seq(Nat), current: BOOLEAN]
  <2>1. Seqs(page) \o reader.feed \in Seq(Nat)
    BY <1>9, <1>10, ConcatProperties
  <2>2. QED
    BY <1>3, <2>1 DEF TypeOK
<1>12. CASE start = end
  <2>1. Seqs(page) = << >>
    BY <1>7, <1>9, <1>12, EmptySeq
  <2>2. reader'.feed = reader.feed
    BY <1>10, <2>1, ConcatEmptySeq
  <2>3. FeedHasNoHoles'
    BY <1>2, <1>4, <1>10, <2>2, RunIsFeed
  <2>4. QED
    BY <1>10, <1>11, <2>3 DEF ReaderOK
<1>13. CASE start # end
  <2>1. evicted + start + Len(Seqs(page)) = s /\ evicted + start \in Int
    <3>1. end = s - evicted
      BY <1>1, <1>4, <1>5, <1>6, <1>7, <1>13
    <3>2. QED
      BY <1>1, <1>4, <1>7, <1>9, <3>1
  <2>2. IsRun(Seqs(page), evicted + start)
    BY <1>9 DEF IsRun
  <2>3. /\ IsRun(reader'.feed, evicted + start)
        /\ Len(reader'.feed) = Len(Seqs(page)) + Len(reader.feed)
    BY <1>2, <1>4, <1>10, <2>1, <2>2, RunsJoin
  <2>4. evicted + start + Len(reader'.feed) = reader'.cursor
    <3>1. Len(Seqs(page)) \in Nat
      BY <1>7, <1>9
    <3>2. \A a, b, d \in Int : a + (b + d) = (a + b) + d
      OBVIOUS
    <3>3. evicted + start + (Len(Seqs(page)) + Len(reader.feed)) = s + Len(reader.feed)
      BY <1>2, <2>1, <3>1, <3>2
    <3>4. QED
      BY <1>2, <1>10, <2>3, <3>3
  <2>5. FeedHasNoHoles'
    BY <2>1, <2>3, <2>4, RunIsFeed
  <2>6. QED
    BY <1>10, <1>11, <2>5 DEF ReaderOK
<1>14. QED
  BY <1>12, <1>13

-----------------------------------------------------------------------------
(* The theorems.                                                           *)

LEMMA InitChat == Init => ChatInv
<1> SUFFICES ASSUME Init PROVE ChatInv
  OBVIOUS
<1>1. /\ lastSeq = 0 /\ evicted = 0 /\ ring = << >> /\ log = << >> /\ answer = NoAnswer
      /\ requests = [r \in RequestIds |-> 0]
      /\ reader = [cursor |-> 0, feed |-> << >>, current |-> FALSE]
  BY DEF Init, Closed
<1>2. Len(<< >>) = 0 /\ << >> \in Seq(Message) /\ << >> \in Seq(Nat)
  BY EmptySeq
<1>3. {r \in RequestIds : requests[r] # 0} = {}
  BY <1>1
<1>4. TypeOK
  <2>1. Len(ring) <= Retain /\ ring \in Seq(Message) /\ log \in Seq(Message)
    BY <1>1, <1>2, ChatAssumption
  <2>2. Cardinality({r \in RequestIds : requests[r] # 0}) <= requestKeyBudget
    BY <1>3, FS_EmptySet, Budget
  <2>3. /\ requests \in [RequestIds -> 0 .. lastSeq]
        /\ reader \in [cursor: 0 .. lastSeq, feed: Seq(Nat), current: BOOLEAN]
    BY <1>1, <1>2
  <2>4. QED
    BY <1>1, <2>1, <2>2, <2>3 DEF TypeOK
<1>5. LogInv /\ KeysInv /\ OnceInv /\ AnswerInv
  BY <1>1, <1>2 DEF LogInv, KeysInv, OnceInv, AnswerInv
<1>6. FeedHasNoHoles
  BY <1>1, <1>2 DEF FeedHasNoHoles
<1>7. QED
  BY <1>4, <1>5, <1>6 DEF ChatInv

LEMMA ChatStep ==
  ASSUME ChatInv, [Next]_vars
  PROVE  ChatInv'
<1> USE DEF ChatInv
<1>1. ASSUME NEW f \in Senders, NEW r \in RequestIds, Store(f, r)
      PROVE  ChatInv'
  <2> DEFINE message == [seq |-> lastSeq + 1, from |-> f, request |-> r]
  <2>1. /\ LogInv' /\ KeysInv' /\ OnceInv' /\ AnswerInv'
        /\ requests' \in [RequestIds -> 0 .. lastSeq']
        /\ Cardinality({q \in RequestIds : requests'[q] # 0}) <= requestKeyBudget
    BY <1>1, StoreStep
  <2>2. /\ message \in Message /\ lastSeq' = lastSeq + 1
        /\ answer' = [for |-> f, key |-> r, message |-> message]
        /\ log' \in Seq(Message) /\ ring' \in Seq(Message) /\ Len(ring') <= Retain
        /\ evicted' \in Nat
    BY <1>1, Stored
  <2>3. answer' \in [for: Senders, key: RequestIds, message: Message]
    BY <2>2
  <2>4. reader' = reader /\ lastSeq' \in Nat
        /\ reader' \in [cursor: 0 .. lastSeq', feed: Seq(Nat), current: BOOLEAN]
    BY <1>1, <2>2 DEF Store, TypeOK
  <2>5. FeedHasNoHoles'
    BY <2>4 DEF FeedHasNoHoles
  <2>6. TypeOK'
    BY <2>1, <2>2, <2>3, <2>4 DEF TypeOK, requestKeyBudget
  <2>7. QED
    BY <2>1, <2>5, <2>6
<1>2. ASSUME NEW f \in Senders, NEW r \in RequestIds, Replay(f, r)
      PROVE  ChatInv'
  <2>1. AnswerInv' /\ answer' \in [for: Senders, key: RequestIds, message: Message]
    BY <1>2, ReplayStep
  <2>2. UNCHANGED <<lastSeq, ring, requests, evicted, log, reader>>
    BY <1>2 DEF Replay, state
  <2>3. QED
    BY <2>1, <2>2 DEF TypeOK, LogInv, KeysInv, OnceInv, FeedHasNoHoles, requestKeyBudget
<1>3. ASSUME NEW n \in 1 .. Retain, Prune(n)
      PROVE  ChatInv'
  <2>1. LogInv' /\ evicted' \in Nat /\ ring' \in Seq(Message) /\ Len(ring') <= Retain
    BY <1>3, PruneStep
  <2>2. UNCHANGED <<lastSeq, requests, log, answer, reader>>
    BY <1>3 DEF Prune
  <2>3. QED
    BY <2>1, <2>2 DEF TypeOK, KeysInv, OnceInv, AnswerInv, FeedHasNoHoles, requestKeyBudget
<1>4. ASSUME NEW limit \in 1 .. MaxPage, Open(limit) \/ Forward(limit) \/ Back(limit)
      PROVE  ChatInv'
  <2>1. ReaderOK
    BY <1>4, OpenStep, ForwardStep, BackStep
  <2>2. UNCHANGED <<lastSeq, ring, requests, evicted, log, answer>>
    BY <1>4 DEF Open, Forward, Back, state
  <2>3. QED
    BY <2>1, <2>2 DEF ReaderOK, TypeOK, LogInv, KeysInv, OnceInv, AnswerInv, requestKeyBudget
<1>5. CASE UNCHANGED vars
  BY <1>5 DEF vars, TypeOK, LogInv, KeysInv, OnceInv, AnswerInv, FeedHasNoHoles,
     requestKeyBudget
<1>6. QED
  BY <1>1, <1>2, <1>3, <1>4, <1>5 DEF Next

LEMMA ChatInvAlways == Spec => []ChatInv
<1>1. ChatInv /\ [Next]_vars => ChatInv'
  BY ChatStep
<1>2. QED
  BY <1>1, InitChat, PTL DEF Spec

\* For any channel, however it is bounded: the ring and the ledger keep within their
\* bounds, and the ring is the end of everything ever stored, with its sequences, and
\* what it lacks is counted as evicted (store, trim, Prune).
THEOREM RingIsAlwaysTheTail == Spec => []RingIsTheTail
<1>1. ASSUME ChatInv
      PROVE  RingIsTheTail
  <2>1. /\ TypeOK /\ evicted + Len(ring) = lastSeq /\ Len(log) = lastSeq
        /\ evicted \in Nat /\ Len(ring) \in Nat /\ DOMAIN ring = 1 .. Len(ring)
    BY <1>1, Lengths DEF ChatInv, LogInv
  <2>2. ASSUME NEW i \in DOMAIN ring
        PROVE  ring[i] = log[evicted + i] /\ ring[i].seq = evicted + i
    <3>1. evicted + i \in 1 .. lastSeq /\ i \in 1 .. Len(ring)
      BY <2>1
    <3>2. QED
      BY <1>1, <3>1 DEF ChatInv, LogInv
  <2>3. QED
    BY <2>1, <2>2 DEF RingIsTheTail
<1>2. QED
  BY <1>1, ChatInvAlways, PTL

\* Whoever retries what, and however messages are trimmed and pruned meanwhile: a key
\* stores again only after as many others as the ledger remembers, and a publisher is
\* answered with the message that was stored for it (store, trim, sameSender).
THEOREM StoredOnceAlways == Spec => []StoredOncePerWindow
<1>1. ASSUME ChatInv
      PROVE  StoredOncePerWindow
  <2>1. DOMAIN log = 1 .. lastSeq
    BY <1>1, Lengths DEF ChatInv, LogInv
  <2>2. QED
    BY <1>1, <2>1 DEF ChatInv, OnceInv, AnswerInv, StoredOncePerWindow
<1>2. QED
  BY <1>1, ChatInvAlways, PTL

\* However a client pages, forwards and back, through a ring that moves under it, what
\* it has is one run of the channel up to its cursor (pageOf).
THEOREM FeedNeverHasHoles == Spec => []FeedHasNoHoles
<1>1. ChatInv => FeedHasNoHoles
  BY DEF ChatInv
<1>2. QED
  BY <1>1, ChatInvAlways, PTL

\* No client is told that it has everything while there is more (pageOf).
THEOREM NoMoreAlwaysMeansAll == Spec => NoMoreMeansAll
<1>1. ASSUME ChatInv, [Next]_vars
      PROVE  [reader' # reader /\ reader'.current => reader'.cursor = lastSeq]_vars
  <2>1. ASSUME NEW limit \in 1 .. MaxPage, Open(limit) \/ Forward(limit) \/ Back(limit)
        PROVE  reader'.current => reader'.cursor = lastSeq
    BY <1>1, <2>1, OpenStep, ForwardStep, BackStep DEF ChatInv
  <2>2. \/ reader' = reader
        \/ \E limit \in 1 .. MaxPage : Open(limit) \/ Forward(limit) \/ Back(limit)
    BY <1>1 DEF Next, Store, Replay, Prune, vars
  <2>3. QED
    BY <2>1, <2>2
<1>2. QED
  BY <1>1, ChatInvAlways, PTL DEF Spec, NoMoreMeansAll

===============================================================================
