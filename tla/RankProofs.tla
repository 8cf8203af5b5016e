------------------------------ MODULE RankProofs ------------------------------
(***************************************************************************)
(* Proofs about Rank for all owners, requests, callers, widths of integers,*)
(* sizes of the ring and bounds.                                           *)
(***************************************************************************)
EXTENDS Rank, SequenceTheorems, TLAPS

-----------------------------------------------------------------------------
(* Integers of a width.                                                    *)

\* What is left of a number by the other: below it, negative, past it.
LEMMA Modulo ==
  ASSUME NEW n \in Nat \ {0}
  PROVE  /\ \A x \in 0 .. n - 1 : x % n = x
         /\ \A x \in -n .. -1 : x % n = x + n
         /\ \A x \in n .. 2 * n - 1 : x % n = x - n
         /\ \A x \in Int : x % n \in 0 .. n - 1
<1>1. ASSUME NEW x \in 0 .. n - 1
      PROVE  x % n = x
  OBVIOUS
<1>2. ASSUME NEW x \in -n .. -1
      PROVE  x % n = x + n
  OBVIOUS
<1>3. ASSUME NEW x \in n .. 2 * n - 1
      PROVE  x % n = x - n
  OBVIOUS
<1>4. ASSUME NEW x \in Int
      PROVE  x % n \in 0 .. n - 1
  OBVIOUS
<1>5. QED
  BY <1>1, <1>2, <1>3, <1>4

\* A sum of two integers of the width is wrapped into it: it is the sum where that
\* fits, and off by all values there are where it does not.
LEMMA WrappedSum ==
  ASSUME NEW s \in -2 * Half .. 2 * Half - 2
  PROVE  /\ Wrapped(s) \in Int64
         /\ s \in Int64 => Wrapped(s) = s
         /\ s >= Half => Wrapped(s) = s - 2 * Half
         /\ s < -Half => Wrapped(s) = s + 2 * Half
<1> DEFINE n == 2 * Half
           t == s + Half
<1>1. Half \in Nat \ {0} /\ n \in Nat \ {0} /\ n = 2 * Half
  BY RankAssumption
<1>2. s \in Int /\ t \in Int /\ t = s + Half
  BY <1>1
<1>3. Wrapped(s) = (t % n) - Half
  BY DEF Wrapped
<1> HIDE DEF n, t
<1>4. /\ t % n \in 0 .. n - 1
      /\ t \in 0 .. n - 1 => t % n = t
      /\ t \in n .. 2 * n - 1 => t % n = t - n
      /\ t \in -n .. -1 => t % n = t + n
  BY <1>1, <1>2, Modulo
<1>5. QED
  BY <1>1, <1>2, <1>3, <1>4 DEF Int64

\* The sortable form moves the integers up by half of them, so it keeps their order.
LEMMA SortableShifts ==
  ASSUME NEW x \in Int64
  PROVE  Sortable(x) = x + Half
<1> DEFINE n == 2 * Half
           u == x % n
           t == u + Half
<1>1. Half \in Nat \ {0} /\ n \in Nat \ {0} /\ n = 2 * Half /\ x \in -Half .. Half - 1
  BY RankAssumption DEF Int64
<1>2. Sortable(x) = t % n
  BY DEF Sortable, Unsigned
<1> HIDE DEF n
<1>3. /\ x \in Int
      /\ x >= 0 => u = x
      /\ x < 0 => u = x + n
  <2>1. /\ x \in Int
        /\ x >= 0 => x \in 0 .. n - 1
        /\ x < 0 => x \in -n .. -1
    BY <1>1
  <2>2. x >= 0 => u = x
    BY <1>1, <2>1, Modulo
  <2>3. x < 0 => u = x + n
    BY <1>1, <2>1, Modulo
  <2>4. QED
    BY <2>1, <2>2, <2>3
<1>4. t = u + Half /\ t \in Int
  BY <1>1, <1>3
<1> HIDE DEF u, t
<1>5. /\ t \in 0 .. n - 1 => t % n = t
      /\ t \in n .. 2 * n - 1 => t % n = t - n
  BY <1>1, <1>4, Modulo
<1>6. QED
  BY <1>1, <1>2, <1>3, <1>4, <1>5

\* The byte order of encoded members is the order Score promises.
LEMMA ByteOrder ==
  ASSUME NEW m \in Member, NEW n \in Member
  PROVE  Greater(m, n) <=> Before(m, n)
<1>1. /\ Half \in Nat /\ Owners \subseteq Int64
      /\ m.owner \in Int64 /\ n.owner \in Int64 /\ m.value \in Int64 /\ n.value \in Int64
      /\ m.tie \in Int64 /\ n.tie \in Int64
  BY RankAssumption DEF Member
<1> DEFINE a == Encoded(m)
           b == Encoded(n)
<1>2. /\ a = <<m.value + Half, Complement(m.tie + Half), Complement(m.owner + Half)>>
      /\ b = <<n.value + Half, Complement(n.tie + Half), Complement(n.owner + Half)>>
  BY <1>1, SortableShifts DEF Encoded
<1>3. /\ a[1] = m.value + Half /\ b[1] = n.value + Half
      /\ a[2] = Half - 1 - m.tie /\ b[2] = Half - 1 - n.tie
      /\ a[3] = Half - 1 - m.owner /\ b[3] = Half - 1 - n.owner
  BY <1>1, <1>2 DEF Complement, Int64
<1>4. Greater(m, n) <=> \E i \in 1 .. 3 : a[i] > b[i] /\ \A j \in 1 .. i - 1 : a[j] = b[j]
  BY DEF Greater
<1> HIDE DEF a, b
<1>5. Greater(m, n) <=> \/ a[1] > b[1]
                        \/ a[1] = b[1] /\ a[2] > b[2]
                        \/ a[1] = b[1] /\ a[2] = b[2] /\ a[3] > b[3]
  <2>1. \A i \in 1 .. 3 : i = 1 \/ i = 2 \/ i = 3
    OBVIOUS
  <2>2. /\ \A j \in 1 .. 1 - 1 : a[j] = b[j]
        /\ (\A j \in 1 .. 2 - 1 : a[j] = b[j]) <=> a[1] = b[1]
        /\ (\A j \in 1 .. 3 - 1 : a[j] = b[j]) <=> a[1] = b[1] /\ a[2] = b[2]
    OBVIOUS
  <2>3. 1 \in 1 .. 3 /\ 2 \in 1 .. 3 /\ 3 \in 1 .. 3
    OBVIOUS
  <2>4. QED
    BY <1>4, <2>1, <2>2, <2>3
<1>6. QED
  BY <1>1, <1>3, <1>5 DEF Before, Int64

-----------------------------------------------------------------------------
(* Rings and scores.                                                       *)

\* How many tokens of a ring go when an id is added to it.
Gone(ring) == IF Len(ring) < Ring THEN 0 ELSE Len(ring) - Ring + 1

\* A ring keeps its end.
LEMMA KeptRing ==
  ASSUME NEW ring \in Rings
  PROVE  /\ Len(ring) \in Nat /\ Gone(ring) \in 0 .. Len(ring)
         /\ Gone(ring) > 0 => Gone(ring) = Len(ring) - Ring + 1
         /\ Kept(ring) \in Seq(Tokens) /\ Len(Kept(ring)) = Len(ring) - Gone(ring)
         /\ \A x \in 1 .. Len(Kept(ring)) : Kept(ring)[x] = ring[Gone(ring) + x]
<1> DEFINE kept == Kept(ring)
           gone == Gone(ring)
<1>1. ring \in Seq(Tokens) /\ Len(ring) \in Nat /\ Ring \in Nat \ {0}
  BY RankAssumption, LenProperties DEF Rings
<1>2. gone \in 0 .. Len(ring) /\ (gone > 0 => gone = Len(ring) - Ring + 1)
  BY <1>1 DEF Gone
<1>3. /\ kept \in Seq(Tokens) /\ Len(kept) = Len(ring) - gone
      /\ \A x \in 1 .. Len(kept) : kept[x] = ring[gone + x]
  <2>1. CASE Len(ring) < Ring
    BY <1>1, <2>1 DEF Kept, Gone
  <2>2. CASE ~(Len(ring) < Ring)
    <3> DEFINE m == Len(ring) - Ring + 2
    <3>1. m \in 1 .. Len(ring) + 1 /\ Len(ring) \in m - 1 .. Len(ring) /\ gone = m - 1
      BY <1>1, <2>2 DEF Gone
    <3>2. kept = SubSeq(ring, m, Len(ring))
      BY <2>2 DEF Kept
    <3> HIDE DEF kept, m, gone
    <3>3. /\ kept \in Seq(Tokens) /\ Len(kept) = Len(ring) - m + 1
          /\ \A x \in 1 .. Len(ring) - m + 1 : kept[x] = ring[m + x - 1]
      <4>1. \A x \in m .. Len(ring) : ring[x] \in Tokens
        BY <1>1, <3>1, ElementOfSeq
      <4>2. m <= Len(ring) \/ Len(ring) - m + 1 = 0
        BY <1>1, <3>1
      <4>3. QED
        BY <1>1, <3>1, <3>2, <4>1, <4>2, SubSeqProperties
    <3>4. m \in Int /\ \A x \in 1 .. Len(kept) : m + x - 1 = gone + x
      BY <1>1, <3>1, <3>3
    <3>5. QED
      BY <1>1, <3>1, <3>3, <3>4
  <2>3. QED
    BY <2>1, <2>2
<1>4. QED
  BY <1>1, <1>2, <1>3

\* What a new id does to a ring: its tokens come last, the others move up by as many
\* places, and only those go that were a ring from the end or further.
LEMMA AppendedRing ==
  ASSUME NEW ring \in Rings, NEW id \in Seq(Tokens), id # << >>, id # NoId, ~Contains(ring, id)
  PROVE  /\ Appended(ring, id) \in Rings
         /\ Len(Appended(ring, id)) \in Nat \ {0}
         /\ Len(id) = 1 => Appended(ring, id)[Len(Appended(ring, id))] = id[1]
         /\ \A p \in 1 .. Len(ring) :
              \/ \E q \in 1 .. Len(Appended(ring, id)) :
                   /\ Appended(ring, id)[q] = ring[p]
                   /\ Len(Appended(ring, id)) - q = Len(ring) - p + Len(id)
              \/ Len(ring) - p >= Ring - 1
<1> DEFINE kept == Kept(ring)
           new == Appended(ring, id)
           gone == Gone(ring)
<1>1. /\ ring \in Seq(Tokens) /\ Len(ring) \in Nat /\ Ring \in Nat \ {0}
      /\ Len(id) \in Nat \ {0}
  BY RankAssumption, LenProperties, EmptySeq DEF Rings
<1>2. gone \in 0 .. Len(ring) /\ (gone > 0 => gone = Len(ring) - Ring + 1)
  BY KeptRing
<1>3. /\ kept \in Seq(Tokens) /\ Len(kept) = Len(ring) - gone
      /\ \A x \in 1 .. Len(kept) : kept[x] = ring[gone + x]
  BY KeptRing
<1>4. new = kept \o id
  BY DEF Appended
<1> HIDE DEF kept, new, gone
<1>5. /\ new \in Seq(Tokens) /\ Len(new) = Len(kept) + Len(id)
      /\ \A x \in 1 .. Len(kept) + Len(id) :
           new[x] = IF x <= Len(kept) THEN kept[x] ELSE id[x - Len(kept)]
  BY <1>3, <1>4, ConcatProperties
<1>6. Len(kept) \in Nat /\ Len(new) \in Nat \ {0}
  BY <1>1, <1>2, <1>3, <1>5
<1>7. Len(id) = 1 => new[Len(new)] = id[1]
  <2>1. Len(id) = 1 => /\ Len(new) \in 1 .. Len(kept) + Len(id) /\ ~(Len(new) <= Len(kept))
                       /\ Len(new) - Len(kept) = 1
    BY <1>5, <1>6
  <2>2. QED
    BY <1>5, <2>1
<1>8. ASSUME NEW p \in 1 .. Len(ring), ~(Len(ring) - p >= Ring - 1)
      PROVE  \E q \in 1 .. Len(new) : new[q] = ring[p] /\ Len(new) - q = Len(ring) - p + Len(id)
  <2> DEFINE q == p - gone
  <2>1. p > gone
    BY <1>1, <1>2, <1>8
  <2>2. /\ q \in 1 .. Len(kept) /\ q \in 1 .. Len(new) /\ gone + q = p
        /\ q \in 1 .. Len(kept) + Len(id) /\ q <= Len(kept)
        /\ Len(new) - q = Len(ring) - p + Len(id)
    <3>1. /\ gone \in Nat /\ p \in Nat /\ Len(ring) \in Nat /\ Len(id) \in Nat
          /\ p <= Len(ring) /\ q = p - gone /\ q \in Nat \ {0}
          /\ Len(kept) = Len(ring) - gone /\ Len(new) = Len(ring) - gone + Len(id)
      BY <1>1, <1>2, <1>3, <1>5, <2>1
    <3> HIDE DEF q
    <3>2. QED
      BY <1>6, <3>1
  <2> HIDE DEF q
  <2>3. new[q] = ring[p]
    BY <1>3, <1>5, <2>2
  <2>4. QED
    BY <2>2, <2>3
<1>9. QED
  BY <1>5, <1>6, <1>7, <1>8 DEF new, Rings

\* A new ring has nothing but tokens of the old one and of the id.
LEMMA AppendedTokens ==
  ASSUME NEW ring \in Rings, NEW id \in Seq(Tokens), id # NoId, ~Contains(ring, id),
         NEW q \in 1 .. Len(Appended(ring, id))
  PROVE  \/ \E p \in 1 .. Len(ring) : Appended(ring, id)[q] = ring[p]
         \/ \E x \in 1 .. Len(id) : Appended(ring, id)[q] = id[x]
<1> DEFINE kept == Kept(ring)
           new == Appended(ring, id)
           gone == Gone(ring)
<1>1. /\ Len(ring) \in Nat /\ gone \in 0 .. Len(ring)
      /\ kept \in Seq(Tokens) /\ Len(kept) = Len(ring) - gone
      /\ \A x \in 1 .. Len(kept) : kept[x] = ring[gone + x]
  BY KeptRing
<1>2. new = kept \o id
  BY DEF Appended
<1>3. Len(id) \in Nat
  BY LenProperties
<1> HIDE DEF kept, new, gone
<1>4. /\ Len(new) = Len(kept) + Len(id)
      /\ \A x \in 1 .. Len(kept) + Len(id) :
           new[x] = IF x <= Len(kept) THEN kept[x] ELSE id[x - Len(kept)]
  BY <1>1, <1>2, ConcatProperties
<1>5. q \in 1 .. Len(kept) + Len(id)
  BY <1>4 DEF new
<1>6. CASE q <= Len(kept)
  <2>1. q \in 1 .. Len(kept) /\ gone + q \in 1 .. Len(ring)
    BY <1>1, <1>3, <1>5, <1>6
  <2>2. new[q] = ring[gone + q]
    BY <1>1, <1>4, <1>5, <1>6, <2>1
  <2>3. QED
    BY <2>1, <2>2 DEF new
<1>7. CASE ~(q <= Len(kept))
  <2>1. q - Len(kept) \in 1 .. Len(id)
    BY <1>1, <1>3, <1>5, <1>7
  <2>2. new[q] = id[q - Len(kept)]
    BY <1>4, <1>5, <1>7
  <2>3. QED
    BY <2>1, <2>2 DEF new
<1>8. QED
  BY <1>6, <1>7

\* The ring of a request with or without an id is a ring.
LEMMA AppendedType ==
  ASSUME NEW ring \in Rings, NEW r \in Requests
  PROVE  Appended(ring, r.id) \in Rings
<1>1. r.id # NoId => r.id \in Seq(Tokens) /\ r.id # << >>
  BY RankAssumption DEF IsRequest
<1>2. CASE r.id = NoId \/ Contains(ring, r.id)
  BY <1>2 DEF Appended
<1>3. CASE ~(r.id = NoId \/ Contains(ring, r.id))
  BY <1>1, <1>3, AppendedRing
<1>4. QED
  BY <1>2, <1>3

\* The fields of a request.
LEMMA RequestFields ==
  ASSUME NEW r \in Requests
  PROVE  /\ r.owner \in Owners /\ r.mode \in {"set", "max", "add"}
         /\ r.value \in Int64 /\ r.tie \in Int64 \ {0}
         /\ r.mode = "add" => r.id # NoId
         /\ r.id # NoId => r.id \in Seq(Tokens) /\ r.id # << >>
         /\ Places(r) \in Nat
<1>1. /\ r.owner \in Owners /\ r.mode \in {"set", "max", "add"}
      /\ r.value \in Int64 /\ r.tie \in Int64 \ {0}
      /\ r.mode = "add" => r.id # NoId
      /\ r.id # NoId => r.id \in Seq(Tokens) /\ r.id # << >>
  BY RankAssumption DEF IsRequest
<1>2. Places(r) \in Nat
  BY <1>1, LenProperties DEF Places
<1>3. QED
  BY <1>1, <1>2

LEMMA MemberAssumption ==
  /\ NoMember \notin Member
  /\ Half \in Nat \ {0}
BY RankAssumption DEF Member

\* The next score of an owner is a member of that owner, and what it is in each mode.
LEMMA NextScoreIs ==
  ASSUME NEW r \in Requests, NEW m \in Member \cup {NoMember},
         m # NoMember => m.owner = r.owner
  PROVE  /\ NextScore(m, r) \in Member /\ NextScore(m, r).owner = r.owner
         /\ m # NoMember /\ r.mode = "add" => NextScore(m, r).value = Wrapped(m.value + r.value)
         /\ m # NoMember /\ r.mode = "max" => NextScore(m, r) = m \/ Before(NextScore(m, r), m)
<1>1. r.owner \in Owners /\ r.value \in Int64 /\ r.tie \in Int64
  BY RequestFields
<1>2. Score(r) \in Member /\ Score(r).owner = r.owner
  BY <1>1 DEF Score, Member
<1>3. CASE m = NoMember
  BY <1>2, <1>3 DEF NextScore
<1>4. CASE m # NoMember /\ Keeps(m, r)
  BY <1>4 DEF NextScore, Keeps
<1>5. CASE m # NoMember /\ ~Keeps(m, r) /\ r.mode = "add"
  <2>1. m.value \in Int64 /\ m.value + r.value \in -2 * Half .. 2 * Half - 2
    BY <1>1, <1>5, MemberAssumption DEF Member, Int64
  <2>2. Wrapped(m.value + r.value) \in Int64
    BY <2>1, WrappedSum
  <2>3. NextScore(m, r) = [owner |-> r.owner, value |-> Wrapped(m.value + r.value), tie |-> r.tie]
    BY <1>5 DEF NextScore, Score
  <2>4. QED
    BY <1>1, <1>5, <2>2, <2>3 DEF Member
<1>6. CASE m # NoMember /\ ~Keeps(m, r) /\ r.mode # "add"
  <2>1. NextScore(m, r) = Score(r)
    BY <1>6 DEF NextScore
  <2>2. r.mode = "max" => Before(Score(r), m)
    BY <1>1, <1>6, MemberAssumption DEF Keeps, Before, Score, Member, Int64
  <2>3. QED
    BY <1>2, <1>6, <2>1, <2>2
<1>7. QED
  BY <1>3, <1>4, <1>5, <1>6

-----------------------------------------------------------------------------
(* Types.                                                                  *)

Entry == [req: Requests \cup {NoId}, member: Member \cup {NoMember}, written: Nat]

\* The entries that a swap and a removal add to a log.
SwapEntry(l, r, m) == [req |-> r, member |-> m, written |-> Written(l, Len(l)) + Places(r)]
RemovalEntry(l) == [req |-> NoId, member |-> NoMember, written |-> Written(l, Len(l))]

LEMMA EntryType ==
  ASSUME NEW l \in Seq(Entry)
  PROVE  /\ Len(l) \in Nat /\ \A n \in 0 .. Len(l) : Written(l, n) \in Nat
         /\ \A r \in Requests : \A m \in Member : SwapEntry(l, r, m) \in Entry
         /\ RemovalEntry(l) \in Entry
<1>1. Len(l) \in Nat /\ \A n \in 1 .. Len(l) : l[n] \in Entry
  BY LenProperties, ElementOfSeq
<1>2. \A n \in 0 .. Len(l) : n = 0 \/ n \in 1 .. Len(l)
  BY <1>1
<1>3. \A n \in 0 .. Len(l) : Written(l, n) \in Nat
  BY <1>1, <1>2 DEF Written, Entry
<1>4. Written(l, Len(l)) \in Nat
  BY <1>1, <1>3
<1>5. ASSUME NEW r \in Requests, NEW m \in Member
      PROVE  SwapEntry(l, r, m) \in Entry
  <2>1. Written(l, Len(l)) + Places(r) \in Nat
    BY <1>4, RequestFields
  <2>2. QED
    BY <2>1 DEF SwapEntry, Entry
<1>6. RemovalEntry(l) \in Entry
  BY <1>4 DEF RemovalEntry, Entry
<1>7. QED
  BY <1>1, <1>3, <1>5, <1>6

\* What TypeOK says of the log, whole.
LogType == log \in [Owners -> Seq(Entry)]

RankType == TypeOK /\ LogType

\* What a submit carries from its read: a member of its owner, a ring that does not
\* list the request, and, where there is nothing to swap in, a member that is kept.
ReadInv ==
  \A c \in Callers : call[c].pc \in {"swap", "record"} =>
    /\ call[c].stored # NoMember => call[c].stored.owner = call[c].req.owner
    /\ ~Contains(call[c].ring, call[c].req.id)
    /\ call[c].pc = "record" =>
         call[c].stored # NoMember /\ Keeps(call[c].stored, call[c].req)

\* The member the hash has for an owner is a member of that owner.
OwnerInv == \A o \in Owners : member[o] # NoMember => member[o].owner = o

\* What the two writes of a submit have in common: the swap of the member that was
\* read for the next one, and the end of the submit.
Writes(c) ==
  LET r == call[c].req IN
  /\ call[c].pc \in {"swap", "record"}
  /\ member[r.owner] = call[c].stored
  /\ Swap(r.owner, call[c].stored, NextScore(call[c].stored, r), r,
          Appended(call[c].ring, r.id))
  /\ Return(c)
  /\ UNCHANGED <<delivered, removals, contended>>

\* The fields of a call, by where it is.
LEMMA CallFields ==
  ASSUME TypeOK, NEW c \in Callers
  PROVE  /\ call[c].pc \in {"idle", "read", "swap", "record"}
         /\ call[c] = Idle <=> call[c].pc = "idle"
         /\ call[c].pc # "idle" =>
              /\ call[c].req \in Requests /\ call[c].req.owner \in Owners
              /\ call[c].try \in 1 .. Attempts /\ call[c].since \in Nat
         /\ call[c].pc \in {"swap", "record"} =>
              call[c].stored \in Member \cup {NoMember} /\ call[c].ring \in Rings
<1>1. call[c] \in Call
  BY DEF TypeOK
<1>2. call[c].pc # "idle" => call[c].req \in Requests
  BY <1>1 DEF Call, Idle
<1>3. QED
  BY <1>1, <1>2, RequestFields DEF Call, Idle

\* A write of a submit is one and the same whatever it found to change.
LEMMA WriteCases ==
  ASSUME TypeOK, ReadInv, NEW c \in Callers, SwapNext(c) \/ Record(c)
  PROVE  \/ Writes(c)
         \/ UNCHANGED <<board, member, applied, log, contended>> /\ Return(c)
<1>1. ASSUME SwapNext(c)
      PROVE  Writes(c)
  BY <1>1 DEF SwapNext, Writes, Expected
<1>2. ASSUME Record(c), Expected(call[c].req.owner, call[c].stored)
      PROVE  Writes(c)
  <2>1. call[c].stored # NoMember /\ Keeps(call[c].stored, call[c].req) /\ call[c].pc = "record"
    BY <1>2 DEF ReadInv, Record
  <2>2. NextScore(call[c].stored, call[c].req) = call[c].stored
    BY <2>1 DEF NextScore
  <2>3. QED
    BY <1>2, <2>1, <2>2 DEF Record, Writes, Expected
<1>3. ASSUME Record(c), ~Expected(call[c].req.owner, call[c].stored)
      PROVE  UNCHANGED <<board, member, applied, log, contended>> /\ Return(c)
  BY <1>3 DEF Record
<1>4. QED
  BY <1>1, <1>2, <1>3

\* Every step writes, removes, or leaves the board, its hash and the history alone.
LEMMA StepCases ==
  ASSUME TypeOK, ReadInv, [Next]_vars
  PROVE  \/ \E c \in Callers : Writes(c)
         \/ \E o \in Owners : Remove(o)
         \/ Reset
         \/ UNCHANGED <<board, member, applied, log>>
<1>1. ASSUME NEW c \in Callers,
             \/ \E r \in Requests : Deliver(c, r)
             \/ ReadOwner(c) \/ Lose(c) \/ Stop(c)
      PROVE  UNCHANGED <<board, member, applied, log>>
  BY <1>1 DEF Deliver, ReadOwner, Lose, Stop
<1>2. ASSUME NEW c \in Callers, SwapNext(c) \/ Record(c)
      PROVE  Writes(c) \/ UNCHANGED <<board, member, applied, log>>
  BY <1>2, WriteCases
<1>3. CASE UNCHANGED vars
  BY <1>3 DEF vars
<1>4. QED
  BY <1>1, <1>2, <1>3 DEF Next

LEMMA InitType == Init => RankType
<1> SUFFICES ASSUME Init PROVE RankType
  OBVIOUS
<1>1. << >> \in Rings /\ << >> \in Seq(Entry)
  BY EmptySeq DEF Rings
<1>2. \A o \in Owners : Len(log[o]) = 0
  BY EmptySeq DEF Init
<1>3. 0 \in 0 .. MaxDeliveries /\ 0 \in 0 .. MaxRemovals
  BY RankAssumption
<1>4. Idle \in Call
  BY DEF Call
<1>5. TypeOK
  BY <1>1, <1>2, <1>3, <1>4 DEF Init, TypeOK
<1>6. QED
  BY <1>1, <1>5 DEF Init, RankType, LogType

\* An entry of the log has its type.
LEMMA LogEntries ==
  ASSUME LogType
  PROVE  \A o \in Owners : \A i \in 1 .. Len(log[o]) : log[o][i] \in Entry
BY ElementOfSeq DEF LogType

\* What a write leaves in the stores has its type.
LEMMA WriteType ==
  ASSUME RankType, ReadInv, NEW c \in Callers, Writes(c)
  PROVE  /\ board' \subseteq Member /\ member' \in [Owners -> Member \cup {NoMember}]
         /\ applied' \in [Owners -> Rings] /\ LogType'
         /\ call' = [call EXCEPT ![c] = Idle]
<1> DEFINE r == call[c].req
           next == NextScore(call[c].stored, r)
           e == SwapEntry(log[r.owner], r, next)
<1>1. /\ r \in Requests /\ r.owner \in Owners /\ call[c].ring \in Rings
      /\ call[c].stored \in Member \cup {NoMember}
  BY CallFields DEF RankType, Writes
<1>2. next \in Member
  BY <1>1, NextScoreIs DEF Writes, ReadInv
<1>3. Appended(call[c].ring, r.id) \in Rings
  BY <1>1, AppendedType
<1>4. /\ board' = (board \ {call[c].stored}) \cup {next}
      /\ member' = [member EXCEPT ![r.owner] = next]
      /\ applied' = IF r.id = NoId THEN applied
                    ELSE [applied EXCEPT ![r.owner] = Appended(call[c].ring, r.id)]
      /\ log' = [log EXCEPT ![r.owner] = Append(@, e)]
      /\ call' = [call EXCEPT ![c] = Idle]
  BY DEF Writes, Swap, Return, Logged, SwapEntry
<1>5. e \in Entry
  BY <1>1, <1>2, EntryType DEF RankType, LogType
<1> HIDE DEF r, next, e
<1>6. Append(log[r.owner], e) \in Seq(Entry)
  BY <1>1, <1>5, AppendProperties DEF RankType, LogType
<1>7. LogType'
  BY <1>1, <1>4, <1>6 DEF RankType, LogType
<1>8. QED
  BY <1>1, <1>2, <1>3, <1>4, <1>7 DEF RankType, TypeOK

\* A submit that has lost some attempts was overtaken as often, and once more if the
\* member it read is no longer there.
Overtaken(at, m, n) ==
  /\ at.since + at.try - 1 <= n
  /\ at.pc \in {"swap", "record"} /\ at.stored # m => at.since + at.try <= n

TryInv ==
  \A c \in Callers : call[c] # Idle =>
    Overtaken(call[c], member[call[c].req.owner], Len(log[call[c].req.owner]))

\* The lengths of logs are numbers.
LEMMA LogLength ==
  ASSUME LogType
  PROVE  \A o \in Owners : Len(log[o]) \in Nat
BY LenProperties DEF LogType

\* The first step of a submit, its read, and its ends, keep the types.
LEMMA CallType ==
  ASSUME RankType, NEW c \in Callers
  PROVE  /\ \A r \in Requests : Deliver(c, r) => RankType'
         /\ ReadOwner(c) => RankType'
         /\ Stop(c) => RankType'
<1> USE DEF RankType
<1>1. ASSUME NEW r \in Requests, Deliver(c, r)
      PROVE  RankType'
  <2>1. r.owner \in Owners /\ 1 \in 1 .. Attempts
    BY RequestFields, RankAssumption
  <2>2. Reading(r, 1, Len(log[r.owner])) \in Call
    BY <2>1, LogLength DEF Reading, Call
  <2>3. call' \in [Callers -> Call]
    BY <1>1, <2>2 DEF Deliver, TypeOK
  <2>4. delivered' \in 0 .. MaxDeliveries
    BY <1>1, RankAssumption DEF Deliver, TypeOK
  <2>5. QED
    BY <1>1, <2>3, <2>4 DEF Deliver, TypeOK, LogType
<1>2. ASSUME ReadOwner(c)
      PROVE  RankType'
  <2> DEFINE r == call[c].req
             next == [pc |-> IF Changed(member[r.owner], r) THEN "swap" ELSE "record", req |-> r,
                      try |-> call[c].try, since |-> call[c].since, stored |-> member[r.owner],
                      ring |-> applied[r.owner]]
  <2>1. /\ r \in Requests /\ r.owner \in Owners /\ call[c].try \in 1 .. Attempts
        /\ call[c].since \in Nat
    BY <1>2, CallFields DEF ReadOwner
  <2>2. member[r.owner] \in Member \cup {NoMember} /\ applied[r.owner] \in Rings
    BY <2>1 DEF TypeOK
  <2>3. next \in Call /\ Idle \in Call
    BY <2>1, <2>2 DEF Call
  <2>4. call' = [call EXCEPT ![c] = next] \/ call' = [call EXCEPT ![c] = Idle]
    BY <1>2 DEF ReadOwner, Return
  <2>5. call' \in [Callers -> Call]
    BY <2>3, <2>4 DEF TypeOK
  <2>6. QED
    BY <1>2, <2>5 DEF ReadOwner, TypeOK, LogType
<1>3. ASSUME Stop(c)
      PROVE  RankType'
  <2>1. Idle \in Call
    BY DEF Call
  <2>2. QED
    BY <1>3, <2>1 DEF Stop, Return, TypeOK, LogType
<1>4. QED
  BY <1>1, <1>2, <1>3

\* A lost swap: it counts no more attempts than there are, and what a submit that
\* gives up was overtaken by.
LEMMA LoseType ==
  ASSUME RankType, TryInv, NEW c \in Callers, Lose(c)
  PROVE  /\ RankType'
         /\ \A n \in contended' : n \in contended \/ n >= Attempts
<1> USE DEF RankType
<1> DEFINE at == call[c]
           o == at.req.owner
           n == Len(log[o]) - at.since
<1>1. /\ at.req \in Requests /\ o \in Owners /\ at.try \in 1 .. Attempts /\ at.since \in Nat
      /\ at # Idle /\ at.pc = "swap"
  BY CallFields DEF Lose
<1>2. Len(log[o]) \in Nat
  BY <1>1, LogLength
<1>3. at.since + at.try <= Len(log[o])
  BY <1>1 DEF Lose, Expected, TryInv, Overtaken
<1>4. CASE at.try < Attempts
  <2>1. at.try + 1 \in 1 .. Attempts
    BY <1>1, <1>4, RankAssumption
  <2>2. Reading(at.req, at.try + 1, at.since) \in Call
    BY <1>1, <2>1 DEF Reading, Call
  <2>3. call' = [call EXCEPT ![c] = Reading(at.req, at.try + 1, at.since)] /\ contended' = contended
    BY <1>4 DEF Lose
  <2>4. QED
    BY <2>2, <2>3 DEF Lose, TypeOK, LogType
<1>5. CASE ~(at.try < Attempts)
  <2>1. n \in Nat /\ n >= Attempts
    <3>1. \A l, s \in Nat : \A t \in 1 .. Attempts :
            s + t <= l /\ ~(t < Attempts) => l - s \in Nat /\ l - s >= Attempts
      BY RankAssumption
    <3>2. QED
      BY <1>1, <1>2, <1>3, <1>5, <3>1
  <2>2. call' = [call EXCEPT ![c] = Idle] /\ contended' = contended \cup {n}
    BY <1>5 DEF Lose, Return
  <2>3. Idle \in Call
    BY DEF Call
  <2> HIDE DEF n
  <2>4. QED
    BY <2>1, <2>2, <2>3 DEF Lose, TypeOK, LogType
<1>6. QED
  BY <1>4, <1>5

\* A removal, of one owner or of all.
LEMMA ForgetType ==
  ASSUME RankType, NEW os \in SUBSET Owners, Forget(os), board' \subseteq Member
  PROVE  RankType'
<1> USE DEF RankType
<1>1. member' \in [Owners -> Member \cup {NoMember}]
  BY DEF Forget, TypeOK
<1>2. << >> \in Rings
  BY EmptySeq DEF Rings
<1>3. applied' \in [Owners -> Rings]
  BY <1>2 DEF Forget, TypeOK
<1>4. LogType'
  <2> DEFINE e(o) == RemovalEntry(log[o])
  <2>1. \A o \in Owners : log[o] \in Seq(Entry) /\ e(o) \in Entry
    BY EntryType DEF LogType
  <2> HIDE DEF e
  <2>2. \A o \in Owners : Append(log[o], e(o)) \in Seq(Entry) /\ log[o] \in Seq(Entry)
    BY <2>1, AppendProperties
  <2>3. log' = [o \in Owners |-> IF o \in os THEN Append(log[o], e(o)) ELSE log[o]]
    BY DEF Forget, e, RemovalEntry
  <2>4. QED
    BY <2>2, <2>3 DEF LogType
<1>5. removals' \in 0 .. MaxRemovals
  BY RankAssumption DEF Forget, TypeOK
<1>6. \A o \in Owners : \A i \in 1 .. Len(log'[o]) : log'[o][i] \in Entry
  BY <1>4, ElementOfSeq DEF LogType
<1>7. QED
  BY <1>1, <1>3, <1>4, <1>5, <1>6 DEF Forget, TypeOK, Entry

LEMMA TypeStep ==
  ASSUME RankType, ReadInv, TryInv, [Next]_vars
  PROVE  RankType'
<1> USE DEF RankType
<1>1. ASSUME NEW c \in Callers, NEW r \in Requests, Deliver(c, r)
      PROVE  RankType'
  BY <1>1, CallType
<1>2. ASSUME NEW c \in Callers, ReadOwner(c) \/ Stop(c)
      PROVE  RankType'
  BY <1>2, CallType
<1>3. ASSUME NEW c \in Callers, Lose(c)
      PROVE  RankType'
  BY <1>3, LoseType
<1>4. ASSUME NEW c \in Callers, SwapNext(c) \/ Record(c)
      PROVE  RankType'
  <2>1. Idle \in Call
    BY DEF Call
  <2>2. delivered' = delivered /\ removals' = removals /\ contended' = contended
    BY <1>4 DEF SwapNext, Record
  <2>3. ASSUME Writes(c)
        PROVE  RankType'
    <3>1. /\ board' \subseteq Member /\ member' \in [Owners -> Member \cup {NoMember}]
          /\ applied' \in [Owners -> Rings] /\ LogType'
          /\ call' = [call EXCEPT ![c] = Idle]
      BY <2>3, WriteType
    <3>2. \A o \in Owners : \A i \in 1 .. Len(log'[o]) : log'[o][i] \in Entry
      BY <3>1, ElementOfSeq DEF LogType
    <3>3. QED
      BY <2>1, <2>2, <3>1, <3>2 DEF TypeOK, Entry
  <2>4. ASSUME UNCHANGED <<board, member, applied, log, contended>>, Return(c)
        PROVE  RankType'
    BY <2>1, <2>2, <2>4 DEF Return, TypeOK, LogType
  <2>5. QED
    BY <1>4, <2>3, <2>4, WriteCases
<1>5. ASSUME NEW o \in Owners, Remove(o)
      PROVE  RankType'
  BY <1>5, ForgetType DEF Remove, TypeOK
<1>6. CASE Reset
  BY <1>6, ForgetType DEF Reset
<1>7. CASE UNCHANGED vars
  BY <1>7 DEF vars, TypeOK, LogType
<1>8. QED
  BY <1>1, <1>2, <1>3, <1>4, <1>5, <1>6, <1>7 DEF Next

-----------------------------------------------------------------------------
(* How a step changes a submit, and the history of an owner.               *)

\* A step moves one submit at most, and then delivers it, reads for it, has it lose,
\* or ends it.
LEMMA CallCases ==
  ASSUME RankType, [Next]_vars, NEW c \in Callers
  PROVE  \/ call'[c] = call[c]
         \/ call'[c] = Idle
         \/ \E r \in Requests : Deliver(c, r)
         \/ ReadOwner(c)
         \/ Lose(c)
<1> USE DEF RankType, TypeOK
<1>1. ASSUME NEW d \in Callers, Return(d)
      PROVE  call'[c] = call[c] \/ call'[c] = Idle
  BY <1>1 DEF Return
<1>2. ASSUME NEW d \in Callers, SwapNext(d) \/ Record(d) \/ Stop(d)
      PROVE  call'[c] = call[c] \/ call'[c] = Idle
  BY <1>1, <1>2 DEF SwapNext, Record, Stop
<1>3. ASSUME NEW d \in Callers \ {c}, NEW r \in Requests, Deliver(d, r)
      PROVE  call'[c] = call[c]
  BY <1>3 DEF Deliver
<1>4. ASSUME NEW d \in Callers \ {c}, ReadOwner(d) \/ Lose(d)
      PROVE  call'[c] = call[c]
  BY <1>4 DEF ReadOwner, Lose, Return
<1>5. ASSUME NEW o \in Owners, Remove(o)
      PROVE  call' = call
  BY <1>5 DEF Remove, Forget
<1>6. ASSUME Reset
      PROVE  call' = call
  BY <1>6 DEF Reset, Forget
<1>7. CASE UNCHANGED vars
  BY <1>7 DEF vars
<1>8. QED
  BY <1>2, <1>3, <1>4, <1>5, <1>6, <1>7 DEF Next

\* What an entry added at the end of a log leaves as it was.
LEMMA AppendedLog ==
  ASSUME NEW l \in Seq(Entry), NEW e \in Entry
  PROVE  /\ Append(l, e) \in Seq(Entry)
         /\ Len(l) \in Nat /\ Len(Append(l, e)) = Len(l) + 1
         /\ \A i \in 1 .. Len(l) : Append(l, e)[i] = l[i]
         /\ Append(l, e)[Len(l) + 1] = e
         /\ \A n \in 0 .. Len(l) : MemberAfter(Append(l, e), n) = MemberAfter(l, n)
         /\ MemberAfter(Append(l, e), Len(l) + 1) = e.member
         /\ \A n \in 0 .. Len(l) : Written(Append(l, e), n) = Written(l, n)
         /\ Written(Append(l, e), Len(l) + 1) = e.written
<1>1. /\ Append(l, e) \in Seq(Entry)
      /\ Len(l) \in Nat /\ Len(Append(l, e)) = Len(l) + 1
      /\ \A i \in 1 .. Len(l) : Append(l, e)[i] = l[i]
      /\ Append(l, e)[Len(l) + 1] = e
  BY AppendProperties, LenProperties
<1>2. \A n \in 0 .. Len(l) : n # 0 => Append(l, e)[n] = l[n]
  BY <1>1
<1>3. Len(l) + 1 # 0
  BY <1>1
<1>4. QED
  BY <1>1, <1>2, <1>3 DEF MemberAfter, Written

\* A write adds the request to the log of its owner, with the member it leaves.
LEMMA WriteLog ==
  ASSUME RankType, ReadInv, NEW c \in Callers, Writes(c)
  PROVE  LET r == call[c].req
             next == NextScore(call[c].stored, r)
             e == SwapEntry(log[r.owner], r, next)
         IN  /\ r \in Requests /\ r.owner \in Owners /\ e \in Entry
             /\ next \in Member /\ next.owner = r.owner
             /\ member[r.owner] = call[c].stored
             /\ board' = (board \ {member[r.owner]}) \cup {next}
             /\ log'[r.owner] = Append(log[r.owner], e) /\ member'[r.owner] = next
             /\ applied'[r.owner] = IF r.id = NoId THEN applied[r.owner]
                                    ELSE Appended(call[c].ring, r.id)
             /\ \A o \in Owners \ {r.owner} :
                  log'[o] = log[o] /\ member'[o] = member[o] /\ applied'[o] = applied[o]
<1> USE DEF RankType
<1> DEFINE r == call[c].req
           next == NextScore(call[c].stored, r)
           e == SwapEntry(log[r.owner], r, next)
<1>1. /\ r \in Requests /\ r.owner \in Owners /\ call[c].stored \in Member \cup {NoMember}
      /\ call[c].stored # NoMember => call[c].stored.owner = r.owner
  BY CallFields DEF Writes, ReadInv
<1>2. next \in Member /\ next.owner = r.owner /\ e \in Entry
  BY <1>1, NextScoreIs, EntryType DEF LogType
<1>3. /\ member[r.owner] = call[c].stored
      /\ board' = (board \ {call[c].stored}) \cup {next}
      /\ member' = [member EXCEPT ![r.owner] = next]
      /\ applied' = IF r.id = NoId THEN applied
                    ELSE [applied EXCEPT ![r.owner] = Appended(call[c].ring, r.id)]
      /\ log' = [log EXCEPT ![r.owner] = Append(@, e)]
  BY DEF Writes, Swap, Logged, SwapEntry
<1> HIDE DEF r, next, e
<1>4. /\ log'[r.owner] = Append(log[r.owner], e) /\ member'[r.owner] = next
      /\ applied'[r.owner] = IF r.id = NoId THEN applied[r.owner]
                             ELSE Appended(call[c].ring, r.id)
      /\ \A o \in Owners \ {r.owner} :
           log'[o] = log[o] /\ member'[o] = member[o] /\ applied'[o] = applied[o]
  BY <1>1, <1>3 DEF TypeOK, LogType
<1>5. QED
  BY <1>1, <1>2, <1>3, <1>4 DEF r, next, e

\* A removal ends the log of its owners with an entry of its own.
LEMMA ForgetLog ==
  ASSUME RankType, NEW os \in SUBSET Owners, Forget(os)
  PROVE  /\ \A o \in os : /\ RemovalEntry(log[o]) \in Entry
                          /\ RemovalEntry(log[o]).req = NoId
                          /\ RemovalEntry(log[o]).member = NoMember
                          /\ log'[o] = Append(log[o], RemovalEntry(log[o]))
                          /\ member'[o] = NoMember /\ applied'[o] = << >>
         /\ \A o \in Owners \ os :
              log'[o] = log[o] /\ member'[o] = member[o] /\ applied'[o] = applied[o]
<1>1. \A o \in os : RemovalEntry(log[o]) \in Entry
  BY EntryType DEF RankType, LogType
<1>2. QED
  BY <1>1 DEF Forget, RemovalEntry

\* The log of an owner grows by one entry, or everything of the owner stays.
LEMMA Grows ==
  ASSUME RankType, ReadInv, [Next]_vars, NEW o \in Owners
  PROVE  \/ log'[o] = log[o] /\ member'[o] = member[o] /\ applied'[o] = applied[o]
         \/ \E e \in Entry : log'[o] = Append(log[o], e) /\ member'[o] = e.member
<1>1. ASSUME NEW c \in Callers, Writes(c)
      PROVE  \/ log'[o] = log[o] /\ member'[o] = member[o] /\ applied'[o] = applied[o]
             \/ \E e \in Entry : log'[o] = Append(log[o], e) /\ member'[o] = e.member
  <2> DEFINE r == call[c].req
             e == SwapEntry(log[r.owner], r, NextScore(call[c].stored, r))
  <2>1. /\ e \in Entry /\ log'[r.owner] = Append(log[r.owner], e)
        /\ member'[r.owner] = NextScore(call[c].stored, r)
        /\ o # r.owner =>
             log'[o] = log[o] /\ member'[o] = member[o] /\ applied'[o] = applied[o]
    BY <1>1, WriteLog
  <2>2. member'[r.owner] = e.member
    BY <2>1 DEF SwapEntry
  <2> HIDE DEF r, e
  <2>3. QED
    BY <2>1, <2>2
<1>2. ASSUME NEW os \in SUBSET Owners, Forget(os)
      PROVE  \/ log'[o] = log[o] /\ member'[o] = member[o] /\ applied'[o] = applied[o]
             \/ \E e \in Entry : log'[o] = Append(log[o], e) /\ member'[o] = e.member
  BY <1>2, ForgetLog
<1>3. ASSUME NEW x \in Owners, Remove(x)
      PROVE  Forget({x})
  BY <1>3 DEF Remove
<1>4. Reset => Forget(Owners)
  BY DEF Reset
<1>5. QED
  BY <1>1, <1>2, <1>3, <1>4, StepCases DEF RankType

-----------------------------------------------------------------------------
(* The invariants.                                                         *)

\* The hash has the member of the last entry of the log.
LastInv == \A o \in Owners : member[o] = MemberAfter(log[o], Len(log[o]))

LEMMA LastStep ==
  ASSUME RankType, ReadInv, LastInv, [Next]_vars
  PROVE  LastInv'
<1> SUFFICES ASSUME NEW o \in Owners
             PROVE  member'[o] = MemberAfter(log'[o], Len(log'[o]))
  BY DEF LastInv
<1>1. CASE log'[o] = log[o] /\ member'[o] = member[o]
  BY <1>1 DEF LastInv, MemberAfter
<1>2. ASSUME NEW e \in Entry, log'[o] = Append(log[o], e), member'[o] = e.member
      PROVE  member'[o] = MemberAfter(log'[o], Len(log'[o]))
  <2>1. log[o] \in Seq(Entry)
    BY DEF RankType, LogType
  <2>2. QED
    BY <1>2, <2>1, AppendedLog
<1>3. QED
  BY <1>1, <1>2, Grows

LEMMA OwnerStep ==
  ASSUME RankType, ReadInv, OwnerInv, [Next]_vars
  PROVE  OwnerInv'
<1>1. ASSUME NEW c \in Callers, Writes(c)
      PROVE  OwnerInv'
  BY <1>1, WriteLog DEF OwnerInv
<1>2. ASSUME NEW os \in SUBSET Owners, Forget(os)
      PROVE  OwnerInv'
  BY <1>2, ForgetLog DEF OwnerInv
<1>3. CASE UNCHANGED <<board, member, applied, log>>
  BY <1>3 DEF OwnerInv
<1>4. QED
  BY <1>1, <1>2, <1>3, StepCases DEF RankType, Remove, Reset

LEMMA ReadStep ==
  ASSUME RankType, OwnerInv, ReadInv, [Next]_vars
  PROVE  ReadInv'
<1> SUFFICES ASSUME NEW c \in Callers, call'[c].pc \in {"swap", "record"}
             PROVE  /\ call'[c].stored # NoMember => call'[c].stored.owner = call'[c].req.owner
                    /\ ~Contains(call'[c].ring, call'[c].req.id)
                    /\ call'[c].pc = "record" =>
                         call'[c].stored # NoMember /\ Keeps(call'[c].stored, call'[c].req)
  BY DEF ReadInv
<1>1. CASE call'[c] = call[c]
  BY <1>1 DEF ReadInv
<1>2. ASSUME NEW r \in Requests, Deliver(c, r)
      PROVE  FALSE
  BY <1>2 DEF Deliver, Reading, RankType, TypeOK
<1>3. CASE Lose(c)
  BY <1>3 DEF Lose, Reading, Return, Idle, RankType, TypeOK
<1>4. CASE ReadOwner(c)
  <2> DEFINE r == call[c].req
             next == [pc |-> IF Changed(member[r.owner], r) THEN "swap" ELSE "record", req |-> r,
                      try |-> call[c].try, since |-> call[c].since, stored |-> member[r.owner],
                      ring |-> applied[r.owner]]
  <2>1. r.owner \in Owners
    BY <1>4, CallFields DEF ReadOwner, RankType
  <2>2. call'[c] = next \/ call'[c] = Idle
    BY <1>4 DEF ReadOwner, Return, RankType, TypeOK
  <2>3. call'[c] = next /\ ~Contains(applied[r.owner], r.id)
    BY <1>4, <2>2 DEF ReadOwner, Return, RankType, TypeOK, Idle
  <2>4. QED
    BY <2>1, <2>3 DEF OwnerInv, Changed
<1>5. CASE call'[c] = Idle
  BY <1>5 DEF Idle
<1>6. QED
  BY <1>1, <1>2, <1>3, <1>4, <1>5, CallCases

LEMMA TryStep ==
  ASSUME RankType, ReadInv, TryInv, [Next]_vars
  PROVE  TryInv'
<1> USE DEF RankType
<1> SUFFICES ASSUME NEW c \in Callers, call'[c] # Idle
             PROVE  Overtaken(call'[c], member'[call'[c].req.owner],
                              Len(log'[call'[c].req.owner]))
  BY DEF TryInv
<1>1. CASE call'[c] = call[c]
  <2> DEFINE at == call[c]
             o == at.req.owner
  <2>1. o \in Owners /\ at.since \in Nat /\ at.try \in Nat /\ log[o] \in Seq(Entry)
    BY <1>1, CallFields, RankAssumption DEF LogType
  <2>2. Overtaken(at, member[o], Len(log[o]))
    BY <1>1 DEF TryInv
  <2> HIDE DEF at, o
  <2>3. ASSUME log'[o] = log[o], member'[o] = member[o]
        PROVE  Overtaken(at, member'[o], Len(log'[o]))
    BY <2>2, <2>3
  <2>4. ASSUME NEW e \in Entry, log'[o] = Append(log[o], e)
        PROVE  Overtaken(at, member'[o], Len(log'[o]))
    <3>1. Len(log[o]) \in Nat /\ Len(log'[o]) = Len(log[o]) + 1
      BY <2>1, <2>4, AppendedLog
    <3>2. QED
      BY <2>1, <2>2, <3>1 DEF Overtaken
  <2>5. Overtaken(at, member'[o], Len(log'[o]))
    BY <2>1, <2>2, <2>3, <2>4, Grows
  <2>6. QED
    BY <1>1, <2>5 DEF at, o
<1>2. ASSUME NEW r \in Requests, Deliver(c, r)
      PROVE  Overtaken(call'[c], member'[call'[c].req.owner], Len(log'[call'[c].req.owner]))
  <2>1. call'[c] = Reading(r, 1, Len(log[r.owner])) /\ log' = log
    BY <1>2 DEF Deliver, TypeOK
  <2>2. Len(log[r.owner]) \in Nat
    BY LogLength, RequestFields
  <2>3. QED
    BY <2>1, <2>2 DEF Reading, Overtaken
<1>3. ASSUME ReadOwner(c)
      PROVE  Overtaken(call'[c], member'[call'[c].req.owner], Len(log'[call'[c].req.owner]))
  <2> DEFINE r == call[c].req
             next == [pc |-> IF Changed(member[r.owner], r) THEN "swap" ELSE "record", req |-> r,
                      try |-> call[c].try, since |-> call[c].since, stored |-> member[r.owner],
                      ring |-> applied[r.owner]]
  <2>1. call'[c] = next /\ log' = log /\ member' = member
    BY <1>3 DEF ReadOwner, Return, TypeOK
  <2>2. Overtaken(call[c], member[r.owner], Len(log[r.owner]))
    BY <1>3 DEF TryInv, ReadOwner, Idle
  <2>3. QED
    BY <2>1, <2>2 DEF Overtaken
<1>4. ASSUME Lose(c)
      PROVE  Overtaken(call'[c], member'[call'[c].req.owner], Len(log'[call'[c].req.owner]))
  <2> DEFINE at == call[c]
  <2>1. call'[c] = Reading(at.req, at.try + 1, at.since) /\ log' = log
    BY <1>4 DEF Lose, Return, TypeOK
  <2>2. at.since + at.try <= Len(log[at.req.owner])
    BY <1>4 DEF TryInv, Lose, Idle, Expected, Overtaken
  <2>3. at.since \in Nat /\ at.try \in 1 .. Attempts
    BY <1>4, CallFields DEF Lose
  <2>4. at.since + (at.try + 1) - 1 = at.since + at.try
    BY <2>3
  <2>5. QED
    BY <2>1, <2>2, <2>4 DEF Reading, Overtaken
<1>5. QED
  BY <1>1, <1>2, <1>3, <1>4, CallCases

BoardInv == board = {member[o] : o \in Owners} \ {NoMember}

LEMMA BoardStep ==
  ASSUME RankType, ReadInv, OwnerInv, BoardInv, [Next]_vars
  PROVE  BoardInv'
<1> USE DEF RankType, TypeOK
<1>1. ASSUME NEW c \in Callers, Writes(c)
      PROVE  BoardInv'
  <2> DEFINE o == call[c].req.owner
             next == NextScore(call[c].stored, call[c].req)
  <2>1. /\ o \in Owners /\ next \in Member /\ next # NoMember /\ next.owner = o
        /\ board' = (board \ {member[o]}) \cup {next} /\ member'[o] = next
        /\ \A x \in Owners \ {o} : member'[x] = member[x]
    BY <1>1, WriteLog, MemberAssumption
  <2> HIDE DEF o, next
  <2>2. \A x \in Owners \ {o} : member[x] # NoMember => member[x] # member[o]
    BY <2>1 DEF OwnerInv
  <2>3. QED
    BY <2>1, <2>2 DEF BoardInv
<1>2. ASSUME NEW o \in Owners, Remove(o)
      PROVE  BoardInv'
  <2>1. /\ member'[o] = NoMember /\ board' = board \ {member[o]}
        /\ \A x \in Owners \ {o} : member'[x] = member[x]
    BY <1>2, ForgetLog DEF Remove
  <2>2. \A x \in Owners \ {o} : member[x] # NoMember => member[x] # member[o]
    BY <1>2 DEF OwnerInv, Remove
  <2>3. QED
    BY <2>1, <2>2 DEF BoardInv
<1>3. CASE Reset
  BY <1>3, ForgetLog DEF Reset, BoardInv
<1>4. CASE UNCHANGED <<board, member, applied, log>>
  BY <1>4 DEF BoardInv
<1>5. QED
  BY <1>1, <1>2, <1>3, <1>4, StepCases

-----------------------------------------------------------------------------
(* What an entry of a log owes to the entry before it.                     *)

Builds(r, p, m) ==
  r # NoId /\ p # NoMember =>
    /\ r.mode = "add" =>
         /\ p.value + r.value \in Int64 => m.value = p.value + r.value
         /\ p.value + r.value >= Half => m.value = p.value + r.value - 2 * Half
         /\ p.value + r.value < -Half => m.value = p.value + r.value + 2 * Half
    /\ r.mode = "max" => m = p \/ Before(m, p)

\* A request that adds something, with an id that can be found again.
Adds(r) == r # NoId /\ r.mode = "add" /\ r.value # 0 /\ Len(r.id) = 1

\* An entry after the member p.
GoodEntry(e, p) ==
  /\ Builds(e.req, p, e.member)
  /\ Adds(e.req) => e.member # p

ChangeInv ==
  \A o \in Owners : \A i \in 1 .. Len(log[o]) :
    GoodEntry(log[o][i], MemberAfter(log[o], i - 1))

\* The next score builds on the score it is computed from, and to add changes it.
LEMMA NextScoreBuilds ==
  ASSUME NEW r \in Requests, NEW p \in Member \cup {NoMember},
         p # NoMember => p.owner = r.owner
  PROVE  \A l : GoodEntry(SwapEntry(l, r, NextScore(p, r)), p)
<1> DEFINE m == NextScore(p, r)
           s == p.value + r.value
<1>1. /\ m \in Member /\ m # NoMember /\ r.value \in Int64
      /\ p # NoMember /\ r.mode = "add" => m.value = Wrapped(s)
      /\ p # NoMember /\ r.mode = "max" => m = p \/ Before(m, p)
  BY NextScoreIs, RequestFields, MemberAssumption
<1>2. ASSUME p # NoMember, r.mode = "add"
      PROVE  /\ p.value + r.value \in Int64 => m.value = p.value + r.value
             /\ p.value + r.value >= Half => m.value = p.value + r.value - 2 * Half
             /\ p.value + r.value < -Half => m.value = p.value + r.value + 2 * Half
             /\ r.value # 0 => m # p
  <2>1. /\ Half \in Nat /\ p.value \in -Half .. Half - 1 /\ r.value \in -Half .. Half - 1
        /\ s \in -2 * Half .. 2 * Half - 2
    BY <1>1, <1>2, MemberAssumption DEF Member, Int64
  <2>2. /\ s \in Int64 => m.value = s
        /\ s >= Half => m.value = s - 2 * Half
        /\ s < -Half => m.value = s + 2 * Half
    <3>1. m.value = Wrapped(s)
      BY <1>1, <1>2
    <3> HIDE DEF s, m
    <3>2. QED
      BY <2>1, <3>1, WrappedSum
  <2>3. r.value # 0 => m.value # p.value
    BY <2>1, <2>2 DEF Int64
  <2>4. QED
    BY <2>1, <2>2, <2>3
<1>3. CASE p = NoMember
  BY <1>1, <1>3 DEF GoodEntry, Builds, SwapEntry
<1>4. CASE p # NoMember
  BY <1>1, <1>2, <1>4 DEF GoodEntry, Builds, Adds, SwapEntry
<1>5. QED
  BY <1>3, <1>4

LEMMA ChangeStep ==
  ASSUME RankType, ReadInv, LastInv, ChangeInv, [Next]_vars
  PROVE  ChangeInv'
<1> USE DEF RankType
<1> SUFFICES ASSUME NEW o \in Owners
             PROVE  \A i \in 1 .. Len(log'[o]) :
                      GoodEntry(log'[o][i], MemberAfter(log'[o], i - 1))
  BY DEF ChangeInv
<1> DEFINE l == log[o]
<1>1. l \in Seq(Entry) /\ Len(l) \in Nat
  BY LogLength DEF LogType
<1>2. \A i \in 1 .. Len(l) : GoodEntry(l[i], MemberAfter(l, i - 1))
  BY DEF ChangeInv
<1>3. member[o] = MemberAfter(l, Len(l))
  BY DEF LastInv
<1>4. ASSUME NEW e \in Entry, log'[o] = Append(l, e), GoodEntry(e, member[o])
      PROVE  \A i \in 1 .. Len(log'[o]) : GoodEntry(log'[o][i], MemberAfter(log'[o], i - 1))
  <2> HIDE DEF l
  <2> DEFINE k == Append(l, e)
  <2>1. /\ Len(k) = Len(l) + 1 /\ k[Len(l) + 1] = e
        /\ \A i \in 1 .. Len(l) : k[i] = l[i]
        /\ \A n \in 0 .. Len(l) : MemberAfter(k, n) = MemberAfter(l, n)
    BY <1>1, AppendedLog
  <2> HIDE DEF k
  <2>2. \A i \in 1 .. Len(l) + 1 : i - 1 \in 0 .. Len(l)
    BY <1>1
  <2>3. (Len(l) + 1) - 1 = Len(l)
    BY <1>1
  <2>4. \A i \in 1 .. Len(l) : GoodEntry(k[i], MemberAfter(k, i - 1))
    BY <1>1, <1>2, <2>1, <2>2
  <2>5. GoodEntry(k[Len(l) + 1], MemberAfter(k, (Len(l) + 1) - 1))
    BY <1>1, <1>3, <1>4, <2>1, <2>3
  <2>6. \A i \in 1 .. Len(k) : i \in 1 .. Len(l) \/ i = Len(l) + 1
    BY <1>1, <2>1
  <2>7. \A i \in 1 .. Len(k) : GoodEntry(k[i], MemberAfter(k, i - 1))
    BY <2>4, <2>5, <2>6
  <2>8. QED
    BY <1>4, <2>7 DEF k
<1>5. ASSUME NEW c \in Callers, Writes(c)
      PROVE  \A i \in 1 .. Len(log'[o]) : GoodEntry(log'[o][i], MemberAfter(log'[o], i - 1))
  <2> DEFINE r == call[c].req
             e == SwapEntry(log[r.owner], r, NextScore(call[c].stored, r))
  <2>1. /\ r \in Requests /\ e \in Entry /\ member[r.owner] = call[c].stored
        /\ log'[r.owner] = Append(log[r.owner], e)
        /\ o # r.owner => log'[o] = log[o]
    BY <1>5, WriteLog
  <2>2. /\ call[c].stored \in Member \cup {NoMember}
        /\ call[c].stored # NoMember => call[c].stored.owner = r.owner
    BY <1>5, CallFields DEF Writes, ReadInv
  <2>3. GoodEntry(e, call[c].stored)
    BY <2>1, <2>2, NextScoreBuilds
  <2> HIDE DEF e
  <2>4. CASE o = r.owner
    BY <1>4, <2>1, <2>3, <2>4
  <2>5. CASE o # r.owner
    BY <1>2, <2>1, <2>5
  <2>6. QED
    BY <2>4, <2>5
<1>6. ASSUME NEW os \in SUBSET Owners, Forget(os)
      PROVE  \A i \in 1 .. Len(log'[o]) : GoodEntry(log'[o][i], MemberAfter(log'[o], i - 1))
  <2> DEFINE e == RemovalEntry(l)
  <2>1. /\ o \in os => e \in Entry /\ log'[o] = Append(l, e)
        /\ o \notin os => log'[o] = l
    BY <1>6, ForgetLog
  <2>2. GoodEntry(e, member[o])
    BY DEF GoodEntry, Builds, Adds, RemovalEntry
  <2> HIDE DEF e
  <2>3. QED
    BY <1>2, <1>4, <2>1, <2>2
<1>7. CASE UNCHANGED <<board, member, applied, log>>
  BY <1>2, <1>7
<1>8. QED
  BY <1>5, <1>6, <1>7, StepCases DEF Remove, Reset

\* Only a submit that gives up says by how much it was overtaken.
ContendedInv == \A n \in contended : n >= Attempts

LEMMA ContendedStep ==
  ASSUME RankType, TryInv, ContendedInv, [Next]_vars
  PROVE  ContendedInv'
<1>1. ASSUME NEW c \in Callers, Lose(c)
      PROVE  ContendedInv'
  BY <1>1, LoseType DEF ContendedInv
<1>2. ASSUME NEW c \in Callers,
             \/ \E r \in Requests : Deliver(c, r)
             \/ ReadOwner(c) \/ SwapNext(c) \/ Record(c) \/ Stop(c)
      PROVE  contended' = contended
  BY <1>2 DEF Deliver, ReadOwner, SwapNext, Record, Stop
<1>3. ASSUME NEW o \in Owners, Remove(o)
      PROVE  contended' = contended
  BY <1>3 DEF Remove, Forget
<1>4. Reset \/ UNCHANGED vars => contended' = contended
  BY DEF Reset, Forget, vars
<1>5. QED
  BY <1>1, <1>2, <1>3, <1>4 DEF Next, ContendedInv

-----------------------------------------------------------------------------
(* What a ring remembers of the first n entries of a log.                  *)

Removed(l, i, j) == \E k \in i .. j : l[k].req = NoId

\* The tokens written by the entries after i, up to n.
Since(l, i, n) == Written(l, n) - Written(l, i)

\* A request that added something as entry i is in the ring, as far from its end as
\* tokens were written since at most; or the promise about it has ended.
Remembers(l, ring, n) ==
  \A i \in 1 .. n : Adds(l[i].req) =>
    \/ \E p \in 1 .. Len(ring) : ring[p] = l[i].req.id[1] /\ Len(ring) - p <= Since(l, i, n)
    \/ Since(l, i, n) >= Ring
    \/ Removed(l, i, n)
    \/ CameBack(l, i, n)

\* The promise of AddedOncePerWindow for one log.
AddedOnce(l) ==
  \A i, j \in 1 .. Len(l) :
    i < j /\ Adds(l[i].req) /\ l[i].req = l[j].req
      => Since(l, i, j - 1) >= Ring \/ Removed(l, i, j) \/ CameBack(l, i, j - 1)

\* A log never takes back what it wrote.
Counts(l) == \A i, j \in 0 .. Len(l) : i <= j => Written(l, i) <= Written(l, j)

\* The ends of the promise stay when the log grows, and when more of it is looked at.
LEMMA EndsStay ==
  ASSUME NEW l \in Seq(Entry), NEW e \in Entry, NEW n \in 0 .. Len(l), NEW i \in 1 .. n,
         NEW k \in n .. Len(l)
  PROVE  /\ Removed(l, i, n) => Removed(l, i, k)
         /\ CameBack(l, i, n) => CameBack(l, i, k)
         /\ Removed(l, i, n) => Removed(Append(l, e), i, n)
         /\ CameBack(l, i, n) => CameBack(Append(l, e), i, n)
<1>1. /\ Len(l) \in Nat /\ \A x \in 1 .. Len(l) : Append(l, e)[x] = l[x]
      /\ \A x \in 0 .. Len(l) : MemberAfter(Append(l, e), x) = MemberAfter(l, x)
  BY AppendedLog
<1>2. Removed(l, i, n) => Removed(l, i, k)
  BY <1>1 DEF Removed
<1>3. Removed(l, i, n) => Removed(Append(l, e), i, n)
  BY <1>1 DEF Removed
<1>4. CameBack(l, i, n) => CameBack(l, i, k)
  BY <1>1 DEF CameBack
<1>5. ASSUME CameBack(l, i, n)
      PROVE  CameBack(Append(l, e), i, n)
  <2>1. PICK z \in Int, y \in Int, x \in Int :
          /\ z \in i .. n /\ y \in 1 .. z - 1 /\ x \in 0 .. y - 1
          /\ MemberAfter(l, x) = MemberAfter(l, z)
          /\ MemberAfter(l, y) # MemberAfter(l, z)
    BY <1>5 DEF CameBack
  <2>2. z \in 0 .. Len(l) /\ y \in 0 .. Len(l) /\ x \in 0 .. Len(l)
    BY <1>1, <2>1
  <2>3. /\ MemberAfter(Append(l, e), x) = MemberAfter(Append(l, e), z)
        /\ MemberAfter(Append(l, e), y) # MemberAfter(Append(l, e), z)
    BY <1>1, <2>1, <2>2
  <2>4. QED
    BY <2>1, <2>3 DEF CameBack
<1>6. QED
  BY <1>2, <1>3, <1>4, <1>5

\* What was written between two entries stays when the log grows.
LEMMA SinceStays ==
  ASSUME NEW l \in Seq(Entry), NEW e \in Entry
  PROVE  /\ \A i, n \in 0 .. Len(l) : /\ Since(l, i, n) \in Int
                                      /\ Since(Append(l, e), i, n) = Since(l, i, n)
         /\ \A i \in 0 .. Len(l) : Since(Append(l, e), i, Len(l) + 1) =
                                     Since(l, i, Len(l)) + (e.written - Written(l, Len(l)))
<1>1. /\ \A n \in 0 .. Len(l) : Written(Append(l, e), n) = Written(l, n)
      /\ Written(Append(l, e), Len(l) + 1) = e.written
      /\ Len(l) \in Nat
  BY AppendedLog
<1>2. \A n \in 0 .. Len(l) : Written(l, n) \in Nat
  BY EntryType
<1>3. Written(l, Len(l)) \in Nat /\ e.written \in Nat
  BY <1>1, <1>2 DEF Entry
<1>4. QED
  BY <1>1, <1>2, <1>3 DEF Since

\* A ring that remembered the first entries remembers them in a longer log.
LEMMA RemembersPrefix ==
  ASSUME NEW l \in Seq(Entry), NEW e \in Entry, NEW n \in 0 .. Len(l), NEW ring,
         Remembers(l, ring, n)
  PROVE  Remembers(Append(l, e), ring, n)
<1>1. /\ Len(l) \in Nat /\ \A x \in 1 .. Len(l) : Append(l, e)[x] = l[x]
  BY AppendedLog
<1>2. \A i \in 1 .. n : i \in 0 .. Len(l) /\ Append(l, e)[i] = l[i]
  BY <1>1
<1>3. \A i \in 1 .. n : /\ Removed(l, i, n) => Removed(Append(l, e), i, n)
                        /\ CameBack(l, i, n) => CameBack(Append(l, e), i, n)
  <2>1. n \in n .. Len(l)
    BY <1>1
  <2>2. QED
    BY <2>1, EndsStay
<1>4. \A i \in 1 .. n : Since(Append(l, e), i, n) = Since(l, i, n)
  BY <1>2, SinceStays
<1>5. QED
  BY <1>2, <1>3, <1>4 DEF Remembers

\* An entry that writes no ring costs a ring nothing.
LEMMA RemembersNext ==
  ASSUME NEW l \in Seq(Entry), NEW e \in Entry, ~Adds(e.req), NEW ring \in Rings,
         e.written = Written(l, Len(l)), Remembers(l, ring, Len(l))
  PROVE  Remembers(Append(l, e), ring, Len(l) + 1)
<1> DEFINE k == Append(l, e)
           n == Len(l)
<1>1. /\ k \in Seq(Entry) /\ n \in Nat /\ Len(k) = n + 1 /\ k[n + 1] = e
      /\ \A x \in 1 .. n : k[x] = l[x]
  BY AppendedLog
<1>2. \A i \in 1 .. n : Since(k, i, n + 1) = Since(k, i, n)
  <2>1. \A i \in 1 .. n : i \in 0 .. n /\ n \in 0 .. n
    BY <1>1
  <2>2. \A i \in 1 .. n : /\ Since(k, i, n) = Since(l, i, n) /\ Since(l, i, n) \in Int
                          /\ Since(k, i, n + 1) = Since(l, i, n) + (e.written - Written(l, n))
    BY <2>1, SinceStays
  <2>3. Written(l, n) \in Nat
    BY <1>1, EntryType
  <2>4. e.written - Written(l, n) = 0
    BY <2>3
  <2>5. QED
    BY <2>2, <2>4
<1>3. Remembers(k, ring, n)
  <2>1. n \in 0 .. Len(l)
    BY <1>1
  <2>2. QED
    BY <2>1, RemembersPrefix
<1> HIDE DEF k, n
<1>4. ASSUME NEW i \in 1 .. n, Adds(k[i].req)
      PROVE  \/ \E p \in 1 .. Len(ring) : /\ ring[p] = k[i].req.id[1]
                                          /\ Len(ring) - p <= Since(k, i, n + 1)
             \/ Since(k, i, n + 1) >= Ring
             \/ Removed(k, i, n + 1)
             \/ CameBack(k, i, n + 1)
  <2>1. n \in 0 .. Len(k) /\ n + 1 \in n .. Len(k)
    BY <1>1
  <2>2. /\ Removed(k, i, n) => Removed(k, i, n + 1)
        /\ CameBack(k, i, n) => CameBack(k, i, n + 1)
    BY <1>1, <2>1, EndsStay
  <2>3. QED
    BY <1>2, <1>3, <1>4, <2>2 DEF Remembers
<1>5. \A i \in 1 .. n + 1 : i \in 1 .. n \/ i = n + 1
  BY <1>1
<1>6. QED
  BY <1>1, <1>4, <1>5 DEF Remembers, k, n

\* A removal ends every promise about its owner.
LEMMA RemovalEnds ==
  ASSUME NEW l \in Seq(Entry), NEW e \in Entry, e.req = NoId, NEW ring
  PROVE  Remembers(Append(l, e), ring, Len(l) + 1)
<1>1. Len(l) \in Nat /\ Append(l, e)[Len(l) + 1] = e
  BY AppendedLog
<1>2. \A i \in 1 .. Len(l) + 1 : Removed(Append(l, e), i, Len(l) + 1)
  BY <1>1 DEF Removed
<1>3. QED
  BY <1>2 DEF Remembers

\* A ring that was read with a member the owner has still: what was added since then
\* and is not in it was undone again.
LEMMA RemembersStill ==
  ASSUME NEW l \in Seq(Entry), NEW n \in 0 .. Len(l), NEW ring \in Rings, Counts(l),
         Remembers(l, ring, n), MemberAfter(l, n) = MemberAfter(l, Len(l)),
         \A i \in 1 .. Len(l) : GoodEntry(l[i], MemberAfter(l, i - 1))
  PROVE  Remembers(l, ring, Len(l))
<1> DEFINE z == Len(l)
<1>1. z \in Nat /\ Len(ring) \in Nat /\ Ring \in Nat
  BY LenProperties, RankAssumption DEF Rings
<1>2. \A i \in 1 .. n : /\ Since(l, i, n) \in Int /\ Since(l, i, z) \in Int
                        /\ Since(l, i, n) <= Since(l, i, z)
  <2>1. \A i \in 1 .. n : i \in 0 .. Len(l)
    BY <1>1
  <2>2. n \in 0 .. Len(l) /\ z \in 0 .. Len(l) /\ n <= z
    BY <1>1
  <2>3. Written(l, n) <= Written(l, z)
    BY <2>2 DEF Counts
  <2>4. /\ Written(l, n) \in Nat /\ Written(l, z) \in Nat
        /\ \A i \in 1 .. n : Written(l, i) \in Nat
    BY <2>1, <2>2, EntryType
  <2>5. QED
    BY <2>3, <2>4 DEF Since
<1> HIDE DEF z
<1>3. ASSUME NEW i \in 1 .. n, Adds(l[i].req)
      PROVE  \/ \E p \in 1 .. Len(ring) : /\ ring[p] = l[i].req.id[1]
                                          /\ Len(ring) - p <= Since(l, i, z)
             \/ Since(l, i, z) >= Ring
             \/ Removed(l, i, z)
             \/ CameBack(l, i, z)
  <2>1. n <= z /\ n \in Nat
    BY <1>1 DEF z
  <2>2. /\ \A p \in 1 .. Len(ring) :
             Len(ring) - p <= Since(l, i, n) => Len(ring) - p <= Since(l, i, z)
        /\ Since(l, i, n) >= Ring => Since(l, i, z) >= Ring
    <3>1. Since(l, i, n) \in Int /\ Since(l, i, z) \in Int /\ Since(l, i, n) <= Since(l, i, z)
      BY <1>2
    <3>2. \A p \in 1 .. Len(ring) : Len(ring) - p \in Int
      BY <1>1
    <3>3. QED
      BY <1>1, <3>1, <3>2
  <2>3. /\ Removed(l, i, n) => Removed(l, i, z)
        /\ CameBack(l, i, n) => CameBack(l, i, z)
    BY <1>1, <2>1 DEF Removed, CameBack
  <2>4. QED
    BY <1>3, <2>2, <2>3 DEF Remembers
<1>4. ASSUME NEW i \in n + 1 .. z, Adds(l[i].req)
      PROVE  CameBack(l, i, z)
  <2>1. i \in Nat /\ i >= 1 /\ n <= i - 1 /\ i <= z /\ n \in Nat /\ i \in 1 .. z
    BY <1>1 DEF z
  <2>2. MemberAfter(l, i) = l[i].member
    BY <2>1 DEF MemberAfter
  <2>3. MemberAfter(l, i) # MemberAfter(l, i - 1)
    BY <1>4, <2>1, <2>2 DEF GoodEntry, z
  <2>4. CASE MemberAfter(l, i) # MemberAfter(l, z)
    <3>1. i # z
      BY <2>4
    <3>2. z \in i .. z /\ i \in 1 .. z - 1 /\ n \in 0 .. i - 1
      BY <1>1, <2>1, <3>1
    <3>3. MemberAfter(l, n) = MemberAfter(l, z)
      BY DEF z
    <3>4. QED
      BY <2>4, <3>2, <3>3 DEF CameBack
  <2>5. CASE MemberAfter(l, i) = MemberAfter(l, z)
    <3>1. MemberAfter(l, n) = MemberAfter(l, i)
      BY <2>5 DEF z
    <3>2. n # i - 1
      BY <2>3, <3>1
    <3>3. i \in i .. z /\ i - 1 \in 1 .. i - 1 /\ n \in 0 .. (i - 1) - 1
      BY <1>1, <2>1, <3>2
    <3>4. QED
      BY <2>3, <3>1, <3>3 DEF CameBack
  <2>6. QED
    BY <2>4, <2>5
<1>5. \A i \in 1 .. z : i \in 1 .. n \/ i \in n + 1 .. z
  BY <1>1 DEF z
<1>6. QED
  BY <1>3, <1>4, <1>5 DEF Remembers, z

\* A swap writes the ring it was given with the tokens of its own id at the end.
LEMMA RemembersWritten ==
  ASSUME NEW l \in Seq(Entry), NEW e \in Entry, NEW ring \in Rings,
         e.req.id \in Seq(Tokens), e.req.id # << >>, e.req.id # NoId,
         e.written = Written(l, Len(l)) + Len(e.req.id),
         ~Contains(ring, e.req.id), Remembers(l, ring, Len(l))
  PROVE  Remembers(Append(l, e), Appended(ring, e.req.id), Len(l) + 1)
<1> DEFINE k == Append(l, e)
           n == Len(l)
           new == Appended(ring, e.req.id)
           size == Len(e.req.id)
<1>1. /\ k \in Seq(Entry) /\ n \in Nat /\ Len(k) = n + 1 /\ k[n + 1] = e
      /\ \A x \in 1 .. n : k[x] = l[x]
  BY AppendedLog
<1>2. /\ Len(ring) \in Nat /\ Ring \in Nat \ {0}
      /\ size \in Nat \ {0}
  BY LenProperties, EmptySeq, RankAssumption DEF Rings
<1>3. /\ Len(new) \in Nat \ {0} /\ (size = 1 => new[Len(new)] = e.req.id[1])
      /\ \A p \in 1 .. Len(ring) :
           \/ \E q \in 1 .. Len(new) :
                new[q] = ring[p] /\ Len(new) - q = Len(ring) - p + size
           \/ Len(ring) - p >= Ring - 1
  BY AppendedRing
<1>4. \A i \in 1 .. n : /\ Since(k, i, n) \in Int
                        /\ Since(k, i, n + 1) = Since(k, i, n) + size
  <2>1. \A i \in 1 .. n : i \in 0 .. n /\ n \in 0 .. n
    BY <1>1
  <2>2. \A i \in 1 .. n : /\ Since(k, i, n) = Since(l, i, n) /\ Since(l, i, n) \in Int
                          /\ Since(k, i, n + 1) = Since(l, i, n) + (e.written - Written(l, n))
    BY <2>1, SinceStays
  <2>3. Written(l, n) \in Nat
    BY <1>1, EntryType
  <2>4. e.written - Written(l, n) = size
    BY <1>2, <2>3
  <2>5. QED
    BY <2>2, <2>4
<1>5. Remembers(k, ring, n)
  <2>1. n \in 0 .. Len(l)
    BY <1>1
  <2>2. QED
    BY <2>1, RemembersPrefix
<1>6. Since(k, n + 1, n + 1) = 0
  <2>1. n + 1 \in 0 .. Len(k)
    BY <1>1
  <2>2. Written(k, n + 1) \in Nat
    BY <1>1, <2>1, EntryType
  <2>3. QED
    BY <2>2 DEF Since
<1> HIDE DEF k, n, new, size
<1>7. ASSUME NEW i \in 1 .. n, Adds(k[i].req)
      PROVE  \/ \E p \in 1 .. Len(new) : /\ new[p] = k[i].req.id[1]
                                         /\ Len(new) - p <= Since(k, i, n + 1)
             \/ Since(k, i, n + 1) >= Ring
             \/ Removed(k, i, n + 1)
             \/ CameBack(k, i, n + 1)
  <2>1. n \in 0 .. Len(k) /\ n + 1 \in n .. Len(k)
    BY <1>1
  <2>2. /\ Removed(k, i, n) => Removed(k, i, n + 1)
        /\ CameBack(k, i, n) => CameBack(k, i, n + 1)
    BY <1>1, <2>1, EndsStay
  <2>3. Since(k, i, n) \in Int /\ Since(k, i, n + 1) = Since(k, i, n) + size
    BY <1>4
  <2>4. ASSUME NEW p \in 1 .. Len(ring), ring[p] = k[i].req.id[1],
               Len(ring) - p <= Since(k, i, n)
        PROVE  \/ \E q \in 1 .. Len(new) : /\ new[q] = k[i].req.id[1]
                                           /\ Len(new) - q <= Since(k, i, n + 1)
               \/ Since(k, i, n + 1) >= Ring
    <3>1. ASSUME NEW q \in 1 .. Len(new), new[q] = ring[p],
                 Len(new) - q = Len(ring) - p + size
          PROVE  new[q] = k[i].req.id[1] /\ Len(new) - q <= Since(k, i, n + 1)
      BY <1>2, <2>3, <2>4, <3>1
    <3>2. CASE Len(ring) - p >= Ring - 1
      BY <1>2, <2>3, <2>4, <3>2
    <3>3. QED
      BY <1>3, <3>1, <3>2
  <2>5. Since(k, i, n) >= Ring => Since(k, i, n + 1) >= Ring
    BY <1>2, <2>3
  <2>6. QED
    BY <1>5, <1>7, <2>2, <2>4, <2>5 DEF Remembers
<1>8. ASSUME Adds(k[n + 1].req)
      PROVE  \E p \in 1 .. Len(new) : /\ new[p] = k[n + 1].req.id[1]
                                      /\ Len(new) - p <= Since(k, n + 1, n + 1)
  <2>1. size = 1
    BY <1>1, <1>8 DEF Adds, size
  <2>2. /\ new[Len(new)] = k[n + 1].req.id[1] /\ Len(new) \in 1 .. Len(new)
        /\ Len(new) - Len(new) <= Since(k, n + 1, n + 1)
    BY <1>1, <1>3, <1>6, <2>1
  <2>3. QED
    BY <2>2
<1>9. \A i \in 1 .. n + 1 : i \in 1 .. n \/ i = n + 1
  BY <1>1
<1>10. Remembers(k, new, n + 1)
  BY <1>7, <1>8, <1>9 DEF Remembers
<1>11. QED
  BY <1>10 DEF k, n, new

\* A request that the ring does not list is not a repetition within the promise.
LEMMA AddedOnceNext ==
  ASSUME NEW l \in Seq(Entry), NEW e \in Entry, NEW ring \in Rings, AddedOnce(l),
         Adds(e.req) => ~Contains(ring, e.req.id) /\ e.req.id # NoId /\ Remembers(l, ring, Len(l))
  PROVE  AddedOnce(Append(l, e))
<1> DEFINE k == Append(l, e)
           n == Len(l)
<1>1. /\ k \in Seq(Entry) /\ n \in Nat /\ Len(k) = n + 1 /\ k[n + 1] = e
      /\ \A x \in 1 .. n : k[x] = l[x]
      /\ \A x, y \in 0 .. n : Since(k, x, y) = Since(l, x, y)
  BY AppendedLog, SinceStays
<1>2. ASSUME NEW i \in 1 .. n, NEW j \in 1 .. n, i < j, Adds(k[i].req), k[i].req = k[j].req
      PROVE  Since(k, i, j - 1) >= Ring \/ Removed(k, i, j) \/ CameBack(k, i, j - 1)
  <2>1. Adds(l[i].req) /\ l[i].req = l[j].req
    BY <1>1, <1>2
  <2>2. Since(l, i, j - 1) >= Ring \/ Removed(l, i, j) \/ CameBack(l, i, j - 1)
    BY <1>2, <2>1 DEF AddedOnce
  <2>3. /\ j \in 0 .. Len(l) /\ j - 1 \in 0 .. Len(l) /\ i \in 1 .. j - 1 /\ i \in 1 .. j
        /\ j \in j .. Len(l) /\ j - 1 \in j - 1 .. Len(l) /\ i \in 0 .. n /\ j - 1 \in 0 .. n
    BY <1>1, <1>2
  <2>4. /\ Removed(l, i, j) => Removed(k, i, j)
        /\ CameBack(l, i, j - 1) => CameBack(k, i, j - 1)
    BY <2>3, EndsStay
  <2>5. Since(k, i, j - 1) = Since(l, i, j - 1)
    BY <1>1, <2>3
  <2>6. QED
    BY <2>2, <2>4, <2>5
<1>3. ASSUME NEW i \in 1 .. n, Adds(k[i].req), k[i].req = e.req
      PROVE  Since(k, i, (n + 1) - 1) >= Ring \/ Removed(k, i, n + 1) \/ CameBack(k, i, (n + 1) - 1)
  <2>1. Adds(l[i].req) /\ l[i].req = e.req /\ Adds(e.req)
    BY <1>1, <1>3
  <2>2. \/ \E p \in 1 .. Len(ring) : ring[p] = e.req.id[1]
        \/ Since(l, i, n) >= Ring
        \/ Removed(l, i, n)
        \/ CameBack(l, i, n)
    BY <2>1 DEF Remembers
  <2>3. ~\E p \in 1 .. Len(ring) : ring[p] = e.req.id[1]
    BY <2>1 DEF Contains, Adds
  <2>4. /\ n \in 0 .. Len(l) /\ n \in n .. Len(l) /\ i \in 1 .. n
        /\ n \in 0 .. Len(k) /\ n + 1 \in n .. Len(k) /\ (n + 1) - 1 = n
    BY <1>1
  <2>5. /\ Removed(l, i, n) => Removed(k, i, n)
        /\ CameBack(l, i, n) => CameBack(k, i, n)
    BY <2>4, EndsStay
  <2>6. Removed(k, i, n) => Removed(k, i, n + 1)
    BY <1>1, <2>4, EndsStay
  <2>7. Since(k, i, (n + 1) - 1) = Since(l, i, n)
    <3>1. i \in 0 .. n /\ n \in 0 .. n
      BY <1>1
    <3>2. QED
      BY <1>1, <2>4, <3>1
  <2>8. QED
    BY <2>2, <2>3, <2>4, <2>5, <2>6, <2>7
<1> HIDE DEF k, n
<1>4. ASSUME NEW i \in 1 .. n + 1, NEW j \in 1 .. n + 1, i < j,
             Adds(k[i].req), k[i].req = k[j].req
      PROVE  Since(k, i, j - 1) >= Ring \/ Removed(k, i, j) \/ CameBack(k, i, j - 1)
  <2>1. i \in 1 .. n /\ (j \in 1 .. n \/ j = n + 1)
    BY <1>1, <1>4
  <2>2. CASE j \in 1 .. n
    BY <1>2, <1>4, <2>1, <2>2
  <2>3. CASE j = n + 1
    BY <1>1, <1>3, <1>4, <2>1, <2>3
  <2>4. QED
    BY <2>1, <2>2, <2>3
<1>5. AddedOnce(k)
  BY <1>1, <1>4 DEF AddedOnce
<1>6. QED
  BY <1>5 DEF k

\* The ring of an owner remembers its log; the ring a submit carries remembers the
\* entries there were when it read it, together with the member they left.
ReadSome(l, stored, ring) ==
  \E n \in 0 .. Len(l) : stored = MemberAfter(l, n) /\ Remembers(l, ring, n)

RingInv ==
  /\ \A o \in Owners : Remembers(log[o], applied[o], Len(log[o]))
  /\ \A c \in Callers : call[c].pc \in {"swap", "record"} =>
       ReadSome(log[call[c].req.owner], call[c].stored, call[c].ring)

OnceInv == \A o \in Owners : AddedOnce(log[o])

CountInv == \A o \in Owners : Counts(log[o])

LEMMA CountStep ==
  ASSUME RankType, ReadInv, CountInv, [Next]_vars
  PROVE  CountInv'
<1> USE DEF RankType
<1> SUFFICES ASSUME NEW o \in Owners
             PROVE  Counts(log'[o])
  BY DEF CountInv
<1> DEFINE l == log[o]
<1>1. l \in Seq(Entry) /\ Counts(l)
  BY DEF LogType, CountInv
<1>2. ASSUME NEW e \in Entry, log'[o] = Append(l, e), e.written >= Written(l, Len(l))
      PROVE  Counts(log'[o])
  <2> HIDE DEF l
  <2> DEFINE k == Append(l, e)
  <2>1. /\ Len(l) \in Nat /\ Len(k) = Len(l) + 1
        /\ \A n \in 0 .. Len(l) : Written(k, n) = Written(l, n)
        /\ Written(k, Len(l) + 1) = e.written
    BY <1>1, AppendedLog
  <2>2. \A n \in 0 .. Len(l) : Written(l, n) \in Nat /\ Written(l, n) <= Written(l, Len(l))
    <3>1. \A n \in 0 .. Len(l) : n <= Len(l) /\ Len(l) \in 0 .. Len(l)
      BY <2>1
    <3>2. QED
      BY <1>1, <3>1, EntryType DEF Counts
  <2>3. Written(l, Len(l)) \in Nat /\ e.written \in Nat
    BY <2>1, <2>2 DEF Entry
  <2> HIDE DEF k
  <2>4. ASSUME NEW i \in 0 .. Len(k), NEW j \in 0 .. Len(k), i <= j
        PROVE  Written(k, i) <= Written(k, j)
    <3>1. CASE j \in 0 .. Len(l)
      <4>1. i \in 0 .. Len(l)
        BY <2>1, <2>4, <3>1
      <4>2. QED
        BY <1>1, <2>1, <2>4, <3>1, <4>1 DEF Counts
    <3>2. CASE i \in 0 .. Len(l) /\ j = Len(l) + 1
      BY <1>2, <2>1, <2>2, <2>3, <3>2
    <3>3. CASE i = j
      <4>1. i \in 0 .. Len(l) \/ i = Len(l) + 1
        BY <2>1
      <4>2. Written(k, i) \in Nat
        BY <2>1, <2>2, <2>3, <4>1
      <4>3. QED
        BY <3>3, <4>2
    <3>4. QED
      BY <2>1, <2>4, <3>1, <3>2, <3>3
  <2>5. QED
    BY <1>2, <2>4 DEF Counts, k
<1>3. ASSUME NEW c \in Callers, Writes(c)
      PROVE  Counts(log'[o])
  <2> DEFINE r == call[c].req
             e == SwapEntry(log[r.owner], r, NextScore(call[c].stored, r))
  <2>1. /\ r \in Requests /\ e \in Entry
        /\ log'[r.owner] = Append(log[r.owner], e)
        /\ o # r.owner => log'[o] = log[o]
    BY <1>3, WriteLog
  <2>2. o = r.owner => e.written >= Written(l, Len(l))
    <3>1. Places(r) \in Nat /\ Written(l, Len(l)) \in Nat
      <4>1. Len(l) \in 0 .. Len(l)
        BY <1>1, EntryType
      <4>2. QED
        BY <1>1, <2>1, <4>1, EntryType, RequestFields
    <3>2. o = r.owner => e.written = Written(l, Len(l)) + Places(r)
      BY DEF SwapEntry
    <3>3. QED
      BY <3>1, <3>2
  <2> HIDE DEF e
  <2>3. QED
    BY <1>1, <1>2, <2>1, <2>2
<1>4. ASSUME NEW os \in SUBSET Owners, Forget(os)
      PROVE  Counts(log'[o])
  <2>1. /\ o \in os => RemovalEntry(l) \in Entry /\ log'[o] = Append(l, RemovalEntry(l))
        /\ o \notin os => log'[o] = l
    BY <1>4, ForgetLog
  <2>2. RemovalEntry(l).written >= Written(l, Len(l))
    <3>1. Len(l) \in 0 .. Len(l)
      BY <1>1, EntryType
    <3>2. Written(l, Len(l)) \in Nat
      BY <1>1, <3>1, EntryType
    <3>3. QED
      BY <3>2 DEF RemovalEntry
  <2>3. QED
    BY <1>1, <1>2, <2>1, <2>2
<1>5. CASE UNCHANGED <<board, member, applied, log>>
  BY <1>1, <1>5
<1>6. QED
  BY <1>3, <1>4, <1>5, StepCases DEF Remove, Reset

\* What a submit has read lasts while the log grows.
LEMMA ReadSomeLasts ==
  ASSUME NEW l \in Seq(Entry), NEW e \in Entry, NEW stored, NEW ring,
         ReadSome(l, stored, ring)
  PROVE  ReadSome(Append(l, e), stored, ring)
<1>1. PICK n \in 0 .. Len(l) : stored = MemberAfter(l, n) /\ Remembers(l, ring, n)
  BY DEF ReadSome
<1>2. /\ Len(l) \in Nat /\ Len(Append(l, e)) = Len(l) + 1
      /\ MemberAfter(Append(l, e), n) = MemberAfter(l, n)
  BY AppendedLog
<1>3. n \in 0 .. Len(Append(l, e))
  BY <1>2
<1>4. Remembers(Append(l, e), ring, n)
  BY <1>1, RemembersPrefix
<1>5. QED
  BY <1>1, <1>2, <1>3, <1>4 DEF ReadSome

\* A write of a submit keeps the promise, and its ring remembers the longer log.
LEMMA WriteRing ==
  ASSUME RankType, ReadInv, LastInv, ChangeInv, CountInv, RingInv, OnceInv,
         NEW c \in Callers, Writes(c), NEW o \in Owners
  PROVE  Remembers(log'[o], applied'[o], Len(log'[o])) /\ AddedOnce(log'[o])
<1> USE DEF RankType
<1> DEFINE r == call[c].req
           l == log[r.owner]
           e == SwapEntry(l, r, NextScore(call[c].stored, r))
<1>1. /\ r \in Requests /\ r.owner \in Owners /\ e \in Entry
      /\ member[r.owner] = call[c].stored
      /\ log'[r.owner] = Append(l, e)
      /\ applied'[r.owner] = IF r.id = NoId THEN applied[r.owner]
                             ELSE Appended(call[c].ring, r.id)
      /\ o # r.owner => log'[o] = log[o] /\ applied'[o] = applied[o]
  BY WriteLog
<1>2. call[c].ring \in Rings /\ ~Contains(call[c].ring, r.id)
  BY CallFields DEF Writes, ReadInv
<1>3. /\ l \in Seq(Entry) /\ Len(l) \in Nat /\ AddedOnce(l) /\ Counts(l)
      /\ applied[r.owner] \in Rings /\ Remembers(l, applied[r.owner], Len(l))
      /\ Len(Append(l, e)) = Len(l) + 1
  BY <1>1, AppendedLog DEF LogType, TypeOK, RingInv, OnceInv, CountInv
<1>4. Remembers(l, call[c].ring, Len(l))
  <2>1. ReadSome(l, call[c].stored, call[c].ring)
    BY DEF RingInv, Writes
  <2>2. PICK n \in 0 .. Len(l) :
          call[c].stored = MemberAfter(l, n) /\ Remembers(l, call[c].ring, n)
    BY <2>1 DEF ReadSome
  <2>3. MemberAfter(l, n) = MemberAfter(l, Len(l))
    BY <1>1, <2>2 DEF LastInv
  <2>4. \A i \in 1 .. Len(l) : GoodEntry(l[i], MemberAfter(l, i - 1))
    BY <1>1 DEF ChangeInv
  <2> HIDE DEF l
  <2>5. QED
    BY <1>2, <1>3, <2>2, <2>3, <2>4, RemembersStill
<1>5. /\ e.req = r
      /\ Adds(r) => r.id # NoId
      /\ r.id # NoId => r.id \in Seq(Tokens) /\ r.id # << >>
  BY <1>1, RequestFields DEF Adds, SwapEntry
<1>6. /\ r.id = NoId => e.written = Written(l, Len(l))
      /\ r.id # NoId => e.written = Written(l, Len(l)) + Len(r.id)
  <2>1. Len(l) \in 0 .. Len(l)
    BY <1>3
  <2>2. Written(l, Len(l)) \in Nat
    BY <1>3, <2>1, EntryType
  <2>3. QED
    BY <2>2 DEF SwapEntry, Places
<1> HIDE DEF l, e
<1>7. CASE o = r.owner
  <2>1. AddedOnce(log'[o])
    BY <1>1, <1>2, <1>3, <1>4, <1>5, <1>7, AddedOnceNext
  <2>2. CASE r.id = NoId
    BY <1>1, <1>3, <1>5, <1>6, <1>7, <2>1, <2>2, RemembersNext
  <2>3. CASE r.id # NoId
    BY <1>1, <1>2, <1>3, <1>4, <1>5, <1>6, <1>7, <2>1, <2>3, RemembersWritten
  <2>4. QED
    BY <2>2, <2>3
<1>8. CASE o # r.owner
  BY <1>1, <1>8 DEF RingInv, OnceInv
<1>9. QED
  BY <1>7, <1>8

\* A removal leaves nothing to promise.
LEMMA ForgetRing ==
  ASSUME RankType, RingInv, OnceInv, NEW os \in SUBSET Owners, Forget(os), NEW o \in Owners
  PROVE  Remembers(log'[o], applied'[o], Len(log'[o])) /\ AddedOnce(log'[o])
<1> USE DEF RankType
<1> DEFINE e == RemovalEntry(log[o])
<1>1. /\ e \in Entry
      /\ o \in os => log'[o] = Append(log[o], e)
      /\ o \notin os => log'[o] = log[o] /\ applied'[o] = applied[o]
  BY ForgetLog, EntryType DEF LogType
<1>2. e.req = NoId /\ ~Adds(e.req)
  BY DEF Adds, RemovalEntry
<1>3. /\ log[o] \in Seq(Entry) /\ AddedOnce(log[o]) /\ applied[o] \in Rings
      /\ Len(Append(log[o], e)) = Len(log[o]) + 1
  BY <1>1, AppendedLog DEF LogType, TypeOK, OnceInv
<1> HIDE DEF e
<1>4. CASE o \in os
  <2>1. Remembers(log'[o], applied'[o], Len(log'[o]))
    BY <1>1, <1>2, <1>3, <1>4, RemovalEnds
  <2>2. AddedOnce(log'[o])
    BY <1>1, <1>2, <1>3, <1>4, AddedOnceNext
  <2>3. QED
    BY <2>1, <2>2
<1>5. CASE o \notin os
  BY <1>1, <1>5 DEF RingInv, OnceInv
<1>6. QED
  BY <1>4, <1>5

LEMMA RingStep ==
  ASSUME RankType, ReadInv, LastInv, ChangeInv, CountInv, RingInv, OnceInv, [Next]_vars
  PROVE  RingInv' /\ OnceInv'
<1> USE DEF RankType
<1>1. ASSUME NEW o \in Owners
      PROVE  Remembers(log'[o], applied'[o], Len(log'[o])) /\ AddedOnce(log'[o])
  <2>1. CASE UNCHANGED <<board, member, applied, log>>
    BY <2>1 DEF RingInv, OnceInv
  <2>2. QED
    BY <2>1, WriteRing, ForgetRing, StepCases DEF Remove, Reset
<1>2. ASSUME NEW c \in Callers, call'[c].pc \in {"swap", "record"}
      PROVE  ReadSome(log'[call'[c].req.owner], call'[c].stored, call'[c].ring)
  <2>1. CASE call'[c] = call[c]
    <3> DEFINE at == call[c]
               o == at.req.owner
    <3>1. ReadSome(log[o], at.stored, at.ring) /\ o \in Owners
      BY <1>2, <2>1, CallFields DEF RingInv
    <3>2. log[o] \in Seq(Entry)
      BY <3>1 DEF LogType
    <3> HIDE DEF o, at
    <3>3. ReadSome(log'[o], at.stored, at.ring)
      BY <3>1, <3>2, Grows, ReadSomeLasts
    <3>4. QED
      BY <2>1, <3>3 DEF at, o
  <2>2. ASSUME NEW r \in Requests, Deliver(c, r)
        PROVE  FALSE
    BY <1>2, <2>2 DEF Deliver, Reading, TypeOK
  <2>3. CASE Lose(c)
    BY <1>2, <2>3 DEF Lose, Reading, Return, Idle, TypeOK
  <2>4. CASE ReadOwner(c)
    <3> DEFINE r == call[c].req
               next == [pc |-> IF Changed(member[r.owner], r) THEN "swap" ELSE "record", req |-> r,
                        try |-> call[c].try, since |-> call[c].since, stored |-> member[r.owner],
                        ring |-> applied[r.owner]]
    <3>1. r.owner \in Owners
      BY <2>4, CallFields DEF ReadOwner
    <3>2. call'[c] = next /\ log' = log
      BY <1>2, <2>4 DEF ReadOwner, Return, TypeOK, Idle
    <3>3. /\ member[r.owner] = MemberAfter(log[r.owner], Len(log[r.owner]))
          /\ Remembers(log[r.owner], applied[r.owner], Len(log[r.owner]))
          /\ Len(log[r.owner]) \in 0 .. Len(log[r.owner])
      BY <3>1, LogLength DEF LastInv, RingInv
    <3>4. QED
      BY <3>2, <3>3 DEF ReadSome
  <2>5. CASE call'[c] = Idle
    BY <1>2, <2>5 DEF Idle
  <2>6. QED
    BY <2>1, <2>2, <2>3, <2>4, <2>5, CallCases
<1>3. QED
  BY <1>1, <1>2 DEF RingInv, OnceInv

-----------------------------------------------------------------------------
(* What a ring lists.                                                      *)

\* The entry has the token in its id.
Names(e, t) ==
  /\ e.req # NoId /\ e.req.id # NoId
  /\ \E x \in 1 .. Len(e.req.id) : e.req.id[x] = t

\* Revived for the first n entries.
Back(l, k, n) ==
  \E x \in k .. n : \E z \in x + 2 .. n :
    /\ l[x].member = l[z].member /\ l[x].member # NoMember
    /\ \E y \in x + 1 .. z - 1 : l[y].req = NoId

\* What the ring lists is of one of the first n entries, and of one that no removal
\* before n has undone for good.
Listed(l, ring, n) ==
  \A p \in 1 .. Len(ring) : \E k \in 1 .. n :
    Names(l[k], ring[p]) /\ (Removed(l, k, n) => Back(l, k, n))

\* An owner without a member has an empty ring.
EmptyInv ==
  /\ \A o \in Owners : member[o] = NoMember => applied[o] = << >>
  /\ \A c \in Callers : call[c].pc \in {"swap", "record"} =>
       (call[c].stored = NoMember => call[c].ring = << >>)

\* An entry of a removal has no member.
Honest(l) == \A i \in 1 .. Len(l) : l[i].req = NoId => l[i].member = NoMember

HonestInv == \A o \in Owners : Honest(log[o])

ListedSome(l, stored, ring) ==
  \E n \in 0 .. Len(l) : stored = MemberAfter(l, n) /\ Listed(l, ring, n)

ListedInv ==
  /\ \A o \in Owners : Listed(log[o], applied[o], Len(log[o]))
  /\ \A c \in Callers : call[c].pc \in {"swap", "record"} =>
       ListedSome(log[call[c].req.owner], call[c].stored, call[c].ring)

\* What a ring lists of the first entries it lists of them in a longer log.
LEMMA ListedPrefix ==
  ASSUME NEW l \in Seq(Entry), NEW e \in Entry, NEW n \in 0 .. Len(l), NEW ring,
         Listed(l, ring, n)
  PROVE  Listed(Append(l, e), ring, n)
<1> DEFINE new == Append(l, e)
<1>1. Len(l) \in Nat /\ \A x \in 1 .. Len(l) : new[x] = l[x]
  BY AppendedLog
<1> HIDE DEF new
<1>2. ASSUME NEW k \in 1 .. n
      PROVE  /\ new[k] = l[k]
             /\ Removed(new, k, n) => Removed(l, k, n)
             /\ Back(l, k, n) => Back(new, k, n)
  <2>1. \A x \in k .. n : x \in 1 .. Len(l) /\ new[x] = l[x]
    BY <1>1
  <2>2. Removed(new, k, n) => Removed(l, k, n)
    BY <2>1 DEF Removed
  <2>3. ASSUME Back(l, k, n)
        PROVE  Back(new, k, n)
    <3>1. PICK x \in k .. n : \E z \in x + 2 .. n :
            /\ l[x].member = l[z].member /\ l[x].member # NoMember
            /\ \E y \in x + 1 .. z - 1 : l[y].req = NoId
      BY <2>3 DEF Back
    <3>2. PICK z \in x + 2 .. n :
            /\ l[x].member = l[z].member /\ l[x].member # NoMember
            /\ \E y \in x + 1 .. z - 1 : l[y].req = NoId
      BY <3>1
    <3>3. PICK y \in x + 1 .. z - 1 : l[y].req = NoId
      BY <3>2
    <3>4. z \in k .. n /\ y \in k .. n
      BY <1>1
    <3>5. new[x] = l[x] /\ new[y] = l[y] /\ new[z] = l[z]
      BY <2>1, <3>4
    <3>6. QED
      BY <3>2, <3>3, <3>5 DEF Back
  <2>4. QED
    BY <1>1, <2>2, <2>3
<1>3. QED
  BY <1>2 DEF Listed, new

\* A ring that was read with a member the owner has still: where a removal came in
\* between, the owner came back to that member.
LEMMA ListedStill ==
  ASSUME NEW l \in Seq(Entry), NEW n \in 0 .. Len(l), NEW ring, Listed(l, ring, n),
         Honest(l), MemberAfter(l, n) = MemberAfter(l, Len(l)),
         ring = << >> \/ MemberAfter(l, n) # NoMember
  PROVE  Listed(l, ring, Len(l))
<1> DEFINE m == Len(l)
<1>1. m \in Nat /\ n <= m /\ n \in Nat
  BY LenProperties
<1> HIDE DEF m
<1>2. ASSUME NEW p \in 1 .. Len(ring)
      PROVE  \E k \in 1 .. m : Names(l[k], ring[p]) /\ (Removed(l, k, m) => Back(l, k, m))
  <2>1. PICK k \in 1 .. n : Names(l[k], ring[p]) /\ (Removed(l, k, n) => Back(l, k, n))
    BY DEF Listed
  <2>2. MemberAfter(l, n) # NoMember
    BY <1>2, EmptySeq
  <2>3. /\ MemberAfter(l, n) = l[n].member /\ MemberAfter(l, m) = l[m].member
        /\ l[n].member = l[m].member /\ l[m].member # NoMember
    <3>1. n # 0 /\ m # 0
      BY <1>1, <2>1
    <3>2. MemberAfter(l, n) = MemberAfter(l, m)
      BY DEF m
    <3>3. QED
      BY <2>2, <3>1, <3>2 DEF MemberAfter
  <2>4. ASSUME Back(l, k, n)
        PROVE  Back(l, k, m)
    BY <1>1, <2>4 DEF Back
  <2>5. ASSUME NEW y \in n + 1 .. m, l[y].req = NoId
        PROVE  Back(l, k, m)
    <3>1. y \in 1 .. m
      BY <1>1
    <3>2. l[y].member = NoMember
      BY <2>5, <3>1 DEF Honest, m
    <3>3. y # m
      BY <2>3, <3>2
    <3>4. n \in k .. m /\ m \in n + 2 .. m /\ y \in n + 1 .. m - 1
      BY <1>1, <3>3
    <3>5. QED
      BY <2>3, <2>5, <3>4 DEF Back
  <2>6. ASSUME Removed(l, k, m)
        PROVE  Back(l, k, m)
    <3>1. PICK y \in k .. m : l[y].req = NoId
      BY <2>6 DEF Removed
    <3>2. y \in k .. n \/ y \in n + 1 .. m
      BY <1>1
    <3>3. CASE y \in k .. n
      BY <2>1, <2>4, <3>1, <3>3 DEF Removed
    <3>4. CASE y \in n + 1 .. m
      BY <2>5, <3>1, <3>4
    <3>5. QED
      BY <3>2, <3>3, <3>4
  <2>7. k \in 1 .. m
    BY <1>1
  <2>8. QED
    BY <2>1, <2>6, <2>7
<1>3. QED
  BY <1>2 DEF Listed, m

\* An entry that is no removal takes nothing from what a ring may list.
LEMMA ListedNext ==
  ASSUME NEW l \in Seq(Entry), NEW e \in Entry, e.req # NoId, NEW ring,
         Listed(l, ring, Len(l))
  PROVE  Listed(Append(l, e), ring, Len(l) + 1)
<1> DEFINE new == Append(l, e)
           n == Len(l)
<1>1. n \in Nat /\ new[n + 1] = e
  BY AppendedLog
<1>2. Listed(new, ring, n)
  <2>1. n \in 0 .. Len(l)
    BY <1>1
  <2>2. QED
    BY <2>1, ListedPrefix
<1> HIDE DEF new, n
<1>3. ASSUME NEW k \in 1 .. n
      PROVE  /\ Removed(new, k, n + 1) => Removed(new, k, n)
             /\ Back(new, k, n) => Back(new, k, n + 1)
  <2>1. \A y \in k .. n + 1 : y \in k .. n \/ y = n + 1
    BY <1>1
  <2>2. Removed(new, k, n + 1) => Removed(new, k, n)
    BY <1>1, <2>1 DEF Removed
  <2>3. Back(new, k, n) => Back(new, k, n + 1)
    BY <1>1 DEF Back
  <2>4. QED
    BY <2>2, <2>3
<1>4. \A k \in 1 .. n : k \in 1 .. n + 1
  BY <1>1
<1>5. Listed(new, ring, n + 1)
  BY <1>2, <1>3, <1>4 DEF Listed
<1>6. QED
  BY <1>5 DEF new, n

\* An entry may list its own id.
LEMMA ListedWritten ==
  ASSUME NEW l \in Seq(Entry), NEW e \in Entry, e.req # NoId, NEW ring \in Rings,
         e.req.id \in Seq(Tokens), e.req.id # NoId, ~Contains(ring, e.req.id),
         Listed(l, ring, Len(l))
  PROVE  Listed(Append(l, e), Appended(ring, e.req.id), Len(l) + 1)
<1> DEFINE new == Append(l, e)
           n == Len(l)
           id == e.req.id
<1>1. n \in Nat /\ new[n + 1] = e
  BY AppendedLog
<1>2. Listed(new, ring, n + 1)
  BY ListedNext
<1>3. ASSUME NEW q \in 1 .. Len(Appended(ring, id))
      PROVE  \/ \E p \in 1 .. Len(ring) : Appended(ring, id)[q] = ring[p]
             \/ \E x \in 1 .. Len(id) : Appended(ring, id)[q] = id[x]
  BY <1>3, AppendedTokens
<1> HIDE DEF new, n
<1>4. n + 1 \in 1 .. n + 1 /\ ~Removed(new, n + 1, n + 1)
  BY <1>1 DEF Removed
<1>5. ASSUME NEW q \in 1 .. Len(Appended(ring, id))
      PROVE  \E k \in 1 .. n + 1 :
               /\ Names(new[k], Appended(ring, id)[q])
               /\ Removed(new, k, n + 1) => Back(new, k, n + 1)
  <2>1. CASE \E p \in 1 .. Len(ring) : Appended(ring, id)[q] = ring[p]
    BY <1>2, <2>1 DEF Listed
  <2>2. CASE \E x \in 1 .. Len(id) : Appended(ring, id)[q] = id[x]
    <3>1. Names(new[n + 1], Appended(ring, id)[q])
      BY <1>1, <2>2 DEF Names
    <3>2. QED
      BY <1>4, <3>1
  <2>3. QED
    BY <1>3, <2>1, <2>2
<1>6. Listed(new, Appended(ring, id), n + 1)
  BY <1>5 DEF Listed
<1>7. QED
  BY <1>6 DEF new, n

LEMMA HonestStep ==
  ASSUME RankType, ReadInv, HonestInv, [Next]_vars
  PROVE  HonestInv'
<1> USE DEF RankType
<1> SUFFICES ASSUME NEW o \in Owners
             PROVE  Honest(log'[o])
  BY DEF HonestInv
<1> DEFINE l == log[o]
<1>1. l \in Seq(Entry) /\ Honest(l)
  BY DEF LogType, HonestInv
<1>2. ASSUME NEW e \in Entry, log'[o] = Append(l, e), e.req = NoId => e.member = NoMember
      PROVE  Honest(log'[o])
  <2> HIDE DEF l
  <2>1. /\ Len(l) \in Nat /\ Len(Append(l, e)) = Len(l) + 1 /\ Append(l, e)[Len(l) + 1] = e
        /\ \A i \in 1 .. Len(l) : Append(l, e)[i] = l[i]
    BY <1>1, AppendedLog
  <2>2. \A i \in 1 .. Len(l) + 1 : i \in 1 .. Len(l) \/ i = Len(l) + 1
    BY <2>1
  <2>3. QED
    BY <1>1, <1>2, <2>1, <2>2 DEF Honest
<1>3. ASSUME NEW c \in Callers, Writes(c)
      PROVE  Honest(log'[o])
  <2> DEFINE r == call[c].req
             e == SwapEntry(log[r.owner], r, NextScore(call[c].stored, r))
  <2>1. /\ r \in Requests /\ e \in Entry
        /\ log'[r.owner] = Append(log[r.owner], e)
        /\ o # r.owner => log'[o] = log[o]
    BY <1>3, WriteLog
  <2>2. e.req # NoId
    BY <2>1, RankAssumption DEF SwapEntry
  <2> HIDE DEF e
  <2>3. QED
    BY <1>1, <1>2, <2>1, <2>2
<1>4. ASSUME NEW os \in SUBSET Owners, Forget(os)
      PROVE  Honest(log'[o])
  <2>1. /\ o \in os => RemovalEntry(l) \in Entry /\ log'[o] = Append(l, RemovalEntry(l))
        /\ o \notin os => log'[o] = l
    BY <1>4, ForgetLog
  <2>2. RemovalEntry(l).member = NoMember
    BY DEF RemovalEntry
  <2>3. QED
    BY <1>1, <1>2, <2>1, <2>2
<1>5. CASE UNCHANGED <<board, member, applied, log>>
  BY <1>1, <1>5
<1>6. QED
  BY <1>3, <1>4, <1>5, StepCases DEF Remove, Reset

LEMMA EmptyStep ==
  ASSUME RankType, ReadInv, EmptyInv, [Next]_vars
  PROVE  EmptyInv'
<1> USE DEF RankType
<1>1. ASSUME NEW o \in Owners
      PROVE  member'[o] = NoMember => applied'[o] = << >>
  <2>1. ASSUME NEW c \in Callers, Writes(c)
        PROVE  member'[o] = NoMember => applied'[o] = << >>
    BY <2>1, WriteLog, MemberAssumption DEF EmptyInv
  <2>2. ASSUME NEW os \in SUBSET Owners, Forget(os)
        PROVE  member'[o] = NoMember => applied'[o] = << >>
    BY <2>2, ForgetLog DEF EmptyInv
  <2>3. CASE UNCHANGED <<board, member, applied, log>>
    BY <2>3 DEF EmptyInv
  <2>4. QED
    BY <2>1, <2>2, <2>3, StepCases DEF Remove, Reset
<1>2. ASSUME NEW c \in Callers, call'[c].pc \in {"swap", "record"}
      PROVE  call'[c].stored = NoMember => call'[c].ring = << >>
  <2>1. CASE call'[c] = call[c]
    BY <1>2, <2>1 DEF EmptyInv
  <2>2. ASSUME NEW r \in Requests, Deliver(c, r)
        PROVE  FALSE
    BY <1>2, <2>2 DEF Deliver, Reading, TypeOK
  <2>3. CASE Lose(c)
    BY <1>2, <2>3 DEF Lose, Reading, Return, Idle, TypeOK
  <2>4. CASE ReadOwner(c)
    <3> DEFINE r == call[c].req
               next == [pc |-> IF Changed(member[r.owner], r) THEN "swap" ELSE "record", req |-> r,
                        try |-> call[c].try, since |-> call[c].since, stored |-> member[r.owner],
                        ring |-> applied[r.owner]]
    <3>1. r.owner \in Owners
      BY <2>4, CallFields DEF ReadOwner
    <3>2. call'[c] = next
      BY <1>2, <2>4 DEF ReadOwner, Return, TypeOK, Idle
    <3>3. QED
      BY <3>1, <3>2 DEF EmptyInv
  <2>5. CASE call'[c] = Idle
    BY <1>2, <2>5 DEF Idle
  <2>6. QED
    BY <2>1, <2>2, <2>3, <2>4, <2>5, CallCases
<1>3. QED
  BY <1>1, <1>2 DEF EmptyInv

\* A write of a submit lists what it has read, and itself.
LEMMA WriteListed ==
  ASSUME RankType, ReadInv, LastInv, HonestInv, EmptyInv, ListedInv,
         NEW c \in Callers, Writes(c), NEW o \in Owners
  PROVE  Listed(log'[o], applied'[o], Len(log'[o]))
<1> USE DEF RankType
<1> DEFINE r == call[c].req
           l == log[r.owner]
           e == SwapEntry(l, r, NextScore(call[c].stored, r))
<1>1. /\ r \in Requests /\ r.owner \in Owners /\ e \in Entry
      /\ member[r.owner] = call[c].stored
      /\ log'[r.owner] = Append(l, e)
      /\ applied'[r.owner] = IF r.id = NoId THEN applied[r.owner]
                             ELSE Appended(call[c].ring, r.id)
      /\ o # r.owner => log'[o] = log[o] /\ applied'[o] = applied[o]
  BY WriteLog
<1>2. call[c].ring \in Rings /\ ~Contains(call[c].ring, r.id)
  BY CallFields DEF Writes, ReadInv
<1>3. /\ l \in Seq(Entry) /\ Honest(l) /\ Listed(l, applied[r.owner], Len(l))
      /\ Len(Append(l, e)) = Len(l) + 1
  BY <1>1, AppendedLog DEF LogType, ListedInv, HonestInv
<1>4. Listed(l, call[c].ring, Len(l))
  <2>1. ListedSome(l, call[c].stored, call[c].ring)
    BY DEF ListedInv, Writes
  <2>2. PICK n \in 0 .. Len(l) :
          call[c].stored = MemberAfter(l, n) /\ Listed(l, call[c].ring, n)
    BY <2>1 DEF ListedSome
  <2>3. MemberAfter(l, n) = MemberAfter(l, Len(l))
    BY <1>1, <2>2 DEF LastInv
  <2>4. call[c].ring = << >> \/ MemberAfter(l, n) # NoMember
    BY <2>2 DEF EmptyInv, Writes
  <2> HIDE DEF l
  <2>5. QED
    BY <1>3, <2>2, <2>3, <2>4, ListedStill
<1>5. /\ e.req = r /\ r # NoId
      /\ r.id # NoId => r.id \in Seq(Tokens)
  BY <1>1, RequestFields, RankAssumption DEF SwapEntry
<1> HIDE DEF l, e
<1>6. CASE o = r.owner
  <2>1. CASE r.id = NoId
    BY <1>1, <1>3, <1>5, <1>6, <2>1, ListedNext
  <2>2. CASE r.id # NoId
    BY <1>1, <1>2, <1>3, <1>4, <1>5, <1>6, <2>2, ListedWritten
  <2>3. QED
    BY <2>1, <2>2
<1>7. CASE o # r.owner
  BY <1>1, <1>7 DEF ListedInv
<1>8. QED
  BY <1>6, <1>7

LEMMA ListedStep ==
  ASSUME RankType, ReadInv, LastInv, HonestInv, EmptyInv, ListedInv, [Next]_vars
  PROVE  ListedInv'
<1> USE DEF RankType
<1>1. ASSUME NEW o \in Owners
      PROVE  Listed(log'[o], applied'[o], Len(log'[o]))
  <2>1. ASSUME NEW os \in SUBSET Owners, Forget(os)
        PROVE  Listed(log'[o], applied'[o], Len(log'[o]))
    <3>1. CASE o \in os
      <4>1. applied'[o] = << >>
        BY <2>1, <3>1, ForgetLog
      <4>2. QED
        BY <4>1 DEF Listed
    <3>2. CASE o \notin os
      BY <2>1, <3>2, ForgetLog DEF ListedInv
    <3>3. QED
      BY <3>1, <3>2
  <2>2. CASE UNCHANGED <<board, member, applied, log>>
    BY <2>2 DEF ListedInv
  <2>3. QED
    BY <2>1, <2>2, WriteListed, StepCases DEF Remove, Reset
<1>2. ASSUME NEW c \in Callers, call'[c].pc \in {"swap", "record"}
      PROVE  ListedSome(log'[call'[c].req.owner], call'[c].stored, call'[c].ring)
  <2>1. CASE call'[c] = call[c]
    <3> DEFINE at == call[c]
               o == at.req.owner
    <3>1. ListedSome(log[o], at.stored, at.ring) /\ o \in Owners
      BY <1>2, <2>1, CallFields DEF ListedInv
    <3>2. log[o] \in Seq(Entry)
      BY <3>1 DEF LogType
    <3> HIDE DEF o, at
    <3>3. ASSUME NEW e \in Entry
          PROVE  ListedSome(Append(log[o], e), at.stored, at.ring)
      <4>1. PICK n \in 0 .. Len(log[o]) :
              at.stored = MemberAfter(log[o], n) /\ Listed(log[o], at.ring, n)
        BY <3>1 DEF ListedSome
      <4>2. /\ n \in 0 .. Len(Append(log[o], e))
            /\ MemberAfter(Append(log[o], e), n) = MemberAfter(log[o], n)
        BY <3>2, AppendedLog
      <4>3. Listed(Append(log[o], e), at.ring, n)
        BY <3>2, <4>1, ListedPrefix
      <4>4. QED
        BY <4>1, <4>2, <4>3 DEF ListedSome
    <3>4. ListedSome(log'[o], at.stored, at.ring)
      BY <3>1, <3>3, Grows
    <3>5. QED
      BY <2>1, <3>4 DEF at, o
  <2>2. ASSUME NEW r \in Requests, Deliver(c, r)
        PROVE  FALSE
    BY <1>2, <2>2 DEF Deliver, Reading, TypeOK
  <2>3. CASE Lose(c)
    BY <1>2, <2>3 DEF Lose, Reading, Return, Idle, TypeOK
  <2>4. CASE ReadOwner(c)
    <3> DEFINE r == call[c].req
               next == [pc |-> IF Changed(member[r.owner], r) THEN "swap" ELSE "record", req |-> r,
                        try |-> call[c].try, since |-> call[c].since, stored |-> member[r.owner],
                        ring |-> applied[r.owner]]
    <3>1. r.owner \in Owners
      BY <2>4, CallFields DEF ReadOwner
    <3>2. call'[c] = next /\ log' = log
      BY <1>2, <2>4 DEF ReadOwner, Return, TypeOK, Idle
    <3>3. /\ member[r.owner] = MemberAfter(log[r.owner], Len(log[r.owner]))
          /\ Listed(log[r.owner], applied[r.owner], Len(log[r.owner]))
          /\ Len(log[r.owner]) \in 0 .. Len(log[r.owner])
      BY <3>1, LogLength DEF LastInv, ListedInv
    <3>4. QED
      BY <3>2, <3>3 DEF ListedSome
  <2>5. CASE call'[c] = Idle
    BY <1>2, <2>5 DEF Idle
  <2>6. QED
    BY <2>1, <2>2, <2>3, <2>4, <2>5, CallCases
<1>3. QED
  BY <1>1, <1>2 DEF ListedInv

-----------------------------------------------------------------------------
(* The theorems.                                                           *)

\* Everything that holds together, and is kept by every step.
RankInv ==
  /\ RankType /\ OwnerInv /\ ReadInv /\ BoardInv /\ TryInv /\ LastInv /\ ChangeInv
  /\ ContendedInv /\ CountInv /\ RingInv /\ OnceInv /\ HonestInv /\ EmptyInv /\ ListedInv

LEMMA RankInit == Init => RankInv
<1> SUFFICES ASSUME Init PROVE RankInv
  OBVIOUS
<1>1. RankType
  BY InitType
<1>2. \A o \in Owners : log[o] = << >> /\ Len(log[o]) = 0 /\ member[o] = NoMember
  BY EmptySeq DEF Init
<1>3. \A c \in Callers : call[c].pc = "idle" /\ call[c] = Idle
  BY DEF Init, Idle
<1>4. OwnerInv /\ ReadInv /\ TryInv
  BY <1>2, <1>3 DEF OwnerInv, ReadInv, TryInv
<1>5. BoardInv /\ LastInv /\ ChangeInv /\ ContendedInv
  BY <1>2 DEF Init, BoardInv, LastInv, ChangeInv, ContendedInv, MemberAfter
<1>6. RingInv /\ OnceInv /\ CountInv
  BY <1>2, <1>3 DEF RingInv, OnceInv, CountInv, Remembers, AddedOnce, Counts, Written
<1>7. HonestInv /\ EmptyInv /\ ListedInv
  <2>1. \A o \in Owners : applied[o] = << >> /\ Len(applied[o]) = 0
    BY EmptySeq DEF Init
  <2>2. QED
    BY <1>2, <1>3, <2>1 DEF HonestInv, Honest, EmptyInv, ListedInv, Listed
<1>8. QED
  BY <1>1, <1>4, <1>5, <1>6, <1>7 DEF RankInv

LEMMA RankStep ==
  ASSUME RankInv, [Next]_vars
  PROVE  RankInv'
<1> USE DEF RankInv
<1>1. RankType' /\ ReadInv' /\ TryInv'
  BY TypeStep, ReadStep, TryStep
<1>2. OwnerInv' /\ BoardInv' /\ LastInv' /\ ChangeInv'
  BY OwnerStep, BoardStep, LastStep, ChangeStep
<1>3. ContendedInv' /\ CountInv' /\ RingInv' /\ OnceInv'
  BY ContendedStep, CountStep, RingStep
<1>4. HonestInv' /\ EmptyInv' /\ ListedInv'
  BY HonestStep, EmptyStep, ListedStep
<1>5. QED
  BY <1>1, <1>2, <1>3, <1>4

LEMMA RankCorrect == Spec => []RankInv
BY RankInit, RankStep, PTL DEF Spec

\* The variables of Rank keep their types.
THEOREM RankTypeCorrect == Spec => []TypeOK
<1>1. RankInv => TypeOK
  BY DEF RankInv, RankType
<1>2. QED
  BY <1>1, RankCorrect, PTL

\* However submits, removals and resets overlap, the sorted set ranks the members the
\* hash has for the owners, each of them and nothing else.
THEOREM BoardAlwaysMatchesOwners == Spec => []BoardMatchesOwners
<1>1. RankInv => BoardMatchesOwners
  BY DEF RankInv, RankType, BoardInv, BoardMatchesOwners
<1>2. QED
  BY <1>1, RankCorrect, PTL

\* For integers of any width, the byte order of the encoded members ranks everybody as
\* Score promises.
THEOREM RankedAsPromisedAlways == Spec => []RankedAsPromised
<1>1. ASSUME TypeOK
      PROVE  RankedAsPromised
  <2>1. board \subseteq Member
    BY <1>1 DEF TypeOK
  <2>2. ASSUME NEW m \in board
        PROVE  RankOf(m) = 1 + Cardinality({n \in board : Before(n, m)})
    <3>1. {n \in board : Greater(n, m)} = {n \in board : Before(n, m)}
      BY <2>1, <2>2, ByteOrder
    <3>2. QED
      BY <3>1 DEF RankOf
  <2>3. QED
    BY <2>2 DEF RankedAsPromised
<1>2. QED
  BY <1>1, RankTypeCorrect, PTL

\* No change of a score is computed from one that others have changed since, and who
\* is told of a conflict was overtaken at every attempt.
THEOREM EachChangeBuildsOnTheLastAlways == Spec => []EachChangeBuildsOnTheLast
<1>1. RankInv => EachChangeBuildsOnTheLast
  BY DEF RankInv, ChangeInv, ContendedInv, GoodEntry, Builds, EachChangeBuildsOnTheLast
<1>2. QED
  BY <1>1, RankCorrect, PTL

\* However often a request that adds is delivered, it is added once for as long as
\* the ring, the owner and the comparison of members can promise it.
THEOREM AddedOnceAlways == Spec => []AddedOncePerWindow
<1>1. RankInv => AddedOncePerWindow
  BY DEF RankInv, OnceInv, AddedOnce, Adds, Removed, Since, AddedOncePerWindow
<1>2. QED
  BY <1>1, RankCorrect, PTL

\* Nothing is answered as applied already that was not: what a ring lists is of a
\* request applied since the last removal, unless the owner came back under a submit.
THEOREM ListedWereAppliedAlways == Spec => []ListedWereApplied
<1>1. RankInv => ListedWereApplied
  BY DEF RankInv, ListedInv, Listed, Names, Removed, Back, Revived, ListedWereApplied
<1>2. QED
  BY <1>1, RankCorrect, PTL

===============================================================================
