---------------------------- MODULE ProgressProofs ----------------------------
(***************************************************************************)
(* Proofs about Progress for all calls, requests, deltas, sizes of the     *)
(* ring and bounds.                                                        *)
(***************************************************************************)
EXTENDS Progress, SequenceTheorems, FiniteSetTheorems, TLAPS

-----------------------------------------------------------------------------
(* Types.                                                                  *)

Call == {Idle} \cup [pc: Steps, asked: Change]

\* The fields of a call, by where it is.
LEMMA CallFields ==
  ASSUME TypeOK, NEW c \in Calls
  PROVE  /\ call[c] \in Call
         /\ call[c] = Idle <=> call[c].pc = "idle"
         /\ call[c].pc # "idle" =>
              /\ call[c] \in [pc: Steps, asked: Change]
              /\ call[c].asked.req \in Requests /\ call[c].asked.delta \in Deltas
              /\ call[c].asked \in Change
BY DEF TypeOK, Call, Idle, Steps, Change

\* Sequences of at most as many requests as the ring holds.
LEMMA RingIsSeq ==
  ASSUME NEW q
  PROVE  q \in Ring <=> q \in Seq(Requests) /\ Len(q) <= Window
<1>1. Window \in Nat
  BY ProgressAssumption
<1>2. ASSUME q \in Ring
      PROVE  q \in Seq(Requests) /\ Len(q) <= Window
  <2>1. PICK n \in 0 .. Window : q \in [1 .. n -> Requests]
    BY <1>2 DEF Ring
  <2>2. QED
    BY <1>1, <2>1
<1>3. ASSUME q \in Seq(Requests), Len(q) <= Window
      PROVE  q \in Ring
  <2>1. Len(q) \in 0 .. Window /\ q \in [1 .. Len(q) -> Requests]
    BY <1>1, <1>3, LenProperties
  <2>2. QED
    BY <2>1 DEF Ring
<1>4. QED
  BY <1>2, <1>3

\* What a new request does to the ring: it comes last, and what was there stays in its
\* place, or moves up by one when the ring was full and its oldest goes.
LEMMA RememberedRing ==
  ASSUME ring \in Ring, NEW r \in Requests
  PROVE  /\ Remembered(r) \in Ring
         /\ Remembered(r)[Len(Remembered(r))] = r
         /\ \/ /\ Len(ring) < Window /\ Len(Remembered(r)) = Len(ring) + 1
               /\ \A p \in 1 .. Len(ring) : Remembered(r)[p] = ring[p]
            \/ /\ Len(ring) = Window /\ Len(Remembered(r)) = Window
               /\ \A p \in 1 .. Window - 1 : Remembered(r)[p] = ring[p + 1]
<1>1. /\ ring \in Seq(Requests) /\ Len(ring) <= Window /\ Len(ring) \in Nat
      /\ Window \in Nat \ {0}
  BY RingIsSeq, ProgressAssumption, LenProperties
<1>2. CASE Len(ring) < Window
  <2>1. Remembered(r) = Append(ring, r)
    BY <1>2 DEF Remembered
  <2>2. /\ Append(ring, r) \in Seq(Requests) /\ Len(Append(ring, r)) = Len(ring) + 1
        /\ Append(ring, r)[Len(ring) + 1] = r
        /\ \A p \in 1 .. Len(ring) : Append(ring, r)[p] = ring[p]
    BY <1>1, AppendProperties
  <2>3. Append(ring, r) \in Ring
    <3>1. Append(ring, r) \in Seq(Requests) /\ Len(Append(ring, r)) <= Window
      BY <1>1, <1>2, <2>2
    <3>2. QED
      BY <3>1, RingIsSeq
  <2>4. QED
    BY <1>2, <2>1, <2>2, <2>3
<1>3. CASE Len(ring) = Window
  <2> DEFINE t == Tail(ring)
  <2>1. Remembered(r) = Append(t, r)
    BY <1>1, <1>3 DEF Remembered
  <2>2. ring # << >>
    BY <1>1, <1>3
  <2>3. /\ t \in Seq(Requests) /\ Len(t) = Window - 1
        /\ \A p \in 1 .. Len(t) : t[p] = ring[p + 1]
    BY <1>1, <1>3, <2>2, HeadTailProperties
  <2> HIDE DEF t
  <2>4. /\ Append(t, r) \in Seq(Requests) /\ Len(Append(t, r)) = Len(t) + 1
        /\ Append(t, r)[Len(t) + 1] = r
        /\ \A p \in 1 .. Len(t) : Append(t, r)[p] = t[p]
    BY <2>3, AppendProperties
  <2>5. Len(Append(t, r)) = Window
    BY <1>1, <2>3, <2>4
  <2>6. Append(t, r) \in Ring
    <3>1. Append(t, r) \in Seq(Requests) /\ Len(Append(t, r)) <= Window
      BY <1>1, <2>4, <2>5
    <3>2. QED
      BY <3>1, RingIsSeq
  <2>7. QED
    BY <1>1, <1>3, <2>1, <2>3, <2>4, <2>5, <2>6
<1>4. QED
  BY <1>1, <1>2, <1>3

LEMMA InitTypeOK == Init => TypeOK
<1> SUFFICES ASSUME Init PROVE TypeOK
  OBVIOUS
<1>1. << >> \in Ring
  <2>1. << >> \in Seq(Requests) /\ Len(<< >>) = 0 /\ 0 <= Window
    BY EmptySeq, ProgressAssumption
  <2>2. QED
    BY <2>1, RingIsSeq
<1>2. 0 \in 0 .. MaxCalls /\ << >> \in Seq(Change)
  BY ProgressAssumption, EmptySeq
<1>3. QED
  BY <1>1, <1>2 DEF Init, TypeOK

\* Where a call goes next, and where it ends, are its type.
LEMMA MoveType ==
  ASSUME TypeOK, NEW c \in Calls
  PROVE  /\ Leave(c) => call' \in [Calls -> Call]
         /\ call[c].pc # "idle" => \A step \in Steps : Go(c, step) => call' \in [Calls -> Call]
<1>1. call \in [Calls -> Call]
  BY DEF TypeOK, Call
<1>2. Leave(c) => call' \in [Calls -> Call]
  BY <1>1 DEF Leave, Call
<1>3. ASSUME call[c].pc # "idle", NEW step \in Steps, Go(c, step)
      PROVE  call' \in [Calls -> Call]
  <2>1. [call[c] EXCEPT !.pc = step] \in Call
    BY <1>3, CallFields DEF Call
  <2>2. call' = [call EXCEPT ![c] = [call[c] EXCEPT !.pc = step]]
    BY <1>3 DEF Go
  <2>3. QED
    BY <1>1, <2>1, <2>2
<1>4. QED
  BY <1>2, <1>3

\* The steps of a call keep the types.
LEMMA CallStepTypeOK ==
  ASSUME TypeOK, NEW c \in Calls, CallStep(c)
  PROVE  TypeOK'
<1> USE DEF Call
<1>1. CASE Start(c)
  <2>1. PICK asked \in Change : call' = [call EXCEPT ![c] = [pc |-> "look", asked |-> asked]]
    BY <1>1 DEF Start
  <2>2. [pc |-> "look", asked |-> asked] \in Call
    BY <2>1 DEF Steps
  <2>3. calls' \in 0 .. MaxCalls
    BY <1>1, ProgressAssumption DEF Start, TypeOK
  <2>4. QED
    BY <1>1, <2>1, <2>2, <2>3 DEF Start, TypeOK, histories
<1>2. CASE Look(c)
  BY <1>2, MoveType DEF Look, TypeOK, histories, Steps
<1>3. CASE Reserve(c)
  <2>1. call[c].asked.req \in Requests /\ call[c].asked.delta \in Deltas
    BY <1>3, CallFields DEF Reserve
  <2>2. call' \in [Calls -> Call]
    BY <1>3, MoveType DEF Reserve, Steps
  <2>3. [delta |-> call[c].asked.delta, state |-> "reserved"] \in Entry
    BY <2>1 DEF Entry
  <2>4. ledger' \in [Requests -> Entry \cup {NoEntry}]
    BY <1>3, <2>1, <2>3 DEF Reserve, TypeOK
  <2>5. QED
    BY <1>3, <2>2, <2>4 DEF Reserve, TypeOK, histories
<1>4. CASE Inspect(c)
  <2>1. call' \in [Calls -> Call] /\ call[c].asked \in Change
    BY <1>4, MoveType, CallFields DEF Inspect, Steps
  <2>2. QED
    BY <1>4, <2>1 DEF Inspect, TypeOK
<1>5. CASE Apply(c)
  <2>1. call[c].asked \in Change /\ call[c].asked.req \in Requests
    BY <1>5, CallFields DEF Apply
  <2>2. call' \in [Calls -> Call]
    BY <1>5, MoveType DEF Apply, Steps
  <2>3. Remembered(call[c].asked.req) \in Ring
    BY <2>1, RememberedRing DEF TypeOK
  <2>4. Append(counted, call[c].asked) \in Seq(Change)
    BY <2>1, AppendProperties DEF TypeOK
  <2>5. ring' \in Ring /\ counted' \in Seq(Change) /\ late' \in Nat
    BY <1>5, <2>3, <2>4 DEF Apply, TypeOK
  <2>6. QED
    BY <1>5, <2>2, <2>5 DEF Apply, TypeOK
<1>6. CASE Mark(c)
  <2>1. call[c].asked \in Change /\ call[c].asked.req \in Requests
    BY <1>6, CallFields DEF Mark
  <2>2. call' \in [Calls -> Call]
    BY <1>6, MoveType DEF Mark
  <2>3. \A e \in Entry : [e EXCEPT !.state = "applied"] \in Entry
    BY DEF Entry
  <2>4. ledger' \in [Requests -> Entry \cup {NoEntry}]
    BY <1>6, <2>1, <2>3 DEF Mark, TypeOK
  <2>5. QED
    BY <1>6, <2>1, <2>2, <2>4 DEF Mark, TypeOK
<1>7. CASE Stop(c)
  BY <1>7, MoveType DEF Stop, TypeOK, histories
<1>8. QED
  BY <1>1, <1>2, <1>3, <1>4, <1>5, <1>6, <1>7 DEF CallStep

LEMMA StepTypeOK ==
  ASSUME TypeOK, [Next]_vars
  PROVE  TypeOK'
<1>1. ASSUME NEW c \in Calls, CallStep(c)
      PROVE  TypeOK'
  BY <1>1, CallStepTypeOK
<1>2. CASE Open
  BY <1>2 DEF Open, TypeOK, histories
<1>3. CASE Complete
  <2>1. Cardinality({c \in Calls : call[c] # Idle /\ call[c].pc # "look"}) \in Nat
    BY FS_Subset, FS_CardinalityType, ProgressAssumption
  <2>2. QED
    BY <1>3, <2>1 DEF Complete, TypeOK
<1>4. ASSUME NEW r \in Requests, Expire(r)
      PROVE  TypeOK'
  BY <1>4 DEF Expire, TypeOK
<1>5. CASE UNCHANGED vars
  BY <1>5 DEF vars, histories, TypeOK
<1>6. QED
  BY <1>1, <1>2, <1>3, <1>4, <1>5 DEF Next

-----------------------------------------------------------------------------
(* The ring, and what was counted.                                         *)

\* The ring is the end of what was counted, as long as it may be.
RingInv ==
  /\ Len(ring) <= Len(counted)
  /\ Len(ring) = Window \/ Len(ring) = Len(counted)
  /\ \A p \in 1 .. Len(ring) : ring[p] = counted[Len(counted) - Len(ring) + p].req

OnceInv ==
  \A i, j \in 1 .. Len(counted) :
    i < j /\ counted[i].req = counted[j].req => j - i > Window

\* The lengths of both, and what an entry added at the end leaves as it was.
LEMMA CountedAppend ==
  ASSUME TypeOK, NEW asked \in Change
  PROVE  /\ Len(counted) \in Nat /\ Len(ring) \in Nat /\ Window \in Nat \ {0}
         /\ Len(Append(counted, asked)) = Len(counted) + 1
         /\ \A i \in 1 .. Len(counted) : Append(counted, asked)[i] = counted[i]
         /\ Append(counted, asked)[Len(counted) + 1] = asked
<1>1. counted \in Seq(Change) /\ ring \in Seq(Requests)
  BY RingIsSeq DEF TypeOK
<1>2. QED
  BY <1>1, AppendProperties, LenProperties, ProgressAssumption

\* Only Apply counts, and only it changes the ring.
LEMMA CountCases ==
  ASSUME [Next]_vars
  PROVE  \/ \E c \in Calls : Apply(c)
         \/ UNCHANGED <<ring, counted, late>>
BY DEF Next, CallStep, Start, Look, Reserve, Inspect, Mark, Stop, Open, Complete, Expire,
   vars, histories

\* A count that the ring does not refuse: the ring is the end of what was counted
\* again, and a request it does not list was counted long ago, if at all.
LEMMA CountOnce ==
  ASSUME TypeOK, RingInv, OnceInv, NEW asked \in Change, ~Applied(asked.req),
         ring' = Remembered(asked.req), counted' = Append(counted, asked)
  PROVE  RingInv' /\ OnceInv'
<1> DEFINE n == Len(counted)
           k == Len(ring)
<1>1. /\ n \in Nat /\ k \in Nat /\ Window \in Nat \ {0} /\ k <= n /\ (k = Window \/ k = n)
      /\ Len(counted') = n + 1
      /\ \A i \in 1 .. n : counted'[i] = counted[i]
      /\ counted'[n + 1] = asked
      /\ \A p \in 1 .. k : ring[p] = counted[n - k + p].req
  BY CountedAppend DEF RingInv
<1>2. /\ ring'[Len(ring')] = asked.req
      /\ \/ k < Window /\ Len(ring') = k + 1 /\ \A p \in 1 .. k : ring'[p] = ring[p]
         \/ /\ k = Window /\ Len(ring') = Window
            /\ \A p \in 1 .. Window - 1 : ring'[p] = ring[p + 1]
  <2>1. asked.req \in Requests
    BY DEF Change
  <2>2. QED
    BY <2>1, RememberedRing DEF TypeOK
<1> HIDE DEF n, k
<1>3. RingInv'
  <2>1. CASE k < Window /\ Len(ring') = k + 1 /\ \A p \in 1 .. k : ring'[p] = ring[p]
    <3>1. k = n
      BY <1>1, <2>1
    <3>2. \A p \in 1 .. k : ring'[p] = counted'[p].req
      <4>1. \A p \in 1 .. k : n - k + p = p /\ p \in 1 .. n
        BY <1>1, <3>1
      <4>2. QED
        BY <1>1, <2>1, <4>1
    <3>3. ring'[k + 1] = counted'[k + 1].req
      BY <1>1, <1>2, <2>1, <3>1
    <3>4. \A p \in 1 .. Len(ring') :
            (p \in 1 .. k \/ p = k + 1) /\ Len(counted') - Len(ring') + p = p
      BY <1>1, <2>1, <3>1
    <3>5. \A p \in 1 .. Len(ring') :
            ring'[p] = counted'[Len(counted') - Len(ring') + p].req
      BY <3>2, <3>3, <3>4
    <3>6. QED
      BY <1>1, <2>1, <3>1, <3>5 DEF RingInv
  <2>2. CASE /\ k = Window /\ Len(ring') = Window
             /\ \A p \in 1 .. Window - 1 : ring'[p] = ring[p + 1]
    <3>1. ASSUME NEW p \in 1 .. Window - 1
          PROVE  ring'[p] = counted'[Len(counted') - Len(ring') + p].req
      <4>1. /\ p + 1 \in 1 .. k /\ n - k + (p + 1) \in 1 .. n
            /\ Len(counted') - Len(ring') + p = n - k + (p + 1)
        BY <1>1, <2>2
      <4>2. ring'[p] = ring[p + 1] /\ ring[p + 1] = counted[n - k + (p + 1)].req
        BY <1>1, <2>2, <4>1
      <4>3. counted'[n - k + (p + 1)] = counted[n - k + (p + 1)]
        BY <1>1, <4>1
      <4>4. QED
        BY <4>1, <4>2, <4>3
    <3>2. Len(counted') - Len(ring') + Window = n + 1
      BY <1>1, <2>2
    <3>3. ring'[Window] = counted'[Len(counted') - Len(ring') + Window].req
      BY <1>1, <1>2, <2>2, <3>2
    <3>4. \A p \in 1 .. Window : p \in 1 .. Window - 1 \/ p = Window
      BY <1>1
    <3>5. \A p \in 1 .. Len(ring') :
            ring'[p] = counted'[Len(counted') - Len(ring') + p].req
      BY <2>2, <3>1, <3>3, <3>4
    <3>6. Len(ring') <= Len(counted')
      BY <1>1, <2>2
    <3>7. QED
      BY <2>2, <3>5, <3>6 DEF RingInv
  <2>3. QED
    BY <1>2, <2>1, <2>2
<1>4. ASSUME NEW i \in 1 .. n, counted[i].req = asked.req
      PROVE  n + 1 - i > Window
  <2>1. CASE i > n - k
    <3> DEFINE p == i - (n - k)
    <3>1. p \in 1 .. k /\ n - k + p = i
      BY <1>1, <2>1
    <3>2. ring[p] = asked.req
      BY <1>1, <1>4, <3>1
    <3>3. QED
      BY <3>1, <3>2 DEF Applied, k
  <2>2. CASE ~(i > n - k)
    BY <1>1, <2>2
  <2>3. QED
    BY <2>1, <2>2
<1>5. ASSUME NEW i \in 1 .. n + 1, NEW j \in 1 .. n + 1, i < j,
             counted'[i].req = counted'[j].req
      PROVE  j - i > Window
  <2>1. i \in 1 .. n /\ (j \in 1 .. n \/ j = n + 1)
    BY <1>1, <1>5
  <2>2. CASE j \in 1 .. n
    BY <1>1, <1>5, <2>1, <2>2 DEF OnceInv, n
  <2>3. CASE j = n + 1
    BY <1>1, <1>4, <1>5, <2>1, <2>3
  <2>4. QED
    BY <2>1, <2>2, <2>3
<1>6. OnceInv'
  BY <1>1, <1>5 DEF OnceInv
<1>7. QED
  BY <1>3, <1>6

LEMMA OnceStep ==
  ASSUME TypeOK, RingInv, OnceInv, [Next]_vars
  PROVE  RingInv' /\ OnceInv'
<1>1. ASSUME NEW c \in Calls, Apply(c)
      PROVE  RingInv' /\ OnceInv'
  <2>1. call[c].asked \in Change
    BY <1>1, CallFields DEF Apply
  <2>2. CASE Applied(call[c].asked.req)
    <3>1. ring' = ring /\ counted' = counted
      BY <1>1, <2>2 DEF Apply
    <3>2. QED
      BY <3>1 DEF RingInv, OnceInv
  <2>3. CASE ~Applied(call[c].asked.req)
    <3>1. ring' = Remembered(call[c].asked.req) /\ counted' = Append(counted, call[c].asked)
      BY <1>1, <2>3 DEF Apply
    <3>2. QED
      BY <2>1, <2>3, <3>1, CountOnce
  <2>4. QED
    BY <2>2, <2>3
<1>2. CASE UNCHANGED <<ring, counted, late>>
  BY <1>2 DEF RingInv, OnceInv
<1>3. QED
  BY <1>1, <1>2, CountCases

\* The types, the ring and the counts hold together.
LEMMA RingCorrect == Spec => [](TypeOK /\ RingInv /\ OnceInv)
<1>1. Init => TypeOK /\ RingInv /\ OnceInv
  <2>1. Init => RingInv /\ OnceInv
    BY EmptySeq DEF Init, RingInv, OnceInv
  <2>2. QED
    BY <2>1, InitTypeOK
<1>2. TypeOK /\ RingInv /\ OnceInv /\ [Next]_vars => TypeOK' /\ RingInv' /\ OnceInv'
  BY StepTypeOK, OnceStep
<1>3. QED
  BY <1>1, <1>2, PTL DEF Spec

\* For any ring: a request is counted again only when as many others as the ring holds
\* were counted since.
THEOREM CountedOnceAlways == Spec => []CountedOncePerWindow
<1>1. TypeOK /\ OnceInv => CountedOncePerWindow
  BY DEF OnceInv, CountedOncePerWindow
<1>2. QED
  BY <1>1, RingCorrect, PTL

-----------------------------------------------------------------------------
(* Reservations.                                                           *)

\* A reservation made for this change, whether it was applied or not.
Reserved(l, a) == l[a.req] # NoEntry /\ l[a.req].delta = a.delta

WasCounted(s, r) == \E i \in 1 .. Len(s) : s[i].req = r

\* As long as no reservation of a request was dropped, everything counted for it, and
\* about to be counted, is what it was reserved for.
ReservedInv ==
  /\ \A i \in 1 .. Len(counted) : counted[i].req \notin expired => Reserved(ledger, counted[i])
  /\ \A c \in Calls : call[c].pc \in {"apply", "mark"} /\ call[c].asked.req \notin expired
       => Reserved(ledger, call[c].asked)

\* Whatever is marked, marked already, or answered was counted.
MarkedInv ==
  /\ \A c \in Calls : call[c].pc = "mark" => WasCounted(counted, call[c].asked.req)
  /\ \A r \in Requests :
       ledger[r] # NoEntry /\ ledger[r].state = "applied" => WasCounted(counted, r)
  /\ \A a \in answered :
       a.req \notin expired => \E i \in 1 .. Len(counted) : counted[i] = a

\* What was counted for a reserved request is the change it was reserved for.
LEMMA CountedWhole ==
  ASSUME TypeOK, ReservedInv, NEW a \in Change, a.req \notin expired, Reserved(ledger, a),
         WasCounted(counted, a.req)
  PROVE  \E i \in 1 .. Len(counted) : counted[i] = a
<1>1. PICK i \in 1 .. Len(counted) : counted[i].req = a.req
  BY DEF WasCounted
<1>2. counted[i] \in Change
  BY <1>1, ElementOfSeq DEF TypeOK
<1>3. Reserved(ledger, counted[i])
  BY <1>1 DEF ReservedInv
<1>4. counted[i].delta = a.delta
  BY <1>1, <1>3 DEF Reserved
<1>5. counted[i] = a
  BY <1>1, <1>2, <1>4 DEF Change
<1>6. QED
  BY <1>5

\* What has been counted stays counted.
LEMMA CountsStay ==
  ASSUME TypeOK, [Next]_vars
  PROVE  /\ \A r : WasCounted(counted, r) => WasCounted(counted', r)
         /\ \A a : (\E i \in 1 .. Len(counted) : counted[i] = a)
                     => (\E i \in 1 .. Len(counted') : counted'[i] = a)
<1>1. ASSUME NEW c \in Calls, Apply(c)
      PROVE  \A i \in 1 .. Len(counted) : i \in 1 .. Len(counted') /\ counted'[i] = counted[i]
  <2>1. call[c].asked \in Change
    BY <1>1, CallFields DEF Apply
  <2>2. counted' = counted \/ counted' = Append(counted, call[c].asked)
    BY <1>1 DEF Apply
  <2>3. CASE counted' = Append(counted, call[c].asked)
    <3>1. /\ Len(counted) \in Nat /\ Len(counted') = Len(counted) + 1
          /\ \A i \in 1 .. Len(counted) : counted'[i] = counted[i]
      BY <2>1, <2>3, CountedAppend
    <3>2. QED
      BY <3>1
  <2>4. QED
    BY <2>2, <2>3
<1>2. CASE UNCHANGED <<ring, counted, late>>
  BY <1>2 DEF WasCounted
<1>3. QED
  BY <1>1, <1>2, CountCases DEF WasCounted

\* An entry of the ledger that stays, or was there when a call marked it.
LEMMA LedgerCases ==
  ASSUME TypeOK, [Next]_vars, NEW r \in Requests
  PROVE  \/ ledger'[r] = ledger[r]
         \/ /\ ledger[r] = NoEntry
            /\ \E c \in Calls : /\ Reserve(c) /\ call[c].asked.req = r
                                /\ ledger'[r] = [delta |-> call[c].asked.delta, state |-> "reserved"]
         \/ /\ ledger[r] # NoEntry /\ ledger'[r] = [ledger[r] EXCEPT !.state = "applied"]
            /\ \E c \in Calls : Mark(c) /\ call[c].asked.req = r
         \/ ledger'[r] = NoEntry /\ r \in expired'
<1>1. ASSUME NEW c \in Calls, Reserve(c), ledger'[r] # ledger[r]
      PROVE  /\ ledger[r] = NoEntry /\ call[c].asked.req = r
             /\ ledger'[r] = [delta |-> call[c].asked.delta, state |-> "reserved"]
  BY <1>1, CallFields DEF Reserve, TypeOK
<1>2. ASSUME NEW c \in Calls, Mark(c), ledger'[r] # ledger[r]
      PROVE  /\ ledger[r] # NoEntry /\ ledger'[r] = [ledger[r] EXCEPT !.state = "applied"]
             /\ call[c].asked.req = r
  BY <1>2, CallFields DEF Mark, TypeOK
<1>3. ASSUME NEW x \in Requests, Expire(x), ledger'[r] # ledger[r]
      PROVE  ledger'[r] = NoEntry /\ r \in expired'
  BY <1>3 DEF Expire, TypeOK
<1>4. ASSUME NEW c \in Calls,
             Start(c) \/ Look(c) \/ Inspect(c) \/ Apply(c) \/ Stop(c)
      PROVE  ledger' = ledger
  BY <1>4 DEF Start, Look, Inspect, Apply, Stop
<1>5. Open \/ Complete \/ UNCHANGED vars => ledger' = ledger
  BY DEF Open, Complete, vars
<1>6. QED
  BY <1>1, <1>2, <1>3, <1>4, <1>5 DEF Next, CallStep

\* A request is dropped once; what was not dropped had not been before.
LEMMA ExpiredStays ==
  ASSUME [Next]_vars
  PROVE  expired \subseteq expired'
BY DEF Next, CallStep, Start, Look, Reserve, Inspect, Apply, Mark, Stop, Open, Complete, Expire,
   vars, histories

\* A reservation that is kept stays a reservation of the same change.
LEMMA ReservedStays ==
  ASSUME TypeOK, [Next]_vars, NEW a \in Change, Reserved(ledger, a), a.req \notin expired'
  PROVE  Reserved(ledger', a)
<1>1. a.req \in Requests /\ ledger[a.req] \in Entry /\ ledger[a.req] # NoEntry
  BY DEF TypeOK, Change, Reserved
<1>2. CASE ledger'[a.req] = ledger[a.req]
  BY <1>2 DEF Reserved
<1>3. CASE ledger'[a.req] = [ledger[a.req] EXCEPT !.state = "applied"]
  <2>1. ledger'[a.req] \in Entry /\ ledger'[a.req].delta = ledger[a.req].delta
    BY <1>1, <1>3 DEF Entry
  <2>2. QED
    BY <2>1, ProgressAssumption DEF Reserved
<1>4. QED
  BY <1>1, <1>2, <1>3, LedgerCases

\* How a call comes to where it has a reservation to act on.
LEMMA ActingCases ==
  ASSUME TypeOK, [Next]_vars, NEW c \in Calls, call'[c].pc \in {"apply", "mark"}
  PROVE  \/ call'[c] = call[c]
         \/ /\ call[c].pc # "idle" /\ call'[c].asked = call[c].asked
            /\ \/ Reserve(c) /\ call'[c].pc = "apply"
               \/ Inspect(c) /\ call'[c].pc = "apply"
               \/ Apply(c) /\ call'[c].pc = "mark"
<1>1. ASSUME NEW d \in Calls \ {c}, CallStep(d)
      PROVE  call'[c] = call[c]
  BY <1>1 DEF CallStep, Start, Look, Reserve, Inspect, Apply, Mark, Stop, Go, Leave, TypeOK
<1>2. ASSUME Start(c) \/ Look(c) \/ Mark(c) \/ Stop(c)
      PROVE  FALSE
  <2>1. call'[c].pc \in {"look", "reserve", "idle"}
    BY <1>2, CallFields DEF Start, Look, Mark, Stop, Go, Leave, Idle, TypeOK
  <2>2. QED
    BY <2>1
<1>3. ASSUME Reserve(c) \/ Inspect(c) \/ Apply(c)
      PROVE  /\ call[c].pc # "idle" /\ call'[c].asked = call[c].asked
             /\ \/ Reserve(c) /\ call'[c].pc = "apply"
                \/ Inspect(c) /\ call'[c].pc = "apply"
                \/ Apply(c) /\ call'[c].pc = "mark"
  <2>1. call[c].pc # "idle" /\ call[c] \in [pc: Steps, asked: Change]
    BY <1>3, CallFields DEF Reserve, Inspect, Apply
  <2>2. CASE Reserve(c)
    BY <2>1, <2>2 DEF Reserve, Go, Leave, Idle, TypeOK
  <2>3. CASE Inspect(c)
    BY <2>1, <2>3 DEF Inspect, Go, Leave, Idle, TypeOK
  <2>4. CASE Apply(c)
    BY <2>1, <2>4 DEF Apply, Go, Leave, Idle, TypeOK
  <2>5. QED
    BY <1>3, <2>2, <2>3, <2>4
<1>4. ASSUME Open \/ Complete \/ (\E r \in Requests : Expire(r)) \/ UNCHANGED vars
      PROVE  call'[c] = call[c]
  BY <1>4 DEF Open, Complete, Expire, vars
<1>5. QED
  BY <1>1, <1>2, <1>3, <1>4 DEF Next, CallStep

LEMMA ReservedStep ==
  ASSUME TypeOK, ReservedInv, [Next]_vars
  PROVE  ReservedInv'
<1>1. ASSUME NEW i \in 1 .. Len(counted'), counted'[i].req \notin expired'
      PROVE  Reserved(ledger', counted'[i])
  <2>1. ASSUME i \in 1 .. Len(counted), counted'[i] = counted[i]
        PROVE  Reserved(ledger', counted'[i])
    <3>1. counted[i].req \notin expired /\ counted[i] \in Change
      BY <1>1, <2>1, ExpiredStays, ElementOfSeq DEF TypeOK
    <3>2. Reserved(ledger', counted[i])
      BY <1>1, <2>1, <3>1, ReservedStays DEF ReservedInv
    <3>3. QED
      BY <2>1, <3>2 DEF Reserved
  <2>2. ASSUME NEW c \in Calls, Apply(c)
        PROVE  Reserved(ledger', counted'[i])
    <3> DEFINE asked == call[c].asked
    <3>1. asked \in Change /\ expired' = expired /\ ledger' = ledger
      BY <2>2, CallFields DEF Apply
    <3>2. counted' = counted \/ counted' = Append(counted, asked)
      BY <2>2 DEF Apply
    <3>3. CASE counted' = counted
      BY <1>1, <2>1, <3>3
    <3>4. CASE counted' = Append(counted, asked)
      <4>1. /\ Len(counted) \in Nat /\ Len(counted') = Len(counted) + 1
            /\ \A j \in 1 .. Len(counted) : counted'[j] = counted[j]
            /\ counted'[Len(counted) + 1] = asked
        BY <3>1, <3>4, CountedAppend
      <4>2. CASE i \in 1 .. Len(counted)
        BY <2>1, <4>1, <4>2
      <4>3. CASE i = Len(counted) + 1
        <5>1. counted'[i] = asked
          BY <4>1, <4>3
        <5>2. Reserved(ledger, asked)
          BY <1>1, <2>2, <3>1, <5>1 DEF ReservedInv, Apply
        <5>3. QED
          BY <3>1, <5>1, <5>2 DEF Reserved
      <4>4. QED
        BY <4>1, <4>2, <4>3
    <3>5. QED
      BY <3>2, <3>3, <3>4
  <2>3. CASE UNCHANGED <<ring, counted, late>>
    BY <1>1, <2>1, <2>3
  <2>4. QED
    BY <2>2, <2>3, CountCases
<1>2. ASSUME NEW c \in Calls, call'[c].pc \in {"apply", "mark"},
             call'[c].asked.req \notin expired'
      PROVE  Reserved(ledger', call'[c].asked)
  <2> DEFINE asked == call[c].asked
  <2>1. CASE call'[c] = call[c]
    <3>1. asked \in Change /\ asked.req \notin expired'
      BY <1>2, <2>1, CallFields
    <3>2. Reserved(ledger, asked)
      BY <1>2, <2>1, ExpiredStays DEF ReservedInv
    <3>3. Reserved(ledger', asked)
      <4> HIDE DEF asked
      <4>1. QED
        BY <3>1, <3>2, ReservedStays DEF Reserved
    <3>4. QED
      BY <2>1, <3>3 DEF Reserved
  <2>2. ASSUME Reserve(c), call'[c].pc = "apply", call'[c].asked = asked, call[c].pc # "idle"
        PROVE  Reserved(ledger', call'[c].asked)
    <3>1. asked.req \in Requests /\ asked.delta \in Deltas
      BY <2>2, CallFields
    <3>2. ledger'[asked.req] = [delta |-> asked.delta, state |-> "reserved"]
      BY <2>2, <3>1, CallFields DEF Reserve, Go, TypeOK
    <3>3. ledger'[asked.req] \in Entry
      BY <3>1, <3>2 DEF Entry
    <3>4. QED
      BY <2>2, <3>2, <3>3, ProgressAssumption DEF Reserved
  <2>3. ASSUME Inspect(c), call'[c].pc = "apply", call'[c].asked = asked, call[c].pc # "idle"
        PROVE  Reserved(ledger', call'[c].asked)
    <3>1. ledger' = ledger /\ ledger[asked.req] # NoEntry /\ ledger[asked.req].delta = asked.delta
      BY <2>3 DEF Inspect, Leave, Idle, TypeOK
    <3>2. QED
      BY <2>3, <3>1 DEF Reserved
  <2>4. ASSUME Apply(c), call'[c].pc = "mark", call'[c].asked = asked, call[c].pc # "idle"
        PROVE  Reserved(ledger', call'[c].asked)
    <3>1. ledger' = ledger /\ expired' = expired /\ call[c].pc = "apply"
      BY <2>4 DEF Apply
    <3>2. Reserved(ledger, asked)
      BY <1>2, <2>4, <3>1 DEF ReservedInv
    <3>3. QED
      BY <2>4, <3>1, <3>2 DEF Reserved
  <2>5. QED
    BY <1>2, <2>1, <2>2, <2>3, <2>4, ActingCases
<1>3. QED
  BY <1>1, <1>2 DEF ReservedInv, Reserved

\* When a call has counted, or found that the ring lists its request, it was counted.
LEMMA ApplyCounts ==
  ASSUME TypeOK, RingInv, NEW c \in Calls, Apply(c)
  PROVE  WasCounted(counted', call[c].asked.req)
<1> DEFINE asked == call[c].asked
<1>1. asked \in Change
  BY CallFields DEF Apply
<1>2. /\ Len(counted) \in Nat /\ Len(ring) \in Nat /\ Len(ring) <= Len(counted)
      /\ \A p \in 1 .. Len(ring) : ring[p] = counted[Len(counted) - Len(ring) + p].req
  BY <1>1, CountedAppend DEF RingInv
<1>3. call'[c].asked = asked
  BY CallFields DEF Apply, Go, TypeOK
<1>4. CASE Applied(asked.req)
  <2>1. PICK p \in 1 .. Len(ring) : ring[p] = asked.req
    BY <1>4 DEF Applied
  <2>2. Len(counted) - Len(ring) + p \in 1 .. Len(counted)
    BY <1>2, <2>1
  <2>3. \E i \in 1 .. Len(counted) : counted[i].req = asked.req
    BY <1>2, <2>1, <2>2
  <2>4. counted' = counted
    BY <1>4 DEF Apply
  <2>5. QED
    BY <1>3, <2>3, <2>4 DEF WasCounted
<1>5. CASE ~Applied(asked.req)
  <2>1. counted' = Append(counted, asked)
    BY <1>5 DEF Apply
  <2>2. Len(counted') = Len(counted) + 1 /\ counted'[Len(counted) + 1] = asked
    BY <1>1, <2>1, CountedAppend
  <2>3. QED
    BY <1>2, <1>3, <2>2 DEF WasCounted
<1>6. QED
  BY <1>4, <1>5

LEMMA MarkedStep ==
  ASSUME TypeOK, RingInv, ReservedInv, MarkedInv, [Next]_vars
  PROVE  MarkedInv'
<1>1. ASSUME NEW c \in Calls, call'[c].pc = "mark"
      PROVE  WasCounted(counted', call'[c].asked.req)
  <2>1. CASE call'[c] = call[c]
    <3>1. WasCounted(counted, call[c].asked.req)
      BY <1>1, <2>1 DEF MarkedInv
    <3>2. \A r : WasCounted(counted, r) => \E i \in 1 .. Len(counted') : counted'[i].req = r
      BY CountsStay DEF WasCounted
    <3>3. QED
      BY <2>1, <3>1, <3>2 DEF WasCounted
  <2>2. ASSUME Apply(c), call'[c].asked = call[c].asked
        PROVE  WasCounted(counted', call'[c].asked.req)
    BY <2>2, ApplyCounts DEF WasCounted
  <2>3. QED
    BY <1>1, <2>1, <2>2, ActingCases
<1>2. ASSUME NEW r \in Requests, ledger'[r] # NoEntry, ledger'[r].state = "applied"
      PROVE  WasCounted(counted', r)
  <2>1. ASSUME WasCounted(counted, r)
        PROVE  WasCounted(counted', r)
    BY <2>1, CountsStay
  <2>2. CASE ledger'[r] = ledger[r]
    BY <1>2, <2>1, <2>2 DEF MarkedInv
  <2>3. ASSUME NEW c \in Calls, Mark(c), call[c].asked.req = r
        PROVE  WasCounted(counted, r)
    BY <2>3 DEF MarkedInv, Mark
  <2>4. ASSUME NEW d, ledger'[r] = [delta |-> d, state |-> "reserved"]
        PROVE  FALSE
    BY <1>2, <2>4
  <2>5. CASE \E c \in Calls : Mark(c) /\ call[c].asked.req = r
    BY <2>1, <2>3, <2>5
  <2>6. CASE \E d : ledger'[r] = [delta |-> d, state |-> "reserved"]
    BY <2>4, <2>6
  <2>7. \/ ledger'[r] = ledger[r]
        \/ \E c \in Calls : Mark(c) /\ call[c].asked.req = r
        \/ \E d : ledger'[r] = [delta |-> d, state |-> "reserved"]
    BY <1>2, LedgerCases
  <2>8. QED
    BY <2>2, <2>5, <2>6, <2>7
<1>3. ASSUME NEW a \in answered', a.req \notin expired'
      PROVE  \E i \in 1 .. Len(counted') : counted'[i] = a
  <2>1. ASSUME \E i \in 1 .. Len(counted) : counted[i] = a
        PROVE  \E i \in 1 .. Len(counted') : counted'[i] = a
    BY <2>1, CountsStay
  <2>2. a.req \notin expired
    BY <1>3, ExpiredStays
  <2>3. ASSUME NEW c \in Calls, Inspect(c), a \notin answered
        PROVE  \E i \in 1 .. Len(counted) : counted[i] = a
    <3>1. /\ a = call[c].asked /\ ledger[a.req] # NoEntry /\ ledger[a.req].delta = a.delta
          /\ ledger[a.req].state = "applied"
      BY <1>3, <2>3 DEF Inspect
    <3>2. a \in Change /\ a.req \in Requests
      BY <2>3, <3>1, CallFields DEF Inspect
    <3>3. QED
      BY <2>2, <3>1, <3>2, CountedWhole DEF MarkedInv, Reserved
  <2>4. ASSUME NEW c \in Calls, Mark(c), a \notin answered
        PROVE  \E i \in 1 .. Len(counted) : counted[i] = a
    <3>1. a = call[c].asked /\ call[c].pc = "mark"
      BY <1>3, <2>4 DEF Mark
    <3>2. a \in Change
      BY <3>1, CallFields
    <3>3. QED
      BY <2>2, <2>4, <3>1, <3>2, CountedWhole DEF MarkedInv, ReservedInv
  <2>5. ASSUME a \in answered
        PROVE  \E i \in 1 .. Len(counted) : counted[i] = a
    BY <2>2, <2>5 DEF MarkedInv
  <2>6. \/ answered' = answered
        \/ \E c \in Calls : Inspect(c) \/ Mark(c)
    BY DEF Next, CallStep, Start, Look, Reserve, Apply, Stop, Open, Complete, Expire,
       vars, histories
  <2>7. CASE a \in answered
    BY <2>1, <2>5, <2>7
  <2>8. ASSUME a \notin answered
        PROVE  \E i \in 1 .. Len(counted) : counted[i] = a
    <3>1. PICK c \in Calls : Inspect(c) \/ Mark(c)
      BY <1>3, <2>6, <2>8
    <3>2. QED
      BY <2>3, <2>4, <2>8, <3>1
  <2>9. QED
    BY <2>1, <2>7, <2>8
<1>4. ASSUME NEW c \in Calls, call'[c].pc = "mark"
      PROVE  \E i \in 1 .. Len(counted') : counted'[i].req = call'[c].asked.req
  BY <1>1, <1>4 DEF WasCounted
<1>5. QED
  BY <1>2, <1>3, <1>4 DEF MarkedInv, WasCounted

\* Whoever marked a reservation, and whoever made it before, its request was counted;
\* and who was told that a change went through had that change counted, whole, unless
\* its reservation was dropped.
THEOREM AnsweredWasCountedAlways == Spec => []AnsweredWasCounted
<1> DEFINE Inv == TypeOK /\ RingInv /\ OnceInv /\ ReservedInv /\ MarkedInv
<1>1. Init => ReservedInv /\ MarkedInv
  BY EmptySeq DEF Init, ReservedInv, MarkedInv, Idle
<1>2. TypeOK /\ RingInv /\ ReservedInv /\ MarkedInv /\ [Next]_vars => ReservedInv' /\ MarkedInv'
  BY ReservedStep, MarkedStep
<1>3. MarkedInv => AnsweredWasCounted
  BY DEF MarkedInv, WasCounted, AnsweredWasCounted
<1>4. QED
  BY <1>1, <1>2, <1>3, RingCorrect, PTL DEF Spec

-----------------------------------------------------------------------------
(* What is counted after the end.                                          *)

\* The calls that have seen an open activity and have not counted yet.
Past == {c \in Calls : call[c].pc \in {"reserve", "inspect", "apply"}}

LateInv ==
  /\ status = "complete" => late + Cardinality(Past) <= underway
  /\ status # "complete" => late = 0

LEMMA PastFinite ==
  ASSUME TypeOK, NEW S \in SUBSET Calls
  PROVE  IsFiniteSet(S) /\ Cardinality(S) \in Nat
BY FS_Subset, FS_CardinalityType, ProgressAssumption

\* Nobody joins them once the activity is complete, and who counts leaves them.
LEMMA LateStep ==
  ASSUME TypeOK, TypeOK', LateInv, [Next]_vars
  PROVE  LateInv'
<1>1. Cardinality(Past) \in Nat /\ Cardinality(Past') \in Nat /\ IsFiniteSet(Past)
  BY PastFinite DEF Past
<1>2. late \in Nat /\ underway \in Nat
  BY DEF TypeOK
<1>3. ASSUME late' = late, underway' = underway, status' = status, Past' \subseteq Past
      PROVE  LateInv'
  <2>1. Cardinality(Past') <= Cardinality(Past)
    BY <1>1, <1>3, FS_Subset
  <2>2. QED
    BY <1>1, <1>2, <1>3, <2>1 DEF LateInv
<1>4. ASSUME late' = late, underway' = underway, status' = status, status # "complete"
      PROVE  LateInv'
  BY <1>4 DEF LateInv
<1>5. ASSUME NEW c \in Calls, Apply(c)
      PROVE  LateInv'
  <2>1. c \in Past /\ Past' = Past \ {c} /\ status' = status /\ underway' = underway
    BY <1>5, CallFields DEF Apply, Go, Past, TypeOK
  <2>2. Cardinality(Past') = Cardinality(Past) - 1
    BY <1>1, <2>1, FS_RemoveElement
  <2>3. late' = late \/ (late' = late + 1 /\ status = "complete")
    BY <1>5 DEF Apply
  <2>4. QED
    BY <1>1, <1>2, <2>1, <2>2, <2>3 DEF LateInv
<1>6. ASSUME NEW c \in Calls, Look(c)
      PROVE  LateInv'
  <2>1. late' = late /\ underway' = underway /\ status' = status
    BY <1>6 DEF Look, histories
  <2>2. CASE status = "complete"
    <3>1. Past' \subseteq Past
      BY <1>6, <2>2 DEF Look, Leave, Idle, Past, TypeOK
    <3>2. QED
      BY <1>3, <2>1, <3>1
  <2>3. QED
    BY <1>4, <2>1, <2>2
<1>7. ASSUME NEW c \in Calls, Start(c) \/ Reserve(c) \/ Inspect(c) \/ Mark(c) \/ Stop(c)
      PROVE  LateInv'
  <2>1. late' = late /\ underway' = underway /\ status' = status
    BY <1>7 DEF Start, Reserve, Inspect, Mark, Stop, histories
  <2>2. ASSUME NEW b \in Calls, b # c
        PROVE  call'[b] = call[b]
    BY <1>7, <2>2 DEF Start, Reserve, Inspect, Mark, Stop, Go, Leave, TypeOK
  <2>3. c \in Past' => c \in Past
    <3>1. CASE Start(c)
      BY <3>1 DEF Start, Past, TypeOK
    <3>2. CASE Reserve(c) \/ Inspect(c)
      BY <3>2 DEF Reserve, Inspect, Past
    <3>3. CASE Mark(c) \/ Stop(c)
      BY <3>3 DEF Mark, Stop, Leave, Idle, Past, TypeOK
    <3>4. QED
      BY <1>7, <3>1, <3>2, <3>3
  <2>4. Past' \subseteq Past
    BY <2>2, <2>3 DEF Past
  <2>5. QED
    BY <1>3, <2>1, <2>4
<1>8. CASE Open
  BY <1>8 DEF Open, LateInv, histories
<1>9. CASE Complete
  <2> DEFINE U == {c \in Calls : call[c] # Idle /\ call[c].pc # "look"}
  <2>1. Past' = Past /\ Past \subseteq U /\ status = "open" /\ late' = late
    BY <1>9, CallFields DEF Complete, Past
  <2>2. Cardinality(Past') <= Cardinality(U) /\ Cardinality(U) \in Nat
    BY <2>1, PastFinite, FS_Subset
  <2>3. underway' = Cardinality(U)
    BY <1>9 DEF Complete
  <2>4. QED
    BY <1>1, <2>1, <2>2, <2>3 DEF LateInv
<1>10. ASSUME (\E r \in Requests : Expire(r)) \/ UNCHANGED vars
       PROVE  LateInv'
  <2>1. late' = late /\ underway' = underway /\ status' = status /\ Past' = Past
    BY <1>10 DEF Expire, vars, Past
  <2>2. QED
    BY <1>3, <2>1
<1>11. QED
  BY <1>5, <1>6, <1>7, <1>8, <1>9, <1>10 DEF Next, CallStep

\* For any number of calls: a completed activity counts at most once more for each
\* call that had seen it open.
THEOREM LateWasUnderWayAlways == Spec => []LateWasUnderWay
<1>1. Init => LateInv
  BY DEF Init, LateInv
<1>2. TypeOK /\ TypeOK' /\ LateInv /\ [Next]_vars => LateInv'
  BY LateStep
<1>3. ASSUME TypeOK, LateInv, underway \in Nat
      PROVE  LateWasUnderWay
  <2>1. Cardinality(Past) \in Nat
    BY <1>3, PastFinite DEF Past
  <2>2. late \in Nat
    BY <1>3 DEF TypeOK
  <2>3. QED
    BY <1>3, <2>1, <2>2 DEF LateInv, LateWasUnderWay
<1>4. TypeOK => underway \in Nat
  BY DEF TypeOK
<1>5. QED
  BY <1>1, <1>2, <1>3, <1>4, RingCorrect, PTL DEF Spec

===============================================================================
