--------------------------- MODULE PlatformProofs ---------------------------
(***************************************************************************)
(* Proofs about Platform for all order ids, processes, budgets, backoffs   *)
(* and bounds.                                                             *)
(***************************************************************************)
EXTENDS Platform, FiniteSetTheorems, TLAPS

\* The delay of a claim is a number of ticks and never less than one backoff.
LEMMA BackoffBound ==
  ASSUME NEW n \in Nat \ {0}
  PROVE  Backoff(n) \in Nat /\ Backoff(n) >= Base
<1> DEFINE m == IF n > MaxMultiplier THEN MaxMultiplier ELSE n
<1>1. m \in Nat /\ m >= 1 /\ Base \in Nat
  BY ConstantsAssumption
<1> HIDE DEF m
<1>2. Base * m \in Nat /\ Base * m >= Base
  BY <1>1
<1>3. QED
  BY <1>2 DEF Backoff, m

\* What the store writes is a record of the right type with a numeric score.
LEMMA RecordTypes ==
  ASSUME NEW r \in Order, r.attempts <= MaxAttempts, NEW now \in Nat
  PROVE  /\ Exhausted(r) \in Order /\ Exhausted(r).attempts <= MaxAttempts
         /\ AfterSuccess(r, now) \in Order /\ AfterSuccess(r, now).attempts <= MaxAttempts
         /\ AfterFailure(r) \in Order /\ AfterFailure(r).attempts <= MaxAttempts
         /\ Reopened(r) \in Order /\ Reopened(r).attempts <= MaxAttempts
         /\ Settled(r) \in Order /\ Settled(r).attempts <= MaxAttempts
         /\ ~BudgetSpent(r) => Claimed(r, now) \in Order /\ Claimed(r, now).attempts <= MaxAttempts
<1>1. /\ Exhausted(r) \in Order /\ Exhausted(r).attempts <= MaxAttempts
      /\ AfterSuccess(r, now) \in Order /\ AfterSuccess(r, now).attempts <= MaxAttempts
      /\ AfterFailure(r) \in Order /\ AfterFailure(r).attempts <= MaxAttempts
      /\ Settled(r) \in Order /\ Settled(r).attempts <= MaxAttempts
  BY DEF Order, DeliveryState, Exhausted, AfterSuccess, AfterFailure, Settled
<1>2. Reopened(r) \in Order /\ Reopened(r).attempts <= MaxAttempts
  <2>1. 0 \in Nat /\ 0 <= MaxAttempts /\ r.reopens + 1 \in Nat
    BY ConstantsAssumption DEF Order
  <2>2. QED
    BY <2>1 DEF Order, DeliveryState, Reopened
<1>3. ASSUME ~BudgetSpent(r)
      PROVE  Claimed(r, now) \in Order /\ Claimed(r, now).attempts <= MaxAttempts
  <2>1. r.attempts \in Nat /\ r.attempts < MaxAttempts
    BY <1>3, ConstantsAssumption DEF BudgetSpent, Order
  <2>2. Backoff(r.attempts + 1) \in Nat
    BY <2>1, BackoffBound
  <2>3. /\ r.attempts + 1 \in Nat /\ r.attempts + 1 <= MaxAttempts
        /\ now + Backoff(r.attempts + 1) \in Nat
    BY <2>1, <2>2, ConstantsAssumption
  <2>4. QED
    BY <2>3 DEF Order, DeliveryState, Claimed
<1>4. QED
  BY <1>1, <1>2, <1>3

LEMMA ScoreType ==
  ASSUME NEW r \in Order
  PROVE  PendingScore(r) \in Nat
BY DEF Order, PendingScore

LEMMA NewOrderType ==
  ASSUME NEW c \in Call
  PROVE  NewOrder(c) \in Order /\ NewOrder(c).attempts = 0
BY DEF NewOrder, Order, DeliveryState, Call

\* What a call does with the error of the deliverer: a retry loop may go to the
\* index with it.
LEMMA FailureSteps ==
  ASSUME NEW p, NEW r, NEW cause \in Causes, FailureStep(p, r, cause)
  PROVE  \/ Return(p)
         \/ Goto(p, "defer")
         \/ /\ p \in Sweepers /\ r.state # "exhausted" /\ cause = "orderInvalid"
            /\ Goto(p, "retire")
<1>1. cause \in {"plain", "orderInvalid", "malformedRecord"}
  BY ConstantsAssumption
<1>2. CASE r.state = "exhausted" \/ cause = "plain"
  BY <1>2 DEF FailureStep
<1>3. CASE r.state # "exhausted" /\ cause = "orderInvalid"
  BY <1>3 DEF FailureStep, GiveUp
<1>4. CASE r.state # "exhausted" /\ cause = "malformedRecord"
  BY <1>4 DEF FailureStep, GiveUp
<1>5. QED
  BY <1>1, <1>2, <1>3, <1>4

\* The two ways a failure is recorded.
LEMMA FailureCases ==
  ASSUME NEW p, RecordFailure(p)
  PROVE  /\ Return(p) \/ Goto(p, "defer") \/ Goto(p, "retire")
         /\ \/ Unreadable(call[p].order) /\ UNCHANGED <<orders, index, disowned>>
            \/ /\ ~Unreadable(call[p].order)
               /\ Store(call[p].order, AfterFailure(orders[call[p].order]))
               /\ disowned' \in {disowned, disowned \cup {call[p].order}}
         /\ Goto(p, "retire") =>
              \/ Return(p) \/ Goto(p, "defer")
              \/ call[p].order \in disowned'
<1>1. CASE Unreadable(call[p].order) /\ Unrecorded(p) /\ UNCHANGED <<orders, index, disowned>>
  BY <1>1 DEF Unrecorded, GiveUp
<1>2. ASSUME NEW cause \in Causes, ~Unreadable(call[p].order),
             Store(call[p].order, AfterFailure(orders[call[p].order])),
             FailureStep(p, AfterFailure(orders[call[p].order]), cause),
             disowned' = IF /\ p \in Sweepers /\ AfterFailure(orders[call[p].order]).state # "exhausted"
                            /\ cause = "orderInvalid"
                         THEN disowned \cup {call[p].order} ELSE disowned
      PROVE  /\ Return(p) \/ Goto(p, "defer") \/ Goto(p, "retire")
             /\ disowned' \in {disowned, disowned \cup {call[p].order}}
             /\ Return(p) \/ Goto(p, "defer") \/ call[p].order \in disowned'
  BY <1>2, FailureSteps
<1>3. QED
  BY <1>1, <1>2 DEF RecordFailure

LEMMA IdleCallType == IdleCall \in Call
BY ConstantsAssumption DEF IdleCall, Call, Steps

\* The part of TypeOK a committed write of the store can disturb.
LEMMA StoreType ==
  ASSUME TypeOK, NEW o \in OrderIds, NEW r \in Order, r.attempts <= MaxAttempts, Store(o, r)
  PROVE  /\ orders' \in [OrderIds -> Order]
         /\ \A x \in OrderIds : orders'[x].attempts <= MaxAttempts
         /\ index' \in [OrderIds -> Nat]
<1>1. PendingScore(r) \in Nat
  BY ScoreType
<1>2. QED
  BY <1>1 DEF TypeOK, Store

\* A page of the index holds known ids only.
LEMMA PageType ==
  ASSUME NEW q \in Pages
  PROVE  q \in Seq(OrderIds)
<1> DEFINE n == IF Cardinality(DueEntries) < RetryBatch THEN Cardinality(DueEntries) ELSE RetryBatch
<1>1. DueEntries \subseteq OrderIds
  BY DEF DueEntries
<1>2. Cardinality(DueEntries) \in Nat
  BY <1>1, FS_Subset, FS_CardinalityType, ConstantsAssumption
<1>3. n \in Nat
  BY <1>2, ConstantsAssumption
<1>4. q \in [1..n -> DueEntries]
  BY DEF Pages
<1> HIDE DEF n
<1>5. q \in [1..n -> OrderIds]
  BY <1>1, <1>4
<1>6. QED
  BY <1>3, <1>5

LEMMA InitTypeOK == Init => TypeOK
<1> SUFFICES ASSUME Init PROVE TypeOK
  OBVIOUS
<1>1. NoOrder \in Order /\ NoOrder.attempts <= MaxAttempts
  BY ConstantsAssumption DEF NoOrder, Order, DeliveryState
<1>2. QED
  BY <1>1, IdleCallType, ConstantsAssumption DEF Init, TypeOK

\* The steps of HandleCallback keep the types.
LEMMA CallbackTypeOK ==
  ASSUME TypeOK, NEW p \in Procs
  PROVE  /\ \A o \in OrderIds, d \in Digests, paidAt \in PaidAts :
               Callback(p, o, d, paidAt) => TypeOK'
         /\ Create(p) => TypeOK'
         /\ Reread(p) => TypeOK'
<1> USE DEF TypeOK
<1>1. ASSUME NEW o \in OrderIds, NEW d \in Digests, NEW paidAt \in PaidAts,
             Callback(p, o, d, paidAt)
      PROVE  TypeOK'
  <2> DEFINE c == [pc |-> "create", order |-> o, digest |-> d, now |-> clock,
                   paidAt |-> IF paidAt = 0 THEN clock ELSE paidAt]
  <2>1. c \in Call
    BY ConstantsAssumption DEF Call, Steps
  <2>2. call' = [call EXCEPT ![p] = c]
    BY <1>1 DEF Callback
  <2> HIDE DEF c
  <2>3. call' \in [Procs -> Call]
    BY <2>1, <2>2
  <2>4. QED
    BY <1>1, <2>3 DEF Callback
<1>2. EnterAttempt(p) => call' \in [Procs -> Call]
  <2>1. [call[p] EXCEPT !.pc = "claim", !.now = clock] \in Call
    BY DEF Call, Steps
  <2>2. QED
    BY <2>1 DEF EnterAttempt
<1>3. ASSUME Create(p)
      PROVE  TypeOK'
  <2> DEFINE o == call[p].order
  <2>1. o \in OrderIds /\ call[p] \in Call
    BY DEF Call
  <2>2. CASE orders[o].state = "none"
    <3> DEFINE r == NewOrder(call[p])
    <3>1. r \in Order /\ r.attempts <= MaxAttempts
      BY <2>1, NewOrderType, ConstantsAssumption
    <3>2. Store(o, r) /\ EnterAttempt(p)
      BY <1>3, <2>2 DEF Create
    <3> HIDE DEF r, o
    <3>3. /\ orders' \in [OrderIds -> Order]
          /\ \A x \in OrderIds : orders'[x].attempts <= MaxAttempts
          /\ index' \in [OrderIds -> Nat]
      BY <2>1, <3>1, <3>2, StoreType
    <3>4. QED
      BY <1>2, <1>3, <3>2, <3>3 DEF Create
  <2>3. CASE orders[o].state # "none"
    <3>1. [call[p] EXCEPT !.pc = "reread"] \in Call
      BY DEF Call, Steps
    <3>2. Goto(p, "reread") /\ UNCHANGED <<orders, index>>
      BY <1>3, <2>3 DEF Create
    <3>3. call' \in [Procs -> Call]
      BY <3>1, <3>2 DEF Goto
    <3>4. QED
      BY <1>3, <3>2, <3>3 DEF Create
  <2>4. QED
    BY <2>2, <2>3
<1>4. ASSUME Reread(p)
      PROVE  TypeOK'
  BY <1>2, <1>4, IdleCallType DEF Reread, Return
<1>5. QED
  BY <1>1, <1>3, <1>4

\* The steps of AttemptDelivery keep the types.
LEMMA AttemptTypeOK ==
  ASSUME TypeOK, NEW p \in Procs
  PROVE  /\ Claim(p) => TypeOK'
         /\ \A outcome \in Outcomes : Deliver(p, outcome) => TypeOK'
         /\ RecordSuccess(p) => TypeOK'
         /\ RecordFailure(p) => TypeOK'
<1> DEFINE o == call[p].order
           r == orders[o]
<1>1. o \in OrderIds /\ r \in Order /\ r.attempts <= MaxAttempts /\ call[p].now \in Nat
  BY DEF TypeOK, Call
<1>2. Return(p) => call' \in [Procs -> Call]
  BY IdleCallType DEF Return, TypeOK
<1>3. ASSUME NEW step \in Steps, Goto(p, step)
      PROVE  call' \in [Procs -> Call]
  <2>1. [call[p] EXCEPT !.pc = step] \in Call
    BY DEF TypeOK, Call
  <2>2. QED
    BY <1>3, <2>1 DEF Goto, TypeOK
<1>4. Claim(p) => TypeOK'
  <2> SUFFICES ASSUME Claim(p) PROVE TypeOK'
    OBVIOUS
  <2>1. CASE /\ GiveUp(p, "defer") \/ GiveUp(p, "retire") \/ Return(p)
             /\ UNCHANGED <<orders, index, claims>>
    <3>1. call' \in [Procs -> Call]
      BY <1>2, <1>3, <2>1 DEF GiveUp, Steps
    <3>2. QED
      BY <2>1, <3>1 DEF Claim, TypeOK
  <2>2. CASE Store(o, Exhausted(r)) /\ Return(p) /\ UNCHANGED claims
    <3>1. Exhausted(r) \in Order /\ Exhausted(r).attempts <= MaxAttempts
      BY <1>1, RecordTypes
    <3> HIDE DEF r, o
    <3>2. /\ orders' \in [OrderIds -> Order]
          /\ \A x \in OrderIds : orders'[x].attempts <= MaxAttempts
          /\ index' \in [OrderIds -> Nat]
      BY <1>1, <2>2, <3>1, StoreType
    <3>3. QED
      BY <1>2, <2>2, <3>2 DEF Claim, TypeOK
  <2>3. CASE /\ ~BudgetSpent(r) /\ Store(o, Claimed(r, call[p].now))
             /\ claims' = [claims EXCEPT ![o] = @ + 1]
             /\ Goto(p, "deliver")
    <3>1. Claimed(r, call[p].now) \in Order /\ Claimed(r, call[p].now).attempts <= MaxAttempts
      BY <1>1, <2>3, RecordTypes
    <3>2. call' \in [Procs -> Call]
      BY <1>3, <2>3 DEF Steps
    <3> HIDE DEF r, o
    <3>3. /\ orders' \in [OrderIds -> Order]
          /\ \A x \in OrderIds : orders'[x].attempts <= MaxAttempts
          /\ index' \in [OrderIds -> Nat]
      BY <1>1, <2>3, <3>1, StoreType
    <3>4. claims' \in [OrderIds -> Nat]
      BY <1>1, <2>3 DEF TypeOK
    <3>5. QED
      BY <2>3, <3>2, <3>3, <3>4 DEF Claim, TypeOK
  <2>4. QED
    BY <2>1, <2>2, <2>3 DEF Claim
<1>5. ASSUME NEW outcome \in Outcomes, Deliver(p, outcome)
      PROVE  TypeOK'
  <2>1. call' \in [Procs -> Call]
    BY <1>3, <1>5 DEF Deliver, AnswerStep, Steps
  <2>2. granted' \in [OrderIds -> Nat]
    BY <1>1, <1>5 DEF Deliver, TypeOK
  <2>3. QED
    BY <1>5, <2>1, <2>2 DEF Deliver, TypeOK
<1>6. ASSUME RecordSuccess(p) \/ RecordFailure(p)
      PROVE  TypeOK'
  <2>0. call' \in [Procs -> Call]
    BY <1>2, <1>3, <1>6, FailureCases DEF RecordSuccess, Unrecorded, GiveUp, Steps
  <2>1. disowned' \subseteq OrderIds
    BY <1>1, <1>6, FailureCases DEF RecordSuccess, TypeOK
  <2>2. CASE UNCHANGED <<orders, index>>
    BY <1>6, <2>0, <2>1, <2>2 DEF RecordSuccess, RecordFailure, TypeOK
  <2>3. ASSUME NEW n \in {AfterSuccess(r, call[p].now), AfterFailure(r)}, Store(o, n)
        PROVE  TypeOK'
    <3>1. n \in Order /\ n.attempts <= MaxAttempts
      BY <1>1, RecordTypes
    <3> HIDE DEF r, o
    <3>2. /\ orders' \in [OrderIds -> Order]
          /\ \A x \in OrderIds : orders'[x].attempts <= MaxAttempts
          /\ index' \in [OrderIds -> Nat]
      BY <1>1, <2>3, <3>1, StoreType
    <3>3. QED
      BY <1>6, <2>0, <2>1, <3>2 DEF RecordSuccess, RecordFailure, TypeOK
  <2>4. QED
    BY <1>6, <2>2, <2>3, FailureCases DEF RecordSuccess
<1>7. QED
  BY <1>4, <1>5, <1>6

\* The steps of the retry loop keep the types.
LEMMA SweepTypeOK ==
  ASSUME TypeOK, NEW s \in Sweepers
  PROVE  ReadPage(s) \/ NextInPage(s) \/ RetirePending(s) \/ DeferPending(s) => TypeOK'
<1>1. s \in Procs /\ call[s].order \in OrderIds
  BY DEF TypeOK, Procs, Call
<1>2. ASSUME ReadPage(s)
      PROVE  TypeOK'
  BY <1>2, PageType DEF ReadPage, TypeOK
<1>3. ASSUME NextInPage(s)
      PROVE  TypeOK'
  <2>1. page[s] \in Seq(OrderIds) /\ page[s] # <<>>
    BY <1>3 DEF NextInPage, TypeOK
  <2>2. Head(page[s]) \in OrderIds /\ Tail(page[s]) \in Seq(OrderIds)
    BY <2>1
  <2>3. [IdleCall EXCEPT !.pc = "claim", !.order = Head(page[s]), !.now = clock] \in Call
    BY <2>2, IdleCallType DEF Call, Steps, TypeOK
  <2>4. call' \in [Procs -> Call] /\ page' \in [Sweepers -> Seq(OrderIds)]
    BY <1>3, <2>2, <2>3 DEF NextInPage, TypeOK
  <2>5. QED
    BY <1>3, <2>4 DEF NextInPage, TypeOK
<1>4. ASSUME RetirePending(s) \/ DeferPending(s)
      PROVE  TypeOK'
  <2>1. call' \in [Procs -> Call]
    BY <1>4, IdleCallType DEF RetirePending, DeferPending, Return, TypeOK
  <2>2. clock + PoisonedDelay \in Nat
    BY ConstantsAssumption DEF TypeOK
  <2>3. PICK n \in Nat : index' = [index EXCEPT ![call[s].order] = n]
    BY <1>1, <1>4, <2>2 DEF RetirePending, DeferPending, TypeOK
  <2>4. index' \in [OrderIds -> Nat]
    BY <1>1, <2>3 DEF TypeOK
  <2>5. QED
    BY <1>4, <2>1, <2>4 DEF RetirePending, DeferPending, TypeOK
<1>5. QED
  BY <1>2, <1>3, <1>4

\* The operator, the faults and the clock keep the types.
LEMMA EnvironmentTypeOK ==
  ASSUME TypeOK
  PROVE  /\ \A o \in OrderIds : ReopenDelivery(o) \/ SettleOutOfBand(o) => TypeOK'
         /\ \A p \in Procs : Abandon(p) => TypeOK'
         /\ \A s \in Sweepers : Restart(s) => TypeOK'
         /\ \A o \in OrderIds : Poison(o) \/ Repair(o) => TypeOK'
         /\ Tick => TypeOK'
<1>1. ASSUME NEW o \in OrderIds, ReopenDelivery(o) \/ SettleOutOfBand(o)
      PROVE  TypeOK'
  <2>1. PICK r \in {Reopened(orders[o]), Settled(orders[o])} : Store(o, r)
    BY <1>1 DEF ReopenDelivery, SettleOutOfBand
  <2>2. orders[o] \in Order /\ orders[o].attempts <= MaxAttempts
    BY DEF TypeOK
  <2>3. r \in Order /\ r.attempts <= MaxAttempts
    BY <2>2, RecordTypes
  <2>4. /\ orders' \in [OrderIds -> Order]
        /\ \A x \in OrderIds : orders'[x].attempts <= MaxAttempts
        /\ index' \in [OrderIds -> Nat]
    BY <2>1, <2>3, StoreType
  <2>5. QED
    BY <1>1, <2>4 DEF ReopenDelivery, SettleOutOfBand, TypeOK
<1>2. ASSUME NEW p \in Procs, Abandon(p)
      PROVE  TypeOK'
  <2>1. call' \in [Procs -> Call]
    BY <1>2, IdleCallType DEF Abandon, Return, TypeOK
  <2>2. QED
    BY <1>2, <2>1 DEF Abandon, TypeOK
<1>3. ASSUME NEW s \in Sweepers, Restart(s)
      PROVE  TypeOK'
  <2>1. s \in Procs /\ call' \in [Procs -> Call]
    BY <1>3, IdleCallType DEF Restart, Return, Procs, TypeOK
  <2>2. page' \in [Sweepers -> Seq(OrderIds)]
    BY <1>3 DEF Restart, TypeOK
  <2>3. QED
    BY <1>3, <2>1, <2>2 DEF Restart, TypeOK
<1>4. ASSUME NEW o \in OrderIds, Poison(o) \/ Repair(o)
      PROVE  TypeOK'
  BY <1>4 DEF Poison, Repair, TypeOK
<1>5. ASSUME Tick
      PROVE  TypeOK'
  BY <1>5 DEF Tick, TypeOK
<1>6. QED
  BY <1>1, <1>2, <1>3, <1>4, <1>5

LEMMA NextTypeOK == TypeOK /\ [Next]_vars => TypeOK'
<1> SUFFICES ASSUME TypeOK, [Next]_vars
             PROVE  TypeOK'
  OBVIOUS
<1>1. \A s \in Sweepers : s \in Procs
  BY DEF Procs
<1>2. \A p \in Callers : p \in Procs
  BY DEF Procs
<1>3. ASSUME NEW p \in Procs, CallStep(p)
      PROVE  TypeOK'
  BY <1>3, CallbackTypeOK, AttemptTypeOK DEF CallStep
<1>4. ASSUME NEW s \in Sweepers, SweepStep(s)
      PROVE  TypeOK'
  BY <1>1, <1>3, <1>4, SweepTypeOK DEF SweepStep
<1>5. CASE UNCHANGED vars
  BY <1>5 DEF vars, TypeOK
<1>6. QED
  BY <1>2, <1>3, <1>4, <1>5, CallbackTypeOK, EnvironmentTypeOK DEF Next

\* Every reachable state is of the declared types and within the attempt
\* budget, for any number of orders, calls and retry loops.
THEOREM TypeCorrect == Spec => []TypeOK
<1>1. QED
  BY InitTypeOK, NextTypeOK, PTL DEF Spec

-----------------------------------------------------------------------------
(* What one step may make of one order.                                    *)

\* A record changes by exactly one of the updates of the code, and the number
\* of claims grows with the claiming update alone.
OrderChange(o) ==
  LET r == orders[o]
      n == orders'[o]
  IN
  \/ n = r /\ claims'[o] = claims[o]
  \/ /\ r.state = "none" /\ claims'[o] = claims[o]
     /\ \E c \in Call : n = NewOrder(c)
  \/ /\ r.state = "reserved" /\ ~BudgetSpent(r) /\ claims'[o] = claims[o] + 1
     /\ \E now \in Nat : n = Claimed(r, now)
  \/ /\ r.state \in {"reserved", "exhausted", "settled"} /\ claims'[o] = claims[o]
     /\ \/ BudgetSpent(r) /\ n = Exhausted(r)
        \/ \E now \in Nat : n = AfterSuccess(r, now)
  \/ /\ r.state = "exhausted" /\ claims'[o] = claims[o]
     /\ n = Reopened(r) \/ n = Settled(r)

\* A write to one order leaves every other order as it was.
LEMMA StoreOther ==
  ASSUME TypeOK, NEW o \in OrderIds, NEW r, Store(o, r)
  PROVE  orders'[o] = r /\ \A x \in OrderIds \ {o} : orders'[x] = orders[x]
BY DEF TypeOK, Store

LEMMA CallOrderChange ==
  ASSUME TypeOK, NEW p \in Procs, CallStep(p), NEW o \in OrderIds
  PROVE  OrderChange(o)
<1>0. PICK x \in OrderIds : x = call[p].order
  BY DEF TypeOK, Call
<1> DEFINE r == orders[x]
<1>1. x \in OrderIds /\ x = call[p].order /\ r \in Order /\ call[p].now \in Nat
  BY <1>0 DEF TypeOK, Call
<1>2. CASE UNCHANGED <<orders, claims>>
  BY <1>2 DEF OrderChange
<1>3. CASE Create(p) /\ r.state = "none"
  <2>1. call[p] \in Call /\ Store(x, NewOrder(call[p])) /\ claims' = claims
    BY <1>1, <1>3 DEF Create, TypeOK
  <2>2. QED
    BY <1>1, <1>3, <2>1, StoreOther DEF OrderChange
<1>4. CASE Claim(p) /\ ~UNCHANGED <<orders, claims>>
  <2>1. r.state = "reserved"
    BY <1>1, <1>4 DEF Claim, Due, Terminal, Order, DeliveryState
  <2>2. CASE BudgetSpent(r) /\ Store(x, Exhausted(r)) /\ claims' = claims
    BY <1>1, <2>1, <2>2, StoreOther DEF OrderChange
  <2>3. CASE /\ ~BudgetSpent(r) /\ Store(x, Claimed(r, call[p].now))
             /\ claims' = [claims EXCEPT ![x] = @ + 1]
    <3>1. claims'[x] = claims[x] + 1 /\ \A y \in OrderIds \ {x} : claims'[y] = claims[y]
      BY <1>1, <2>3 DEF TypeOK
    <3>2. QED
      BY <1>1, <2>1, <2>3, <3>1, StoreOther DEF OrderChange
  <2>4. QED
    BY <1>1, <1>4, <2>2, <2>3 DEF Claim
<1>5. CASE (RecordSuccess(p) \/ RecordFailure(p)) /\ ~UNCHANGED orders
  <2>1. claims' = claims /\ r.state # "none"
    BY <1>1, <1>5 DEF RecordSuccess, RecordFailure, Unreadable
  <2>2. CASE Store(x, AfterSuccess(r, call[p].now))
    <3>1. CASE o # x
      BY <1>1, <2>1, <2>2, <3>1, StoreOther DEF OrderChange
    <3>2. CASE o = x
      <4>1. orders'[o] = AfterSuccess(orders[o], call[p].now) /\ claims'[o] = claims[o]
        BY <1>1, <2>1, <2>2, <3>2, StoreOther
      <4>2. orders[o].state # "delivered" => orders[o].state \in {"reserved", "exhausted", "settled"}
        BY <1>1, <2>1, <3>2 DEF Order, DeliveryState
      <4>3. CASE orders[o].state = "delivered"
        BY <4>1, <4>3 DEF OrderChange, AfterSuccess
      <4>4. \E now \in Nat : orders'[o] = AfterSuccess(orders[o], now)
        BY <1>1, <4>1
      <4>5. QED
        BY <4>1, <4>2, <4>3, <4>4 DEF OrderChange
    <3>3. QED
      BY <3>1, <3>2
  <2>3. CASE Store(x, AfterFailure(r))
    <3>1. CASE o # x
      BY <1>1, <2>1, <2>3, <3>1, StoreOther DEF OrderChange
    <3>2. CASE o = x
      <4>1. orders'[o] = AfterFailure(orders[o]) /\ claims'[o] = claims[o]
        BY <1>1, <2>1, <2>3, <3>2, StoreOther
      <4>2. orders[o].state # "delivered" => orders[o].state \in {"reserved", "exhausted", "settled"}
        BY <1>1, <2>1, <3>2 DEF Order, DeliveryState
      <4>3. QED
        BY <4>1, <4>2 DEF OrderChange, AfterFailure
    <3>3. QED
      BY <3>1, <3>2
  <2>4. QED
    BY <1>1, <1>5, <2>2, <2>3 DEF RecordSuccess, RecordFailure
<1>6. QED
  BY <1>1, <1>2, <1>3, <1>4, <1>5 DEF CallStep, Create, Reread, Deliver, RecordSuccess, RecordFailure

LEMMA StepOrderChange ==
  ASSUME TypeOK, [Next]_vars, NEW o \in OrderIds
  PROVE  OrderChange(o)
<1>1. ASSUME NEW x \in OrderIds, ReopenDelivery(x) \/ SettleOutOfBand(x)
      PROVE  OrderChange(o)
  BY <1>1, StoreOther DEF ReopenDelivery, SettleOutOfBand, OrderChange
<1>2. CASE UNCHANGED <<orders, claims>>
  BY <1>2 DEF OrderChange
<1>3. \A p \in Callers : p \in Procs
  BY DEF Procs
<1>4. \A s \in Sweepers : s \in Procs
  BY DEF Procs
<1>5. ASSUME NEW s \in Sweepers, SweepStep(s)
      PROVE  OrderChange(o)
  BY <1>2, <1>4, <1>5, CallOrderChange
     DEF SweepStep, ReadPage, NextInPage, RetirePending, DeferPending
<1>6. QED
  BY <1>1, <1>2, <1>3, <1>5, CallOrderChange
     DEF Next, Callback, Abandon, Restart, Poison, Repair, Tick, vars

-----------------------------------------------------------------------------
(* The attempt budget.                                                     *)

LEMMA OneMoreBudget ==
  ASSUME NEW n \in Nat
  PROVE  /\ n * MaxAttempts \in Nat
         /\ (n + 1) * MaxAttempts = n * MaxAttempts + MaxAttempts
<1>1. MaxAttempts \in Nat
  BY ConstantsAssumption
<1>2. QED
  BY <1>1

LEMMA BudgetInit == Init => BudgetInv
<1>1. 0 * MaxAttempts = 0
  BY ConstantsAssumption
<1>2. QED
  BY <1>1 DEF Init, BudgetInv, ClaimsAreAccounted, GivenUpIsSpent, NoOrder

LEMMA BudgetStep == TypeOK /\ BudgetInv /\ [Next]_vars => BudgetInv'
<1> SUFFICES ASSUME TypeOK, BudgetInv, [Next]_vars
             PROVE  BudgetInv'
  OBVIOUS
<1> DEFINE Accounted(r, c) ==
             /\ c = r.reopens * MaxAttempts + r.attempts
             /\ r.state \in {"exhausted", "settled"} => r.attempts = MaxAttempts
             /\ r.state = "none" => r.attempts = 0 /\ r.reopens = 0
<1>1. ASSUME NEW o \in OrderIds
      PROVE  Accounted(orders'[o], claims'[o])
  <2> DEFINE r == orders[o]
  <2>1. Accounted(r, claims[o])
    BY DEF BudgetInv, ClaimsAreAccounted, GivenUpIsSpent
  <2>2. /\ r \in Order /\ r.attempts \in Nat /\ r.reopens \in Nat /\ r.attempts <= MaxAttempts
        /\ claims[o] \in Nat /\ MaxAttempts \in Nat
    BY ConstantsAssumption DEF TypeOK, Order
  <2>3. OrderChange(o)
    BY StepOrderChange
  <2>4. CASE orders'[o] = r /\ claims'[o] = claims[o]
    BY <2>1, <2>4
  <2>5. CASE /\ r.state = "none" /\ claims'[o] = claims[o]
             /\ \E c \in Call : orders'[o] = NewOrder(c)
    BY <2>1, <2>5 DEF NewOrder
  <2>6. CASE /\ r.state = "reserved" /\ ~BudgetSpent(r) /\ claims'[o] = claims[o] + 1
             /\ \E now \in Nat : orders'[o] = Claimed(r, now)
    <3>1. /\ orders'[o].attempts = r.attempts + 1 /\ orders'[o].reopens = r.reopens
          /\ orders'[o].state = "reserved"
      BY <2>2, <2>6 DEF Claimed, Order
    <3>2. r.reopens * MaxAttempts \in Nat
      BY <2>2, OneMoreBudget
    <3>3. QED
      BY <2>1, <2>2, <2>6, <3>1, <3>2
  <2>7. CASE BudgetSpent(r) /\ orders'[o] = Exhausted(r) /\ claims'[o] = claims[o]
    BY <2>1, <2>2, <2>7 DEF BudgetSpent, Exhausted, Order
  <2>8. CASE claims'[o] = claims[o] /\ \E now \in Nat : orders'[o] = AfterSuccess(r, now)
    BY <2>1, <2>2, <2>8 DEF AfterSuccess, Order
  <2>9. CASE r.state = "exhausted" /\ claims'[o] = claims[o] /\ orders'[o] = Reopened(r)
    <3>1. /\ orders'[o].attempts = 0 /\ orders'[o].reopens = r.reopens + 1
          /\ orders'[o].state = "reserved"
      BY <2>2, <2>9 DEF Reopened, Order
    <3>2. claims[o] = r.reopens * MaxAttempts + MaxAttempts
      BY <2>1, <2>9
    <3>3. /\ r.reopens * MaxAttempts \in Nat
          /\ (r.reopens + 1) * MaxAttempts = r.reopens * MaxAttempts + MaxAttempts
      BY <2>2, OneMoreBudget
    <3>4. QED
      BY <2>2, <2>9, <3>1, <3>2, <3>3
  <2>10. CASE r.state = "exhausted" /\ claims'[o] = claims[o] /\ orders'[o] = Settled(r)
    BY <2>1, <2>2, <2>10 DEF Settled, Order
  <2>11. QED
    BY <2>3, <2>4, <2>5, <2>6, <2>7, <2>8, <2>9, <2>10 DEF OrderChange
<1>2. QED
  BY <1>1 DEF BudgetInv, ClaimsAreAccounted, GivenUpIsSpent

\* A record accounts for every attempt ever claimed on it, and an order is
\* given up or settled only with its budget spent: the deliverer is called at
\* most MaxAttempts times for each time the order was opened.
THEOREM BudgetCorrect == Spec => [](ClaimsAreAccounted /\ GivenUpIsSpent)
<1>1. BudgetInv => ClaimsAreAccounted /\ GivenUpIsSpent
  BY DEF BudgetInv
<1>2. QED
  BY <1>1, BudgetInit, BudgetStep, TypeCorrect, PTL DEF Spec

-----------------------------------------------------------------------------
(* What no step may do.                                                    *)

\* No step changes a delivered record.
THEOREM DeliveredStaysDelivered == Spec => DeliveredIsFinal
<1>1. TypeOK /\ [Next]_vars =>
        [\A o \in OrderIds : orders[o].state = "delivered" => orders'[o] = orders[o]]_vars
  <2> SUFFICES ASSUME TypeOK, [Next]_vars, NEW o \in OrderIds, orders[o].state = "delivered"
               PROVE  orders'[o] = orders[o]
    OBVIOUS
  <2>1. OrderChange(o)
    BY StepOrderChange
  <2>2. QED
    BY <2>1 DEF OrderChange, AfterSuccess
<1>2. QED
  BY <1>1, TypeCorrect, PTL DEF Spec, DeliveredIsFinal

\* What is first recorded for an order id is never replaced or forgotten.
THEOREM FirstCallbackStays == Spec => FirstCallbackWins
<1>1. TypeOK /\ [Next]_vars =>
        [\A o \in OrderIds : orders[o].state # "none" =>
           /\ orders'[o].state # "none"
           /\ orders'[o].digest = orders[o].digest
           /\ orders'[o].reopens >= orders[o].reopens]_vars
  <2> SUFFICES ASSUME TypeOK, [Next]_vars, NEW o \in OrderIds, orders[o].state # "none"
               PROVE  /\ orders'[o].state # "none"
                      /\ orders'[o].digest = orders[o].digest
                      /\ orders'[o].reopens >= orders[o].reopens
    OBVIOUS
  <2>1. OrderChange(o)
    BY StepOrderChange
  <2>2. orders[o] \in Order /\ orders[o].reopens \in Nat
    BY DEF TypeOK, Order
  <2> DEFINE Keeps(n) == /\ n.state # "none" /\ n.digest = orders[o].digest
                         /\ n.reopens >= orders[o].reopens
  <2>3. \A now \in Nat : orders[o].state = "reserved" => Keeps(Claimed(orders[o], now))
    BY <2>2 DEF Claimed, Order
  <2>4. Keeps(orders[o]) /\ Keeps(Exhausted(orders[o])) /\ Keeps(Settled(orders[o]))
    BY <2>2 DEF Exhausted, Settled, Order
  <2>5. \A now \in Nat : Keeps(AfterSuccess(orders[o], now))
    BY <2>2 DEF AfterSuccess, Order
  <2>6. Keeps(Reopened(orders[o]))
    BY <2>2 DEF Reopened, Order
  <2> HIDE DEF Keeps
  <2>7. Keeps(orders'[o])
    BY <2>1, <2>3, <2>4, <2>5, <2>6 DEF OrderChange
  <2>8. QED
    BY <2>7 DEF Keeps
<1>2. QED
  BY <1>1, TypeCorrect, PTL DEF Spec, FirstCallbackWins

\* How far a step of one call moves that call, and no other.
LEMMA OneCallMoves ==
  ASSUME TypeOK, NEW p \in Procs
  PROVE  /\ CallStep(p) => \A q \in Procs \ {p} : call'[q] = call[q]
         /\ Return(p) => /\ call'[p].pc = "idle"
                         /\ \A q \in Procs \ {p} : call'[q] = call[q]
         /\ EnterAttempt(p) => /\ call'[p].pc = "claim" /\ call'[p].now = clock
                               /\ call'[p].order = call[p].order
         /\ \A step \in Steps : Goto(p, step) =>
              call'[p].pc = step /\ call'[p].order = call[p].order /\ call'[p].now = call[p].now
<1>1. CallStep(p) => \A q \in Procs \ {p} : call'[q] = call[q]
  <2>1. ASSUME RecordFailure(p)
        PROVE  \A q \in Procs \ {p} : call'[q] = call[q]
    BY <2>1, FailureCases DEF TypeOK, Goto, Return
  <2>2. QED
    BY <2>1 DEF TypeOK, CallStep, Create, Reread, Claim, Deliver, RecordSuccess,
       Unrecorded, EnterAttempt, Goto, GiveUp, Return
<1>2. Return(p) => call'[p].pc = "idle" /\ \A q \in Procs \ {p} : call'[q] = call[q]
  BY DEF TypeOK, Return, IdleCall
<1>3. EnterAttempt(p) => /\ call'[p].pc = "claim" /\ call'[p].now = clock
                         /\ call'[p].order = call[p].order
  BY DEF TypeOK, EnterAttempt, Call
<1>4. \A step \in Steps : Goto(p, step) =>
        call'[p].pc = step /\ call'[p].order = call[p].order /\ call'[p].now = call[p].now
  BY DEF TypeOK, Goto, Call
<1>5. QED
  BY <1>1, <1>2, <1>3, <1>4

-----------------------------------------------------------------------------
(* One attempt at a time, when attempts end within their backoff.          *)

LEMMA PromptInit == Init => PromptInv
BY DEF Init, PromptInv, InAttempt, InFlight, IdleCall, NoAttemptOutlivesItsOrder,
       AtMostOneInFlight

\* A step that writes no order: a call ends, starts to claim now, or goes on.
LEMMA QuietStep ==
  ASSUME TypeOK, PromptInv, UNCHANGED <<orders, clock>>,
         \A q \in Procs :
            \/ call'[q] = call[q]
            \/ call'[q].pc \in Steps \ {"claim", "deliver", "success", "failure"}
            \/ call'[q].pc = "claim" /\ call'[q].now = clock
            \/ InFlight(q) /\ call'[q].order = call[q].order /\ call'[q].now = call[q].now
  PROVE  PromptInv'
<1>1. clock \in Nat /\ Base \in Nat /\ Base > 0
  BY ConstantsAssumption DEF TypeOK
<1>2. ASSUME NEW q \in Procs, InAttempt(q)'
      PROVE  call'[q].now <= clock' /\ clock' < call'[q].now + Base
  BY <1>1, <1>2 DEF PromptInv, InAttempt, InFlight
<1>3. ASSUME NEW q \in Procs, InFlight(q)'
      PROVE  InFlight(q) /\ call'[q].order = call[q].order /\ call'[q].now = call[q].now
  BY <1>3 DEF InFlight
<1>4. QED
  BY <1>2, <1>3 DEF PromptInv, NoAttemptOutlivesItsOrder, AtMostOneInFlight

\* A step that writes an order nobody else is delivering.
LEMMA WriteStep ==
  ASSUME TypeOK, PromptInv, clock' = clock, NEW x \in OrderIds,
         \A y \in OrderIds \ {x} : orders'[y] = orders[y],
         \A q \in Procs : InFlight(q)' => call'[q] = call[q] /\ call[q].order # x,
         \A q \in Procs : InAttempt(q)' =>
            call'[q] = call[q] \/ (call'[q].pc = "claim" /\ call'[q].now = clock)
  PROVE  PromptInv'
<1>1. clock \in Nat /\ Base \in Nat /\ Base > 0
  BY ConstantsAssumption DEF TypeOK
<1>2. ASSUME NEW q \in Procs, InAttempt(q)'
      PROVE  call'[q].now <= clock' /\ clock' < call'[q].now + Base
  BY <1>1, <1>2 DEF PromptInv, InAttempt
<1>3. ASSUME NEW q \in Procs, InFlight(q)'
      PROVE  /\ InFlight(q) /\ call'[q] = call[q]
             /\ orders'[call[q].order] = orders[call[q].order]
  <2>1. call'[q] = call[q] /\ call[q].order \in OrderIds \ {x}
    BY <1>3 DEF TypeOK, Call
  <2>2. QED
    BY <1>3, <2>1 DEF InFlight
<1>4. QED
  BY <1>2, <1>3 DEF PromptInv, NoAttemptOutlivesItsOrder, AtMostOneInFlight

\* A claim finds its order due only when no attempt of it is in flight.
LEMMA DueIsFree ==
  ASSUME TypeOK, PromptInv, NEW p \in Procs, call[p].pc = "claim", NEW o \in OrderIds,
         Due(orders[o], call[p].now), NEW q \in Procs, InFlight(q), call[q].order = o
  PROVE  FALSE
<1>1. /\ call[p].now \in Nat /\ call[q].now \in Nat /\ clock \in Nat /\ Base \in Nat
      /\ orders[o].next \in Nat
  BY ConstantsAssumption DEF TypeOK, Call, Order
<1>2. call[p].now <= clock /\ clock < call[q].now + Base
  BY DEF PromptInv, InAttempt, InFlight
<1>3. orders[o].next >= call[q].now + Base /\ orders[o].next <= call[p].now
  BY DEF PromptInv, Due
<1>4. QED
  BY <1>1, <1>2, <1>3

LEMMA PromptCallStep ==
  ASSUME TypeOK, PromptInv, NEW p \in Procs, CallStep(p)
  PROVE  PromptInv'
<1>0. PICK x \in OrderIds : x = call[p].order
  BY DEF TypeOK, Call
<1> DEFINE r == orders[x]
<1>1. /\ r \in Order /\ call[p].now \in Nat /\ clock' = clock
      /\ \A q \in Procs \ {p} : call'[q] = call[q]
  BY <1>0, OneCallMoves
     DEF TypeOK, Call, CallStep, Create, Reread, Claim, Deliver, RecordSuccess, RecordFailure
<1>2. Return(p) => call'[p].pc = "idle"
  BY DEF TypeOK, Return, IdleCall
<1>3. EnterAttempt(p) => call'[p].pc = "claim" /\ call'[p].now = clock
  BY DEF TypeOK, EnterAttempt, Call
<1>4. \A step \in Steps : Goto(p, step) =>
         call'[p].pc = step /\ call'[p].order = call[p].order /\ call'[p].now = call[p].now
  BY DEF TypeOK, Goto, Call
<1>5. CASE UNCHANGED orders
  <2>1. \/ call'[p].pc \in Steps \ {"claim", "deliver", "success", "failure"}
        \/ call'[p].pc = "claim" /\ call'[p].now = clock
        \/ InFlight(p) /\ call'[p].order = call[p].order /\ call'[p].now = call[p].now
        \/ Claim(p) /\ Store(x, Claimed(r, call[p].now)) /\ ~BudgetSpent(r)
    <3>1. CASE Create(p) \/ Reread(p)
      BY <1>2, <1>3, <1>4, <3>1 DEF Create, Reread, Steps
    <3>2. CASE Claim(p)
      BY <1>0, <1>2, <1>4, <3>2 DEF Claim, GiveUp, Steps
    <3>3. ASSUME NEW outcome \in Outcomes, Deliver(p, outcome)
          PROVE  InFlight(p) /\ call'[p].order = call[p].order /\ call'[p].now = call[p].now
      BY <1>4, <3>3 DEF Deliver, AnswerStep, Steps, InFlight
    <3>4. CASE RecordSuccess(p) \/ RecordFailure(p)
      BY <1>2, <1>4, <3>4, FailureCases DEF RecordSuccess, Unrecorded, GiveUp, Steps
    <3>5. QED
      BY <3>1, <3>2, <3>3, <3>4 DEF CallStep
  <2>2. ~ (Claim(p) /\ Store(x, Claimed(r, call[p].now)) /\ ~BudgetSpent(r))
    <3>1. SUFFICES ASSUME Store(x, Claimed(r, call[p].now)), ~BudgetSpent(r)
                   PROVE  FALSE
      OBVIOUS
    <3>2. orders'[x] = Claimed(r, call[p].now)
      BY <3>1, StoreOther
    <3>3. r.attempts \in Nat /\ orders'[x].attempts = r.attempts + 1
      BY <1>1, <3>2 DEF Claimed, Order
    <3>4. QED
      BY <1>5, <3>3
  <2>3. QED
    BY <1>1, <1>5, <2>1, <2>2, QuietStep
<1>6. CASE Create(p) /\ ~UNCHANGED orders
  <2>1. /\ r.state = "none" /\ EnterAttempt(p)
        /\ \A y \in OrderIds \ {x} : orders'[y] = orders[y]
    BY <1>0, <1>6, StoreOther DEF Create
  <2>2. \A q \in Procs : InFlight(q) => call[q].order # x
    BY <2>1 DEF PromptInv, NoAttemptOutlivesItsOrder
  <2>3. \A q \in Procs : InFlight(q)' => call'[q] = call[q] /\ call[q].order # x
    BY <1>1, <1>3, <2>1, <2>2 DEF InFlight
  <2>4. \A q \in Procs : InAttempt(q)' =>
           call'[q] = call[q] \/ (call'[q].pc = "claim" /\ call'[q].now = clock)
    BY <1>1, <1>3, <2>1
  <2>5. QED
    BY <1>1, <2>1, <2>3, <2>4, WriteStep
<1>7. CASE Claim(p) /\ ~UNCHANGED orders
  <2>1. Due(r, call[p].now) /\ call[p].pc = "claim"
    BY <1>0, <1>7 DEF Claim
  <2>2. \A q \in Procs : ~(InFlight(q) /\ call[q].order = x)
    BY <2>1, DueIsFree
  <2>3. CASE Store(x, Exhausted(r)) /\ Return(p)
    <3>1. \A y \in OrderIds \ {x} : orders'[y] = orders[y]
      BY <2>3, StoreOther
    <3>2. \A q \in Procs : InFlight(q)' => call'[q] = call[q] /\ call[q].order # x
      BY <1>1, <1>2, <2>2, <2>3 DEF InFlight
    <3>3. \A q \in Procs : InAttempt(q)' => call'[q] = call[q]
      BY <1>1, <1>2, <2>3 DEF InAttempt
    <3>4. QED
      BY <1>1, <3>1, <3>2, <3>3, WriteStep
  <2>4. CASE Store(x, Claimed(r, call[p].now)) /\ Goto(p, "deliver") /\ ~BudgetSpent(r)
    <3>1. orders'[x] = Claimed(r, call[p].now) /\ \A y \in OrderIds \ {x} : orders'[y] = orders[y]
      BY <2>4, StoreOther
    <3>2. call'[p].pc = "deliver" /\ call'[p].order = x /\ call'[p].now = call[p].now
      BY <1>0, <1>4, <2>4 DEF Steps
    <3>3. Backoff(r.attempts + 1) \in Nat /\ Backoff(r.attempts + 1) >= Base
      BY <1>1, BackoffBound DEF Order
    <3>4. orders'[x].next >= call[p].now + Base
      <4>1. orders'[x].next = call[p].now + Backoff(r.attempts + 1)
        BY <1>1, <3>1 DEF Claimed, Order
      <4>2. QED
        BY <1>1, <3>3, <4>1, ConstantsAssumption
    <3>5. orders'[x].state = "reserved"
      <4>1. r.state = "reserved"
        BY <1>0, <1>1, <1>7, <2>1 DEF Claim, Due, Terminal, Order, DeliveryState
      <4>2. QED
        BY <1>1, <3>1, <4>1 DEF Claimed, Order
    <3>6. \A q \in Procs \ {p} : InFlight(q)' =>
             /\ InFlight(q) /\ call'[q] = call[q] /\ call[q].order # x
             /\ orders'[call[q].order] = orders[call[q].order]
      BY <1>1, <2>2, <3>1 DEF InFlight, TypeOK, Call
    <3>7. \A q \in Procs : InAttempt(q)' => call'[q].now <= clock /\ clock < call'[q].now + Base
      BY <1>1, <2>1, <3>2 DEF PromptInv, InAttempt
    <3>8. QED
      BY <1>1, <3>2, <3>4, <3>5, <3>6, <3>7
         DEF PromptInv, NoAttemptOutlivesItsOrder, AtMostOneInFlight
  <2>5. QED
    BY <1>0, <1>7, <2>3, <2>4 DEF Claim
<1>8. CASE (RecordSuccess(p) \/ RecordFailure(p)) /\ ~UNCHANGED orders
  <2>1. /\ InFlight(p) /\ \E n : Store(x, n)
        /\ call'[p].pc \in {"idle", "retire", "defer"}
    <3>1. CASE RecordSuccess(p)
      BY <1>0, <1>2, <1>8, <3>1 DEF RecordSuccess, InFlight
    <3>2. CASE RecordFailure(p)
      BY <1>0, <1>2, <1>4, <1>8, <3>2, FailureCases DEF RecordFailure, InFlight, Steps
    <3>3. QED
      BY <1>8, <3>1, <3>2
  <2>2. \A y \in OrderIds \ {x} : orders'[y] = orders[y]
    BY <2>1, StoreOther
  <2>3. \A q \in Procs \ {p} : InFlight(q) => call[q].order # x
    BY <1>0, <2>1 DEF PromptInv, AtMostOneInFlight
  <2>4. \A q \in Procs : InFlight(q)' => call'[q] = call[q] /\ call[q].order # x
    BY <1>1, <2>1, <2>3 DEF InFlight
  <2>5. \A q \in Procs : InAttempt(q)' => call'[q] = call[q]
    BY <1>1, <2>1 DEF InAttempt
  <2>6. QED
    BY <1>1, <2>2, <2>4, <2>5, WriteStep
<1>9. QED
  BY <1>5, <1>6, <1>7, <1>8 DEF CallStep, Reread, Deliver

LEMMA PromptStep ==
  ASSUME Prompt, TypeOK, PromptInv, [Next]_vars
  PROVE  PromptInv'
<1>1. \A c \in Callers : c \in Procs
  BY DEF Procs
<1>2. \A s \in Sweepers : s \in Procs
  BY DEF Procs
<1>3. ASSUME NEW p \in Callers, NEW o \in OrderIds, NEW d \in Digests, NEW paidAt \in PaidAts,
             Callback(p, o, d, paidAt)
      PROVE  PromptInv'
  <2>1. call'[p].pc = "create" /\ \A q \in Procs \ {p} : call'[q] = call[q]
    BY <1>1, <1>3 DEF Callback, TypeOK
  <2>2. QED
    BY <1>1, <1>3, <2>1, QuietStep DEF Callback, Steps
<1>4. ASSUME NEW s \in Sweepers, SweepStep(s)
      PROVE  PromptInv'
  <2>1. CASE ReadPage(s)
    BY <2>1, QuietStep DEF ReadPage
  <2>2. CASE NextInPage(s)
    <3>1. /\ call'[s].pc = "claim" /\ call'[s].now = clock
          /\ \A q \in Procs \ {s} : call'[q] = call[q]
      BY <1>2, <2>2 DEF NextInPage, IdleCall, TypeOK
    <3>2. QED
      BY <1>2, <2>2, <3>1, QuietStep DEF NextInPage
  <2>3. CASE RetirePending(s) \/ DeferPending(s)
    <3>1. call'[s].pc = "idle" /\ \A q \in Procs \ {s} : call'[q] = call[q]
      BY <1>2, <2>3 DEF RetirePending, DeferPending, Return, IdleCall, TypeOK
    <3>2. QED
      BY <1>2, <2>3, <3>1, QuietStep DEF RetirePending, DeferPending, Steps
  <2>4. QED
    BY <1>2, <1>4, <2>1, <2>2, <2>3, PromptCallStep DEF SweepStep
<1>5. ASSUME NEW o \in OrderIds, ReopenDelivery(o) \/ SettleOutOfBand(o)
      PROVE  PromptInv'
  <2>1. /\ orders[o].state = "exhausted" /\ clock' = clock /\ call' = call
        /\ \A y \in OrderIds \ {o} : orders'[y] = orders[y]
    BY <1>5, StoreOther DEF ReopenDelivery, SettleOutOfBand
  <2>2. \A q \in Procs : InFlight(q) => call[q].order # o
    BY <2>1 DEF PromptInv, NoAttemptOutlivesItsOrder
  <2>3. \A q \in Procs : InFlight(q)' => call'[q] = call[q] /\ call[q].order # o
    BY <2>1, <2>2 DEF InFlight
  <2>4. QED
    BY <2>1, <2>3, WriteStep
<1>6. ASSUME NEW p \in Procs, Abandon(p) \/ (p \in Sweepers /\ Restart(p))
      PROVE  PromptInv'
  <2>1. call'[p].pc = "idle" /\ \A q \in Procs \ {p} : call'[q] = call[q]
    BY <1>6 DEF Abandon, Restart, Return, IdleCall, TypeOK
  <2>2. QED
    BY <1>6, <2>1, QuietStep DEF Abandon, Restart, Steps
<1>7. CASE \E o \in OrderIds : Poison(o) \/ Repair(o)
  BY <1>7, QuietStep DEF Poison, Repair
<1>8. CASE Tick
  <2>1. clock \in Nat /\ clock' = clock + 1 /\ call' = call /\ orders' = orders
    BY <1>8 DEF Tick, TypeOK
  <2>2. \A p \in Procs : InAttempt(p) => clock + 1 < call[p].now + Base
    BY <1>8 DEF Tick
  <2>3. \A p \in Procs : InAttempt(p)' => call'[p].now <= clock' /\ clock' < call'[p].now + Base
    <3>1. SUFFICES ASSUME NEW p \in Procs, InAttempt(p)
                   PROVE  call[p].now <= clock + 1 /\ clock + 1 < call[p].now + Base
      BY <2>1 DEF InAttempt
    <3>2. call[p].now \in Nat /\ call[p].now <= clock
      BY <3>1 DEF PromptInv, TypeOK, Call
    <3>3. QED
      BY <2>1, <2>2, <3>1, <3>2
  <2>4. QED
    BY <2>1, <2>3 DEF PromptInv, InFlight, NoAttemptOutlivesItsOrder, AtMostOneInFlight
<1>9. CASE UNCHANGED vars
  BY <1>9, QuietStep DEF vars
<1>10. QED
  BY <1>1, <1>2, <1>3, <1>4, <1>5, <1>6, <1>7, <1>8, <1>9, PromptCallStep DEF Next

\* If every attempt ends before its backoff elapses, then whatever callbacks,
\* retry loops, operators and faults do, two attempts of one order are never
\* in flight together, and no order is given up or settled while one is.
THEOREM OneAttemptAtATime ==
  ASSUME Prompt
  PROVE  Spec => [](AtMostOneInFlight /\ NoAttemptOutlivesItsOrder)
<1>1. TypeOK /\ PromptInv /\ [Next]_vars => PromptInv'
  BY PromptStep
<1>2. PromptInv => AtMostOneInFlight /\ NoAttemptOutlivesItsOrder
  BY DEF PromptInv
<1>3. QED
  BY <1>1, <1>2, PromptInit, TypeCorrect, PTL DEF Spec

\* Under the same assumption a settled order stays settled: the goods of a
\* refunded order are not granted by an attempt that was still running.
THEOREM SettledStaysSettled ==
  ASSUME Prompt
  PROVE  Spec => SettledIsFinal
<1>1. TypeOK /\ PromptInv /\ [Next]_vars =>
        [\A o \in OrderIds : orders[o].state = "settled" => orders'[o].state = "settled"]_vars
  <2> SUFFICES ASSUME TypeOK, PromptInv, [Next]_vars, NEW o \in OrderIds,
                      orders[o].state = "settled"
               PROVE  orders'[o].state = "settled"
    OBVIOUS
  <2>1. CASE UNCHANGED orders
    BY <2>1
  <2>2. ASSUME NEW p \in Procs, CallStep(p), ~UNCHANGED orders
        PROVE  orders'[o].state = "settled"
    <3>1. PICK x \in OrderIds : x = call[p].order
      BY DEF TypeOK, Call
    <3>2. orders[x].state # "settled"
      BY <2>2, <3>1 DEF CallStep, Create, Reread, Claim, Deliver, RecordSuccess, RecordFailure,
                        Due, Terminal, PromptInv, NoAttemptOutlivesItsOrder, InFlight
    <3>3. \E n : Store(x, n)
      BY <2>2, <3>1 DEF CallStep, Create, Reread, Claim, Deliver, RecordSuccess, RecordFailure
    <3>4. QED
      BY <3>2, <3>3, StoreOther
  <2>3. ASSUME NEW x \in OrderIds, ReopenDelivery(x) \/ SettleOutOfBand(x)
        PROVE  orders'[o].state = "settled"
    <3>1. orders[x].state # "settled" /\ \E n : Store(x, n)
      BY <2>3 DEF ReopenDelivery, SettleOutOfBand
    <3>2. QED
      BY <3>1, StoreOther
  <2>4. QED
    BY <2>1, <2>2, <2>3 DEF Next, SweepStep, Callback, ReadPage, NextInPage, RetirePending,
       DeferPending, Abandon, Restart, Poison, Repair, Tick, Procs, vars
<1>2. TypeOK /\ PromptInv /\ [Next]_vars => PromptInv'
  BY PromptStep
<1>3. QED
  BY <1>1, <1>2, PromptInit, TypeCorrect, PTL DEF Spec, SettledIsFinal
-----------------------------------------------------------------------------
(* Every grant rests on a claim, and every delivery on a grant.            *)

\* The attempts of an order that are with the deliverer.
Granting(o) == {p \in Procs : call[p].pc = "deliver" /\ call[p].order = o}

\* The inductive form of GrantsAreClaimed: a claim pays for the attempt that is
\* with the deliverer as well as for the grant it ends in, and an attempt that
\* brings back a grant has one to report.
GrantInv ==
  /\ \A o \in OrderIds : Cardinality(Granting(o)) + granted[o] <= claims[o]
  /\ \A p \in Procs : call[p].pc = "success" => granted[call[p].order] > 0
  /\ \A o \in OrderIds : orders[o].state = "delivered" => granted[o] > 0

LEMMA GrantingIsFinite ==
  ASSUME NEW o \in OrderIds
  PROVE  /\ IsFiniteSet(Granting(o)) /\ Cardinality(Granting(o)) \in Nat
         /\ IsFiniteSet(Granting(o)') /\ Cardinality(Granting(o)') \in Nat
<1>1. IsFiniteSet(Procs)
  BY ConstantsAssumption, FS_Union DEF Procs
<1>2. Granting(o) \in SUBSET Procs /\ Granting(o)' \in SUBSET Procs
  BY DEF Granting
<1>3. IsFiniteSet(Granting(o)) /\ IsFiniteSet(Granting(o)')
  BY <1>1, <1>2, FS_Subset
<1>4. QED
  BY <1>3, FS_CardinalityType

\* What a step may do to the account of the grants of an order: nothing is
\* added to it, a claim pays for one more attempt, or an attempt leaves the
\* deliverer, with a grant or without.
GrantChange(o) ==
  \/ /\ granted'[o] = granted[o] /\ claims'[o] >= claims[o]
     /\ Granting(o)' \subseteq Granting(o)
  \/ /\ granted'[o] = granted[o] /\ claims'[o] = claims[o] + 1
     /\ \E p \in Procs : Granting(o)' \subseteq Granting(o) \cup {p}
  \/ /\ granted'[o] \in {granted[o], granted[o] + 1} /\ claims'[o] = claims[o]
     /\ \E p \in Granting(o) : Granting(o)' \subseteq Granting(o) \ {p}

LEMMA GrantCallStep ==
  ASSUME TypeOK, NEW p \in Procs, CallStep(p), NEW o \in OrderIds
  PROVE  GrantChange(o)
<1>0. claims[o] \in Nat /\ granted[o] \in Nat
  BY DEF TypeOK
<1>1. \A q \in Procs \ {p} : call'[q] = call[q]
  BY OneCallMoves
<1>2. call'[p].pc # "deliver" => Granting(o)' \subseteq Granting(o)
  BY <1>1 DEF Granting
<1>3. Return(p) => call'[p].pc # "deliver"
  BY OneCallMoves
<1>4. CASE Create(p) \/ Reread(p) \/ RecordSuccess(p) \/ RecordFailure(p)
  <2>1. call'[p].pc # "deliver"
    BY <1>3, <1>4, OneCallMoves, FailureCases
       DEF Create, Reread, RecordSuccess, Unrecorded, GiveUp, Steps
  <2>2. claims' = claims /\ granted' = granted
    BY <1>4 DEF Create, Reread, RecordSuccess, RecordFailure
  <2>3. QED
    BY <1>0, <1>2, <2>1, <2>2 DEF GrantChange
<1>5. CASE Claim(p)
  <2>1. granted' = granted
    BY <1>5 DEF Claim
  <2>2. CASE call'[p].pc # "deliver" /\ claims' = claims
    BY <1>0, <1>2, <2>1, <2>2 DEF GrantChange
  <2>3. CASE Goto(p, "deliver") /\ claims' = [claims EXCEPT ![call[p].order] = @ + 1]
    <3>1. call'[p].pc = "deliver" /\ call'[p].order = call[p].order
      BY <2>3, OneCallMoves DEF Steps
    <3>2. CASE call[p].order = o
      <4>1. claims'[o] = claims[o] + 1
        BY <2>3, <3>2 DEF TypeOK
      <4>2. Granting(o)' \subseteq Granting(o) \cup {p}
        BY <1>1 DEF Granting
      <4>3. QED
        BY <2>1, <4>1, <4>2 DEF GrantChange
    <3>3. CASE call[p].order # o
      <4>1. claims'[o] = claims[o]
        BY <2>3, <3>3 DEF TypeOK
      <4>2. Granting(o)' \subseteq Granting(o)
        BY <1>1, <3>1, <3>3 DEF Granting
      <4>3. QED
        BY <1>0, <2>1, <4>1, <4>2 DEF GrantChange
    <3>4. QED
      BY <3>2, <3>3
  <2>4. QED
    BY <1>3, <1>5, <2>2, <2>3, OneCallMoves DEF Claim, GiveUp, Steps
<1>6. ASSUME NEW outcome \in Outcomes, Deliver(p, outcome)
      PROVE  GrantChange(o)
  <2>1. /\ call[p].pc = "deliver" /\ claims' = claims
        /\ call'[p].pc # "deliver"
    BY <1>6, OneCallMoves DEF Deliver, AnswerStep, Steps
  <2>2. CASE call[p].order = o
    <3>1. granted'[o] \in {granted[o], granted[o] + 1}
      BY <1>6, <2>2 DEF Deliver, TypeOK
    <3>2. p \in Granting(o) /\ Granting(o)' \subseteq Granting(o) \ {p}
      BY <1>1, <2>1, <2>2 DEF Granting
    <3>3. QED
      BY <2>1, <3>1, <3>2 DEF GrantChange
  <2>3. CASE call[p].order # o
    <3>1. granted'[o] = granted[o]
      BY <1>6, <2>3 DEF Deliver, TypeOK
    <3>2. QED
      BY <1>0, <1>2, <2>1, <3>1 DEF GrantChange
  <2>4. QED
    BY <2>2, <2>3
<1>7. QED
  BY <1>4, <1>5, <1>6 DEF CallStep

\* A step that is not of a call in progress starts no attempt with the deliverer.
LEMMA GrantQuietStep ==
  ASSUME TypeOK, UNCHANGED <<granted, claims>>,
         \A q \in Procs : call'[q] = call[q] \/ call'[q].pc \notin {"deliver", "success"}
  PROVE  /\ \A o \in OrderIds : GrantChange(o)
         /\ \A q \in Procs : call'[q].pc = "success" => call'[q] = call[q]
<1>1. ASSUME NEW o \in OrderIds
      PROVE  GrantChange(o)
  <2>1. claims[o] \in Nat
    BY DEF TypeOK
  <2>2. Granting(o)' \subseteq Granting(o)
    BY DEF Granting
  <2>3. QED
    BY <2>1, <2>2 DEF GrantChange
<1>2. QED
  BY <1>1

\* Every other step is one of those.
LEMMA OtherSteps ==
  ASSUME TypeOK, [Next]_vars, \A p \in Procs : ~CallStep(p)
  PROVE  /\ UNCHANGED <<granted, claims>>
         /\ \A q \in Procs : call'[q] = call[q] \/ call'[q].pc \in {"idle", "create", "claim"}
         /\ \A o \in OrderIds :
              \/ orders'[o] = orders[o]
              \/ orders[o].state = "exhausted" /\ orders'[o] \in {Reopened(orders[o]), Settled(orders[o])}
<1>1. \A p \in Callers : p \in Procs
  BY DEF Procs
<1>2. \A s \in Sweepers : s \in Procs
  BY DEF Procs
<1>3. CASE UNCHANGED <<orders, granted, claims>>
  <2>1. ASSUME NEW p \in Procs, call' = [call EXCEPT ![p] = IdleCall]
        PROVE  \A q \in Procs : call'[q] = call[q] \/ call'[q].pc \in {"idle", "create", "claim"}
    BY <2>1 DEF TypeOK, IdleCall
  <2>2. ASSUME NEW p \in Callers, NEW o \in OrderIds, NEW d \in Digests, NEW paidAt \in PaidAts,
               Callback(p, o, d, paidAt)
        PROVE  \A q \in Procs : call'[q] = call[q] \/ call'[q].pc \in {"idle", "create", "claim"}
    BY <1>1, <2>2 DEF TypeOK, Callback
  <2>3. ASSUME NEW s \in Sweepers, NextInPage(s)
        PROVE  \A q \in Procs : call'[q] = call[q] \/ call'[q].pc \in {"idle", "create", "claim"}
    BY <1>2, <2>3 DEF TypeOK, NextInPage, IdleCall
  <2>4. CASE call' = call
    BY <1>3, <2>4
  <2>5. \A q \in Procs : call'[q] = call[q] \/ call'[q].pc \in {"idle", "create", "claim"}
    BY <1>1, <1>2, <2>1, <2>2, <2>3, <2>4
       DEF Next, SweepStep, ReadPage, RetirePending, DeferPending, ReopenDelivery,
           SettleOutOfBand, Abandon, Restart, Poison, Repair, Tick, Return, vars
  <2>6. QED
    BY <1>3, <2>5
<1>4. ASSUME NEW x \in OrderIds, ReopenDelivery(x) \/ SettleOutOfBand(x)
      PROVE  /\ UNCHANGED <<granted, claims, call>>
             /\ \A o \in OrderIds :
                  \/ orders'[o] = orders[o]
                  \/ orders[o].state = "exhausted" /\ orders'[o] \in {Reopened(orders[o]), Settled(orders[o])}
  BY <1>4, StoreOther DEF ReopenDelivery, SettleOutOfBand
<1>5. QED
  BY <1>1, <1>2, <1>3, <1>4
     DEF Next, SweepStep, Callback, ReadPage, NextInPage, RetirePending, DeferPending,
         Abandon, Restart, Poison, Repair, Tick, vars

\* A record becomes delivered only by an attempt that brings back a grant.
LEMMA DeliveredByGrant ==
  ASSUME TypeOK, [Next]_vars, NEW o \in OrderIds,
         orders'[o].state = "delivered", orders[o].state # "delivered"
  PROVE  \E p \in Procs : call[p].pc = "success" /\ call[p].order = o
<1>1. CASE \A p \in Procs : ~CallStep(p)
  <2>1. orders[o] \in Order
    BY DEF TypeOK
  <2>2. QED
    BY <1>1, <2>1, OtherSteps DEF Reopened, Settled, Order
<1>2. ASSUME NEW p \in Procs, CallStep(p)
      PROVE  call[p].pc = "success" /\ call[p].order = o
  <2>0. PICK x \in OrderIds : x = call[p].order
    BY DEF TypeOK, Call
  <2>1. orders[x] \in Order /\ call[p].order \in OrderIds
    BY <2>0 DEF TypeOK
  <2>2. \A n : Store(x, n) => o = x /\ orders'[o] = n
    BY StoreOther
  <2>3. ~UNCHANGED orders
    OBVIOUS
  <2>4. CASE Create(p)
    BY <2>0, <2>2, <2>3, <2>4 DEF Create, NewOrder
  <2>5. CASE Claim(p)
    <3>1. /\ Exhausted(orders[x]).state = "exhausted"
          /\ Claimed(orders[x], call[p].now).state = orders[x].state
      BY <2>1 DEF Claimed, Exhausted, Order
    <3>2. Store(x, Exhausted(orders[x])) \/ Store(x, Claimed(orders[x], call[p].now))
      BY <2>0, <2>3, <2>5 DEF Claim
    <3>3. QED
      BY <2>2, <3>1, <3>2
  <2>6. CASE RecordFailure(p)
    <3>1. AfterFailure(orders[x]).state \in {orders[x].state, "exhausted"}
      BY <2>1 DEF AfterFailure, Exhausted, Order
    <3>2. Store(x, AfterFailure(orders[x]))
      BY <2>0, <2>3, <2>6 DEF RecordFailure
    <3>3. QED
      BY <2>2, <3>1, <3>2
  <2>7. CASE RecordSuccess(p)
    BY <2>0, <2>2, <2>3, <2>7 DEF RecordSuccess
  <2>8. QED
    BY <1>2, <2>3, <2>4, <2>5, <2>6, <2>7 DEF CallStep, Reread, Deliver
<1>3. QED
  BY <1>1, <1>2

LEMMA GrantInit == Init => GrantInv
<1> SUFFICES ASSUME Init
             PROVE  GrantInv
  OBVIOUS
<1>1. \A p \in Procs : call[p].pc = "idle"
  BY DEF Init, IdleCall
<1>2. \A o \in OrderIds : Cardinality(Granting(o)) = 0
  <2>1. \A o \in OrderIds : Granting(o) = {}
    BY <1>1 DEF Granting
  <2>2. QED
    BY <2>1, FS_EmptySet
<1>3. \A o \in OrderIds : granted[o] = 0 /\ claims[o] = 0 /\ orders[o].state = "none"
  BY DEF Init, NoOrder
<1>4. QED
  BY <1>1, <1>2, <1>3 DEF GrantInv

LEMMA GrantStep == TypeOK /\ GrantInv /\ [Next]_vars => GrantInv'
<1> SUFFICES ASSUME TypeOK, GrantInv, [Next]_vars
             PROVE  GrantInv'
  OBVIOUS
<1>1. ASSUME NEW o \in OrderIds
      PROVE  GrantChange(o)
  BY GrantCallStep, GrantQuietStep, OtherSteps
<1>2. ASSUME NEW o \in OrderIds
      PROVE  Cardinality(Granting(o)') + granted'[o] <= claims'[o] /\ granted'[o] >= granted[o]
  <2> DEFINE G == Granting(o)
             H == Granting(o)'
             g == Cardinality(G)
             h == Cardinality(H)
  <2>1. /\ IsFiniteSet(G) /\ g \in Nat /\ h \in Nat /\ g + granted[o] <= claims[o]
        /\ granted[o] \in Nat /\ claims[o] \in Nat
    BY GrantingIsFinite DEF GrantInv, TypeOK
  <2>2. claims'[o] \in Nat
    BY NextTypeOK DEF TypeOK
  <2>3. GrantChange(o)
    BY <1>1
  <2>4. CASE /\ granted'[o] = granted[o] /\ claims'[o] >= claims[o] /\ H \subseteq G
    <3>1. h <= g
      BY <2>1, <2>4, FS_Subset
    <3> HIDE DEF G, H, g, h
    <3>2. h + granted'[o] <= claims'[o] /\ granted'[o] >= granted[o]
      BY <2>1, <2>2, <2>4, <3>1
    <3>3. QED
      BY <3>2 DEF H, h
  <2>5. ASSUME NEW p \in Procs, granted'[o] = granted[o], claims'[o] = claims[o] + 1,
               H \subseteq G \cup {p}
        PROVE  h + granted'[o] <= claims'[o] /\ granted'[o] >= granted[o]
    <3>1. IsFiniteSet(G \cup {p}) /\ Cardinality(G \cup {p}) \in {g, g + 1}
      BY <2>1, FS_AddElement
    <3>2. h <= Cardinality(G \cup {p})
      BY <2>5, <3>1, FS_Subset
    <3> HIDE DEF G, H, g, h
    <3>3. h <= g + 1
      BY <2>1, <3>1, <3>2
    <3>4. QED
      BY <2>1, <2>2, <2>5, <3>3
  <2>6. ASSUME NEW p \in G, granted'[o] \in {granted[o], granted[o] + 1}, claims'[o] = claims[o],
               H \subseteq G \ {p}
        PROVE  h + granted'[o] <= claims'[o] /\ granted'[o] >= granted[o]
    <3>1. IsFiniteSet(G \ {p}) /\ Cardinality(G \ {p}) = g - 1
      BY <2>1, <2>6, FS_RemoveElement
    <3>2. h <= g - 1
      BY <2>6, <3>1, FS_Subset
    <3> HIDE DEF G, H, g, h
    <3>3. QED
      BY <2>1, <2>2, <2>6, <3>2
  <2>7. QED
    BY <2>3, <2>4, <2>5, <2>6 DEF GrantChange
<1>3. ASSUME NEW p \in Procs, call'[p].pc = "success"
      PROVE  granted'[call'[p].order] > 0
  <2>1. call[p].order \in OrderIds
    BY DEF TypeOK, Call
  <2>2. CASE call'[p] = call[p]
    <3>1. granted[call[p].order] > 0 /\ granted'[call[p].order] >= granted[call[p].order]
      BY <1>2, <1>3, <2>1, <2>2 DEF GrantInv
    <3>2. granted[call[p].order] \in Nat /\ granted'[call[p].order] \in Nat
      BY <2>1, NextTypeOK DEF TypeOK
    <3>3. QED
      BY <2>2, <3>1, <3>2
  <2>3. CASE call'[p] # call[p]
    <3>1. \E q \in Procs : CallStep(q)
      BY <1>3, <2>3, OtherSteps
    <3>2. CallStep(p)
      BY <2>3, <3>1, OneCallMoves
    <3>3. PICK outcome \in Outcomes : Deliver(p, outcome)
      <4>1. ~(Return(p) \/ EnterAttempt(p) \/ Goto(p, "reread") \/ Goto(p, "deliver")
              \/ Goto(p, "defer") \/ Goto(p, "retire"))
        BY <1>3, OneCallMoves DEF Steps
      <4>2. QED
        BY <3>2, <4>1, FailureCases
           DEF CallStep, Create, Reread, Claim, RecordSuccess, Unrecorded, GiveUp
    <3>4. outcome = "granted" /\ call'[p].order = call[p].order
      BY <1>3, <3>3, OneCallMoves, ConstantsAssumption DEF Deliver, AnswerStep, Steps
    <3>5. granted'[call[p].order] = granted[call[p].order] + 1 /\ granted[call[p].order] \in Nat
      BY <2>1, <3>3, <3>4 DEF Deliver, TypeOK
    <3>6. QED
      BY <3>4, <3>5
  <2>4. QED
    BY <2>2, <2>3
<1>4. ASSUME NEW o \in OrderIds, orders'[o].state = "delivered"
      PROVE  granted'[o] > 0
  <2>1. granted[o] > 0
    BY <1>4, DeliveredByGrant DEF GrantInv
  <2>2. granted[o] \in Nat /\ granted'[o] \in Nat /\ granted'[o] >= granted[o]
    BY <1>2, NextTypeOK DEF TypeOK
  <2>3. QED
    BY <2>1, <2>2
<1>5. QED
  BY <1>2, <1>3, <1>4 DEF GrantInv

\* Whatever fails, stops or answers late, the goods of an order are granted at
\* most as often as its record says it was attempted, and no record says
\* delivered of goods that were never granted.
THEOREM GrantsAlwaysClaimed == Spec => []GrantsAreClaimed
<1>1. TypeOK /\ GrantInv => GrantsAreClaimed
  <2> SUFFICES ASSUME TypeOK, GrantInv, NEW o \in OrderIds
               PROVE  granted[o] <= claims[o] /\ (orders[o].state = "delivered" => granted[o] > 0)
    BY DEF GrantsAreClaimed
  <2>1. /\ Cardinality(Granting(o)) \in Nat /\ granted[o] \in Nat /\ claims[o] \in Nat
        /\ Cardinality(Granting(o)) + granted[o] <= claims[o]
    BY GrantingIsFinite DEF TypeOK, GrantInv
  <2>2. granted[o] <= claims[o]
    BY <2>1
  <2>3. QED
    BY <2>2 DEF GrantInv
<1>2. QED
  BY <1>1, GrantInit, GrantStep, TypeCorrect, PTL DEF Spec
-----------------------------------------------------------------------------
(* Every order that is still owed is in the index.                         *)

Recorded(r) == r.state # "none" /\ r.createdAt > 0

\* The ids the index may name: those of records, and those it named at the start.
KnownIds == {o \in OrderIds : orders[o].state # "none"} \cup Orphans

\* Whose entry the retry loop may drop.
Dropped == Orphans \cup disowned

\* The inductive form of PendingIsIndexed: a record has the time of its creation
\* to stand in for its first deadline, every call and page is of an id that the
\* index may name, and an entry is retired only when its order may lose it.
IndexInv ==
  /\ \A o \in OrderIds : orders[o].state = "none" => index[o] = 0 \/ o \in Orphans
  /\ \A o \in OrderIds : orders[o].state # "none" => orders[o].createdAt > 0
  /\ PendingIsIndexed
  /\ \A p \in Procs : call[p].pc = "create" => call[p].now > 0
  /\ \A p \in Procs : call[p].pc \notin {"idle", "create"} => call[p].order \in KnownIds
  /\ \A p \in Procs : call[p].pc = "retire" => call[p].order \in Dropped
  /\ \A s \in Sweepers : page[s] \in Seq(KnownIds)

\* The score of a record says whether it is terminal.
LEMMA ScoreOfRecord ==
  ASSUME NEW r \in Order, Recorded(r)
  PROVE  PendingScore(r) > 0 <=> ~Terminal(r)
BY DEF Recorded, PendingScore, Order

LEMMA UpdatesKeepRecorded ==
  ASSUME NEW r \in Order, Recorded(r), NEW now \in Nat
  PROVE  /\ Recorded(Exhausted(r)) /\ Recorded(Claimed(r, now)) /\ Recorded(AfterSuccess(r, now))
         /\ Recorded(AfterFailure(r)) /\ Recorded(Reopened(r)) /\ Recorded(Settled(r))
<1>1. Recorded(Exhausted(r)) /\ Recorded(Reopened(r)) /\ Recorded(Settled(r))
  BY DEF Recorded, Order, Exhausted, Reopened, Settled
<1>2. Recorded(Claimed(r, now))
  BY DEF Recorded, Order, Claimed
<1>3. Recorded(AfterSuccess(r, now)) /\ Recorded(AfterFailure(r))
  BY <1>1 DEF Recorded, Order, AfterSuccess, AfterFailure
<1>4. QED
  BY <1>1, <1>2, <1>3

LEMMA PageOfKnown ==
  ASSUME TypeOK, IndexInv, NEW q \in Pages
  PROVE  q \in Seq(KnownIds)
<1> DEFINE n == IF Cardinality(DueEntries) < RetryBatch THEN Cardinality(DueEntries) ELSE RetryBatch
<1>1. DueEntries \in SUBSET OrderIds /\ DueEntries \subseteq KnownIds
  BY ConstantsAssumption DEF DueEntries, KnownIds, IndexInv, TypeOK
<1>2. Cardinality(DueEntries) \in Nat
  BY <1>1, ConstantsAssumption, FS_Subset, FS_CardinalityType
<1>3. n \in Nat
  BY <1>2, ConstantsAssumption
<1>4. q \in [1..n -> DueEntries]
  BY DEF Pages
<1>5. q \in [1..n -> KnownIds]
  BY <1>1, <1>4
<1> HIDE DEF n
<1>6. QED
  BY <1>3, <1>5

\* What one step may do to an order and its place in the index: a write puts a
\* record there and gives it its score, an index repair moves an entry or drops
\* one that may be dropped.
IndexChange(o) ==
  \/ orders'[o] = orders[o] /\ (index'[o] > 0 <=> index[o] > 0) /\ (index'[o] = 0 <=> index[o] = 0)
  \/ Recorded(orders'[o]) /\ index'[o] = PendingScore(orders'[o])
  \/ orders'[o] = orders[o] /\ index'[o] = 0 /\ o \in Dropped

LEMMA WriteIndexes ==
  ASSUME TypeOK, NEW x \in OrderIds, NEW r, Recorded(r), Store(x, r), NEW o \in OrderIds
  PROVE  IndexChange(o)
BY DEF TypeOK, Store, IndexChange

LEMMA IndexStepOfCall ==
  ASSUME TypeOK, IndexInv, NEW p \in Procs, CallStep(p), NEW o \in OrderIds
  PROVE  IndexChange(o)
<1>0. PICK x \in OrderIds : x = call[p].order
  BY DEF TypeOK, Call
<1>1. orders[x] \in Order /\ call[p].now \in Nat
  BY <1>0 DEF TypeOK, Call
<1>2. orders[x].state # "none" => Recorded(orders[x])
  BY DEF IndexInv, Recorded
<1>3. CASE UNCHANGED <<orders, index>>
  BY <1>3 DEF IndexChange
<1>4. ASSUME NEW r, Store(x, r), ~UNCHANGED <<orders, index>>
      PROVE  Recorded(r)
  <2>1. orders'[x] = r
    BY <1>4, StoreOther
  <2>2. CASE Create(p)
    <3>1. Store(x, NewOrder(call[p])) /\ call[p].now > 0
      BY <1>0, <1>4, <2>2 DEF Create, IndexInv
    <3>2. r = NewOrder(call[p])
      BY <2>1, <3>1, StoreOther
    <3>3. QED
      BY <3>1, <3>2 DEF Recorded, NewOrder
  <2>3. CASE Claim(p)
    <3>1. /\ orders[x].state # "none"
          /\ Store(x, Exhausted(orders[x])) \/ Store(x, Claimed(orders[x], call[p].now))
      BY <1>0, <1>4, <2>3 DEF Claim
    <3>2. QED
      BY <1>1, <1>2, <2>1, <3>1, StoreOther, UpdatesKeepRecorded
  <2>4. CASE RecordSuccess(p)
    <3>1. orders[x].state # "none" /\ Store(x, AfterSuccess(orders[x], call[p].now))
      BY <1>0, <1>4, <2>4 DEF RecordSuccess, Unreadable
    <3>2. QED
      BY <1>1, <1>2, <2>1, <3>1, StoreOther, UpdatesKeepRecorded
  <2>5. CASE RecordFailure(p)
    <3>1. orders[x].state # "none" /\ Store(x, AfterFailure(orders[x]))
      BY <1>0, <1>4, <2>5 DEF RecordFailure, Unreadable
    <3>2. QED
      BY <1>1, <1>2, <2>1, <3>1, StoreOther, UpdatesKeepRecorded
  <2>6. QED
    BY <1>4, <2>2, <2>3, <2>4, <2>5 DEF CallStep, Reread, Deliver
<1>5. UNCHANGED <<orders, index>> \/ \E r : Store(x, r)
  BY <1>0 DEF CallStep, Create, Reread, Claim, Deliver, RecordSuccess, RecordFailure
<1>6. QED
  BY <1>3, <1>4, <1>5, WriteIndexes

LEMMA IndexStepOfOthers ==
  ASSUME TypeOK, IndexInv, [Next]_vars, \A p \in Procs : ~CallStep(p), NEW o \in OrderIds
  PROVE  IndexChange(o)
<1>1. CASE UNCHANGED <<orders, index>>
  BY <1>1 DEF IndexChange
<1>2. ASSUME NEW s \in Sweepers, DeferPending(s)
      PROVE  IndexChange(o)
  <2>1. clock + PoisonedDelay > 0
    BY ConstantsAssumption DEF TypeOK
  <2>2. index[o] \in Nat /\ index'[o] \in {index[o], IF index[o] = 0 THEN 0 ELSE clock + PoisonedDelay}
    BY <1>2 DEF DeferPending, TypeOK
  <2>3. orders' = orders
    BY <1>2 DEF DeferPending
  <2>4. QED
    BY <2>1, <2>2, <2>3, ConstantsAssumption DEF IndexChange, TypeOK
<1>3. ASSUME NEW s \in Sweepers, RetirePending(s)
      PROVE  IndexChange(o)
  <2>1. call[s].order \in Dropped /\ orders' = orders
    BY <1>3 DEF RetirePending, IndexInv, Procs
  <2>2. index'[o] = index[o] \/ (o = call[s].order /\ index'[o] = 0)
    BY <1>3 DEF RetirePending, TypeOK
  <2>3. QED
    BY <2>1, <2>2 DEF IndexChange
<1>4. ASSUME NEW x \in OrderIds, ReopenDelivery(x) \/ SettleOutOfBand(x)
      PROVE  IndexChange(o)
  <2>1. /\ orders[x].state # "none" /\ orders[x] \in Order
        /\ Store(x, Reopened(orders[x])) \/ Store(x, Settled(orders[x]))
    BY <1>4 DEF ReopenDelivery, SettleOutOfBand, TypeOK
  <2>2. Recorded(orders[x])
    BY <2>1 DEF IndexInv, Recorded
  <2>3. QED
    BY <2>1, <2>2, UpdatesKeepRecorded, WriteIndexes
<1>5. QED
  BY <1>1, <1>2, <1>3, <1>4
     DEF Next, SweepStep, Callback, ReadPage, NextInPage, Abandon, Restart, Poison, Repair, Tick,
         Procs, vars

\* A record is never forgotten.
LEMMA RecordedStays ==
  ASSUME TypeOK, [Next]_vars, NEW o \in OrderIds, orders[o].state # "none"
  PROVE  orders'[o].state # "none"
<1>1. OrderChange(o) /\ orders[o] \in Order
  BY StepOrderChange DEF TypeOK
<1>2. QED
  BY <1>1 DEF OrderChange, Claimed, Exhausted, AfterSuccess, Reopened, Settled, Order

LEMMA KnownStays ==
  ASSUME TypeOK, [Next]_vars
  PROVE  KnownIds \subseteq KnownIds' /\ Dropped \subseteq Dropped'
<1>1. KnownIds \subseteq KnownIds'
  BY RecordedStays DEF KnownIds
<1>2. disowned \subseteq disowned'
  BY FailureCases
     DEF Next, CallStep, Create, Reread, Claim, Deliver, RecordSuccess, SweepStep, Callback,
         ReadPage, NextInPage, RetirePending, DeferPending, ReopenDelivery, SettleOutOfBand,
         Abandon, Restart, Poison, Repair, Tick, vars
<1>3. QED
  BY <1>1, <1>2 DEF Dropped

\* The calls and the pages stay with known ids.
LEMMA IndexCalls ==
  ASSUME TypeOK, IndexInv, [Next]_vars, NEW p \in Procs
  PROVE  /\ call'[p].pc = "create" => call'[p].now > 0
         /\ call'[p].pc \notin {"idle", "create"} => call'[p].order \in KnownIds'
         /\ call'[p].pc = "retire" => call'[p].order \in Dropped'
<1> DEFINE Kept(c) == /\ c.pc = "create" => c.now > 0
                      /\ c.pc \notin {"idle", "create"} => c.order \in KnownIds'
                      /\ c.pc = "retire" => c.order \in Dropped'
<1>1. KnownIds \subseteq KnownIds' /\ Dropped \subseteq Dropped'
  BY KnownStays
<1>2. call[p] \in Call /\ call[p].order \in OrderIds /\ orders[call[p].order] \in Order
  BY DEF TypeOK, Call
<1>3. CASE call'[p] = call[p]
  BY <1>1, <1>2, <1>3 DEF IndexInv
<1>4. CASE CallStep(p) /\ call'[p] # call[p]
  <2>0. PICK x \in OrderIds : x = call[p].order
    BY <1>2
  <2>1. Return(p) => Kept(call'[p])
    BY OneCallMoves
  <2>2. EnterAttempt(p) => call'[p].pc = "claim" /\ call'[p].order = x
    BY <2>0, OneCallMoves
  <2>3. \A step \in Steps : Goto(p, step) => call'[p].pc = step /\ call'[p].order = x
    BY <2>0, OneCallMoves
  <2>4. CASE Create(p)
    <3>1. x \in KnownIds'
      BY <2>0, <2>4, StoreOther DEF Create, NewOrder, KnownIds
    <3>2. QED
      BY <2>2, <2>3, <2>4, <3>1 DEF Create, Steps
  <2>5. CASE ~Create(p)
    <3>1. /\ call[p].pc \notin {"idle", "create"}
          /\ x \in KnownIds /\ x \in KnownIds'
      BY <1>1, <1>4, <2>0, <2>5
         DEF IndexInv, CallStep, Create, Reread, Claim, Deliver, RecordSuccess, RecordFailure
    <3>2. CASE Return(p)
      BY <2>1, <3>2
    <3>3. CASE EnterAttempt(p)
      BY <2>2, <3>1, <3>3
    <3>4. ASSUME NEW step \in {"deliver", "success", "failure", "defer"}, Goto(p, step)
          PROVE  Kept(call'[p])
      BY <2>3, <3>1, <3>4 DEF Steps
    <3>5. ASSUME Goto(p, "retire"), x \in Dropped'
          PROVE  Kept(call'[p])
      BY <2>3, <3>1, <3>5 DEF Steps
    <3>6. \/ Return(p) \/ EnterAttempt(p)
          \/ \E step \in {"deliver", "success", "failure", "defer"} : Goto(p, step)
          \/ Goto(p, "retire") /\ x \in Dropped'
      <4>1. CASE Claim(p)
        <5>1. orders[x].state = "none" => x \in Dropped'
          BY <1>1, <3>1 DEF KnownIds, Dropped
        <5>2. QED
          BY <2>0, <4>1, <5>1 DEF Claim, GiveUp
      <4>2. CASE RecordSuccess(p)
        BY <4>2 DEF RecordSuccess, Unrecorded, GiveUp
      <4>3. CASE RecordFailure(p)
        BY <2>0, <4>3, FailureCases DEF Dropped
      <4>4. ASSUME NEW outcome \in Outcomes, Deliver(p, outcome)
            PROVE  Goto(p, "success") \/ Goto(p, "failure")
        BY <4>4 DEF Deliver, AnswerStep
      <4>5. QED
        BY <1>4, <2>5, <4>1, <4>2, <4>3, <4>4 DEF CallStep, Reread
    <3>7. QED
      BY <3>2, <3>3, <3>4, <3>5, <3>6
  <2>6. QED
    BY <2>4, <2>5
<1>5. CASE ~CallStep(p) /\ call'[p] # call[p]
  <2>1. \A q \in Procs : ~CallStep(q)
    BY <1>5, OneCallMoves
  <2>2. ASSUME NEW q \in Procs, Return(q)
        PROVE  Kept(call'[p])
    BY <1>5, <2>2, OneCallMoves
  <2>3. ASSUME NEW q \in Callers, NEW o \in OrderIds, NEW d \in Digests, NEW t \in PaidAts,
               Callback(q, o, d, t)
        PROVE  Kept(call'[p])
    <3>1. p = q /\ call'[p].pc = "create" /\ call'[p].now = clock
      BY <1>5, <2>3 DEF Callback, TypeOK
    <3>2. clock > 0
      BY DEF TypeOK
    <3>3. QED
      BY <3>1, <3>2
  <2>4. ASSUME NEW s \in Sweepers, NextInPage(s)
        PROVE  Kept(call'[p])
    <3>1. p = s /\ call'[p].pc = "claim" /\ call'[p].order = Head(page[s])
      BY <1>5, <2>4 DEF NextInPage, IdleCall, TypeOK
    <3>2. Head(page[s]) \in KnownIds
      BY <2>4 DEF NextInPage, IndexInv
    <3>3. QED
      BY <1>1, <3>1, <3>2
  <2>5. QED
    BY <1>5, <2>1, <2>2, <2>3, <2>4
       DEF Next, SweepStep, ReadPage, RetirePending, DeferPending, ReopenDelivery,
           SettleOutOfBand, Abandon, Restart, Poison, Repair, Tick, Procs, vars
<1>6. QED
  BY <1>3, <1>4, <1>5

LEMMA IndexPages ==
  ASSUME TypeOK, IndexInv, [Next]_vars, NEW s \in Sweepers
  PROVE  page'[s] \in Seq(KnownIds')
<1>1. KnownIds \subseteq KnownIds'
  BY KnownStays
<1>2. page[s] \in Seq(KnownIds)
  BY DEF IndexInv
<1>3. page'[s] \in Seq(KnownIds)
  <2>1. CASE page' = page
    BY <1>2, <2>1
  <2>2. ASSUME NEW t \in Sweepers, ReadPage(t)
        PROVE  page'[s] \in Seq(KnownIds)
    <3>1. PICK q \in Pages : page' = [page EXCEPT ![t] = q]
      BY <2>2 DEF ReadPage
    <3>2. QED
      BY <1>2, <3>1, PageOfKnown DEF TypeOK
  <2>3. ASSUME NEW t \in Sweepers, NextInPage(t)
        PROVE  page'[s] \in Seq(KnownIds)
    <3>1. page[s] # <<>> => Tail(page[s]) \in Seq(KnownIds)
      BY <1>2
    <3>2. page'[s] = page[s] \/ (page[s] # <<>> /\ page'[s] = Tail(page[s]))
      BY <2>3 DEF NextInPage, TypeOK
    <3>3. QED
      BY <1>2, <3>1, <3>2
  <2>4. ASSUME NEW t \in Sweepers, Restart(t)
        PROVE  page'[s] \in Seq(KnownIds)
    BY <1>2, <2>4 DEF Restart, TypeOK
  <2>5. QED
    BY <2>1, <2>2, <2>3, <2>4
       DEF Next, CallStep, Create, Reread, Claim, Deliver, RecordSuccess, RecordFailure,
           SweepStep, Callback, RetirePending, DeferPending, ReopenDelivery, SettleOutOfBand,
           Abandon, Poison, Repair, Tick, vars
<1>4. QED
  BY <1>1, <1>3

LEMMA IndexInit == Init => IndexInv
<1> SUFFICES ASSUME Init
             PROVE  IndexInv
  OBVIOUS
<1>1. \A p \in Procs : call[p].pc = "idle"
  BY DEF Init, IdleCall
<1>2. \A o \in OrderIds : orders[o].state = "none" /\ (index[o] = 0 \/ o \in Orphans)
  BY DEF Init, NoOrder
<1>3. \A s \in Sweepers : page[s] \in Seq(KnownIds)
  BY DEF Init
<1>4. QED
  BY <1>1, <1>2, <1>3 DEF IndexInv, PendingIsIndexed

LEMMA IndexStep == TypeOK /\ IndexInv /\ [Next]_vars => IndexInv'
<1> SUFFICES ASSUME TypeOK, IndexInv, [Next]_vars
             PROVE  IndexInv'
  OBVIOUS
<1>1. ASSUME NEW o \in OrderIds
      PROVE  /\ orders'[o].state = "none" => index'[o] = 0 \/ o \in Orphans
             /\ orders'[o].state # "none" =>
                  /\ orders'[o].createdAt > 0
                  /\ index'[o] > 0 => ~Terminal(orders'[o])
                  /\ ~Terminal(orders'[o]) => index'[o] > 0 \/ o \in Dropped'
  <2>1. IndexChange(o)
    BY IndexStepOfCall, IndexStepOfOthers
  <2>2. orders'[o] \in Order /\ Dropped \subseteq Dropped'
    BY NextTypeOK, KnownStays DEF TypeOK
  <2>3. CASE Recorded(orders'[o]) /\ index'[o] = PendingScore(orders'[o])
    BY <2>2, <2>3, ScoreOfRecord DEF Recorded
  <2>4. CASE orders'[o] = orders[o] /\ (index'[o] > 0 <=> index[o] > 0)
             /\ (index'[o] = 0 <=> index[o] = 0)
    BY <2>2, <2>4 DEF IndexInv, PendingIsIndexed, Dropped
  <2>5. CASE orders'[o] = orders[o] /\ index'[o] = 0 /\ o \in Dropped
    BY <2>2, <2>5 DEF IndexInv
  <2>6. QED
    BY <2>1, <2>3, <2>4, <2>5 DEF IndexChange
<1>2. \A o \in OrderIds : Terminal(orders[o])' <=> Terminal(orders'[o])
  BY DEF Terminal
<1>3. PendingIsIndexed'
  BY <1>1, <1>2 DEF PendingIsIndexed, Dropped
<1>4. QED
  BY <1>1, <1>3, IndexCalls, IndexPages DEF IndexInv

\* An order that is still owed is always in the index the retry loop reads and a
\* finished one never, whatever fails, stops or is retired between an update and
\* the next, unless the index named the order before it had a record or its
\* deliverer said what the loop takes for that.
THEOREM PendingAlwaysIndexed == Spec => []PendingIsIndexed
<1>1. IndexInv => PendingIsIndexed
  BY DEF IndexInv
<1>2. QED
  BY <1>1, IndexInit, IndexStep, TypeCorrect, PTL DEF Spec

-----------------------------------------------------------------------------
(* The goods are granted once.                                             *)

\* Under the assumption of OneAttemptAtATime an order is neither given up nor
\* settled by hand while an attempt of it is with the deliverer.
THEOREM AttemptsNeverOutliveOrders ==
  ASSUME Prompt
  PROVE  Spec => []NoAttemptOutlivesItsOrder
<1>1. AtMostOneInFlight /\ NoAttemptOutlivesItsOrder => NoAttemptOutlivesItsOrder
  OBVIOUS
<1>2. QED
  BY <1>1, OneAttemptAtATime, PTL

\* The inductive form of AtMostOneGrant: until the first fault, what was
\* granted is recorded, or its attempt is about to record it.
OnceInv ==
  faults = 0 =>
    /\ poisoned = {}
    /\ \A o \in OrderIds :
         /\ granted[o] <= 1
         /\ granted[o] > 0 =>
              \/ orders[o].state = "delivered"
              \/ \E p \in Procs : call[p].pc = "success" /\ call[p].order = o

LEMMA OnceInit == Init => OnceInv
BY DEF Init, OnceInv

\* Without a fault a step poisons nothing and ends no call that has a grant to
\* report but by reporting it.
LEMMA FaultlessStep ==
  ASSUME TypeOK, [Next]_vars, faults' = 0
  PROVE  /\ faults = 0 /\ (poisoned = {} => poisoned' = {})
         /\ \A p \in Procs : call[p].pc = "success" => call'[p] = call[p] \/ RecordSuccess(p)
         /\ \A o \in OrderIds :
              \/ granted'[o] = granted[o]
              \/ \E p \in Procs, outcome \in Outcomes : Deliver(p, outcome) /\ call[p].order = o
<1>0. faults \in Nat
  BY DEF TypeOK
<1>1. ~ \E p \in Procs : Abandon(p)
  BY <1>0 DEF Abandon
<1>2. ~ \E s \in Sweepers : Restart(s)
  BY <1>0 DEF Restart
<1>3. ~ \E o \in OrderIds : Poison(o)
  BY <1>0 DEF Poison
<1>4. faults = 0 /\ (poisoned = {} => poisoned' = {})
  BY <1>1, <1>2, <1>3
     DEF Next, CallStep, Create, Reread, Claim, Deliver, RecordSuccess, RecordFailure,
         SweepStep, Callback, ReadPage, NextInPage, RetirePending, DeferPending,
         ReopenDelivery, SettleOutOfBand, Repair, Tick, vars
<1>5. ASSUME NEW p \in Procs, call[p].pc = "success"
      PROVE  call'[p] = call[p] \/ RecordSuccess(p)
  <2>1. CASE CallStep(p)
    BY <1>5, <2>1 DEF CallStep, Create, Reread, Claim, Deliver, RecordFailure
  <2>2. ASSUME NEW q \in Procs \ {p}, CallStep(q)
        PROVE  call'[p] = call[p]
    BY <2>2, OneCallMoves
  <2>3. CASE \A q \in Procs : ~CallStep(q)
    <3>1. ASSUME NEW q \in Callers, NEW o \in OrderIds, NEW d \in Digests, NEW t \in PaidAts,
                 Callback(q, o, d, t)
          PROVE  call'[p] = call[p]
      BY <1>5, <3>1 DEF Callback, Procs, TypeOK
    <3>2. ASSUME NEW s \in Sweepers, NextInPage(s) \/ RetirePending(s) \/ DeferPending(s)
          PROVE  call'[p] = call[p]
      BY <1>5, <3>2 DEF NextInPage, RetirePending, DeferPending, Return, Procs, TypeOK
    <3>3. QED
      BY <1>1, <1>2, <2>3, <3>1, <3>2
         DEF Next, SweepStep, ReadPage, ReopenDelivery, SettleOutOfBand, Poison, Repair, Tick,
             Procs, vars
  <2>4. QED
    BY <2>1, <2>2, <2>3
<1>6. ASSUME NEW o \in OrderIds, granted'[o] # granted[o]
      PROVE  \E p \in Procs, outcome \in Outcomes : Deliver(p, outcome) /\ call[p].order = o
  <2>1. PICK p \in Procs : CallStep(p)
    BY <1>6, OtherSteps
  <2>2. PICK outcome \in Outcomes : Deliver(p, outcome)
    BY <1>6, <2>1 DEF CallStep, Create, Reread, Claim, RecordSuccess, RecordFailure
  <2>3. call[p].order = o
    BY <1>6, <2>2 DEF Deliver, TypeOK
  <2>4. QED
    BY <2>2, <2>3
<1>7. QED
  BY <1>4, <1>5, <1>6

LEMMA OnceStep ==
  ASSUME "unanswered" \notin Outcomes, TypeOK, PromptInv, OnceInv, [Next]_vars
  PROVE  OnceInv'
<1> SUFFICES ASSUME faults' = 0
             PROVE  /\ poisoned' = {}
                    /\ \A o \in OrderIds :
                         /\ granted'[o] <= 1
                         /\ granted'[o] > 0 =>
                              \/ orders'[o].state = "delivered"
                              \/ \E p \in Procs : call'[p].pc = "success" /\ call'[p].order = o
  BY DEF OnceInv
<1>1. poisoned = {} /\ poisoned' = {}
  BY FaultlessStep DEF OnceInv
<1>2. ASSUME NEW o \in OrderIds
      PROVE  /\ granted'[o] <= 1
             /\ granted'[o] > 0 =>
                  \/ orders'[o].state = "delivered"
                  \/ \E p \in Procs : call'[p].pc = "success" /\ call'[p].order = o
  <2>0. granted[o] \in Nat /\ orders[o] \in Order
    BY DEF TypeOK
  <2>1. /\ granted[o] <= 1
        /\ granted[o] > 0 => \/ orders[o].state = "delivered"
                             \/ \E p \in Procs : call[p].pc = "success" /\ call[p].order = o
    BY FaultlessStep DEF OnceInv
  <2>2. CASE granted'[o] = granted[o]
    <3>1. SUFFICES ASSUME granted[o] > 0
                   PROVE  \/ orders'[o].state = "delivered"
                          \/ \E p \in Procs : call'[p].pc = "success" /\ call'[p].order = o
      BY <2>1, <2>2
    <3>2. CASE orders[o].state = "delivered"
      <4>1. OrderChange(o)
        BY StepOrderChange
      <4>2. QED
        BY <3>2, <4>1 DEF OrderChange, AfterSuccess
    <3>3. ASSUME NEW p \in Procs, call[p].pc = "success", call[p].order = o, call'[p] # call[p]
          PROVE  orders'[o].state = "delivered"
      <4>1. RecordSuccess(p)
        BY <3>3, FaultlessStep
      <4>2. orders[o].state = "reserved"
        BY <3>3 DEF PromptInv, NoAttemptOutlivesItsOrder, InFlight
      <4>3. Store(o, AfterSuccess(orders[o], call[p].now))
        BY <1>1, <3>3, <4>1, <4>2 DEF RecordSuccess, Unreadable
      <4>4. orders'[o] = AfterSuccess(orders[o], call[p].now)
        BY <4>3, StoreOther
      <4>5. QED
        BY <2>0, <4>2, <4>4 DEF AfterSuccess, Order
    <3>4. QED
      BY <2>1, <3>1, <3>2, <3>3
  <2>3. ASSUME NEW p \in Procs, NEW outcome \in Outcomes, Deliver(p, outcome), call[p].order = o,
               granted'[o] # granted[o]
        PROVE  granted'[o] = 1 /\ call'[p].pc = "success" /\ call'[p].order = o
    <3>1. call[p].pc = "deliver" /\ InFlight(p)
      BY <2>3 DEF Deliver, InFlight
    <3>2. orders[o].state = "reserved"
      BY <2>3, <3>1 DEF PromptInv, NoAttemptOutlivesItsOrder
    <3>3. ~ \E q \in Procs : call[q].pc = "success" /\ call[q].order = o
      BY <2>3, <3>1 DEF PromptInv, AtMostOneInFlight, InFlight
    <3>4. granted[o] = 0
      BY <2>0, <2>1, <3>2, <3>3
    <3>5. outcome = "granted"
      <4>1. outcome # "refused"
        BY <2>3 DEF Deliver, TypeOK
      <4>2. QED
        BY <4>1, ConstantsAssumption
    <3>6. granted'[o] = granted[o] + 1
      BY <2>3, <3>5 DEF Deliver, TypeOK
    <3>7. call'[p].pc = "success" /\ call'[p].order = o
      BY <2>3, <3>5, OneCallMoves DEF Deliver, AnswerStep, Steps
    <3>8. QED
      BY <3>4, <3>6, <3>7
  <2>4. QED
    BY <2>2, <2>3, FaultlessStep
<1>3. QED
  BY <1>1, <1>2

\* If every attempt ends before its backoff elapses and the deliverer answers
\* what it did, the goods of an order are granted once, until the first time a
\* call stops between a grant and its record or the record cannot be read:
\* whatever callbacks, replays, retry loops and operators do meanwhile.
THEOREM GrantedOnceAlways ==
  ASSUME Prompt, "unanswered" \notin Outcomes
  PROVE  Spec => []AtMostOneGrant
<1>1. TypeOK /\ PromptInv /\ [Next]_vars => PromptInv'
  BY PromptStep
<1>2. TypeOK /\ PromptInv /\ OnceInv /\ [Next]_vars => OnceInv'
  BY OnceStep
<1>3. OnceInv => AtMostOneGrant
  BY DEF OnceInv, AtMostOneGrant
<1>4. QED
  BY <1>1, <1>2, <1>3, PromptInit, OnceInit, TypeCorrect, PTL DEF Spec
=============================================================================
