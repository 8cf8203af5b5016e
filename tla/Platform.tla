------------------------------ MODULE Platform ------------------------------
(***************************************************************************)
(* The payment side of service/platform: signed provider callbacks, the    *)
(* versioned order record, delivery attempts, the pending index kept with  *)
(* the record, the background retry loop and the two operator actions.     *)
(*                                                                         *)
(* Every call is a process.  A process reads the clock, then works on the  *)
(* order through compare-and-set updates of the order store, and calls the *)
(* deliverer between two of them, so everything another process does may   *)
(* happen in between.  One order write and its index write are one step:   *)
(* the store runs both in one script.                                      *)
(***************************************************************************)
EXTENDS Integers, Sequences, FiniteSets

CONSTANTS
  OrderIds,       \* provider order ids
  Digests,        \* what a callback says the order means (contentDigest)
  NoDigest,       \* the digest of an order that is not recorded
  PaidAts,        \* payment times a payload carries, 0 when it carries none
  Callers,        \* transport threads that run HandleCallback
  Sweepers,       \* retry loops, one for each platform process
  MaxAttempts,    \* Config.DeliveryAttempts
  Base,           \* Config.DeliveryBackoff, in ticks of the clock
  MaxMultiplier,  \* maxBackoffMultiplier
  RetryBatch,     \* how many ids one pass of the retry loop reads
  PoisonedDelay,  \* PoisonedRetryDelay, in ticks of the clock
  Outcomes,       \* what a call of the deliverer may do in this run
  Causes,         \* what the error of a call of the deliverer may wrap
  Prompt,         \* TRUE: an attempt ends before its backoff elapses
  Orphans,        \* ids the index names at the start that have no record
  MaxTime,        \* bound: the last value of the clock
  MaxReopens,     \* bound: how often one order is reopened
  MaxFaults       \* bound: store errors, crashes and undecodable records

Procs == Callers \cup Sweepers

ASSUME ConstantsAssumption ==
  /\ OrderIds # {} /\ IsFiniteSet(OrderIds)
  /\ NoDigest \notin Digests
  /\ PaidAts \subseteq Int
  /\ Callers \cap Sweepers = {}
  /\ IsFiniteSet(Callers) /\ IsFiniteSet(Sweepers)
  /\ MaxAttempts \in Nat \ {0}
  /\ Base \in Nat \ {0}
  /\ MaxMultiplier \in Nat \ {0}
  /\ RetryBatch \in Nat \ {0}
  /\ PoisonedDelay \in Nat \ {0}
  /\ Outcomes \subseteq {"granted", "refused", "unanswered"}
  /\ Causes # {} /\ Causes \subseteq {"plain", "orderInvalid", "malformedRecord"}
  /\ Prompt \in BOOLEAN
  /\ Orphans \subseteq OrderIds
  /\ MaxTime \in Nat \ {0}
  /\ MaxReopens \in Nat
  /\ MaxFaults \in Nat

VARIABLES
  orders,    \* order store: the record of each order id
  index,     \* pending index: the score of each id, 0 when it is not a member
  poisoned,  \* ids whose stored bytes do not decode
  call,      \* the call each process is in
  page,      \* the rest of the page each retry loop is working through
  granted,   \* deliverer: how often it granted the goods of an order
  claims,    \* history: how many attempts of an order were ever claimed
  disowned,  \* history: orders whose deliverer told a retry loop, in the error of
             \* a failed attempt, what the loop takes for an order not recorded
  clock,
  faults

vars == <<orders, index, poisoned, call, page, granted, claims, disowned, clock, faults>>

-----------------------------------------------------------------------------
(* The order record.                                                       *)

\* "none" stands for an id that has no record.
DeliveryState == {"none", "reserved", "delivered", "exhausted", "settled"}

Order == [state: DeliveryState, digest: Digests \cup {NoDigest}, attempts: Nat,
          next: Nat, paidAt: Int, createdAt: Nat, deliveredAt: Nat, reopens: Nat]

NoOrder == [state |-> "none", digest |-> NoDigest, attempts |-> 0, next |-> 0,
            paidAt |-> 0, createdAt |-> 0, deliveredAt |-> 0, reopens |-> 0]

NewOrder(c) ==
  [state |-> "reserved", digest |-> c.digest, attempts |-> 0, next |-> 0,
   paidAt |-> c.paidAt, createdAt |-> c.now, deliveredAt |-> 0, reopens |-> 0]

Terminal(r) == r.state \in {"delivered", "exhausted", "settled"}

\* Mutant: the state is not looked at, only the deadline.
DueByTime(r, now) == r.next <= now

\* An attempt may run at time now; a zero deadline is always past.
Due(r, now) == ~Terminal(r) /\ r.next <= now

Backoff(n) == Base * (IF n > MaxMultiplier THEN MaxMultiplier ELSE n)

\* Mutant: a payment time that is not positive is used as it is, and the index
\* does not take it.
ScoreWithoutCreatedAt(r) ==
  CASE Terminal(r) -> 0
    [] ~Terminal(r) /\ r.next > 0 -> r.next
    [] OTHER -> IF r.paidAt > 0 THEN r.paidAt ELSE 0

\* Where a record sits in the index: at its next attempt, before the first one at
\* its payment time, and at its creation when the provider's payment time is not
\* positive.
PendingScore(r) ==
  CASE Terminal(r) -> 0
    [] ~Terminal(r) /\ r.next > 0 -> r.next
    [] OTHER -> IF r.paidAt > 0 THEN r.paidAt ELSE r.createdAt

BudgetSpent(r) == r.attempts >= MaxAttempts

\* Mutant: the claim does not hold the order for the backoff.
ClaimedWithoutHold(r, now) == [r EXCEPT !.attempts = @ + 1]

\* Mutant: a failure is recorded over a delivery.
FailureOverDelivery(r) == IF BudgetSpent(r) THEN [r EXCEPT !.state = "exhausted", !.next = 0] ELSE r

\* What the three updates of an attempt make of a record they write.
Claimed(r, now) ==
  [r EXCEPT !.attempts = @ + 1, !.next = now + Backoff(r.attempts + 1)]

Exhausted(r) == [r EXCEPT !.state = "exhausted", !.next = 0]

AfterSuccess(r, now) ==
  IF r.state = "delivered" THEN r
  ELSE [r EXCEPT !.state = "delivered", !.next = 0, !.deliveredAt = now]

AfterFailure(r) ==
  IF r.state # "delivered" /\ BudgetSpent(r) THEN Exhausted(r) ELSE r

\* Mutant: reopening resets the budget and leaves no trace.
ReopenedUncounted(r) == [r EXCEPT !.state = "reserved", !.attempts = 0, !.next = 0]

\* What the two operator actions make of an exhausted record.
Reopened(r) ==
  [r EXCEPT !.state = "reserved", !.attempts = 0, !.next = 0, !.reopens = @ + 1]

Settled(r) == [r EXCEPT !.state = "settled", !.next = 0]

\* One committed write of the store: the record and its index entry.
Store(o, r) ==
  /\ orders' = [orders EXCEPT ![o] = r]
  /\ index' = [index EXCEPT ![o] = PendingScore(r)]

-----------------------------------------------------------------------------
(* Calls.  pc names the step a call does next: "create" and "reread" of    *)
(* HandleCallback, "claim" before the claiming update of AttemptDelivery,  *)
(* "deliver" while the deliverer runs, "success" and "failure" before the  *)
(* update that records its answer, "retire" and "defer" before the index   *)
(* repair of the retry loop.                                               *)

Steps == {"idle", "create", "reread", "claim", "deliver", "success", "failure",
          "retire", "defer"}

Call == [pc: Steps, order: OrderIds, digest: Digests \cup {NoDigest},
         paidAt: Int, now: Nat]

IdleCall == [pc |-> "idle", order |-> CHOOSE o \in OrderIds : TRUE,
             digest |-> NoDigest, paidAt |-> 0, now |-> 0]

Goto(p, step) == call' = [call EXCEPT ![p].pc = step]
Return(p) == call' = [call EXCEPT ![p] = IdleCall]
\* Mutant: the deliverer is called without a claim.
EnterDeliverer(p) == call' = [call EXCEPT ![p].pc = "deliver", ![p].now = clock]

\* AttemptDelivery reads the clock on entry, before any update.
EnterAttempt(p) == call' = [call EXCEPT ![p].pc = "claim", ![p].now = clock]

InAttempt(p) == call[p].pc \in {"claim", "deliver", "success", "failure"}
\* The call is past its claim and has not recorded an answer.
InFlight(p) == call[p].pc \in {"deliver", "success", "failure"}

Init ==
  /\ orders = [o \in OrderIds |-> NoOrder]
  /\ index = [o \in OrderIds |-> IF o \in Orphans THEN 1 ELSE 0]
  /\ poisoned = {}
  /\ call = [p \in Procs |-> IdleCall]
  /\ page = [s \in Sweepers |-> <<>>]
  /\ granted = [o \in OrderIds |-> 0]
  /\ claims = [o \in OrderIds |-> 0]
  /\ disowned = {}
  /\ clock = 1
  /\ faults = 0

-----------------------------------------------------------------------------
(* HandleCallback.                                                         *)

\* A signed, well-formed payload arrives; when it carries no payment time the
\* time of arrival is used, and no other value is refused.  Refused payloads
\* touch no state.
Callback(p, o, d, paidAt) ==
  /\ call[p].pc = "idle"
  /\ call' = [call EXCEPT ![p] = [pc |-> "create", order |-> o, digest |-> d, now |-> clock,
                paidAt |-> IF paidAt = 0 THEN clock ELSE paidAt]]
  /\ UNCHANGED <<orders, index, poisoned, page, granted, claims, clock, faults, disowned>>

\* Mutant: the create overwrites.
CreateOverwrites(p) ==
  /\ call[p].pc = "create"
  /\ Store(call[p].order, NewOrder(call[p]))
  /\ EnterAttempt(p)
  /\ UNCHANGED <<poisoned, page, granted, claims, clock, faults, disowned>>

\* Insert-only create: the first arrival of an id writes it, any other is sent
\* to read what is there.
Create(p) ==
  LET o == call[p].order IN
  /\ call[p].pc = "create"
  /\ \/ /\ orders[o].state = "none"
        /\ Store(o, NewOrder(call[p]))
        /\ EnterAttempt(p)
     \/ /\ orders[o].state # "none"
        /\ Goto(p, "reread")
        /\ UNCHANGED <<orders, index>>
  /\ UNCHANGED <<poisoned, page, granted, claims, clock, faults, disowned>>

\* A read of the order answers an error: its bytes do not decode or it is gone.
Unreadable(o) == o \in poisoned \/ orders[o].state = "none"

\* A replay: refused when the contents differ, answered when delivered,
\* otherwise worth one more attempt.
Reread(p) ==
  LET o == call[p].order IN
  /\ call[p].pc = "reread"
  /\ IF \/ Unreadable(o)
        \/ orders[o].digest # call[p].digest
        \/ orders[o].state = "delivered"
     THEN Return(p)
     ELSE EnterAttempt(p)
  /\ UNCHANGED <<orders, index, poisoned, page, granted, claims, clock, faults, disowned>>

-----------------------------------------------------------------------------
(* AttemptDelivery.                                                        *)

\* What the retry loop does next with an id it could not attempt; a callback
\* answers its provider instead.
GiveUp(p, step) == IF p \in Sweepers THEN Goto(p, step) ELSE Return(p)

\* The claiming update.  It decides on the record as it is now, with the clock
\* as the call read it.
Claim(p) ==
  LET o == call[p].order
      r == orders[o]
  IN
  /\ call[p].pc = "claim"
  /\ \/ /\ o \in poisoned
        /\ GiveUp(p, "defer")
        /\ UNCHANGED <<orders, index, claims>>
     \/ /\ o \notin poisoned /\ r.state = "none"
        /\ GiveUp(p, "retire")
        /\ UNCHANGED <<orders, index, claims>>
     \/ /\ o \notin poisoned /\ r.state # "none" /\ ~Due(r, call[p].now)
        /\ Return(p)
        /\ UNCHANGED <<orders, index, claims>>
     \/ /\ o \notin poisoned /\ r.state # "none" /\ Due(r, call[p].now) /\ BudgetSpent(r)
        /\ Store(o, Exhausted(r))
        /\ Return(p)
        /\ UNCHANGED claims
     \/ /\ o \notin poisoned /\ r.state # "none" /\ Due(r, call[p].now) /\ ~BudgetSpent(r)
        /\ Store(o, Claimed(r, call[p].now))
        /\ claims' = [claims EXCEPT ![o] = @ + 1]
        /\ Goto(p, "deliver")
  /\ UNCHANGED <<poisoned, page, granted, clock, faults, disowned>>

AnswerStep(outcome) == IF outcome = "granted" THEN "success" ELSE "failure"

\* The deliverer answers: it granted, it refused, or it granted and its answer
\* was an error (the case that makes Order.OrderID an idempotency key).
Deliver(p, outcome) ==
  /\ call[p].pc = "deliver"
  /\ granted' = [granted EXCEPT ![call[p].order] =
                   IF outcome = "refused" THEN @ ELSE @ + 1]
  /\ Goto(p, AnswerStep(outcome))
  /\ UNCHANGED <<orders, index, poisoned, page, claims, clock, faults, disowned>>

\* The answer cannot be recorded: the retry loop defers an order that does not
\* decode, as it does before a claim.
Unrecorded(p) == IF call[p].order \in poisoned THEN GiveUp(p, "defer") ELSE Return(p)

\* The update after a grant: only a delivered record is left as it is.
RecordSuccess(p) ==
  LET o == call[p].order IN
  /\ call[p].pc = "success"
  /\ IF Unreadable(o)
     THEN Unrecorded(p) /\ UNCHANGED <<orders, index>>
     ELSE Store(o, AfterSuccess(orders[o], call[p].now)) /\ Return(p)
  /\ UNCHANGED <<poisoned, page, granted, claims, clock, faults, disowned>>

\* Of the errors a failed attempt returns the retry loop looks at what the
\* deliverer's error wraps, unless the order is exhausted.
FailureStep(p, r, cause) ==
  CASE r.state = "exhausted" \/ cause = "plain" -> Return(p)
    [] r.state # "exhausted" /\ cause = "orderInvalid" -> GiveUp(p, "retire")
    [] r.state # "exhausted" /\ cause = "malformedRecord" -> GiveUp(p, "defer")

\* recordFailure: the budget is judged on the record as it is now.  The error of
\* the deliverer is chosen here, where something first depends on it.
RecordFailure(p) ==
  LET o == call[p].order
      r == AfterFailure(orders[o])
  IN
  /\ call[p].pc = "failure"
  /\ \/ /\ Unreadable(o)
        /\ Unrecorded(p)
        /\ UNCHANGED <<orders, index, disowned>>
     \/ /\ ~Unreadable(o)
        /\ Store(o, r)
        /\ \E cause \in Causes :
             /\ FailureStep(p, r, cause)
             /\ disowned' = IF p \in Sweepers /\ r.state # "exhausted" /\ cause = "orderInvalid"
                            THEN disowned \cup {o} ELSE disowned
  /\ UNCHANGED <<poisoned, page, granted, claims, clock, faults>>

-----------------------------------------------------------------------------
(* The retry loop, retryPendingOnce.                                       *)

\* The entries due at the clock.
DueEntries == {o \in OrderIds : index[o] > 0 /\ index[o] <= clock}

\* The pages the index may answer: up to RetryBatch due ids, oldest first.
Pages ==
  LET n == IF Cardinality(DueEntries) < RetryBatch THEN Cardinality(DueEntries) ELSE RetryBatch
  IN  {q \in [1..n -> DueEntries] :
         /\ \A i, j \in 1..n : i < j => q[i] # q[j] /\ index[q[i]] <= index[q[j]]
         /\ \A o \in DueEntries \ {q[i] : i \in 1..n} : \A i \in 1..n : index[q[i]] <= index[o]}

ReadPage(s) ==
  /\ call[s].pc = "idle" /\ page[s] = <<>> /\ DueEntries # {}
  /\ \E q \in Pages : page' = [page EXCEPT ![s] = q]
  /\ UNCHANGED <<orders, index, poisoned, call, granted, claims, clock, faults, disowned>>

\* The loop enters AttemptDelivery for the next id of its page.
NextInPage(s) ==
  /\ call[s].pc = "idle" /\ page[s] # <<>>
  /\ call' = [call EXCEPT ![s] = [IdleCall EXCEPT !.pc = "claim",
                !.order = Head(page[s]), !.now = clock]]
  /\ page' = [page EXCEPT ![s] = Tail(@)]
  /\ UNCHANGED <<orders, index, poisoned, granted, claims, clock, faults, disowned>>

\* RetirePending: the entry is dropped, whatever record there is by now.  The
\* script touches the index and not the value.
RetirePending(s) ==
  /\ call[s].pc = "retire"
  /\ index' = [index EXCEPT ![call[s].order] = 0]
  /\ Return(s)
  /\ UNCHANGED <<orders, poisoned, page, granted, claims, clock, faults, disowned>>

\* Mutant: the entry keeps its place.
DeferNothing(s) ==
  /\ call[s].pc = "defer"
  /\ Return(s)
  /\ UNCHANGED <<orders, index, poisoned, page, granted, claims, clock, faults, disowned>>

\* Mutant: a record that does not decode is retired.
DeferRetires(s) ==
  /\ call[s].pc = "defer"
  /\ index' = [index EXCEPT ![call[s].order] = 0]
  /\ Return(s)
  /\ UNCHANGED <<orders, poisoned, page, granted, claims, clock, faults, disowned>>

\* DeferPending: the entry is pushed back, when there still is one.
DeferPending(s) ==
  /\ call[s].pc = "defer"
  /\ index' = [index EXCEPT ![call[s].order] = IF @ = 0 THEN 0 ELSE clock + PoisonedDelay]
  /\ Return(s)
  /\ UNCHANGED <<orders, poisoned, page, granted, claims, clock, faults, disowned>>

-----------------------------------------------------------------------------
(* The operator.                                                           *)

\* Mutants: any terminal order is reopened; an order still retried is settled.
ReopenTerminal(o) ==
  /\ o \notin poisoned /\ Terminal(orders[o])
  /\ orders[o].reopens < MaxReopens
  /\ Store(o, Reopened(orders[o]))
  /\ UNCHANGED <<poisoned, call, page, granted, claims, clock, faults, disowned>>

SettleReserved(o) ==
  /\ o \notin poisoned /\ orders[o].state \in {"exhausted", "reserved"}
  /\ Store(o, Settled(orders[o]))
  /\ UNCHANGED <<poisoned, call, page, granted, claims, clock, faults, disowned>>

ReopenDelivery(o) ==
  /\ o \notin poisoned /\ orders[o].state = "exhausted"
  /\ orders[o].reopens < MaxReopens
  /\ Store(o, Reopened(orders[o]))
  /\ UNCHANGED <<poisoned, call, page, granted, claims, clock, faults, disowned>>

SettleOutOfBand(o) ==
  /\ o \notin poisoned /\ orders[o].state = "exhausted"
  /\ Store(o, Settled(orders[o]))
  /\ UNCHANGED <<poisoned, call, page, granted, claims, clock, faults, disowned>>

-----------------------------------------------------------------------------
(* Faults and time.                                                        *)

\* The call ends where it is: its store update failed or lost every race, or
\* its context was cancelled.  A retry loop goes on with its page.
Abandon(p) ==
  /\ call[p].pc # "idle" /\ faults < MaxFaults
  /\ Return(p)
  /\ faults' = faults + 1
  /\ UNCHANGED <<orders, index, poisoned, page, granted, claims, clock, disowned>>

\* The process of a retry loop stops and starts again with nothing in memory.
Restart(s) ==
  /\ call[s].pc # "idle" \/ page[s] # <<>>
  /\ faults < MaxFaults
  /\ Return(s)
  /\ page' = [page EXCEPT ![s] = <<>>]
  /\ faults' = faults + 1
  /\ UNCHANGED <<orders, index, poisoned, granted, claims, clock, disowned>>

\* A codec rollback leaves stored bytes that do not decode; repair undoes it.
Poison(o) ==
  /\ orders[o].state # "none" /\ o \notin poisoned /\ faults < MaxFaults
  /\ poisoned' = poisoned \cup {o}
  /\ faults' = faults + 1
  /\ UNCHANGED <<orders, index, call, page, granted, claims, clock, disowned>>

Repair(o) ==
  /\ o \in poisoned
  /\ poisoned' = poisoned \ {o}
  /\ UNCHANGED <<orders, index, call, page, granted, claims, clock, faults, disowned>>

\* With Prompt, no attempt is still running when its first backoff is over.
Tick ==
  /\ clock < MaxTime
  /\ Prompt => \A p \in Procs : InAttempt(p) => clock + 1 < call[p].now + Base
  /\ clock' = clock + 1
  /\ UNCHANGED <<orders, index, poisoned, call, page, granted, claims, faults, disowned>>

-----------------------------------------------------------------------------

\* The steps a call takes by itself once it has started.
CallStep(p) ==
  \/ Create(p)
  \/ Reread(p)
  \/ Claim(p)
  \/ \E outcome \in Outcomes : Deliver(p, outcome)
  \/ RecordSuccess(p)
  \/ RecordFailure(p)

SweepStep(s) ==
  \/ CallStep(s)
  \/ ReadPage(s)
  \/ NextInPage(s)
  \/ RetirePending(s)
  \/ DeferPending(s)

Next ==
  \/ \E p \in Callers, o \in OrderIds, d \in Digests, paidAt \in PaidAts : Callback(p, o, d, paidAt)
  \/ \E p \in Callers : CallStep(p)
  \/ \E s \in Sweepers : SweepStep(s)
  \/ \E o \in OrderIds : ReopenDelivery(o)
  \/ \E o \in OrderIds : SettleOutOfBand(o)
  \/ \E p \in Procs : Abandon(p)
  \/ \E s \in Sweepers : Restart(s)
  \/ \E o \in OrderIds : Poison(o)
  \/ \E o \in OrderIds : Repair(o)
  \/ Tick

Spec == Init /\ [][Next]_vars

\* A started call runs on and the retry loop keeps passing; nothing obliges a
\* provider to call, an operator to act, a fault to happen or time to pass.
Fairness ==
  /\ \A p \in Callers : WF_vars(CallStep(p))
  /\ \A s \in Sweepers : WF_vars(SweepStep(s))

FairSpec == Spec /\ Fairness

-----------------------------------------------------------------------------
(* Properties.                                                             *)

\* Every variable has its type, and no record counts more attempts than its
\* budget allows (the claiming update of AttemptDelivery).
TypeOK ==
  /\ orders \in [OrderIds -> Order]
  /\ \A o \in OrderIds : orders[o].attempts <= MaxAttempts
  /\ index \in [OrderIds -> Nat]
  /\ poisoned \subseteq OrderIds
  /\ call \in [Procs -> Call]
  /\ page \in [Sweepers -> Seq(OrderIds)]
  /\ granted \in [OrderIds -> Nat]
  /\ claims \in [OrderIds -> Nat]
  /\ disowned \subseteq OrderIds
  /\ clock \in Nat \ {0}
  /\ faults \in Nat

\* The record accounts for every attempt ever claimed, through failures,
\* exhaustion and reopening: an order is never handed to the deliverer more
\* often than MaxAttempts for each time it was opened (AttemptDelivery,
\* ReopenDelivery).
ClaimsAreAccounted ==
  \A o \in OrderIds : claims[o] = orders[o].reopens * MaxAttempts + orders[o].attempts

\* An order is given up, or resolved by hand, only with its whole budget spent
\* (the claiming update, recordFailure, SettleOutOfBand).
GivenUpIsSpent ==
  \A o \in OrderIds : orders[o].state \in {"exhausted", "settled"} =>
     orders[o].attempts = MaxAttempts

\* The inductive form of the two: an id without record has no history.
BudgetInv ==
  /\ ClaimsAreAccounted
  /\ GivenUpIsSpent
  /\ \A o \in OrderIds : orders[o].state = "none" =>
        orders[o].attempts = 0 /\ orders[o].reopens = 0

\* A call of the deliverer rests on a claim of its own, so the goods of an order
\* are granted at most as often as its record says it was attempted; and a record
\* says delivered only if they were, whatever failed or stopped on the way.
GrantsAreClaimed ==
  \A o \in OrderIds :
    /\ granted[o] <= claims[o]
    /\ orders[o].state = "delivered" => granted[o] > 0

\* An order that is not terminal is in the index the retry loop reads, and a
\* terminal one has left it: no paid order is invisible to recovery, and no
\* finished one holds a place in a page, whatever the loops retire and defer, from
\* whatever pages they read, while records change.  Two kinds of order may lose
\* their entry: one the index named before it had a record, and one whose deliverer
\* said what the loop takes for that (pendingIndexEntry, retryPendingOnce).
PendingIsIndexed ==
  \A o \in OrderIds : orders[o].state # "none" =>
    /\ index[o] > 0 => ~Terminal(orders[o])
    /\ ~Terminal(orders[o]) => index[o] > 0 \/ o \in Orphans \cup disowned

\* A delivered record is final: no late attempt, retry or operator changes its
\* state or moves its delivery time (the delivered cases of every update).
DeliveredIsFinal ==
  [][\A o \in OrderIds : orders[o].state = "delivered" => orders'[o] = orders[o]]_vars

\* Whatever is recorded first for an order id stays: a second callback with
\* other contents neither replaces the record nor resets its history
\* (the insert-only create of HandleCallback).
FirstCallbackWins ==
  [][\A o \in OrderIds : orders[o].state # "none" =>
       /\ orders'[o].state # "none"
       /\ orders'[o].digest = orders[o].digest
       /\ orders'[o].reopens >= orders[o].reopens]_vars

\* Two attempts of one order are never between claim and answer together: the
\* claim of AttemptDelivery holds the order until its backoff is over.
AtMostOneInFlight ==
  \A p, q \in Procs :
    InFlight(p) /\ InFlight(q) /\ call[p].order = call[q].order => p = q

\* While an attempt is with the deliverer its order is neither given up nor
\* resolved by hand, so an operator who settles an exhausted order cannot be
\* overtaken by the goods (SettleOutOfBand).
NoAttemptOutlivesItsOrder ==
  \A p \in Procs : InFlight(p) => orders[call[p].order].state = "reserved"

\* What makes both inductive when attempts end within their backoff: an attempt
\* started less than Base ago, and the claim it made holds until at least then.
PromptInv ==
  /\ \A p \in Procs : InAttempt(p) => call[p].now <= clock /\ clock < call[p].now + Base
  /\ \A p \in Procs : InFlight(p) => orders[call[p].order].next >= call[p].now + Base
  /\ NoAttemptOutlivesItsOrder
  /\ AtMostOneInFlight

\* A settled order stays settled: it is never delivered as well, and never
\* goes back to the states an operator may reopen.
SettledIsFinal ==
  [][\A o \in OrderIds : orders[o].state = "settled" => orders'[o].state = "settled"]_vars

\* The goods of an order are granted at most once, as long as no process stops and no
\* record is unreadable between the grant and the update that says so.
AtMostOneGrant == faults = 0 => \A o \in OrderIds : granted[o] <= 1

\* No entry of the index keeps its place in the due part of it for ever, be
\* it undecodable, without record, or of an order whose deliveries fail: the
\* orders behind it are reached (retryPendingOnce, PendingOrders).
OnDuePage(o) == index[o] > 0 /\ index[o] <= clock

EveryDueEntryIsWorked == \A o \in OrderIds : OnDuePage(o) ~> ~OnDuePage(o)
=============================================================================
