---------------------------- MODULE ActivityProofs ----------------------------
(***************************************************************************)
(* One activity of service/global/activity for any games, calls and        *)
(* sweeps.  What a call remembers between two accesses is still true when   *)
(* it uses it, because what it rests on never changes back: an activity     *)
(* that exists goes on existing, one that is complete stays as it is, and   *)
(* a delivery that was over once stays over or shows its reopening.         *)
(***************************************************************************)
EXTENDS Activity, TLAPS

-----------------------------------------------------------------------------
(* The invariant.                                                          *)

\* Only a complete activity has everybody's report, and it does unless its grace ended it.
ActivityInv ==
  Exists =>
    /\ activity.status # "pending" => activity.notified # {}
    /\ activity.status # "complete" => activity.notified # Games
    /\ activity.status = "complete" =>
         /\ activity.reason # "none"
         /\ activity.reason = "collected" => activity.notified = Games
         /\ activity.notified = Games => activity.reason = "collected"

\* What is written for a game is the result the activity is complete with.
Settles(result) == Complete /\ result = ResultOf(activity)

\* A delivery no sweep waits for any more, and none will.
Over(g) ==
  /\ dispatch[g] # NoDispatch
  /\ dispatch[g].state # "pending" \/ dispatch[g].reopens # 0

\* Where a call is, and what it found there still holds.
CallOK(at) ==
  /\ at \in Call
  /\ at.pc \in {"ensure", "heal"} => Settles(at.result)
  /\ at.pc \in {"confirm", "finish"} => Exists
  /\ at.pc = "adopt" => Exists /\ (at.then.pc = "ensure" => Settles(at.then.result))
  /\ at.pc = "check" => \A g \in Games : g \notin at.todo => Over(g)
  /\ at.pc = "remove" => \A g \in Games : Over(g)

CallInv == \A p \in Procs : CallOK(call[p])

\* A delivery, its handouts and the token its game holds.
DeliveryOK(g) ==
  /\ dispatch[g] # NoDispatch =>
       /\ Settles(dispatch[g].result)
       /\ dispatch[g].attempts <= MaxAttempts
       /\ dispatch[g].state = "exhausted" => dispatch[g].attempts = MaxAttempts
       /\ handed[g] = dispatch[g].reopens * MaxAttempts + dispatch[g].attempts
  /\ dispatch[g] = NoDispatch => handed[g] = 0 /\ held[g] = 0
  /\ held[g] # 0 => held[g] = dispatch[g].token

DeliveryInv == \A g \in Games : DeliveryOK(g)

\* Either the window shows the activity, and nobody is about to take that away, or an
\* opener is about to put it there.
Confirming == \E c \in Callers : call[c].pc = "confirm"
Reclaiming == \E s \in Sweepers : call[s].pc = "reclaim"

WindowInv ==
  Unfinished =>
    place.listed \/ place.delivering \/ Confirming \/ (place.opening # 0 /\ ~Reclaiming)

Inv == TypeOK /\ ActivityInv /\ CallInv /\ DeliveryInv

-----------------------------------------------------------------------------
(* What a call may be.                                                     *)

LEMMA CallKinds ==
  ASSUME NEW at \in Call
  PROVE  /\ at.pc = "ensure" => at \in [pc: {"ensure"}, todo: SUBSET Games, result: Result]
         /\ at.pc = "heal" => at \in [pc: {"heal"}, todo: SUBSET Games, result: Result]
         /\ at.pc = "check" => at \in [pc: {"check"}, todo: SUBSET Games]
         /\ at.pc = "finish" => at \in [pc: {"finish"}, now: Nat]
         /\ at.pc = "read" => at \in [pc: {"read"}, since: Nat, now: Nat]
         /\ at.pc = "adopt" => at \in [pc: {"adopt"}, then: Verdict]
BY DEF Call, Verdict, Idle, At

LEMMA CallsAre ==
  /\ Idle \in Call
  /\ \A s \in {"list", "create", "confirm", "reclaim", "remove"} : At(s) \in Call
  /\ At("list") \in Verdict
  /\ \A now \in Nat : Finishing(now) \in Verdict
  /\ \A r \in Result : Settling(r) \in Verdict /\ Healing(r) \in Call
  /\ Verdict \subseteq Call
  /\ \A v \in Verdict : [pc |-> "adopt", then |-> v] \in Call
  /\ \A a, b \in Nat : [pc |-> "read", since |-> a, now |-> b] \in Call
  /\ \A T \in SUBSET Games : [pc |-> "check", todo |-> T] \in Call
BY DEF Call, Verdict, Idle, At, Finishing, Settling, Healing

\* A call is idle only where it says so.
LEMMA CallPcs ==
  /\ Idle.pc = "idle"
  /\ \A s : At(s).pc = s
  /\ \A now : Finishing(now).pc = "finish"
  /\ \A r : /\ Settling(r).pc = "ensure" /\ Settling(r).result = r
            /\ Healing(r).pc = "heal" /\ Healing(r).result = r
BY DEF Idle, At, Finishing, Settling, Healing

\* The result of a complete activity is one.
LEMMA ResultIs ==
  ASSUME TypeOK, ActivityInv, Complete
  PROVE  ResultOf(activity) \in Result
BY DEF TypeOK, ActivityInv, Complete, Exists, Aggregation, Result, ResultOf

-----------------------------------------------------------------------------
(* What a step makes of the activity.                                      *)

\* It is opened, reported to, ended by its grace, or left alone.
ActivityMoves ==
  \/ activity' = activity
  \/ ~Exists /\ activity' = Opened
  \/ \E g \in Games, now \in Nat :
       /\ Exists /\ ~Complete /\ g \notin activity.notified
       /\ activity' = Reported(activity, g, now)
  \/ /\ Exists /\ activity.status = "collecting"
     /\ activity' = [activity EXCEPT !.status = "complete", !.reason = "grace_expired"]

LEMMA ActivityStep ==
  ASSUME TypeOK, CallInv, [Next]_vars
  PROVE  ActivityMoves
<1>1. ASSUME NEW c \in Callers, Admit(c) \/ CallStep(c)
      PROVE  ActivityMoves
  <2>1. activity' = activity \/ (~Exists /\ activity' = Opened)
    BY <1>1 DEF Admit, CallStep, Create, Confirm, Settle, RetireFromWindow, EnsureDispatch
  <2>2. QED
    BY <2>1 DEF ActivityMoves
<1>2. ASSUME NEW c \in Callers, NEW g \in Games, NEW now \in 1 .. clock, NotifyPhase(c, g, now)
      PROVE  ActivityMoves
  <2>1. now \in Nat
    BY DEF TypeOK
  <2>2. QED
    BY <1>2, <2>1 DEF ActivityMoves, NotifyPhase
<1>3. ASSUME NEW s \in Sweepers, SweepStep(s)
      PROVE  ActivityMoves
  <2>1. CASE Finish(s)
    <3>1. call[s].pc = "finish" /\ CallOK(call[s])
      BY <2>1 DEF Finish, CallInv, Procs
    <3>2. Exists
      BY <3>1 DEF CallOK
    <3>3. QED
      BY <2>1, <3>2 DEF Finish, ActivityMoves
  <2>2. CASE ~Finish(s)
    <3>1. activity' = activity
      BY <1>3, <2>2 DEF SweepStep, Scan, Adopt, Reclaim, List, Remove, Settle, Inspect,
         CheckDispatch, RetireFromWindow, EnsureDispatch
    <3>2. QED
      BY <3>1 DEF ActivityMoves
  <2>3. QED
    BY <2>1, <2>2
<1>4. ASSUME \/ \E g \in Games : GameStep(g)
             \/ \E p \in Procs : Abandon(p)
             \/ MoveOthers \/ Tick \/ UNCHANGED vars
      PROVE  ActivityMoves
  <2>1. activity' = activity
    BY <1>4 DEF GameStep, AttemptDispatch, AckDispatch, ReopenDispatch, Abandon, MoveOthers,
       Tick, vars
  <2>2. QED
    BY <2>1 DEF ActivityMoves
<1>5. QED
  BY <1>1, <1>2, <1>3, <1>4 DEF Next

\* It keeps its type and what is known of it, and never goes back.
LEMMA ActivityStays ==
  ASSUME TypeOK, ActivityInv, ActivityMoves
  PROVE  /\ activity' \in Aggregation \cup {NoActivity}
         /\ ActivityInv'
         /\ Exists => Exists'
         /\ Complete => activity' = activity /\ Complete'
<1>1. activity \in Aggregation \cup {NoActivity} /\ NoActivity \notin Aggregation
  BY ActivityAssumption DEF TypeOK
<1>2. Exists => activity \in Aggregation
  BY <1>1 DEF Exists
<1>3. CASE activity' = activity
  BY <1>1, <1>3 DEF ActivityInv, Exists, Complete
<1>4. CASE ~Exists /\ activity' = Opened
  <2>1. Opened \in Aggregation /\ Opened.status = "pending" /\ Opened.notified = {}
    BY DEF Opened, Aggregation
  <2>2. QED
    BY <1>1, <1>4, <2>1, ActivityAssumption DEF ActivityInv, Exists, Complete
<1>5. ASSUME NEW g \in Games, NEW now \in Nat, Exists, ~Complete, g \notin activity.notified,
             activity' = Reported(activity, g, now)
      PROVE  activity' \in Aggregation /\ ActivityInv' /\ Exists'
  <2>1. activity \in Aggregation /\ GraceWindow \in Nat
    BY <1>2, <1>5, ActivityAssumption
  <2>2. now + GraceWindow \in Nat
    BY <2>1
  <2>3. activity' \in Aggregation
    BY <1>5, <2>1, <2>2 DEF Reported, Aggregation
  <2>4. CASE activity.notified \cup {g} = Games
    <3>1. /\ activity'.status = "complete" /\ activity'.reason = "collected"
          /\ activity'.notified = Games /\ Games # {}
      BY <1>5, <2>1, <2>4 DEF Reported, Aggregation
    <3>2. QED
      BY <1>1, <2>3, <3>1 DEF ActivityInv, Exists
  <2>5. CASE activity.notified \cup {g} # Games
    <3>1. /\ activity'.status = "collecting" /\ activity'.notified = activity.notified \cup {g}
      BY <1>5, <2>1, <2>5 DEF Reported, Aggregation
    <3>2. QED
      BY <1>1, <2>3, <2>5, <3>1 DEF ActivityInv, Exists
  <2>6. QED
    BY <2>4, <2>5, <2>3, <1>1 DEF Exists
<1>6. ASSUME Exists, activity.status = "collecting",
             activity' = [activity EXCEPT !.status = "complete", !.reason = "grace_expired"]
      PROVE  activity' \in Aggregation /\ ActivityInv' /\ Exists'
  <2>1. activity \in Aggregation
    BY <1>2, <1>6
  <2>2. /\ activity' \in Aggregation /\ activity'.status = "complete"
        /\ activity'.reason = "grace_expired" /\ activity'.notified = activity.notified
    BY <1>6, <2>1 DEF Aggregation
  <2>3. activity.notified # {} /\ activity.notified # Games
    BY <1>6 DEF ActivityInv
  <2>4. QED
    BY <1>1, <2>2, <2>3 DEF ActivityInv, Exists
<1>7. CASE \E g \in Games, now \in Nat :
             /\ Exists /\ ~Complete /\ g \notin activity.notified
             /\ activity' = Reported(activity, g, now)
  BY <1>5, <1>7 DEF Complete
<1>8. CASE /\ Exists /\ activity.status = "collecting"
           /\ activity' = [activity EXCEPT !.status = "complete", !.reason = "grace_expired"]
  BY <1>6, <1>8 DEF Complete
<1>9. QED
  BY <1>3, <1>4, <1>7, <1>8 DEF ActivityMoves

-----------------------------------------------------------------------------
(* What a step makes of the delivery to a game.                            *)

Silent(g) == held'[g] = held[g] /\ handed'[g] = handed[g]

Made(g, result, now) ==
  dispatch[g] = NoDispatch /\ dispatch'[g] = NewDispatch(1, result, now) /\ Silent(g)

GivenUp(g) ==
  /\ dispatch[g].state = "pending" /\ dispatch[g].attempts >= MaxAttempts
  /\ dispatch'[g] = [dispatch[g] EXCEPT !.state = "exhausted"] /\ Silent(g)

HandedOut(g, now) ==
  /\ dispatch[g].state = "pending" /\ ~(dispatch[g].attempts >= MaxAttempts)
  /\ dispatch'[g] = [dispatch[g] EXCEPT !.attempts = dispatch[g].attempts + 1,
                                        !.next = now + Backoff(dispatch[g].attempts + 1)]
  /\ handed'[g] = handed[g] + 1 /\ held'[g] = dispatch[g].token

Acked(g) ==
  /\ dispatch[g].state = "pending"
  /\ dispatch'[g] = [dispatch[g] EXCEPT !.state = "acked"] /\ Silent(g)

PutBack(g) ==
  /\ dispatch[g].state = "exhausted"
  /\ dispatch'[g] = Reopened(dispatch[g]) /\ Silent(g)

DeliveryMoves(g) ==
  \/ dispatch'[g] = dispatch[g] /\ Silent(g)
  \/ \E result \in Result, now \in Nat : Settles(result) /\ Made(g, result, now)
  \/ dispatch[g] # NoDispatch /\ GivenUp(g)
  \/ dispatch[g] # NoDispatch /\ \E now \in Nat : HandedOut(g, now)
  \/ dispatch[g] # NoDispatch /\ Acked(g)
  \/ dispatch[g] # NoDispatch /\ PutBack(g)

DeliveriesAreFunctions ==
  /\ dispatch' = [g \in Games |-> dispatch'[g]]
  /\ held' = [g \in Games |-> held'[g]]
  /\ handed' = [g \in Games |-> handed'[g]]

DeliveriesMove == DeliveriesAreFunctions /\ \A g \in Games : DeliveryMoves(g)

LEMMA DeliveriesKept ==
  ASSUME TypeOK, UNCHANGED <<dispatch, held, handed>>
  PROVE  DeliveriesMove
<1>1. /\ dispatch = [g \in Games |-> dispatch[g]] /\ held = [g \in Games |-> held[g]]
      /\ handed = [g \in Games |-> handed[g]]
  BY DEF TypeOK
<1>2. QED
  BY <1>1 DEF DeliveriesMove, DeliveriesAreFunctions, DeliveryMoves, Silent

LEMMA EnsureStep ==
  ASSUME TypeOK, CallInv, NEW p \in Procs, NEW g \in Games, EnsureDispatch(p, g)
  PROVE  DeliveriesMove
<1>1. CASE dispatch[g] # NoDispatch
  BY <1>1, DeliveriesKept DEF EnsureDispatch
<1>2. CASE dispatch[g] = NoDispatch
  <2>1. call[p].pc \in {"ensure", "heal"} /\ CallOK(call[p])
    BY DEF EnsureDispatch, CallInv
  <2>2. Settles(call[p].result) /\ call[p] \in Call
    BY <2>1 DEF CallOK
  <2>3. call[p].result \in Result /\ clock \in Nat
    BY <2>1, <2>2, CallKinds DEF TypeOK
  <2>4. /\ dispatch' = [dispatch EXCEPT ![g] = NewDispatch(1, call[p].result, clock)]
        /\ held' = held /\ handed' = handed
    BY <1>2 DEF EnsureDispatch
  <2>5. /\ dispatch \in [Games -> Dispatch \cup {NoDispatch}] /\ held \in [Games -> Nat]
        /\ handed \in [Games -> Nat]
    BY DEF TypeOK
  <2>6. Made(g, call[p].result, clock)
    BY <1>2, <2>4, <2>5 DEF Made, Silent
  <2>7. \A x \in Games : x # g => dispatch'[x] = dispatch[x] /\ Silent(x)
    BY <2>4, <2>5 DEF Silent
  <2>8. \A x \in Games : DeliveryMoves(x)
    BY <2>2, <2>3, <2>6, <2>7 DEF DeliveryMoves
  <2>9. QED
    BY <2>4, <2>5, <2>8 DEF DeliveriesMove, DeliveriesAreFunctions
<1>3. QED
  BY <1>1, <1>2

LEMMA GameMoves ==
  ASSUME TypeOK, NEW g \in Games, GameStep(g)
  PROVE  DeliveriesMove
<1> DEFINE d == dispatch[g]
<1>1. /\ dispatch \in [Games -> Dispatch \cup {NoDispatch}] /\ held \in [Games -> Nat]
      /\ handed \in [Games -> Nat] /\ \A now \in 1 .. clock : now \in Nat
  BY DEF TypeOK
<1>2. ASSUME NEW now \in 1 .. clock, AttemptDispatch(g, now), d.attempts >= MaxAttempts
      PROVE  GivenUp(g) /\ dispatch[g] # NoDispatch
  <2>1. /\ dispatch' = [dispatch EXCEPT ![g].state = "exhausted"]
        /\ held' = held /\ handed' = handed /\ d # NoDispatch /\ d.state = "pending"
    BY <1>2 DEF AttemptDispatch
  <2>2. QED
    BY <1>1, <1>2, <2>1 DEF GivenUp, Silent
<1>3. ASSUME NEW now \in 1 .. clock, AttemptDispatch(g, now), ~(d.attempts >= MaxAttempts)
      PROVE  HandedOut(g, now) /\ dispatch[g] # NoDispatch
  <2>1. /\ dispatch' = [dispatch EXCEPT ![g].attempts = d.attempts + 1,
                                        ![g].next = now + Backoff(d.attempts + 1)]
        /\ handed' = [handed EXCEPT ![g] = @ + 1] /\ held' = [held EXCEPT ![g] = d.token]
        /\ d # NoDispatch /\ d.state = "pending"
    BY <1>3 DEF AttemptDispatch
  <2>2. QED
    BY <1>1, <1>3, <2>1 DEF HandedOut
<1>4. ASSUME AckDispatch(g)
      PROVE  Acked(g) /\ dispatch[g] # NoDispatch
  BY <1>1, <1>4 DEF AckDispatch, Acked, Silent
<1>5. ASSUME ReopenDispatch(g)
      PROVE  PutBack(g) /\ dispatch[g] # NoDispatch
  BY <1>1, <1>5 DEF ReopenDispatch, PutBack, Silent
<1>6. DeliveryMoves(g)
  <2>1. ASSUME NEW now \in 1 .. clock, AttemptDispatch(g, now)
        PROVE  DeliveryMoves(g)
    <3>1. now \in Nat
      BY <1>1
    <3>2. QED
      BY <1>2, <1>3, <2>1, <3>1 DEF DeliveryMoves
  <2>2. QED
    BY <1>4, <1>5, <2>1 DEF GameStep, DeliveryMoves
<1>7. \A x \in Games : x # g => dispatch'[x] = dispatch[x] /\ Silent(x)
  BY <1>1 DEF GameStep, AttemptDispatch, AckDispatch, ReopenDispatch, Silent
<1>8. DeliveriesAreFunctions
  BY <1>1 DEF GameStep, AttemptDispatch, AckDispatch, ReopenDispatch, DeliveriesAreFunctions
<1>9. QED
  BY <1>6, <1>7, <1>8 DEF DeliveriesMove, DeliveryMoves

LEMMA DeliveriesStep ==
  ASSUME TypeOK, CallInv, [Next]_vars
  PROVE  DeliveriesMove
<1>1. ASSUME NEW c \in Callers, Admit(c) \/ CallStep(c)
      PROVE  DeliveriesMove
  <2>1. CASE \E g \in Games : EnsureDispatch(c, g)
    BY <2>1, EnsureStep DEF Procs
  <2>2. CASE ~\E g \in Games : EnsureDispatch(c, g)
    BY <1>1, <2>2, DeliveriesKept
    DEF Admit, CallStep, Create, Confirm, Settle, RetireFromWindow, DispatchUnchanged
  <2>3. QED
    BY <2>1, <2>2
<1>2. ASSUME NEW c \in Callers, NEW g \in Games, NEW now \in 1 .. clock, NotifyPhase(c, g, now)
      PROVE  DeliveriesMove
  BY <1>2, DeliveriesKept DEF NotifyPhase, DispatchUnchanged
<1>3. ASSUME NEW s \in Sweepers, SweepStep(s)
      PROVE  DeliveriesMove
  <2>1. CASE \E g \in Games : EnsureDispatch(s, g)
    BY <2>1, EnsureStep DEF Procs
  <2>2. CASE ~\E g \in Games : EnsureDispatch(s, g)
    <3>1. UNCHANGED <<dispatch, held, handed>>
      BY <1>3, <2>2 DEF SweepStep, Scan, Adopt, Finish, Reclaim, List, Remove, Settle, Inspect,
         CheckDispatch, RetireFromWindow, DispatchUnchanged
    <3>2. QED
      BY <3>1, DeliveriesKept
  <2>3. QED
    BY <2>1, <2>2
<1>4. ASSUME NEW g \in Games, GameStep(g)
      PROVE  DeliveriesMove
  BY <1>4, GameMoves
<1>5. ASSUME (\E p \in Procs : Abandon(p)) \/ MoveOthers \/ Tick \/ UNCHANGED vars
      PROVE  DeliveriesMove
  BY <1>5, DeliveriesKept DEF Abandon, MoveOthers, Tick, vars, DispatchUnchanged
<1>6. QED
  BY <1>1, <1>2, <1>3, <1>4, <1>5 DEF Next

\* A delivery keeps its result and its token, counts its handouts, and once over stays so.
LEMMA DeliveryStays ==
  ASSUME TypeOK, DeliveryInv, Complete => activity' = activity /\ Complete',
         NEW g \in Games, DeliveryMoves(g)
  PROVE  /\ dispatch'[g] \in Dispatch \cup {NoDispatch} /\ held'[g] \in Nat /\ handed'[g] \in Nat
         /\ DeliveryOK(g)'
         /\ Over(g) => Over(g)'
         /\ dispatch[g] # NoDispatch => dispatch'[g] # NoDispatch
<1> DEFINE d == dispatch[g]
           e == dispatch'[g]
           Settled == Complete' /\ e.result = ResultOf(activity')
<1>1. /\ d \in Dispatch \cup {NoDispatch} /\ held[g] \in Nat /\ handed[g] \in Nat
      /\ NoDispatch \notin Dispatch /\ MaxAttempts \in Nat \ {0}
  BY ActivityAssumption DEF TypeOK
<1>2. DeliveryOK(g)
  BY DEF DeliveryInv
<1>3. \A r : Settles(r) => Complete' /\ r = ResultOf(activity')
  BY DEF Settles
<1>4. d # NoDispatch =>
        /\ d \in Dispatch /\ d.token \in Nat \ {0} /\ d.attempts \in Nat /\ d.reopens \in Nat
        /\ d.next \in Nat /\ d.result \in Result /\ Settles(d.result)
  BY <1>1, <1>2 DEF Dispatch, DeliveryOK
<1>5. CASE e = d /\ Silent(g)
  BY <1>1, <1>2, <1>3, <1>5 DEF DeliveryOK, Over, Silent, Settles
<1>6. ASSUME NEW result \in Result, NEW now \in Nat, Settles(result), Made(g, result, now)
      PROVE  /\ e \in Dispatch /\ held'[g] \in Nat /\ handed'[g] \in Nat
             /\ DeliveryOK(g)' /\ ~Over(g)
  <2>1. /\ e = [state |-> "pending", token |-> 1, result |-> result, attempts |-> 0,
                next |-> now, reopens |-> 0]
        /\ d = NoDispatch /\ Silent(g)
    BY <1>6 DEF Made, NewDispatch
  <2>2. e \in Dispatch
    BY <2>1 DEF Dispatch
  <2>3. /\ e.attempts = 0 /\ e.reopens = 0 /\ e.state = "pending" /\ e.result = result
        /\ e # NoDispatch /\ held'[g] = 0 /\ handed'[g] = 0 /\ Settled
    BY <1>1, <1>2, <1>3, <1>6, <2>1, <2>2 DEF DeliveryOK, Silent
  <2>4. 0 * MaxAttempts + 0 = 0 /\ 0 <= MaxAttempts
    BY <1>1
  <2>5. DeliveryOK(g)'
    BY <2>3, <2>4 DEF DeliveryOK, Settles
  <2>6. QED
    BY <2>1, <2>2, <2>3, <2>5 DEF Over
<1>7. ASSUME d # NoDispatch, GivenUp(g)
      PROVE  /\ e \in Dispatch /\ held'[g] \in Nat /\ handed'[g] \in Nat
             /\ DeliveryOK(g)' /\ Over(g)'
  <2>1. /\ e \in Dispatch /\ e.state = "exhausted" /\ e.token = d.token /\ e.result = d.result
        /\ e.attempts = d.attempts /\ e.reopens = d.reopens /\ Silent(g)
        /\ d.attempts >= MaxAttempts
    BY <1>4, <1>7 DEF GivenUp, Dispatch
  <2>2. d.attempts = MaxAttempts
    BY <1>1, <1>2, <1>4, <1>7, <2>1 DEF DeliveryOK
  <2>3. e # NoDispatch /\ Settled
    BY <1>1, <1>3, <1>4, <1>7, <2>1
  <2>4. QED
    BY <1>1, <1>2, <1>7, <2>1, <2>2, <2>3 DEF DeliveryOK, Over, Silent, Settles
<1>8. ASSUME d # NoDispatch, NEW now \in Nat, HandedOut(g, now)
      PROVE  /\ e \in Dispatch /\ held'[g] \in Nat /\ handed'[g] \in Nat
             /\ DeliveryOK(g)' /\ (Over(g) => Over(g)')
  <2>1. d.attempts + 1 \in Nat /\ now + Backoff(d.attempts + 1) \in Nat
    <3>1. Backoff(d.attempts + 1) \in Nat
      BY <1>4, <1>8, ActivityAssumption DEF Backoff
    <3>2. QED
      BY <1>4, <1>8, <3>1
  <2>2. /\ e \in Dispatch /\ e.state = "pending" /\ e.token = d.token /\ e.result = d.result
        /\ e.attempts = d.attempts + 1 /\ e.reopens = d.reopens
        /\ handed'[g] = handed[g] + 1 /\ held'[g] = d.token /\ ~(d.attempts >= MaxAttempts)
        /\ d.state = "pending"
    BY <1>4, <1>8, <2>1 DEF HandedOut, Dispatch
  <2>3. e.attempts <= MaxAttempts /\ e # NoDispatch /\ Settled
    BY <1>1, <1>3, <1>4, <1>8, <2>2
  <2>4. handed[g] = d.reopens * MaxAttempts + d.attempts /\ d.reopens * MaxAttempts \in Nat
    BY <1>1, <1>2, <1>4, <1>8 DEF DeliveryOK
  <2>5. \A x \in Nat : (x + d.attempts) + 1 = x + (d.attempts + 1)
    BY <1>4, <1>8
  <2>6. handed'[g] = e.reopens * MaxAttempts + e.attempts
    BY <2>2, <2>4, <2>5
  <2>7. DeliveryOK(g)'
    BY <2>2, <2>3, <2>6 DEF DeliveryOK, Settles
  <2>8. Over(g) => Over(g)'
    BY <2>2, <2>3 DEF Over
  <2>9. QED
    BY <1>1, <1>4, <1>8, <2>2, <2>7, <2>8
<1>9. ASSUME d # NoDispatch, Acked(g)
      PROVE  /\ e \in Dispatch /\ held'[g] \in Nat /\ handed'[g] \in Nat
             /\ DeliveryOK(g)' /\ Over(g)'
  <2>1. /\ e \in Dispatch /\ e.state = "acked" /\ e.token = d.token /\ e.result = d.result
        /\ e.attempts = d.attempts /\ e.reopens = d.reopens /\ Silent(g)
    BY <1>4, <1>9 DEF Acked, Dispatch
  <2>2. e # NoDispatch /\ Settled
    BY <1>1, <1>3, <1>4, <1>9, <2>1
  <2>3. QED
    BY <1>1, <1>2, <1>9, <2>1, <2>2 DEF DeliveryOK, Over, Silent, Settles
<1>10. ASSUME d # NoDispatch, PutBack(g)
       PROVE  /\ e \in Dispatch /\ held'[g] \in Nat /\ handed'[g] \in Nat
              /\ DeliveryOK(g)' /\ Over(g)'
  <2>1. d.reopens + 1 \in Nat
    BY <1>4, <1>10
  <2>2. /\ e \in Dispatch /\ e.state = "pending" /\ e.token = d.token /\ e.result = d.result
        /\ e.attempts = 0 /\ e.reopens = d.reopens + 1 /\ Silent(g) /\ d.state = "exhausted"
    <3>1. e = [d EXCEPT !.state = "pending", !.attempts = 0, !.next = 0,
                        !.reopens = d.reopens + 1]
      BY <1>4, <1>10 DEF PutBack, Reopened, Dispatch
    <3>2. Silent(g) /\ d.state = "exhausted"
      BY <1>10 DEF PutBack
    <3>3. d \in Dispatch
      BY <1>4, <1>10
    <3> HIDE DEF d, e
    <3>4. QED
      BY <2>1, <3>1, <3>2, <3>3 DEF Dispatch
  <2>3. e # NoDispatch /\ Settled /\ e.reopens # 0
    BY <1>1, <1>3, <1>4, <1>10, <2>2
  <2>4. handed[g] = d.reopens * MaxAttempts + MaxAttempts
    BY <1>2, <1>10, <2>2 DEF DeliveryOK
  <2>5. \A x, m \in Nat : (x + 1) * m + 0 = x * m + m
    OBVIOUS
  <2>6. handed'[g] = e.reopens * MaxAttempts + e.attempts
    BY <1>1, <1>4, <1>10, <2>2, <2>4, <2>5 DEF Silent
  <2>7. e.attempts <= MaxAttempts
    BY <1>1, <2>2
  <2>8. held'[g] # 0 => held'[g] = e.token
    BY <1>2, <2>2 DEF DeliveryOK, Silent
  <2>9. DeliveryOK(g)'
    BY <2>2, <2>3, <2>6, <2>7, <2>8 DEF DeliveryOK, Settles
  <2>10. QED
    BY <1>1, <2>2, <2>3, <2>9 DEF Over, Silent
<1>11. QED
  BY <1>5, <1>6, <1>7, <1>8, <1>9, <1>10, <1>1 DEF DeliveryMoves

-----------------------------------------------------------------------------
(* Calls.                                                                  *)

\* What a step never takes back.
Persists ==
  /\ Exists => Exists'
  /\ Complete => activity' = activity /\ Complete'
  /\ \A g \in Games : Over(g) => Over(g)'
  /\ Complete' => ResultOf(activity') \in Result

\* So what a call has found goes on to hold.
LEMMA CallPersists ==
  ASSUME Persists, NEW at, CallOK(at)
  PROVE  CallOK(at)'
BY DEF Persists, CallOK, Settles

LEMMA CallMoved ==
  ASSUME TypeOK, CallInv, Persists, NEW p \in Procs, NEW next, Goto(p, next), CallOK(next)'
  PROVE  CallInv'
<1>1. call \in [Procs -> Call] /\ call' = [call EXCEPT ![p] = next]
  BY DEF TypeOK, Goto
<1>2. ASSUME NEW q \in Procs
      PROVE  CallOK(call[q])'
  <2>1. CASE q = p
    <3>1. call'[q] = next
      BY <1>1, <2>1
    <3>2. QED
      BY <3>1 DEF CallOK, Settles, Complete, Exists, Over
  <2>2. CASE q # p
    <3>1. PICK at : at = call[q]
      OBVIOUS
    <3>2. CallOK(at)'
      BY <3>1, CallPersists DEF CallInv
    <3>3. call'[q] = at
      BY <1>1, <2>2, <3>1
    <3>4. QED
      BY <3>2, <3>3 DEF CallOK, Settles, Complete, Exists, Over
  <2>3. QED
    BY <2>1, <2>2
<1>3. QED
  BY <1>2 DEF CallInv

\* A call that moves on with what held already.
LEMMA CallMovedOn ==
  ASSUME TypeOK, CallInv, Persists, NEW p \in Procs, NEW next, Goto(p, next), CallOK(next)
  PROVE  CallInv'
BY CallMoved, CallPersists

LEMMA CallsKept ==
  ASSUME CallInv, Persists, call' = call
  PROVE  CallInv'
<1>1. ASSUME NEW q \in Procs
      PROVE  CallOK(call[q])'
  <2>1. PICK at : at = call[q]
    OBVIOUS
  <2>2. CallOK(at)' /\ call'[q] = at
    BY <2>1, CallPersists DEF CallInv
  <2>3. QED
    BY <2>2 DEF CallOK, Settles, Complete, Exists, Over
<1>2. QED
  BY <1>1 DEF CallInv

\* Where nothing is remembered nothing can have changed.
LEMMA SimpleCalls ==
  /\ CallOK(Idle) /\ CallOK(At("list")) /\ CallOK(At("create")) /\ CallOK(At("reclaim"))
  /\ Exists => CallOK(At("confirm"))
  /\ (\A g \in Games : Over(g)) => CallOK(At("remove"))
BY CallsAre, CallPcs DEF CallOK

LEMMA SettlingOK ==
  ASSUME NEW r \in Result, Settles(r)
  PROVE  CallOK(Settling(r)) /\ CallOK(Healing(r))
<1>1. Settling(r) \in Call /\ Healing(r) \in Call
  BY CallsAre
<1>2. QED
  BY <1>1, CallPcs DEF CallOK

\* A sweep judges what it has read, and remembers the judgement while it adopts.
LEMMA JudgedOK ==
  ASSUME TypeOK, ActivityInv, Exists, NEW now \in Nat
  PROVE  /\ CallOK(Judged(activity, now))
         /\ CallOK([pc |-> "adopt", then |-> Judged(activity, now)])
<1> DEFINE v == Judged(activity, now)
<1>1. CASE activity.status = "complete"
  <2>1. v = Settling(ResultOf(activity)) /\ Complete
    BY <1>1 DEF Judged, Complete
  <2>2. ResultOf(activity) \in Result /\ Settles(ResultOf(activity))
    BY <2>1, ResultIs DEF Settles
  <2>3. v \in Verdict /\ CallOK(v) /\ v.pc = "ensure" /\ Settles(v.result)
    BY <2>1, <2>2, SettlingOK, CallsAre, CallPcs
  <2>4. [pc |-> "adopt", then |-> v] \in Call
    BY <2>3, CallsAre
  <2>5. QED
    BY <2>3, <2>4 DEF CallOK
<1>2. CASE activity.status # "complete"
  <2>1. v = Finishing(now) \/ v = At("list")
    BY <1>2 DEF Judged, Finishing
  <2>2. v \in Verdict /\ (v.pc = "finish" \/ v.pc = "list")
    BY <2>1, CallsAre, CallPcs
  <2>3. v \in Call /\ [pc |-> "adopt", then |-> v] \in Call
    BY <2>2, CallsAre
  <2>4. QED
    BY <2>2, <2>3 DEF CallOK
<1>3. QED
  BY <1>1, <1>2

\* One more delivery is ensured.
LEMMA EnsuredOK ==
  ASSUME NEW at, CallOK(at), at.pc \in {"ensure", "heal"}, NEW g \in Games
  PROVE  CallOK(AfterEnsuring(at, g))
<1>1. at \in Call /\ Settles(at.result)
  BY DEF CallOK
<1>2. at \in [pc: {"ensure"}, todo: SUBSET Games, result: Result] \/
      at \in [pc: {"heal"}, todo: SUBSET Games, result: Result]
  BY <1>1, CallKinds
<1>3. CASE at.pc = "heal" /\ at.todo = {g}
  <2>1. /\ AfterEnsuring(at, g) = [pc |-> "check", todo |-> Games]
        /\ AfterEnsuring(at, g) \in Call
    BY <1>3, CallsAre DEF AfterEnsuring
  <2>2. QED
    BY <2>1 DEF CallOK
<1>4. CASE ~(at.pc = "heal" /\ at.todo = {g})
  <2>1. AfterEnsuring(at, g) = [at EXCEPT !.todo = at.todo \ {g}]
    BY <1>2, <1>4 DEF AfterEnsuring
  <2>2. /\ AfterEnsuring(at, g).pc = at.pc /\ AfterEnsuring(at, g).result = at.result
        /\ AfterEnsuring(at, g) \in [pc: {"ensure", "heal"}, todo: SUBSET Games, result: Result]
    BY <1>2, <2>1
  <2>3. AfterEnsuring(at, g) \in Call
    BY <1>2, <2>1, <2>2 DEF Call, Verdict
  <2>4. QED
    BY <1>1, <2>2, <2>3 DEF CallOK
<1>5. QED
  BY <1>3, <1>4

LEMMA SettleCalls ==
  ASSUME TypeOK, CallInv, Persists, NEW p \in Procs, Settle(p)
  PROVE  CallInv'
<1>1. CallOK(call[p])
  BY DEF CallInv
<1>2. ASSUME NEW g \in Games, EnsureDispatch(p, g)
      PROVE  CallInv'
  BY <1>1, <1>2, EnsuredOK, CallMovedOn DEF EnsureDispatch
<1>3. CASE RetireFromWindow(p)
  <2>1. Goto(p, Idle) \/ Goto(p, At("list"))
    BY <1>3 DEF RetireFromWindow, Continue
  <2>2. QED
    BY <2>1, SimpleCalls, CallMovedOn
<1>4. QED
  BY <1>2, <1>3 DEF Settle

LEMMA CallerCalls ==
  ASSUME TypeOK, CallInv, Persists, NEW c \in Callers,
         \/ Admit(c) \/ CallStep(c)
         \/ \E g \in Games, now \in 1 .. clock : NotifyPhase(c, g, now)
  PROVE  CallInv'
<1>1. c \in Procs
  BY DEF Procs
<1>2. CASE Admit(c)
  BY <1>1, <1>2, SimpleCalls, CallMovedOn DEF Admit
<1>3. CASE Create(c)
  <2>1. Exists' /\ Goto(c, At("confirm"))
    <3>1. NoActivity \notin Aggregation /\ Opened \in Aggregation
      BY ActivityAssumption DEF Opened, Aggregation
    <3>2. QED
      BY <1>3, <3>1 DEF Create, Exists
  <2>2. CallOK(At("confirm"))'
    BY <2>1, CallsAre, CallPcs DEF CallOK
  <2>3. QED
    BY <1>1, <2>1, <2>2, CallMoved
<1>4. CASE Confirm(c)
  BY <1>1, <1>4, SimpleCalls, CallMovedOn DEF Confirm
<1>5. CASE Settle(c)
  BY <1>1, <1>5, SettleCalls
<1>6. ASSUME NEW g \in Games, NEW now \in 1 .. clock, NotifyPhase(c, g, now)
      PROVE  CallInv'
  <2>1. CASE activity'.status = "complete"
    <3>1. Goto(c, Settling(ResultOf(activity')))
      BY <1>6, <2>1 DEF NotifyPhase
    <3>2. Complete'
      BY <1>6, <2>1 DEF NotifyPhase, Persists, Complete
    <3>3. PICK r : r = ResultOf(activity')
      OBVIOUS
    <3>4. r \in Result /\ Settles(r)'
      BY <3>2, <3>3 DEF Persists, Settles
    <3>5. Settling(r) \in Call
      BY <3>4, CallsAre
    <3>6. CallOK(Settling(r))'
      BY <3>4, <3>5, CallPcs DEF CallOK
    <3>7. QED
      BY <1>1, <3>1, <3>3, <3>6, CallMoved
  <2>2. CASE activity'.status # "complete"
    <3>1. Goto(c, Idle)
      BY <1>6, <2>2 DEF NotifyPhase
    <3>2. QED
      BY <1>1, <3>1, SimpleCalls, CallMovedOn
  <2>3. QED
    BY <2>1, <2>2
<1>7. QED
  BY <1>2, <1>3, <1>4, <1>5, <1>6 DEF CallStep

LEMMA SweepCalls ==
  ASSUME TypeOK, ActivityInv, CallInv, Persists, NEW s \in Sweepers, SweepStep(s)
  PROVE  CallInv'
<1>1. s \in Procs /\ CallOK(call[s])
  BY DEF Procs, CallInv
<1>2. CASE Scan(s)
  <2>1. CASE Goto(s, At("list"))
    BY <1>1, <2>1, SimpleCalls, CallMovedOn
  <2>2. CASE Goto(s, [pc |-> "read", since |-> place.opening, now |-> clock])
    <3>1. [pc |-> "read", since |-> place.opening, now |-> clock] \in Call
      BY CallsAre DEF TypeOK
    <3>2. CallOK([pc |-> "read", since |-> place.opening, now |-> clock])
      BY <3>1 DEF CallOK
    <3>3. QED
      BY <1>1, <2>2, <3>2, CallMovedOn
  <2>3. QED
    BY <1>2, <2>1, <2>2 DEF Scan
<1>3. CASE Adopt(s)
  <2>1. call[s].pc = "adopt" /\ Goto(s, call[s].then)
    BY <1>3 DEF Adopt
  <2>2. call[s].then \in Verdict /\ Exists
    BY <1>1, <2>1, CallKinds DEF CallOK
  <2>3. CallOK(call[s].then)
    <3>1. call[s].then.pc \in {"list", "finish", "ensure"} /\ call[s].then \in Call
      BY <2>2, CallsAre DEF Verdict, At
    <3>2. QED
      BY <1>1, <2>1, <2>2, <3>1 DEF CallOK
  <2>4. QED
    BY <1>1, <2>1, <2>3, CallMovedOn
<1>4. CASE Finish(s)
  <2>1. CASE Goto(s, At("list"))
    BY <1>1, <2>1, SimpleCalls, CallMovedOn
  <2>2. CASE ~Goto(s, At("list"))
    <3>1. /\ activity.status = "collecting"
          /\ activity' = [activity EXCEPT !.status = "complete", !.reason = "grace_expired"]
          /\ Goto(s, Settling(ResultOf(activity')))
      BY <1>4, <2>2 DEF Finish
    <3>2. Exists /\ activity \in Aggregation
      BY <1>1, <1>4 DEF Finish, CallOK, TypeOK, Exists
    <3>3. Complete'
      BY <3>1, <3>2 DEF Persists, Complete, Aggregation
    <3>4. PICK r : r = ResultOf(activity')
      OBVIOUS
    <3>5. r \in Result /\ Settles(r)'
      BY <3>3, <3>4 DEF Persists, Settles
    <3>6. Settling(r) \in Call
      BY <3>5, CallsAre
    <3>7. CallOK(Settling(r))'
      BY <3>5, <3>6, CallPcs DEF CallOK
    <3>8. QED
      BY <1>1, <3>1, <3>4, <3>7, CallMoved
  <2>3. QED
    BY <2>1, <2>2
<1>5. CASE Reclaim(s)
  BY <1>1, <1>5, SimpleCalls, CallMovedOn DEF Reclaim
<1>6. CASE List(s)
  <2>1. CASE place.delivering
    <3>1. Complete /\ Goto(s, Healing(ResultOf(activity)))
      BY <1>6, <2>1 DEF List, TypeOK
    <3>2. ResultOf(activity) \in Result /\ Settles(ResultOf(activity))
      BY <3>1, ResultIs DEF Settles
    <3>3. CallOK(Healing(ResultOf(activity)))
      BY <3>2, SettlingOK
    <3>4. QED
      BY <1>1, <3>1, <3>3, CallMovedOn
  <2>2. CASE ~place.delivering
    BY <1>1, <1>6, <2>2, SimpleCalls, CallMovedOn DEF List
  <2>3. QED
    BY <2>1, <2>2
<1>7. CASE Remove(s)
  BY <1>1, <1>7, SimpleCalls, CallMovedOn DEF Remove
<1>8. CASE Settle(s)
  BY <1>1, <1>8, SettleCalls
<1>9. ASSUME NEW now \in 1 .. clock, Inspect(s, now)
      PROVE  CallInv'
  <2>1. now \in Nat
    BY DEF TypeOK
  <2>2. CASE Exists
    <3>1. \/ Goto(s, Judged(activity, now))
          \/ Goto(s, [pc |-> "adopt", then |-> Judged(activity, now)])
      BY <1>9, <2>2 DEF Inspect
    <3>2. QED
      BY <1>1, <2>1, <2>2, <3>1, JudgedOK, CallMovedOn
  <2>3. CASE ~Exists
    <3>1. Goto(s, At("reclaim")) \/ Goto(s, At("list"))
      BY <1>9, <2>3 DEF Inspect
    <3>2. QED
      BY <1>1, <3>1, SimpleCalls, CallMovedOn
  <2>4. QED
    BY <2>2, <2>3
<1>10. ASSUME NEW g \in Games, CheckDispatch(s, g)
       PROVE  CallInv'
  <2>1. /\ call[s].pc = "check" /\ g \in call[s].todo
        /\ call[s] \in [pc: {"check"}, todo: SUBSET Games]
        /\ \A x \in Games : x \notin call[s].todo => Over(x)
    BY <1>1, <1>10, CallKinds DEF CheckDispatch, CallOK
  <2>2. CASE dispatch[g] = NoDispatch \/ dispatch[g].state = "pending"
    BY <1>1, <1>10, <2>2, SimpleCalls, CallMovedOn DEF CheckDispatch
  <2>3. CASE ~(dispatch[g] = NoDispatch \/ dispatch[g].state = "pending")
    <3>1. Over(g)
      BY <2>3 DEF Over
    <3>2. CASE call[s].todo = {g}
      <4>1. \A x \in Games : Over(x)
        BY <2>1, <3>1, <3>2
      <4>2. Goto(s, At("remove"))
        BY <1>10, <2>3, <3>2 DEF CheckDispatch
      <4>3. QED
        BY <1>1, <4>1, <4>2, SimpleCalls, CallMovedOn
    <3>3. CASE call[s].todo # {g}
      <4>1. Goto(s, [call[s] EXCEPT !.todo = call[s].todo \ {g}])
        BY <1>10, <2>1, <2>3, <3>3 DEF CheckDispatch
      <4>2. [call[s] EXCEPT !.todo = call[s].todo \ {g}] =
              [pc |-> "check", todo |-> call[s].todo \ {g}]
        BY <2>1
      <4>3. [pc |-> "check", todo |-> call[s].todo \ {g}] \in Call
        BY <2>1, CallsAre
      <4>4. CallOK([pc |-> "check", todo |-> call[s].todo \ {g}])
        BY <2>1, <3>1, <4>3 DEF CallOK
      <4>5. QED
        BY <1>1, <4>1, <4>2, <4>4, CallMovedOn
    <3>4. QED
      BY <3>2, <3>3
  <2>4. QED
    BY <2>2, <2>3
<1>11. QED
  BY <1>2, <1>3, <1>4, <1>5, <1>6, <1>7, <1>8, <1>9, <1>10 DEF SweepStep

LEMMA CallsStep ==
  ASSUME TypeOK, ActivityInv, CallInv, Persists, [Next]_vars
  PROVE  CallInv'
<1>1. ASSUME NEW p \in Procs, Abandon(p)
      PROVE  CallInv'
  BY <1>1, SimpleCalls, CallMovedOn DEF Abandon
<1>2. ASSUME (\E g \in Games : GameStep(g)) \/ MoveOthers \/ Tick \/ UNCHANGED vars
      PROVE  CallInv'
  <2>1. call' = call
    BY <1>2 DEF GameStep, AttemptDispatch, AckDispatch, ReopenDispatch, MoveOthers, Tick, vars
  <2>2. QED
    BY <2>1, CallsKept
<1>3. QED
  BY <1>1, <1>2, CallerCalls, SweepCalls DEF Next

-----------------------------------------------------------------------------
(* The window.                                                             *)

\* A place is taken for an opener, confirmed by one who found the record, retired with a
\* complete activity, given up, or no longer delivering what is over.
PlaceMoves ==
  \/ place' = place
  \/ ~Pending(place) /\ place' = [place EXCEPT !.opening = clock]
  \/ Exists /\ place' = Confirmed(place)
  \/ Complete /\ place' = Retired(place)
  \/ Reclaiming /\ place' = Reclaimed(place)
  \/ (\A g \in Games : Over(g)) /\ place' = [place EXCEPT !.delivering = FALSE]

LEMMA SettlePlace ==
  ASSUME CallInv, NEW p \in Procs, Settle(p)
  PROVE  PlaceMoves
<1>1. ASSUME RetireFromWindow(p)
      PROVE  PlaceMoves
  <2>1. CallOK(call[p]) /\ call[p].pc = "ensure" /\ place' = Retired(place)
    BY <1>1 DEF RetireFromWindow, CallInv
  <2>2. QED
    BY <2>1 DEF CallOK, Settles, PlaceMoves
<1>2. QED
  BY <1>1 DEF Settle, EnsureDispatch, PlaceMoves

LEMMA PlaceStep ==
  ASSUME CallInv, [Next]_vars
  PROVE  PlaceMoves
<1>1. ASSUME NEW c \in Callers, Admit(c) \/ CallStep(c)
      PROVE  PlaceMoves
  <2>1. CallOK(call[c]) /\ c \in Procs
    BY DEF CallInv, Procs
  <2>2. CASE Admit(c) \/ Create(c)
    BY <2>2 DEF Admit, Create, PlaceMoves
  <2>3. CASE Confirm(c)
    BY <2>1, <2>3 DEF Confirm, CallOK, PlaceMoves
  <2>4. CASE Settle(c)
    BY <2>1, <2>4, SettlePlace
  <2>5. QED
    BY <1>1, <2>2, <2>3, <2>4 DEF CallStep
<1>2. ASSUME NEW s \in Sweepers, SweepStep(s)
      PROVE  PlaceMoves
  <2>1. CallOK(call[s]) /\ s \in Procs
    BY DEF CallInv, Procs
  <2>2. CASE Adopt(s)
    BY <2>1, <2>2 DEF Adopt, CallOK, PlaceMoves
  <2>3. CASE Reclaim(s)
    BY <2>3 DEF Reclaim, Reclaiming, PlaceMoves
  <2>4. CASE Remove(s)
    BY <2>1, <2>4 DEF Remove, CallOK, PlaceMoves
  <2>5. CASE Settle(s)
    BY <2>1, <2>5, SettlePlace
  <2>6. CASE ~(Adopt(s) \/ Reclaim(s) \/ Remove(s) \/ Settle(s))
    BY <1>2, <2>6 DEF SweepStep, Scan, Finish, List, Inspect, CheckDispatch, PlaceMoves
  <2>7. QED
    BY <2>2, <2>3, <2>4, <2>5, <2>6
<1>3. ASSUME \/ \E c \in Callers, g \in Games, now \in 1 .. clock : NotifyPhase(c, g, now)
             \/ \E g \in Games : GameStep(g)
             \/ \E p \in Procs : Abandon(p)
             \/ MoveOthers \/ Tick \/ UNCHANGED vars
      PROVE  PlaceMoves
  <2>1. place' = place
    BY <1>3 DEF NotifyPhase, GameStep, AttemptDispatch, AckDispatch, ReopenDispatch, Abandon,
       MoveOthers, Tick, vars
  <2>2. QED
    BY <2>1 DEF PlaceMoves
<1>4. QED
  BY <1>1, <1>2, <1>3 DEF Next

LEMMA PlaceStays ==
  ASSUME TypeOK, Persists, PlaceMoves
  PROVE  /\ place' \in [listed : BOOLEAN, opening : Nat, delivering : BOOLEAN]
         /\ place'.listed => place'.opening = 0 /\ Exists'
         /\ place'.delivering => Complete'
<1>1. /\ place \in [listed : BOOLEAN, opening : Nat, delivering : BOOLEAN] /\ clock \in Nat
      /\ place.listed => place.opening = 0 /\ Exists
      /\ place.delivering => Complete
  BY DEF TypeOK
<1>2. (Exists => Exists') /\ (Complete => Complete') /\ (Complete => Exists)
  BY DEF Persists, Complete
<1>3. CASE place' = place
  BY <1>1, <1>2, <1>3
<1>4. CASE ~Pending(place) /\ place' = [place EXCEPT !.opening = clock]
  <2>1. ~place.listed
    BY <1>4 DEF Pending
  <2>2. /\ place' \in [listed : BOOLEAN, opening : Nat, delivering : BOOLEAN]
        /\ place'.listed => place.listed
        /\ place'.delivering => place.delivering
    BY <1>1, <1>4
  <2>3. QED
    BY <1>1, <1>2, <2>1, <2>2
<1>5. CASE Exists /\ place' = Confirmed(place)
  <2>1. /\ place' \in [listed : BOOLEAN, opening : Nat, delivering : BOOLEAN]
        /\ place'.opening = 0 /\ (place'.delivering => place.delivering)
    BY <1>1, <1>5 DEF Confirmed
  <2>2. QED
    BY <1>1, <1>2, <1>5, <2>1
<1>6. CASE Complete /\ place' = Retired(place)
  <2>1. /\ place' \in [listed : BOOLEAN, opening : Nat, delivering : BOOLEAN]
        /\ place'.opening = 0
    BY <1>1, <1>6 DEF Retired
  <2>2. QED
    BY <1>1, <1>2, <1>6, <2>1
<1>7. CASE Reclaiming /\ place' = Reclaimed(place)
  <2>1. /\ place' \in [listed : BOOLEAN, opening : Nat, delivering : BOOLEAN]
        /\ place'.opening = 0 /\ (place'.listed => place.listed)
        /\ place'.delivering => place.delivering
    BY <1>1, <1>7 DEF Reclaimed
  <2>2. QED
    BY <1>1, <1>2, <2>1
<1>8. CASE (\A g \in Games : Over(g)) /\ place' = [place EXCEPT !.delivering = FALSE]
  <2>1. /\ place' \in [listed : BOOLEAN, opening : Nat, delivering : BOOLEAN]
        /\ place'.opening = place.opening /\ (place'.listed => place.listed)
        /\ ~place'.delivering
    BY <1>1, <1>8
  <2>2. QED
    BY <1>1, <1>2, <2>1
<1>9. QED
  BY <1>3, <1>4, <1>5, <1>6, <1>7, <1>8 DEF PlaceMoves

-----------------------------------------------------------------------------
(* Induction.                                                              *)

LEMMA InitActivity == Init => Inv /\ WindowInv
<1> SUFFICES ASSUME Init PROVE Inv /\ WindowInv
  OBVIOUS
<1>1. ~Exists /\ ~Complete
  BY DEF Init, Exists, Complete
<1>2. TypeOK
  BY <1>1, CallsAre, ActivityAssumption DEF Init, TypeOK, NoPlace
<1>3. ActivityInv /\ WindowInv
  BY <1>1 DEF ActivityInv, WindowInv, Unfinished
<1>4. CallInv
  BY SimpleCalls DEF Init, CallInv
<1>5. DeliveryInv
  BY DEF Init, DeliveryInv, DeliveryOK
<1>6. QED
  BY <1>2, <1>3, <1>4, <1>5 DEF Inv

\* A step of a call moves that call and neither time nor the rest of the window.
Moves(p) == UNCHANGED <<others, clock, faults>> /\ \E next : Goto(p, next)

LEMMA SettleMoves ==
  ASSUME NEW p \in Procs, Settle(p)
  PROVE  Moves(p)
BY DEF Settle, RetireFromWindow, EnsureDispatch, Continue, TimeUnchanged, Moves

CallerStep(c) ==
  \/ Admit(c) \/ CallStep(c)
  \/ \E g \in Games, now \in 1 .. clock : NotifyPhase(c, g, now)

LEMMA CallerMoves ==
  ASSUME NEW c \in Callers, CallerStep(c)
  PROVE  Moves(c)
<1>1. c \in Procs
  BY DEF Procs
<1>2. CASE Settle(c)
  BY <1>1, <1>2, SettleMoves
<1>3. CASE ~Settle(c)
  BY <1>3 DEF CallerStep, Admit, CallStep, Create, Confirm, NotifyPhase, TimeUnchanged, Moves
<1>4. QED
  BY <1>2, <1>3

LEMMA SweeperMoves ==
  ASSUME NEW s \in Sweepers, SweepStep(s)
  PROVE  Moves(s)
<1>1. s \in Procs
  BY DEF Procs
<1>2. CASE Settle(s)
  BY <1>1, <1>2, SettleMoves
<1>3. CASE ~Settle(s)
  <2>1. UNCHANGED <<others, clock, faults>>
    BY <1>3 DEF SweepStep, Scan, Adopt, Finish, Reclaim, List, Remove, Inspect, CheckDispatch,
       TimeUnchanged
  <2>2. \E next : Goto(s, next)
    BY <1>3 DEF SweepStep, Scan, Adopt, Finish, Reclaim, List, Remove, Inspect, CheckDispatch
  <2>3. QED
    BY <2>1, <2>2 DEF Moves
<1>4. QED
  BY <1>2, <1>3

\* What is left: steps of which no call is part.
OtherStep == (\E g \in Games : GameStep(g)) \/ MoveOthers \/ Tick \/ UNCHANGED vars

LEMMA OthersMove ==
  ASSUME OtherStep
  PROVE  call' = call
BY DEF OtherStep, GameStep, AttemptDispatch, AckDispatch, ReopenDispatch, MoveOthers, Tick, vars

LEMMA StepKinds ==
  ASSUME [Next]_vars
  PROVE  \/ \E c \in Callers : CallerStep(c)
         \/ \E s \in Sweepers : SweepStep(s)
         \/ \E p \in Procs : Abandon(p)
         \/ OtherStep
BY DEF Next, CallerStep, OtherStep

LEMMA RestStep ==
  ASSUME TypeOK, [Next]_vars
  PROVE  /\ others' \in 0 .. MaxOthers /\ clock' \in 1 .. MaxTime /\ faults' \in 0 .. MaxFaults
         /\ call' = call \/ \E p \in Procs : \E next : Goto(p, next)
<1>1. /\ others \in 0 .. MaxOthers /\ clock \in 1 .. MaxTime /\ faults \in 0 .. MaxFaults
      /\ MaxOthers \in Nat /\ MaxTime \in Nat /\ MaxFaults \in Nat
  BY ActivityAssumption DEF TypeOK
<1>2. CASE \/ \E c \in Callers : CallerStep(c)
           \/ \E s \in Sweepers : SweepStep(s)
  <2>1. \E p \in Procs : Moves(p)
    BY <1>2, CallerMoves, SweeperMoves DEF Procs
  <2>2. QED
    BY <1>1, <2>1 DEF Moves
<1>3. ASSUME NEW p \in Procs, Abandon(p)
      PROVE  /\ UNCHANGED <<others, clock>> /\ faults' \in 0 .. MaxFaults
             /\ \E next : Goto(p, next)
  BY <1>1, <1>3 DEF Abandon
<1>4. CASE OtherStep
  <2>1. UNCHANGED <<others, clock, faults>> \/ MoveOthers \/ Tick
    BY <1>4 DEF OtherStep, GameStep, AttemptDispatch, AckDispatch, ReopenDispatch, TimeUnchanged,
       vars
  <2>2. others' \in 0 .. MaxOthers /\ clock' \in 1 .. MaxTime /\ faults' \in 0 .. MaxFaults
    BY <1>1, <2>1 DEF MoveOthers, Tick, TimeUnchanged
  <2>3. QED
    BY <1>4, <2>2, OthersMove
<1>5. QED
  BY <1>1, <1>2, <1>3, <1>4, StepKinds

LEMMA ActivityInvStep ==
  ASSUME Inv, [Next]_vars
  PROVE  Inv' /\ Persists
<1>1. TypeOK /\ ActivityInv /\ CallInv /\ DeliveryInv
  BY DEF Inv
<1>2. /\ activity' \in Aggregation \cup {NoActivity} /\ ActivityInv'
      /\ Exists => Exists'
      /\ Complete => activity' = activity /\ Complete'
  BY <1>1, ActivityStep, ActivityStays
<1>3. DeliveriesMove
  BY <1>1, DeliveriesStep
<1>4. \A g \in Games :
        /\ dispatch'[g] \in Dispatch \cup {NoDispatch} /\ held'[g] \in Nat /\ handed'[g] \in Nat
        /\ DeliveryOK(g)'
        /\ Over(g) => Over(g)'
  BY <1>1, <1>2, <1>3, DeliveryStays DEF DeliveriesMove
<1>5. Complete' => ResultOf(activity') \in Result
  BY <1>2 DEF ActivityInv, Complete, Exists, Aggregation, Result, ResultOf
<1>6. Persists
  BY <1>2, <1>4, <1>5 DEF Persists
<1>7. CallInv'
  BY <1>1, <1>6, CallsStep
<1>8. TypeOK'
  <2>1. /\ dispatch' \in [Games -> Dispatch \cup {NoDispatch}] /\ held' \in [Games -> Nat]
        /\ handed' \in [Games -> Nat]
    BY <1>3, <1>4 DEF DeliveriesMove, DeliveriesAreFunctions
  <2>2. /\ place' \in [listed : BOOLEAN, opening : Nat, delivering : BOOLEAN]
        /\ place'.listed => place'.opening = 0 /\ Exists'
        /\ place'.delivering => Complete'
    BY <1>1, <1>6, PlaceStep, PlaceStays
  <2>3. \A p \in Procs : call'[p] \in Call
    BY <1>7 DEF CallInv, CallOK
  <2>4. call \in [Procs -> Call]
    BY <1>1 DEF TypeOK
  <2>5. call' \in [Procs -> Call]
    BY <1>1, <2>3, <2>4, RestStep DEF Goto
  <2>6. others' \in 0 .. MaxOthers /\ clock' \in 1 .. MaxTime /\ faults' \in 0 .. MaxFaults
    BY <1>1, RestStep
  <2>7. QED
    BY <1>2, <2>1, <2>2, <2>5, <2>6 DEF TypeOK
<1>9. QED
  BY <1>2, <1>4, <1>6, <1>7, <1>8 DEF Inv, DeliveryInv

LEMMA InvAlways == Spec => []Inv
<1>1. Inv /\ [Next]_vars => Inv'
  BY ActivityInvStep
<1>2. Init => Inv
  BY InitActivity
<1>3. QED
  BY <1>1, <1>2, PTL DEF Spec

\* For any games, calls and sweeps: every game is sent the one result the activity is
\* complete with, and that says truly why it is complete (complete, completeExpired,
\* ensureDispatches).
THEOREM ResultsAlwaysAgree == Spec => []ResultsAgree
<1>1. Inv => ResultsAgree
  <2>1. SUFFICES ASSUME Inv PROVE ResultsAgree
    OBVIOUS
  <2>2. ASSUME NEW g \in Games, dispatch[g] # NoDispatch
        PROVE  Complete /\ dispatch[g].result = ResultOf(activity)
    BY <2>1, <2>2 DEF Inv, DeliveryInv, DeliveryOK, Settles
  <2>3. ASSUME Complete
        PROVE  /\ activity.reason = "collected" <=> activity.notified = Games
               /\ activity.notified # {}
    BY <2>1, <2>3 DEF Inv, ActivityInv, Complete
  <2>4. QED
    BY <2>2, <2>3 DEF ResultsAgree
<1>2. QED
  BY <1>1, InvAlways, PTL

\* However often a delivery is asked for, exhausted and reopened, the budget and the
\* reopenings on its record account for every handout (AttemptDispatch, ReopenDispatch).
THEOREM HandoutsAlwaysCounted == Spec => []HandoutsAreCounted
<1>1. Inv => HandoutsAreCounted
  BY DEF Inv, DeliveryInv, DeliveryOK, HandoutsAreCounted
<1>2. QED
  BY <1>1, InvAlways, PTL

\* A game never holds a token that its delivery has not, however many calls and sweeps
\* ensure and heal it (ensureDispatches).
THEOREM TokensAlwaysStay == Spec => []TokenStays
<1>1. Inv => TokenStays
  BY DEF Inv, DeliveryInv, DeliveryOK, TokenStays
<1>2. QED
  BY <1>1, InvAlways, PTL

\* What an operator was told of a delivery does not come undone (AckDispatch,
\* ReopenDispatch).
THEOREM TerminalAlwaysStays == Spec => TerminalStays
<1>1. ASSUME Inv, [Next]_vars, NEW g \in Games, dispatch[g] # NoDispatch
      PROVE  /\ dispatch'[g] # NoDispatch
             /\ dispatch[g].state = "acked" => dispatch'[g] = dispatch[g]
             /\ dispatch[g].state = "exhausted" =>
                  dispatch'[g] = dispatch[g] \/ dispatch'[g] = Reopened(dispatch[g])
  <2>1. DeliveryMoves(g)
    BY <1>1, DeliveriesStep DEF Inv, DeliveriesMove
  <2>2. \/ dispatch'[g] = dispatch[g]
        \/ dispatch[g].state = "pending"
        \/ dispatch[g].state = "exhausted" /\ dispatch'[g] = Reopened(dispatch[g])
    BY <1>1, <2>1 DEF DeliveryMoves, Made, GivenUp, HandedOut, Acked, PutBack
  <2>3. dispatch'[g] # NoDispatch
    <3>1. ActivityInv /\ TypeOK /\ DeliveryInv /\ CallInv
      BY <1>1 DEF Inv
    <3>2. Complete => activity' = activity /\ Complete'
      BY <1>1, <3>1, ActivityStep, ActivityStays
    <3>3. QED
      BY <1>1, <2>1, <3>1, <3>2, DeliveryStays
  <2>4. QED
    BY <2>2, <2>3
<1>2. ASSUME Inv, [Next]_vars
      PROVE  [\A g \in Games : dispatch[g] # NoDispatch =>
                /\ dispatch'[g] # NoDispatch
                /\ dispatch[g].state = "acked" => dispatch'[g] = dispatch[g]
                /\ dispatch[g].state = "exhausted" =>
                     dispatch'[g] = dispatch[g] \/ dispatch'[g] = Reopened(dispatch[g])]_vars
  BY <1>1, <1>2
<1>3. QED
  BY <1>2, InvAlways, PTL DEF Spec, TerminalStays

-----------------------------------------------------------------------------
(* The window never loses what is not settled.                             *)

\* An opener about to confirm does that, or gives up once it is not needed.
LEMMA ConfirmingLeaves ==
  ASSUME TypeOK, [Next]_vars, NEW c \in Callers, call[c].pc = "confirm"
  PROVE  call'[c] = call[c] \/ Confirm(c) \/ Abandon(c)
<1>1. call \in [Procs -> Call] /\ c \in Procs /\ Callers \cap Sweepers = {}
  BY ActivityAssumption DEF TypeOK, Procs
<1>2. \A p, next : p # c /\ Goto(p, next) => call'[c] = call[c]
  BY <1>1 DEF Goto
<1>3. CASE CallerStep(c)
  <2>1. call[c] # Idle
    BY CallPcs
  <2>2. QED
    BY <1>3, <2>1 DEF CallerStep, Admit, CallStep, Create, NotifyPhase, Settle, RetireFromWindow,
       EnsureDispatch
<1>4. ASSUME NEW p \in Procs, p # c, Moves(p) \/ Abandon(p)
      PROVE  call'[c] = call[c]
  BY <1>2, <1>4 DEF Moves, Abandon
<1>5. CASE OtherStep
  BY <1>5, OthersMove
<1>6. ASSUME NEW d \in Callers, CallerStep(d), d # c
      PROVE  call'[c] = call[c]
  BY <1>4, <1>6, CallerMoves DEF Procs
<1>7. ASSUME NEW s \in Sweepers, SweepStep(s)
      PROVE  call'[c] = call[c]
  BY <1>1, <1>4, <1>7, SweeperMoves DEF Procs
<1>8. QED
  BY <1>3, <1>4, <1>5, <1>6, <1>7, StepKinds

LEMMA ConfirmingStays ==
  ASSUME TypeOK, OpenersSurvive, [Next]_vars, Confirming
  PROVE  Confirming' \/ place'.listed \/ (PlaceIsSafe /\ place' = place)
<1>1. PICK c \in Callers : call[c].pc = "confirm"
  BY DEF Confirming
<1>2. CASE call'[c] = call[c]
  BY <1>1, <1>2 DEF Confirming
<1>3. CASE Confirm(c)
  <2>1. place' = [place EXCEPT !.listed = TRUE, !.opening = 0]
    BY <1>3 DEF Confirm, Confirmed
  <2>2. place \in [listed : BOOLEAN, opening : Nat, delivering : BOOLEAN]
    BY DEF TypeOK
  <2>3. QED
    BY <2>1, <2>2
<1>4. CASE Abandon(c)
  BY <1>1, <1>4 DEF Abandon
<1>5. QED
  BY <1>1, <1>2, <1>3, <1>4, ConfirmingLeaves

\* Only who found no record goes on to take a place away.
LEMMA ReclaimingStays ==
  ASSUME TypeOK, CallInv, [Next]_vars, Exists, Reclaiming'
  PROVE  Reclaiming
<1>1. PICK s \in Sweepers : call'[s].pc = "reclaim"
  BY DEF Reclaiming
<1>2. SUFFICES ASSUME call[s].pc # "reclaim" PROVE FALSE
  BY <1>1 DEF Reclaiming
<1>3. /\ call \in [Procs -> Call] /\ s \in Procs /\ Callers \cap Sweepers = {}
      /\ CallOK(call[s])
  BY ActivityAssumption DEF TypeOK, Procs, CallInv
<1>4. \A p, next : p # s /\ Goto(p, next) => call'[s] = call[s]
  BY <1>3 DEF Goto
<1>5. \A next : Goto(s, next) => call'[s] = next
  BY <1>3 DEF Goto
<1>6. ASSUME NEW c \in Callers, CallerStep(c)
      PROVE  FALSE
  BY <1>1, <1>2, <1>3, <1>4, <1>6, CallerMoves DEF Moves
<1>7. ASSUME NEW r \in Sweepers, SweepStep(r), r # s
      PROVE  FALSE
  BY <1>1, <1>2, <1>4, <1>7, SweeperMoves DEF Moves
<1>8. CASE SweepStep(s)
  <2>1. ASSUME NEW next, Goto(s, next), next.pc # "reclaim"
        PROVE  FALSE
    BY <1>1, <1>5, <2>1
  <2>2. CASE Scan(s)
    BY <2>1, <2>2, CallPcs DEF Scan
  <2>3. CASE Adopt(s)
    <3>1. call[s].then \in Verdict /\ Goto(s, call[s].then)
      BY <1>3, <2>3, CallKinds DEF Adopt, CallOK
    <3>2. call[s].then.pc # "reclaim"
      BY <3>1 DEF Verdict, At
    <3>3. QED
      BY <2>1, <3>1, <3>2
  <2>4. CASE Finish(s)
    BY <2>1, <2>4, CallPcs DEF Finish
  <2>5. CASE Reclaim(s) \/ List(s) \/ Remove(s)
    BY <2>1, <2>5, CallPcs DEF Reclaim, List, Remove
  <2>6. CASE Settle(s)
    <3>1. ASSUME NEW g \in Games, EnsureDispatch(s, g)
          PROVE  FALSE
      <4>1. CallOK(AfterEnsuring(call[s], g))
        BY <1>3, <3>1, EnsuredOK DEF EnsureDispatch
      <4>2. AfterEnsuring(call[s], g).pc # "reclaim"
        <5>1. call[s] \in [pc: {"ensure"}, todo: SUBSET Games, result: Result] \/
              call[s] \in [pc: {"heal"}, todo: SUBSET Games, result: Result]
          BY <1>3, <3>1, CallKinds DEF EnsureDispatch
        <5>2. QED
          BY <5>1 DEF AfterEnsuring
      <4>3. QED
        BY <2>1, <3>1, <4>2 DEF EnsureDispatch
    <3>2. CASE RetireFromWindow(s)
      BY <2>1, <3>2, CallPcs DEF RetireFromWindow, Continue
    <3>3. QED
      BY <2>6, <3>1, <3>2 DEF Settle
  <2>7. ASSUME NEW now \in 1 .. clock, Inspect(s, now)
        PROVE  FALSE
    <3>1. \/ Goto(s, Judged(activity, now))
          \/ Goto(s, [pc |-> "adopt", then |-> Judged(activity, now)])
      BY <2>7 DEF Inspect
    <3>2. Judged(activity, now).pc # "reclaim"
      BY CallPcs DEF Judged, Finishing
    <3>3. QED
      BY <2>1, <3>1, <3>2
  <2>8. ASSUME NEW g \in Games, CheckDispatch(s, g)
        PROVE  FALSE
    <3>1. call[s] \in [pc: {"check"}, todo: SUBSET Games]
      BY <1>3, <2>8, CallKinds DEF CheckDispatch
    <3>2. [call[s] EXCEPT !.todo = @ \ {g}].pc = "check"
      BY <3>1
    <3>3. \/ Goto(s, Idle) \/ Goto(s, At("remove"))
          \/ Goto(s, [call[s] EXCEPT !.todo = @ \ {g}])
      BY <2>8 DEF CheckDispatch
    <3>4. ~Goto(s, Idle) /\ ~Goto(s, At("remove"))
      BY <2>1, CallPcs
    <3>5. ~Goto(s, [call[s] EXCEPT !.todo = @ \ {g}])
      BY <2>1, <3>2
    <3>6. QED
      BY <3>3, <3>4, <3>5
  <2>9. QED
    BY <1>8, <2>2, <2>3, <2>4, <2>5, <2>6, <2>7, <2>8 DEF SweepStep
<1>9. ASSUME NEW p \in Procs, Abandon(p)
      PROVE  FALSE
  BY <1>1, <1>2, <1>4, <1>5, <1>9, CallPcs DEF Abandon
<1>10. CASE OtherStep
  BY <1>1, <1>2, <1>10, OthersMove
<1>11. QED
  BY <1>6, <1>7, <1>8, <1>9, <1>10, StepKinds

\* Whoever creates the record is about to confirm its place.
LEMMA CreatedIsConfirmed ==
  ASSUME TypeOK, CallInv, [Next]_vars, ~Exists, Exists'
  PROVE  Confirming'
<1>1. activity' # activity
  BY DEF Exists
<1>2. ASSUME NEW c \in Callers, CallerStep(c)
      PROVE  Create(c)
  BY <1>1, <1>2 DEF CallerStep, Admit, CallStep, Confirm, NotifyPhase, Settle, RetireFromWindow,
     EnsureDispatch
<1>3. ~\E s \in Sweepers : SweepStep(s)
  <2>1. SUFFICES ASSUME NEW s \in Sweepers, SweepStep(s) PROVE FALSE
    OBVIOUS
  <2>2. ~Finish(s)
    BY DEF Finish, CallInv, CallOK, Procs
  <2>3. QED
    BY <1>1, <2>1, <2>2 DEF SweepStep, Scan, Adopt, Reclaim, List, Remove, Settle, Inspect,
       CheckDispatch, RetireFromWindow, EnsureDispatch
<1>4. ~OtherStep /\ ~\E p \in Procs : Abandon(p)
  BY <1>1 DEF OtherStep, GameStep, AttemptDispatch, AckDispatch, ReopenDispatch, Abandon,
     MoveOthers, Tick, vars
<1>5. PICK c \in Callers : Create(c)
  BY <1>2, <1>3, <1>4, StepKinds
<1>6. call'[c] = At("confirm")
  BY <1>5 DEF Create, Goto, TypeOK, Procs
<1>7. QED
  BY <1>6, CallPcs DEF Confirming

LEMMA WindowStep ==
  ASSUME Inv, WindowInv, OpenersSurvive, [Next]_vars
  PROVE  WindowInv'
<1>1. TypeOK /\ CallInv /\ Persists /\ PlaceMoves
  BY ActivityInvStep, PlaceStep DEF Inv
<1>2. /\ place \in [listed : BOOLEAN, opening : Nat, delivering : BOOLEAN] /\ clock \in Nat \ {0}
      /\ place.delivering => Complete
  BY <1>1 DEF TypeOK
<1>3. SUFFICES ASSUME Unfinished'
               PROVE  place'.listed \/ place'.delivering \/ Confirming'
                      \/ (place'.opening # 0 /\ ~Reclaiming')
  BY DEF WindowInv
<1>4. CASE ~Exists
  BY <1>1, <1>3, <1>4, CreatedIsConfirmed DEF Unfinished
<1>5. CASE Exists
  <2>1. Complete => ~\A g \in Games : Over(g)
    BY <1>1, <1>3 DEF Unfinished, Persists, Over
  <2>2. Unfinished
    BY <1>5, <2>1 DEF Unfinished, Over
  <2>3. ~Reclaiming => ~Reclaiming'
    BY <1>1, <1>5, ReclaimingStays
  <2>4. ASSUME place.listed
        PROVE  place'.listed \/ place'.delivering
    <3>1. place' = [place EXCEPT !.listed = FALSE, !.opening = 0, !.delivering = TRUE] =>
            place'.delivering
      BY <1>2
    <3>2. place' = [place EXCEPT !.delivering = FALSE] => place'.listed
      BY <1>2, <2>4
    <3>3. place' = [place EXCEPT !.opening = 0] => place'.listed
      BY <1>2, <2>4
    <3>4. place' = [place EXCEPT !.listed = TRUE, !.opening = 0] => place'.listed
      BY <1>2
    <3>5. QED
      BY <1>1, <2>4, <3>1, <3>2, <3>3, <3>4 DEF PlaceMoves, Pending, Confirmed, Retired, Reclaimed
  <2>5. ASSUME place.delivering
        PROVE  place'.delivering
    <3>1. place' = [place EXCEPT !.listed = FALSE, !.opening = 0, !.delivering = TRUE] =>
            place'.delivering
      BY <1>2
    <3>2. place' = [place EXCEPT !.opening = clock] => place'.delivering
      BY <1>2, <2>5
    <3>3. place' = [place EXCEPT !.opening = 0] => place'.delivering
      BY <1>2, <2>5
    <3>4. place' = [place EXCEPT !.listed = TRUE, !.opening = 0] => place'.delivering
      BY <1>2, <2>5
    <3>5. ~\A g \in Games : Over(g)
      BY <1>2, <2>1, <2>5
    <3>6. QED
      BY <1>1, <2>5, <3>1, <3>2, <3>3, <3>4, <3>5 DEF PlaceMoves, Confirmed, Retired, Reclaimed
  <2>6. ASSUME place.opening # 0, ~Reclaiming
        PROVE  place'.listed \/ place'.delivering \/ (place'.opening # 0 /\ ~Reclaiming')
    BY <1>1, <1>2, <2>3, <2>6 DEF PlaceMoves, Pending, Confirmed, Retired
  <2>7. CASE Confirming
    <3>1. CASE PlaceIsSafe /\ place' = place
      <4>1. (place.listed \/ place.opening # 0) /\ ~Reclaiming
        BY <3>1 DEF PlaceIsSafe, Pending, Reclaiming
      <4>2. QED
        BY <2>4, <2>6, <4>1
    <3>2. QED
      BY <1>1, <2>7, <3>1, ConfirmingStays
  <2>8. QED
    BY <2>2, <2>4, <2>5, <2>6, <2>7 DEF WindowInv
<1>6. QED
  BY <1>4, <1>5

\* When no opener stops just as its place is reclaimed, no admission, reclaim, confirmation
\* or retirement, by any number of calls and sweeps, leaves an activity that is not settled
\* where no sweep finds it (admitToWindow, confirmWindow, retireFromWindow).
THEOREM UnfinishedAlwaysListed == OpenersSurvive /\ Spec => []UnfinishedIsListed
<1>1. Inv /\ WindowInv => UnfinishedIsListed
  <2>1. SUFFICES ASSUME Inv, WindowInv PROVE UnfinishedIsListed
    OBVIOUS
  <2>2. Confirming => \E c \in Callers : call[c].pc = "confirm"
    BY DEF Confirming
  <2>3. Unfinished => Pending(place) \/ place.delivering \/ Confirming
    BY <2>1 DEF WindowInv, Pending
  <2>4. QED
    BY <2>1, <2>2, <2>3 DEF UnfinishedIsListed, Inv
<1>2. OpenersSurvive /\ Inv /\ WindowInv /\ [Next]_vars => Inv' /\ WindowInv'
  BY WindowStep, ActivityInvStep
<1>3. Init => Inv /\ WindowInv
  BY InitActivity
<1>4. OpenersSurvive => OpenersSurvive'
  OBVIOUS
<1>5. QED
  BY <1>1, <1>2, <1>3, <1>4, PTL DEF Spec

===============================================================================
