---------------------------- MODULE RoutingProofs ----------------------------
(***************************************************************************)
(* Proofs about Routing for all instances, operators, processes, threads,  *)
(* tokens, leases of any length and clocks of any bound.                   *)
(***************************************************************************)
EXTENDS Routing, TLAPS

\* What BeginMigration, CompleteMigration and AbortMigration write is a binding.
LEMMA BindingTypes ==
  ASSUME NEW b \in RouteBinding
  PROVE  /\ \A g \in GlobalSIDs : b.state # "migrating" /\ g # b.sid =>
              [b EXCEPT !.state = "migrating", !.target = g, !.epoch = @ + 1] \in RouteBinding
         /\ b.state = "migrating" =>
              /\ [b EXCEPT !.sid = b.target, !.target = NoTarget,
                           !.state = "active", !.epoch = @ + 1] \in RouteBinding
              /\ [b EXCEPT !.target = NoTarget, !.state = "active",
                           !.epoch = @ + 1] \in RouteBinding
<1> DEFINE Raw == [sid: GlobalSIDs, target: GlobalSIDs \cup {NoTarget},
                   epoch: Nat \ {0}, state: {"active", "migrating"}]
<1>1. b \in Raw /\ b.target # b.sid /\ (b.state = "migrating" <=> b.target # NoTarget)
  BY DEF RouteBinding
<1>2. b.epoch + 1 \in Nat \ {0} /\ b.sid \in GlobalSIDs /\ b.sid # NoTarget
  BY <1>1, RoutingAssumption
<1>3. ASSUME NEW g \in GlobalSIDs, b.state # "migrating", g # b.sid
      PROVE  [b EXCEPT !.state = "migrating", !.target = g, !.epoch = @ + 1] \in RouteBinding
  <2> DEFINE n == [b EXCEPT !.state = "migrating", !.target = g, !.epoch = @ + 1]
  <2>1. n \in Raw
    BY <1>1, <1>2
  <2>2. n.state = "migrating" /\ n.target = g /\ n.sid = b.sid
    BY <1>1
  <2>3. QED
    BY <1>3, <2>1, <2>2, RoutingAssumption DEF RouteBinding
<1>4. ASSUME b.state = "migrating"
      PROVE  [b EXCEPT !.sid = b.target, !.target = NoTarget,
                       !.state = "active", !.epoch = @ + 1] \in RouteBinding
  <2> DEFINE n == [b EXCEPT !.sid = b.target, !.target = NoTarget,
                            !.state = "active", !.epoch = @ + 1]
  <2>1. b.target \in GlobalSIDs
    BY <1>1, <1>4
  <2>2. n \in Raw
    BY <1>1, <1>2, <2>1
  <2>3. n.state = "active" /\ n.target = NoTarget /\ n.sid = b.target
    BY <1>1
  <2>4. QED
    BY <2>1, <2>2, <2>3, RoutingAssumption DEF RouteBinding
<1>5. ASSUME b.state = "migrating"
      PROVE  [b EXCEPT !.target = NoTarget, !.state = "active", !.epoch = @ + 1]
               \in RouteBinding
  <2> DEFINE n == [b EXCEPT !.target = NoTarget, !.state = "active", !.epoch = @ + 1]
  <2>1. n \in Raw
    BY <1>1, <1>2
  <2>2. n.state = "active" /\ n.target = NoTarget /\ n.sid = b.sid
    BY <1>1
  <2>3. QED
    BY <1>2, <2>1, <2>2 DEF RouteBinding
<1>6. QED
  BY <1>3, <1>4, <1>5

\* What RenewLease and ReleaseLease write is a lease.
LEMMA LeaseTypes ==
  ASSUME NEW l \in GameLease, NEW now \in Nat
  PROVE  /\ l.state = "active" => [l EXCEPT !.expires = now + Ttl] \in GameLease
         /\ [l EXCEPT !.state = "released", !.expires = 0] \in GameLease
<1> DEFINE Raw == [incarnation: Incarnations, sid: GlobalSIDs, epoch: Nat \ {0},
                   state: {"active", "released"}, expires: Nat]
<1>1. l \in Raw /\ (l.state = "released" <=> l.expires = 0)
  BY DEF GameLease
<1>2. now + Ttl \in Nat \ {0}
  BY RoutingAssumption
<1>3. ASSUME l.state = "active"
      PROVE  [l EXCEPT !.expires = now + Ttl] \in GameLease
  <2> DEFINE n == [l EXCEPT !.expires = now + Ttl]
  <2>1. n \in Raw
    BY <1>1, <1>2
  <2>2. n.state = l.state /\ n.expires = now + Ttl
    BY <1>1
  <2>3. QED
    BY <1>2, <1>3, <2>1, <2>2 DEF GameLease
<1>4. [l EXCEPT !.state = "released", !.expires = 0] \in GameLease
  <2> DEFINE n == [l EXCEPT !.state = "released", !.expires = 0]
  <2>1. n \in Raw
    BY <1>1
  <2>2. n.state = "released" /\ n.expires = 0
    BY <1>1
  <2>3. QED
    BY <2>1, <2>2 DEF GameLease
<1>5. QED
  BY <1>3, <1>4

\* What the parts of a call are, by where it is.
LEMMA CallParts ==
  ASSUME NEW c \in Call
  PROVE  /\ c # Idle => c.by \in Caller
         /\ c.pc \in {"resolved", "acquire"} => c # Idle /\ c.binding \in RouteBinding
         /\ c.pc \in {"acquire", "renew"} => c # Idle /\ c.now \in Nat
         /\ c.pc \in {"renew", "release"} => c # Idle /\ c.incarnation \in Incarnations
BY DEF Call, Idle

\* A call goes on when nobody waits for it.
LEMMA CallAlone ==
  ASSUME NEW c \in Call, c # Idle
  PROVE  /\ [c EXCEPT !.by = Nobody] \in Call \ {Idle}
         /\ [c EXCEPT !.by = Nobody].by = Nobody
         /\ [c EXCEPT !.by = Nobody].pc = c.pc
         /\ c.pc \in {"acquire", "renew"} => [c EXCEPT !.by = Nobody].now = c.now
         /\ c.pc \in {"renew", "release"} =>
              [c EXCEPT !.by = Nobody].incarnation = c.incarnation
<1>1. CASE c.pc = "resolved"
  BY <1>1 DEF Call, Idle, Caller
<1>2. CASE c.pc = "acquire"
  BY <1>2 DEF Call, Idle, Caller
<1>3. CASE c.pc = "renew"
  BY <1>3 DEF Call, Idle, Caller
<1>4. CASE c.pc = "release"
  BY <1>4 DEF Call, Idle, Caller
<1>5. QED
  BY <1>1, <1>2, <1>3, <1>4 DEF Call, Idle

LEMMA InitTypeOK == Init => TypeOK
BY DEF Init, TypeOK, Call

\* A step of an operator keeps the types.
LEMMA RouteTypeOK ==
  ASSUME TypeOK, RouteStep
  PROVE  TypeOK'
<1>0. PICK o \in Operators :
        \/ Resolve(o) \/ CompleteMigration(o) \/ AbortMigration(o)
        \/ \E g \in GlobalSIDs : Bind(o, g) \/ BeginMigration(o, g)
  BY DEF RouteStep
<1> USE DEF TypeOK
<1>1. CASE Resolve(o)
  BY <1>1 DEF Resolve, LeaseUnchanged
<1>2. CASE CompleteMigration(o)
  <2>1. route \in RouteBinding /\ route.state = "migrating"
    BY <1>2 DEF CompleteMigration, Presented
  <2>2. route' \in RouteBinding /\ seen' \in {seen, [seen EXCEPT ![o] = route']}
    BY <1>2, <2>1, BindingTypes DEF CompleteMigration, Advance, Heard
  <2>3. QED
    BY <1>2, <2>2 DEF CompleteMigration, Advance, LeaseUnchanged
<1>3. CASE AbortMigration(o)
  <2>1. route \in RouteBinding /\ route.state = "migrating"
    BY <1>3 DEF AbortMigration, Presented
  <2>2. route' \in RouteBinding /\ seen' \in {seen, [seen EXCEPT ![o] = route']}
    BY <1>3, <2>1, BindingTypes DEF AbortMigration, Advance, Heard
  <2>3. QED
    BY <1>3, <2>2 DEF AbortMigration, Advance, LeaseUnchanged
<1>4. ASSUME NEW g \in GlobalSIDs, Bind(o, g)
      PROVE  TypeOK'
  <2>1. [sid |-> g, target |-> NoTarget, epoch |-> 1, state |-> "active"] \in RouteBinding
    BY RoutingAssumption DEF RouteBinding
  <2>2. route' \in RouteBinding /\ seen' \in {seen, [seen EXCEPT ![o] = route']}
    BY <1>4, <2>1 DEF Bind, Heard
  <2>3. QED
    BY <1>4, <2>2 DEF Bind, LeaseUnchanged
<1>5. ASSUME NEW g \in GlobalSIDs, BeginMigration(o, g)
      PROVE  TypeOK'
  <2>1. route \in RouteBinding /\ route.state # "migrating" /\ g # route.sid
    BY <1>5 DEF BeginMigration, Presented
  <2>2. route' \in RouteBinding /\ seen' \in {seen, [seen EXCEPT ![o] = route']}
    BY <1>5, <2>1, BindingTypes DEF BeginMigration, Advance, Heard
  <2>3. QED
    BY <1>5, <2>2 DEF BeginMigration, Advance, LeaseUnchanged
<1>6. QED
  BY <1>0, <1>1, <1>2, <1>3, <1>4, <1>5

\* How calls start and end.
LEMMA CallTypes ==
  ASSUME TypeOK, NEW t \in Threads
  PROVE  /\ \A p \in Processes, c \in Call :
              Start(t, p, c) => call' \in [Threads -> Call]
         /\ \A l \in GameLease : Answer(t, l) /\ call[t] # Idle =>
              /\ call' \in [Threads -> Call]
              /\ belief' \in [Processes -> GameLease \cup {NoLease}]
         /\ Return(t) => call' \in [Threads -> Call] /\ belief' = belief
<1>1. Idle \in Call
  BY DEF Call
<1>2. call[t] # Idle => call[t].by \in Processes \cup {Nobody}
  BY CallParts DEF TypeOK, Caller
<1>3. ASSUME NEW l \in GameLease, Answer(t, l), call[t] # Idle
      PROVE  belief' \in [Processes -> GameLease \cup {NoLease}]
  <2>1. CASE call[t].by = Nobody
    BY <1>3, <2>1 DEF Answer, TypeOK
  <2>2. CASE call[t].by \in Processes
    BY <1>3, <2>2, RoutingAssumption DEF Answer, TypeOK
  <2>3. QED
    BY <1>2, <1>3, <2>1, <2>2
<1>4. QED
  BY <1>1, <1>3 DEF Start, Answer, Return, TypeOK

\* A step of a lease call keeps the types.
LEMMA LeaseTypeOK ==
  ASSUME TypeOK, NEW t \in Threads, LeaseStep(t)
  PROVE  TypeOK'
<1>1. CASE ReadClock(t)
  <2> DEFINE c == [pc |-> "acquire", by |-> call[t].by,
                   binding |-> call[t].binding, now |-> clock]
  <2>1. call[t].by \in Caller /\ call[t].binding \in RouteBinding /\ clock \in Nat
    BY <1>1, CallParts DEF ReadClock, TypeOK
  <2>2. c \in Call
    BY <2>1 DEF Call
  <2>3. call' = [call EXCEPT ![t] = c]
    BY <1>1 DEF ReadClock
  <2>4. QED
    BY <1>1, <2>2, <2>3 DEF ReadClock, RouteUnchanged, TypeOK
<1>2. CASE RefuseAcquire(t)
  BY <1>2, CallTypes DEF RefuseAcquire, Return, RouteUnchanged, TypeOK
<1>3. CASE RenewLease(t)
  <2>1. call[t] # Idle /\ call[t].now \in Nat
    BY <1>3, CallParts DEF RenewLease, TypeOK
  <2>2. CASE Held(lease, call[t].incarnation, call[t].now)
    <3> DEFINE next == [lease EXCEPT !.expires = call[t].now + Ttl]
    <3>1. next \in GameLease
      BY <2>1, <2>2, LeaseTypes DEF Held, TypeOK
    <3>2. lease' = next /\ Answer(t, next)
      BY <1>3, <2>2 DEF RenewLease
    <3>3. lease.incarnation \in Incarnations
      BY <2>2 DEF Held, TypeOK, GameLease
    <3>4. shortened' \subseteq Incarnations
      BY <1>3, <2>2, <3>3 DEF RenewLease, TypeOK
    <3> HIDE DEF next
    <3>5. QED
      BY <2>1, <3>1, <3>2, <3>4, CallTypes DEF Answer, RouteUnchanged, TypeOK
  <2>3. CASE ~Held(lease, call[t].incarnation, call[t].now)
    BY <1>3, <2>3, CallTypes DEF RenewLease, Return, RouteUnchanged, TypeOK
  <2>4. QED
    BY <2>2, <2>3
<1>4. CASE ReleaseLease(t)
  <2>1. lease' \in GameLease \cup {NoLease}
    BY <1>4, LeaseTypes DEF ReleaseLease, TypeOK
  <2>2. QED
    BY <1>4, <2>1, CallTypes DEF ReleaseLease, Return, RouteUnchanged, TypeOK
<1>5. CASE TimeOut(t)
  <2>1. [call[t] EXCEPT !.by = Nobody] \in Call
    BY <1>5, CallAlone DEF TimeOut, TypeOK
  <2>2. call' = [call EXCEPT ![t] = [call[t] EXCEPT !.by = Nobody]]
    BY <1>5 DEF TimeOut
  <2>3. QED
    BY <1>5, <2>1, <2>2 DEF TimeOut, RouteUnchanged, TypeOK
<1>6. ASSUME NEW i \in Incarnations, AcquireLease(t, i)
      PROVE  TypeOK'
  <2>1. call[t] # Idle /\ call[t].now \in Nat /\ call[t].binding \in RouteBinding
    BY <1>6, CallParts DEF AcquireLease, TypeOK
  <2>2. Leased(call[t], i) \in GameLease
    BY <2>1, RoutingAssumption DEF Leased, GameLease, RouteBinding
  <2>3. lease' = Leased(call[t], i) /\ Answer(t, Leased(call[t], i))
    BY <1>6 DEF AcquireLease
  <2>4. shortened' \subseteq Incarnations
    BY <1>6 DEF AcquireLease, TypeOK
  <2>5. QED
    BY <2>1, <2>2, <2>3, <2>4, CallTypes DEF Answer, RouteUnchanged, TypeOK
<1>7. ASSUME NEW p \in Processes, StartAcquire(t, p)
      PROVE  TypeOK'
  <2>1. [pc |-> "resolved", by |-> p, binding |-> route] \in Call
    BY <1>7 DEF StartAcquire, TypeOK, Call, Caller
  <2>2. QED
    BY <1>7, <2>1, CallTypes DEF StartAcquire, Start, RouteUnchanged, TypeOK
<1>8. ASSUME NEW p \in Processes, StartRenew(t, p)
      PROVE  TypeOK'
  <2>1. belief[p].incarnation \in Incarnations
    BY <1>8 DEF StartRenew, TypeOK, GameLease
  <2>2. [pc |-> "renew", by |-> p, now |-> clock,
         incarnation |-> belief[p].incarnation] \in Call
    BY <2>1 DEF TypeOK, Call, Caller
  <2>3. QED
    BY <1>8, <2>2, CallTypes DEF StartRenew, Start, RouteUnchanged, TypeOK
<1>9. ASSUME NEW p \in Processes, StartRelease(t, p)
      PROVE  TypeOK'
  <2> DEFINE l == [belief[p] EXCEPT !.state = "released", !.expires = 0]
  <2>1. belief[p] \in GameLease
    BY <1>9 DEF StartRelease, TypeOK
  <2>2. belief[p].incarnation \in Incarnations
    BY <2>1 DEF GameLease
  <2>3. [pc |-> "release", by |-> p, incarnation |-> belief[p].incarnation] \in Call
    BY <2>2 DEF Call, Caller
  <2>4. l \in GameLease
    BY <2>1, LeaseTypes
  <2>5. belief' = [belief EXCEPT ![p] = l]
    BY <1>9, <2>1 DEF StartRelease, TypeOK
  <2>6. belief' \in [Processes -> GameLease \cup {NoLease}]
    BY <2>4, <2>5 DEF TypeOK
  <2>7. QED
    BY <1>9, <2>3, <2>6, CallTypes DEF StartRelease, Start, RouteUnchanged, TypeOK
<1>10. QED
  BY <1>1, <1>2, <1>3, <1>4, <1>5, <1>6, <1>7, <1>8, <1>9 DEF LeaseStep

LEMMA NextTypeOK == TypeOK /\ [Next]_vars => TypeOK'
<1> SUFFICES ASSUME TypeOK, [Next]_vars PROVE TypeOK'
  OBVIOUS
<1>1. CASE RouteStep
  BY <1>1, RouteTypeOK
<1>2. CASE \E t \in Threads : LeaseStep(t)
  BY <1>2, LeaseTypeOK
<1>3. ASSUME NEW p \in Processes, Restart(p)
      PROVE  TypeOK'
  <2>1. \A t \in Threads : call'[t] \in Call
    BY <1>3, CallAlone DEF Restart, TypeOK
  <2>2. call' \in [Threads -> Call]
    BY <1>3, <2>1 DEF Restart
  <2>3. QED
    BY <1>3, <2>2 DEF Restart, RouteUnchanged, TypeOK
<1>4. CASE Tick
  BY <1>4 DEF Tick, RouteUnchanged, TypeOK
<1>5. CASE UNCHANGED vars
  BY <1>5 DEF vars, TypeOK
<1>6. QED
  BY <1>1, <1>2, <1>3, <1>4, <1>5 DEF Next

\* Every reachable state is well typed.
THEOREM TypeCorrect == Spec => []TypeOK
BY InitTypeOK, NextTypeOK, PTL DEF Spec

-----------------------------------------------------------------------------
(* The binding: an epoch names one binding, so an operator whose epoch is  *)
(* the current one has seen the current binding.                           *)

EpochInv ==
  \A o \in Operators : seen[o] # NoRoute =>
    /\ route # NoRoute
    /\ seen[o].epoch <= route.epoch
    /\ seen[o].epoch = route.epoch => seen[o] = route

LEMMA EpochInit == Init => EpochInv
BY DEF Init, EpochInv

\* A change to the next epoch.
LEMMA NextEpoch ==
  ASSUME TypeOK, EpochInv, NEW o \in Operators, route \in RouteBinding,
         route' \in RouteBinding, route'.epoch = route.epoch + 1, Heard(o, route')
  PROVE  EpochInv'
<1>1. route.epoch \in Nat /\ route'.epoch \in Nat
  BY DEF RouteBinding
<1>2. route' # NoRoute
  BY MissingAssumption
<1>3. ASSUME NEW q \in Operators, seen'[q] # NoRoute
      PROVE  /\ seen'[q].epoch <= route'.epoch
             /\ seen'[q].epoch = route'.epoch => seen'[q] = route'
  <2>1. CASE seen'[q] = route'
    BY <1>1, <2>1
  <2>2. CASE seen'[q] = seen[q]
    <3>1. seen[q].epoch \in Nat /\ seen[q].epoch <= route.epoch
      BY <1>3, <2>2 DEF EpochInv, TypeOK, RouteBinding
    <3>2. QED
      BY <1>1, <2>2, <3>1
  <2>3. QED
    BY <2>1, <2>2 DEF Heard, TypeOK
<1>4. QED
  BY <1>2, <1>3 DEF EpochInv

\* What a step of an operator does to the binding: nothing, the first one, or
\* the next epoch by someone who presented the current one.
LEMMA RouteStepCases ==
  ASSUME TypeOK, TypeOK', RouteStep
  PROVE  \/ \E o \in Operators : Resolve(o)
         \/ \E o \in Operators, g \in GlobalSIDs : Bind(o, g)
         \/ \E o \in Operators :
              /\ Presented(o) /\ Heard(o, route')
              /\ route \in RouteBinding /\ route' \in RouteBinding
              /\ route'.epoch = route.epoch + 1
<1>1. ASSUME NEW o \in Operators, Presented(o)
      PROVE  route \in RouteBinding /\ route.epoch \in Nat
  BY <1>1 DEF Presented, TypeOK, RouteBinding
<1>2. ASSUME NEW o \in Operators, CompleteMigration(o)
      PROVE  /\ Presented(o) /\ Heard(o, route')
             /\ route' \in RouteBinding /\ route'.epoch = route.epoch + 1
  BY <1>1, <1>2, BindingTypes DEF CompleteMigration, Advance, RouteBinding
<1>3. ASSUME NEW o \in Operators, AbortMigration(o)
      PROVE  /\ Presented(o) /\ Heard(o, route')
             /\ route' \in RouteBinding /\ route'.epoch = route.epoch + 1
  BY <1>1, <1>3, BindingTypes DEF AbortMigration, Advance, RouteBinding
<1>4. ASSUME NEW o \in Operators, NEW g \in GlobalSIDs, BeginMigration(o, g)
      PROVE  /\ Presented(o) /\ Heard(o, route')
             /\ route' \in RouteBinding /\ route'.epoch = route.epoch + 1
  BY <1>1, <1>4, BindingTypes DEF BeginMigration, Advance, RouteBinding
<1>5. QED
  BY <1>1, <1>2, <1>3, <1>4 DEF RouteStep

LEMMA RouteUnchangedKeepsEpochInv ==
  EpochInv /\ RouteUnchanged => EpochInv'
BY DEF EpochInv, RouteUnchanged

\* Only operators touch the binding.
LEMMA OtherStepsKeepRoute ==
  ASSUME [Next]_vars, ~RouteStep
  PROVE  RouteUnchanged
<1>1. ASSUME NEW t \in Threads, LeaseStep(t)
      PROVE  RouteUnchanged
  BY <1>1 DEF LeaseStep, ReadClock, RefuseAcquire, RenewLease, ReleaseLease, TimeOut,
     AcquireLease, StartAcquire, StartRenew, StartRelease, Start, Answer, Return,
     RouteUnchanged
<1>2. QED
  BY <1>1 DEF Next, Restart, Tick, vars, RouteUnchanged

LEMMA EpochStep ==
  ASSUME TypeOK, TypeOK', EpochInv, [Next]_vars
  PROVE  EpochInv'
<1>1. CASE RouteStep
  <2>1. ASSUME NEW o \in Operators, Resolve(o)
        PROVE  EpochInv'
    <3>1. route \in RouteBinding /\ route.epoch \in Nat
      BY <2>1 DEF Resolve, TypeOK, RouteBinding
    <3>2. QED
      BY <2>1, <3>1 DEF Resolve, TypeOK, EpochInv
  <2>2. ASSUME NEW o \in Operators, NEW g \in GlobalSIDs, Bind(o, g)
        PROVE  EpochInv'
    <3>1. route = NoRoute /\ \A q \in Operators : seen[q] = NoRoute
      BY <2>2 DEF Bind, EpochInv
    <3>2. route' \in RouteBinding /\ route' # NoRoute /\ route'.epoch = 1
      BY <2>2, RoutingAssumption, MissingAssumption DEF Bind, RouteBinding
    <3>3. \A q \in Operators : seen'[q] \in {NoRoute, route'}
      BY <2>2, <3>1 DEF Bind, Heard, TypeOK
    <3>4. QED
      BY <3>2, <3>3 DEF EpochInv
  <2>3. QED
    BY <1>1, <2>1, <2>2, NextEpoch, RouteStepCases
<1>2. CASE ~RouteStep
  BY <1>2, OtherStepsKeepRoute, RouteUnchangedKeepsEpochInv
<1>3. QED
  BY <1>1, <1>2

THEOREM EpochCorrect == Spec => []EpochInv
BY TypeCorrect, EpochInit, EpochStep, PTL DEF Spec

\* No change of a binding is lost, for any number of operators and migrations:
\* BeginMigration, CompleteMigration and AbortMigration replace a binding that
\* their caller has seen.
THEOREM NoRouteChangeIsLost == Spec => RouteChangesWereSeen
<1>1. ASSUME TypeOK, TypeOK', EpochInv, [Next]_vars, route # NoRoute, route' # route
      PROVE  \E o \in Operators : seen[o] = route
  <2>1. RouteStep
    BY <1>1, OtherStepsKeepRoute DEF RouteUnchanged
  <2>2. PICK o \in Operators : Presented(o)
    BY <1>1, <2>1, RouteStepCases DEF Resolve, Bind
  <2>3. seen[o] = route
    BY <1>1, <2>2 DEF Presented, EpochInv
  <2>4. QED
    BY <2>3
<1>2. QED
  BY <1>1, TypeCorrect, EpochCorrect, PTL DEF Spec, RouteChangesWereSeen

-----------------------------------------------------------------------------
(* The lease, with calls of any length.                                    *)

\* A process counts on its lease.
Counts(p) ==
  belief[p] # NoLease /\ belief[p].state = "active" /\ clock < belief[p].expires

\* The clock a call decides on is never ahead.
NowInv == \A t \in Threads : call[t].pc \in {"acquire", "renew"} => call[t].now <= clock

\* A process waits for one call at a time.
WaitInv ==
  \A t, u \in Threads :
    call[t] # Idle /\ call[u] # Idle /\ call[t].by \in Processes /\ call[t].by = call[u].by
      => t = u

\* A process renews what it still has, and what is being given up nobody has.
TokenInv ==
  /\ \A t \in Threads : call[t].pc = "renew" /\ call[t].by \in Processes =>
        /\ belief[call[t].by] # NoLease
        /\ belief[call[t].by].state = "active"
        /\ belief[call[t].by].incarnation = call[t].incarnation
  /\ \A t \in Threads, p \in Processes :
        call[t].pc = "release" /\ belief[p] # NoLease /\ belief[p].state = "active" =>
          belief[p].incarnation # call[t].incarnation
  /\ \A p, q \in Processes : p # q /\ belief[p] # NoLease /\ belief[q] # NoLease =>
        belief[p].incarnation # belief[q].incarnation

\* Who counts on a lease whose deadline no late renewal moved back has it in the
\* store, and for at least as long.
HolderInv ==
  \A p \in Processes : Counts(p) /\ belief[p].incarnation \notin shortened =>
    /\ lease # NoLease
    /\ lease.state = "active"
    /\ lease.incarnation = belief[p].incarnation
    /\ belief[p].expires <= lease.expires

LeaseInv == NowInv /\ WaitInv /\ TokenInv /\ HolderInv

LEMMA LeaseInit == Init => LeaseInv
<1>1. Init => NowInv /\ WaitInv
  BY DEF Init, NowInv, WaitInv, Idle
<1>2. Init => TokenInv /\ HolderInv
  BY DEF Init, TokenInv, HolderInv, Idle, Counts
<1>3. QED
  BY <1>1, <1>2 DEF LeaseInv

\* Where the calls are: one of them changes, or all of them keep where they are.
LEMMA CallStepCases ==
  ASSUME TypeOK, NEW t \in Threads, LeaseStep(t)
  PROVE  \A u \in Threads \ {t} : call'[u] = call[u]
BY DEF TypeOK, LeaseStep, ReadClock, RefuseAcquire, RenewLease, ReleaseLease, TimeOut,
   AcquireLease, StartAcquire, StartRenew, StartRelease, Start, Answer, Return

LEMMA NowStep ==
  ASSUME TypeOK, TypeOK', NowInv, [Next]_vars
  PROVE  NowInv'
<1>1. ASSUME NEW t \in Threads, LeaseStep(t)
      PROVE  NowInv'
  <2>1. clock' = clock
    BY <1>1 DEF LeaseStep, ReadClock, RefuseAcquire, RenewLease, ReleaseLease, TimeOut,
       AcquireLease, StartAcquire, StartRenew, StartRelease, Start, Answer, Return
  <2>2. call'[t].pc \in {"acquire", "renew"} => call'[t].now <= clock
    <3>0. clock \in Nat
      BY DEF TypeOK
    <3>1. CASE ReadClock(t)
      BY <3>0, <3>1 DEF ReadClock, TypeOK
    <3>2. CASE TimeOut(t)
      <4>1. call[t] \in Call /\ call[t] # Idle
        BY <3>2 DEF TimeOut, TypeOK
      <4>2. call'[t] = [call[t] EXCEPT !.by = Nobody]
        BY <3>2 DEF TimeOut, TypeOK
      <4>3. call'[t].pc = call[t].pc
             /\ (call[t].pc \in {"acquire", "renew"} => call'[t].now = call[t].now)
        BY <4>1, <4>2, CallAlone
      <4>4. QED
        BY <4>3 DEF NowInv
    <3>3. CASE \E p \in Processes : StartAcquire(t, p) \/ StartRenew(t, p) \/ StartRelease(t, p)
      BY <3>0, <3>3 DEF StartAcquire, StartRenew, StartRelease, Start, TypeOK
    <3>4. CASE \/ RefuseAcquire(t) \/ RenewLease(t) \/ ReleaseLease(t)
               \/ \E i \in Incarnations : AcquireLease(t, i)
      BY <3>4 DEF RefuseAcquire, RenewLease, ReleaseLease, AcquireLease, Answer, Return,
         TypeOK, Idle
    <3>5. QED
      BY <1>1, <3>1, <3>2, <3>3, <3>4 DEF LeaseStep
  <2>3. QED
    BY <1>1, <2>1, <2>2, CallStepCases DEF NowInv
<1>2. ASSUME NEW p \in Processes, Restart(p)
      PROVE  NowInv'
  <2>1. ASSUME NEW t \in Threads, call'[t].pc \in {"acquire", "renew"}
        PROVE  call'[t].now <= clock'
    <3>1. CASE call[t] # Idle /\ call[t].by = p
      <4>1. call'[t] = [call[t] EXCEPT !.by = Nobody] /\ call[t] \in Call /\ clock' = clock
        BY <1>2, <3>1 DEF Restart, TypeOK
      <4>2. call'[t].pc = call[t].pc
             /\ (call[t].pc \in {"acquire", "renew"} => call'[t].now = call[t].now)
        BY <3>1, <4>1, CallAlone
      <4>3. QED
        BY <2>1, <4>1, <4>2 DEF NowInv
    <3>2. CASE ~(call[t] # Idle /\ call[t].by = p)
      BY <1>2, <2>1, <3>2 DEF Restart, NowInv
    <3>3. QED
      BY <3>1, <3>2
  <2>2. QED
    BY <2>1 DEF NowInv
<1>3. CASE RouteStep
  BY <1>3 DEF RouteStep, Resolve, CompleteMigration, AbortMigration, Bind, BeginMigration,
     Advance, LeaseUnchanged, NowInv
<1>4. CASE Tick
  <2>1. call' = call /\ clock' = clock + 1 /\ clock \in Nat
    BY <1>4 DEF Tick, TypeOK
  <2>2. \A t \in Threads : call[t].pc \in {"acquire", "renew"} => call[t].now \in Nat
    BY CallParts DEF TypeOK
  <2>3. QED
    BY <2>1, <2>2 DEF NowInv
<1>5. CASE UNCHANGED vars
  BY <1>5 DEF vars, NowInv
<1>6. QED
  BY <1>1, <1>2, <1>3, <1>4, <1>5 DEF Next

\* What a restart leaves of a call: nobody waits for it any more, or it was not
\* a call of the process.
LEMMA RestartCalls ==
  ASSUME TypeOK, NEW p \in Processes, Restart(p), NEW t \in Threads
  PROVE  \/ /\ call[t] # Idle /\ call[t].by = p
            /\ call'[t] # Idle /\ call'[t].by = Nobody /\ call'[t].pc = call[t].pc
            /\ call[t].pc \in {"renew", "release"} =>
                 call'[t].incarnation = call[t].incarnation
         \/ (call[t] = Idle \/ call[t].by # p) /\ call'[t] = call[t]
<1>1. CASE call[t] # Idle /\ call[t].by = p
  <2>1. call'[t] = [call[t] EXCEPT !.by = Nobody] /\ call[t] \in Call
    BY <1>1 DEF Restart, TypeOK
  <2>2. QED
    BY <1>1, <2>1, CallAlone
<1>2. CASE ~(call[t] # Idle /\ call[t].by = p)
  BY <1>2 DEF Restart
<1>3. QED
  BY <1>1, <1>2

\* The same of a timeout.
LEMMA TimeOutCall ==
  ASSUME TypeOK, NEW t \in Threads, TimeOut(t)
  PROVE  /\ call'[t] # Idle /\ call'[t].by = Nobody /\ call'[t].pc = call[t].pc
         /\ call[t].pc \in {"renew", "release"} =>
              call'[t].incarnation = call[t].incarnation
<1>1. call[t] \in Call /\ call[t] # Idle
  BY DEF TimeOut, TypeOK
<1>2. call'[t] = [call[t] EXCEPT !.by = Nobody]
  BY DEF TimeOut, TypeOK
<1>3. QED
  BY <1>1, <1>2, CallAlone

LEMMA WaitStep ==
  ASSUME TypeOK, TypeOK', WaitInv, [Next]_vars
  PROVE  WaitInv'
<1>1. ASSUME NEW t \in Threads, LeaseStep(t)
      PROVE  WaitInv'
  <2>1. \/ call'[t] = Idle
        \/ call'[t].by = Nobody
        \/ call[t] # Idle /\ call'[t].by = call[t].by
        \/ \A u \in Threads \ {t} : call[u] # Idle => call[u].by # call'[t].by
    <3>1. CASE ReadClock(t)
      BY <3>1 DEF ReadClock, TypeOK, Idle
    <3>2. CASE TimeOut(t)
      BY <3>2, TimeOutCall
    <3>3. CASE \E p \in Processes : StartAcquire(t, p) \/ StartRenew(t, p) \/ StartRelease(t, p)
      BY <3>3 DEF StartAcquire, StartRenew, StartRelease, Start, TypeOK
    <3>4. CASE \/ RefuseAcquire(t) \/ RenewLease(t) \/ ReleaseLease(t)
               \/ \E i \in Incarnations : AcquireLease(t, i)
      BY <3>4 DEF RefuseAcquire, RenewLease, ReleaseLease, AcquireLease, Answer, Return,
         TypeOK
    <3>5. QED
      BY <1>1, <3>1, <3>2, <3>3, <3>4 DEF LeaseStep
  <2>2. QED
    BY <1>1, <2>1, CallStepCases, RoutingAssumption DEF WaitInv
<1>2. ASSUME NEW p \in Processes, Restart(p)
      PROVE  WaitInv'
  BY <1>2, RestartCalls, RoutingAssumption DEF WaitInv
<1>3. CASE RouteStep
  BY <1>3 DEF RouteStep, Resolve, CompleteMigration, AbortMigration, Bind, BeginMigration,
     Advance, LeaseUnchanged, WaitInv
<1>4. CASE Tick
  BY <1>4 DEF Tick, WaitInv
<1>5. CASE UNCHANGED vars
  BY <1>5 DEF vars, WaitInv
<1>6. QED
  BY <1>1, <1>2, <1>3, <1>4, <1>5 DEF Next

\* What a process has changes only when it is answered, gives up its lease or
\* restarts.
LEMMA BeliefCases ==
  ASSUME TypeOK, NEW t \in Threads, LeaseStep(t)
  PROVE  \/ belief' = belief
         \/ /\ call[t] # Idle /\ call[t].by \in Processes /\ call'[t] = Idle
            /\ lease' \in GameLease
            /\ belief' = [belief EXCEPT ![call[t].by] = lease']
            /\ \/ \E i \in Incarnations : AcquireLease(t, i)
               \/ RenewLease(t) /\ Held(lease, call[t].incarnation, call[t].now)
         \/ \E p \in Processes : StartRelease(t, p)
<1>0. call[t].pc \in {"acquire", "renew"} => call[t] # Idle /\ call[t].by \in Processes \cup {Nobody}
  BY CallParts DEF TypeOK, Caller
<1>1. lease' \in GameLease \cup {NoLease}
  BY LeaseTypeOK DEF TypeOK
<1>2. ASSUME NEW i \in Incarnations, AcquireLease(t, i)
      PROVE  \/ belief' = belief
             \/ /\ call[t] # Idle /\ call[t].by \in Processes /\ call'[t] = Idle
                /\ lease' \in GameLease
                /\ belief' = [belief EXCEPT ![call[t].by] = lease']
  <2>1. lease' = Leased(call[t], i) /\ Answer(t, lease') /\ call[t].pc = "acquire"
    BY <1>2 DEF AcquireLease
  <2>2. call[t] \in Call
    BY DEF TypeOK
  <2>3. Leased(call[t], i) \in GameLease
    BY <2>1, <2>2, CallParts, RoutingAssumption DEF Leased, GameLease, RouteBinding
  <2>4. QED
    BY <1>0, <2>1, <2>3 DEF Answer, TypeOK
<1>3. ASSUME RenewLease(t), Held(lease, call[t].incarnation, call[t].now)
      PROVE  \/ belief' = belief
             \/ /\ call[t] # Idle /\ call[t].by \in Processes /\ call'[t] = Idle
                /\ lease' \in GameLease
                /\ belief' = [belief EXCEPT ![call[t].by] = lease']
  <2>1. /\ lease' = [lease EXCEPT !.expires = call[t].now + Ttl]
        /\ Answer(t, lease') /\ call[t].pc = "renew"
    BY <1>3 DEF RenewLease
  <2>2. lease \in GameLease /\ lease.state = "active" /\ call[t].now \in Nat
    BY <1>3, <2>1, CallParts DEF Held, TypeOK
  <2>3. lease' \in GameLease
    BY <2>1, <2>2, LeaseTypes
  <2>4. QED
    BY <1>0, <2>1, <2>3 DEF Answer, TypeOK
<1>4. ASSUME RenewLease(t), ~Held(lease, call[t].incarnation, call[t].now)
      PROVE  belief' = belief
  BY <1>4 DEF RenewLease, Return
<1>5. QED
  BY <1>2, <1>3, <1>4 DEF LeaseStep, ReadClock, RefuseAcquire, ReleaseLease, TimeOut,
     StartAcquire, StartRenew, Return

\* Calls and beliefs that keep what TokenInv speaks of.
LEMMA TokenFrame ==
  ASSUME TokenInv, belief' = belief,
         \A u \in Threads : call'[u].pc = "renew" /\ call'[u].by \in Processes =>
           /\ call[u].pc = "renew" /\ call[u].by = call'[u].by
           /\ call[u].incarnation = call'[u].incarnation,
         \A u \in Threads : call'[u].pc = "release" =>
           call[u].pc = "release" /\ call[u].incarnation = call'[u].incarnation
  PROVE  TokenInv'
BY DEF TokenInv

LEMMA TokenLeaseStep ==
  ASSUME TypeOK, TypeOK', WaitInv, TokenInv, NEW t \in Threads, LeaseStep(t)
  PROVE  TokenInv'
<1>0. \A u \in Threads \ {t} : call'[u] = call[u]
  BY CallStepCases
<1>1. CASE \/ ReadClock(t) \/ RefuseAcquire(t) \/ ReleaseLease(t)
           \/ RenewLease(t) /\ ~Held(lease, call[t].incarnation, call[t].now)
           \/ \E p \in Processes : StartAcquire(t, p)
  <2>1. belief' = belief /\ call'[t].pc \notin {"renew", "release"}
    BY <1>1 DEF ReadClock, RefuseAcquire, ReleaseLease, RenewLease, StartAcquire, Start,
       Return, TypeOK, Idle
  <2>2. QED
    BY <1>0, <2>1, TokenFrame
<1>2. CASE TimeOut(t)
  <2>1. belief' = belief /\ call'[t].by = Nobody /\ call'[t].pc = call[t].pc
        /\ (call[t].pc \in {"renew", "release"} => call'[t].incarnation = call[t].incarnation)
    BY <1>2, TimeOutCall DEF TimeOut
  <2>2. QED
    BY <1>0, <2>1, TokenFrame, RoutingAssumption
<1>3. ASSUME NEW i \in Incarnations, AcquireLease(t, i)
      PROVE  TokenInv'
  <2>1. call'[t] = Idle /\ lease'.incarnation = i /\ Fresh(i)
    BY <1>3 DEF AcquireLease, Leased, Answer, TypeOK
  <2>2. CASE belief' = belief
    BY <1>0, <2>1, <2>2, TokenFrame DEF Idle
  <2>3. CASE /\ call[t] # Idle /\ call[t].by \in Processes
             /\ belief' = [belief EXCEPT ![call[t].by] = lease']
    <3> DEFINE p == call[t].by
    <3>1. p \in Processes /\ belief'[p] = lease'
          /\ \A q \in Processes \ {p} : belief'[q] = belief[q]
      BY <2>3 DEF TypeOK
    <3>2. \A u \in Threads : call'[u].pc = "renew" /\ call'[u].by \in Processes =>
            call'[u] = call[u] /\ call[u].by # p
      BY <1>0, <2>1, <2>3 DEF WaitInv, Idle
    <3>3. \A u \in Threads : call'[u].pc = "release" =>
            call'[u] = call[u] /\ call[u].incarnation # i
      BY <1>0, <2>1 DEF Idle, Fresh
    <3>4. \A q \in Processes : belief[q] # NoLease => belief[q].incarnation # i
      BY <2>1 DEF Fresh
    <3> HIDE DEF p
    <3>5. QED
      BY <2>1, <3>1, <3>2, <3>3, <3>4 DEF TokenInv
  <2>4. \A p \in Processes : ~StartRelease(t, p)
    BY <1>3 DEF AcquireLease, StartRelease, Start, Idle
  <2>5. QED
    BY <2>2, <2>3, <2>4, BeliefCases
<1>4. CASE RenewLease(t) /\ Held(lease, call[t].incarnation, call[t].now)
  <2>1. /\ call'[t] = Idle /\ call[t].pc = "renew"
        /\ lease'.incarnation = call[t].incarnation /\ lease'.state = "active"
    BY <1>4 DEF RenewLease, Held, Answer, TypeOK, GameLease
  <2>2. CASE belief' = belief
    BY <1>0, <2>1, <2>2, TokenFrame DEF Idle
  <2>3. CASE /\ call[t] # Idle /\ call[t].by \in Processes
             /\ belief' = [belief EXCEPT ![call[t].by] = lease']
    <3> DEFINE p == call[t].by
    <3>1. p \in Processes /\ belief'[p] = lease'
          /\ \A q \in Processes \ {p} : belief'[q] = belief[q]
      BY <2>3 DEF TypeOK
    <3>2. /\ belief[p] # NoLease /\ belief[p].state = "active"
          /\ lease'.incarnation = belief[p].incarnation
      BY <2>1, <3>1 DEF TokenInv
    <3>3. \A u \in Threads : call'[u].pc = "renew" /\ call'[u].by \in Processes =>
            call'[u] = call[u] /\ call[u].by # p
      BY <1>0, <2>1, <2>3 DEF WaitInv, Idle
    <3>4. \A u \in Threads : call'[u].pc = "release" => call'[u] = call[u]
      BY <1>0, <2>1 DEF Idle
    <3> HIDE DEF p
    <3>5. QED
      BY <2>1, <3>1, <3>2, <3>3, <3>4 DEF TokenInv
  <2>4. \A p \in Processes : ~StartRelease(t, p)
    BY <2>1 DEF StartRelease, Start, Idle
  <2>5. QED
    BY <2>2, <2>3, <2>4, BeliefCases
<1>5. ASSUME NEW p \in Processes, StartRenew(t, p)
      PROVE  TokenInv'
  <2>1. /\ belief' = belief /\ belief[p] # NoLease /\ belief[p].state = "active"
        /\ call'[t].pc = "renew" /\ call'[t].by = p
        /\ call'[t].incarnation = belief[p].incarnation
    BY <1>5 DEF StartRenew, Start, TypeOK
  <2>2. QED
    BY <1>0, <2>1 DEF TokenInv
<1>6. ASSUME NEW p \in Processes, StartRelease(t, p)
      PROVE  TokenInv'
  <2>1. /\ call'[t].pc = "release" /\ call'[t].incarnation = belief[p].incarnation
        /\ belief[p] \in GameLease
        /\ \A u \in Threads : call[u] # Idle => call[u].by # p
    BY <1>6 DEF StartRelease, Start, TypeOK
  <2>2. /\ belief'[p].state = "released"
        /\ belief'[p].incarnation = belief[p].incarnation
        /\ \A q \in Processes \ {p} : belief'[q] = belief[q]
    BY <1>6, <2>1 DEF StartRelease, TypeOK, GameLease
  <2>3. \A u \in Threads : call[u].pc = "renew" => call[u].by # p
    BY <2>1 DEF Idle
  <2>4. belief[p] # NoLease
    BY <1>6 DEF StartRelease
  <2>5. QED
    BY <1>0, <2>1, <2>2, <2>3, <2>4 DEF TokenInv
<1>7. QED
  BY <1>1, <1>2, <1>3, <1>4, <1>5, <1>6 DEF LeaseStep

LEMMA TokenStep ==
  ASSUME TypeOK, TypeOK', WaitInv, TokenInv, [Next]_vars
  PROVE  TokenInv'
<1>1. ASSUME NEW p \in Processes, Restart(p)
      PROVE  TokenInv'
  <2>1. belief'[p] = NoLease /\ \A q \in Processes \ {p} : belief'[q] = belief[q]
    BY <1>1 DEF Restart, TypeOK
  <2>2. \A u \in Threads : call'[u].pc = "renew" /\ call'[u].by \in Processes =>
          call'[u] = call[u] /\ call[u].by # p
    BY <1>1, RestartCalls, RoutingAssumption DEF Idle
  <2>3. \A u \in Threads : call'[u].pc = "release" =>
          call[u].pc = "release" /\ call'[u].incarnation = call[u].incarnation
    BY <1>1, RestartCalls
  <2>4. QED
    BY <2>1, <2>2, <2>3 DEF TokenInv
<1>2. CASE RouteStep
  BY <1>2, TokenFrame DEF RouteStep, Resolve, CompleteMigration, AbortMigration, Bind,
     BeginMigration, Advance, LeaseUnchanged
<1>3. CASE Tick
  BY <1>3, TokenFrame DEF Tick
<1>4. CASE UNCHANGED vars
  BY <1>4, TokenFrame DEF vars
<1>5. QED
  BY <1>1, <1>2, <1>3, <1>4, TokenLeaseStep DEF Next

\* Leases and beliefs that keep what HolderInv speaks of.
LEMMA HolderFrame ==
  ASSUME HolderInv, lease' = lease, belief' = belief, clock' = clock, shortened' = shortened
  PROVE  HolderInv'
BY DEF HolderInv, Counts

\* Whoever counts on a lease when another is acquired would have been seen to
\* hold it, however old the clock is that the call decides on.
LEMMA HolderAcquire ==
  ASSUME TypeOK, NowInv, HolderInv, NEW t \in Threads, NEW i \in Incarnations,
         AcquireLease(t, i)
  PROVE  HolderInv'
<1>0. clock \in Nat /\ belief \in [Processes -> GameLease \cup {NoLease}]
      /\ lease \in GameLease \cup {NoLease}
  BY DEF TypeOK
<1>1. call[t].now \in Nat /\ call[t].now <= clock /\ ~Live(lease, call[t].now)
  BY CallParts DEF AcquireLease, NowInv, TypeOK
<1>2. \A p \in Processes : Counts(p) => belief[p].incarnation \in shortened
  <2>1. SUFFICES ASSUME NEW p \in Processes, Counts(p), belief[p].incarnation \notin shortened
                 PROVE  FALSE
    OBVIOUS
  <2>2. /\ lease \in GameLease /\ lease # NoLease /\ lease.state = "active"
        /\ clock < belief[p].expires /\ belief[p].expires <= lease.expires
        /\ belief[p].expires \in Nat /\ lease.expires \in Nat
    BY <1>0, <2>1 DEF HolderInv, Counts, GameLease
  <2>3. ~(call[t].now >= lease.expires)
    BY <1>0, <1>1, <2>2
  <2>4. QED
    BY <1>1, <2>2, <2>3 DEF Live, Expired
<1>3. /\ clock' = clock /\ shortened' = shortened \ {i}
      /\ lease' = Leased(call[t], i)
      /\ \A p \in Processes : belief'[p] \in {belief[p], lease'}
  BY <1>0 DEF AcquireLease, Answer
<1>4. lease'.state = "active" /\ lease'.incarnation = i /\ lease'.expires \in Nat
  BY <1>1, <1>3, RoutingAssumption DEF Leased
<1>5. call[t].binding \in RouteBinding
  BY CallParts DEF AcquireLease, TypeOK
<1>6. lease' \in GameLease
  BY <1>1, <1>3, <1>5, RoutingAssumption DEF Leased, GameLease, RouteBinding
<1>7. lease' # NoLease
  BY <1>6, MissingAssumption
<1>8. ASSUME NEW p \in Processes, Counts(p)', belief'[p].incarnation \notin shortened'
      PROVE  belief'[p] = lease'
  <2>1. SUFFICES ASSUME belief'[p] = belief[p]
                 PROVE  FALSE
    BY <1>3
  <2>2. Counts(p)
    BY <1>3, <1>8, <2>1 DEF Counts
  <2>3. belief[p].incarnation # i
    BY <2>2 DEF AcquireLease, Fresh, Counts
  <2>4. QED
    BY <1>2, <1>3, <1>8, <2>1, <2>2, <2>3
<1>9. QED
  BY <1>4, <1>7, <1>8 DEF HolderInv

\* A renewal moves the deadline forward, or tells its process, or leaves a mark
\* on the incarnation.
LEMMA HolderRenew ==
  ASSUME TypeOK, TokenInv, HolderInv, NEW t \in Threads, RenewLease(t),
         Held(lease, call[t].incarnation, call[t].now)
  PROVE  HolderInv'
<1> DEFINE next == [lease EXCEPT !.expires = call[t].now + Ttl]
<1>0. /\ clock \in Nat /\ belief \in [Processes -> GameLease \cup {NoLease}]
      /\ lease \in GameLease /\ lease.state = "active"
      /\ lease.incarnation = call[t].incarnation
  BY DEF TypeOK, Held
<1>1. call[t].now \in Nat /\ call[t].pc = "renew" /\ call[t].by \in Processes \cup {Nobody}
  BY CallParts DEF RenewLease, TypeOK, Caller
<1>2. next \in GameLease /\ next # NoLease
  BY <1>0, <1>1, LeaseTypes, MissingAssumption
<1>3. /\ next.state = "active" /\ next.incarnation = lease.incarnation
      /\ next.expires \in Nat /\ lease.expires \in Nat
  BY <1>0, <1>1, RoutingAssumption DEF GameLease
<1>4. lease' = next /\ clock' = clock
  BY DEF RenewLease, Answer
<1>5. CASE call[t].by = Nobody
  <2>1. belief' = belief
    BY <1>5 DEF RenewLease, Answer
  <2>2. /\ shortened \subseteq shortened'
        /\ next.expires < lease.expires => lease.incarnation \in shortened'
    BY <1>5 DEF RenewLease
  <2>3. ASSUME NEW p \in Processes, Counts(p)', belief'[p].incarnation \notin shortened'
        PROVE  /\ next.incarnation = belief'[p].incarnation
               /\ belief'[p].expires <= next.expires
    <3>1. /\ lease.incarnation = belief[p].incarnation /\ belief[p].expires <= lease.expires
          /\ belief[p].expires \in Nat
      BY <1>0, <1>4, <2>1, <2>2, <2>3 DEF HolderInv, Counts, GameLease
    <3>2. ~(next.expires < lease.expires)
      BY <2>1, <2>2, <2>3, <3>1
    <3> HIDE DEF next
    <3>3. QED
      BY <1>3, <2>1, <3>1, <3>2
  <2> HIDE DEF next
  <2>4. QED
    BY <1>2, <1>3, <1>4, <2>3 DEF HolderInv
<1>6. CASE call[t].by \in Processes
  <2> DEFINE c == call[t].by
  <2>1. /\ c \in Processes /\ c # Nobody /\ belief[c] # NoLease
        /\ belief[c].incarnation = lease.incarnation
    BY <1>0, <1>1, <1>6, RoutingAssumption DEF TokenInv
  <2>2. /\ belief'[c] = next /\ \A p \in Processes \ {c} : belief'[p] = belief[p]
        /\ shortened' = shortened \ {lease.incarnation}
    BY <1>0, <2>1 DEF RenewLease, Answer
  <2>3. ASSUME NEW p \in Processes, p # c, Counts(p)', belief'[p].incarnation \notin shortened'
        PROVE  FALSE
    <3>1. Counts(p) /\ belief'[p] = belief[p] /\ belief[p] # NoLease
      BY <1>4, <2>2, <2>3 DEF Counts
    <3>2. belief[p].incarnation # lease.incarnation
      BY <2>1, <2>3, <3>1 DEF TokenInv
    <3>3. QED
      BY <2>2, <2>3, <3>1, <3>2 DEF HolderInv
  <2> HIDE DEF next, c
  <2>4. QED
    BY <1>2, <1>3, <1>4, <2>1, <2>2, <2>3 DEF HolderInv
<1>7. QED
  BY <1>1, <1>5, <1>6

LEMMA HolderLeaseStep ==
  ASSUME TypeOK, TypeOK', NowInv, TokenInv, HolderInv, NEW t \in Threads, LeaseStep(t)
  PROVE  HolderInv'
<1>0. clock \in Nat /\ belief \in [Processes -> GameLease \cup {NoLease}]
      /\ lease \in GameLease \cup {NoLease}
  BY DEF TypeOK
<1>1. CASE \/ ReadClock(t) \/ RefuseAcquire(t) \/ TimeOut(t)
           \/ RenewLease(t) /\ ~Held(lease, call[t].incarnation, call[t].now)
           \/ \E p \in Processes : StartAcquire(t, p) \/ StartRenew(t, p)
  BY <1>1, HolderFrame DEF ReadClock, RefuseAcquire, TimeOut, RenewLease, StartAcquire,
     StartRenew, Start, Return
<1>2. CASE \/ \E i \in Incarnations : AcquireLease(t, i)
           \/ RenewLease(t) /\ Held(lease, call[t].incarnation, call[t].now)
  BY <1>2, HolderAcquire, HolderRenew
<1>3. CASE ReleaseLease(t)
  <2>1. belief' = belief /\ clock' = clock /\ shortened' = shortened
        /\ call[t].pc = "release"
    BY <1>3 DEF ReleaseLease, Return
  <2>2. CASE lease # NoLease /\ lease.incarnation = call[t].incarnation
    <3>1. \A p \in Processes : Counts(p) => belief[p].incarnation \in shortened
      BY <2>1, <2>2 DEF TokenInv, HolderInv, Counts
    <3>2. QED
      BY <2>1, <3>1 DEF HolderInv, Counts
  <2>3. CASE ~(lease # NoLease /\ lease.incarnation = call[t].incarnation)
    BY <1>3, <2>1, <2>3, HolderFrame DEF ReleaseLease
  <2>4. QED
    BY <2>2, <2>3
<1>4. ASSUME NEW p \in Processes, StartRelease(t, p)
      PROVE  HolderInv'
  <2>1. lease' = lease /\ clock' = clock /\ shortened' = shortened /\ belief[p] \in GameLease
    BY <1>0, <1>4 DEF StartRelease, Start
  <2>2. belief'[p].state = "released" /\ \A q \in Processes \ {p} : belief'[q] = belief[q]
    BY <1>0, <1>4, <2>1 DEF StartRelease, GameLease
  <2>3. \A q \in Processes : Counts(q)' => Counts(q) /\ belief'[q] = belief[q]
    BY <2>1, <2>2 DEF Counts
  <2>4. QED
    BY <2>1, <2>3 DEF HolderInv
<1>5. QED
  BY <1>1, <1>2, <1>3, <1>4 DEF LeaseStep

LEMMA HolderStep ==
  ASSUME TypeOK, TypeOK', NowInv, TokenInv, HolderInv, [Next]_vars
  PROVE  HolderInv'
<1>1. ASSUME NEW p \in Processes, Restart(p)
      PROVE  HolderInv'
  <2>1. /\ lease' = lease /\ clock' = clock /\ shortened' = shortened /\ belief'[p] = NoLease
        /\ \A q \in Processes \ {p} : belief'[q] = belief[q]
    BY <1>1 DEF Restart, TypeOK
  <2>2. \A q \in Processes : Counts(q)' => Counts(q) /\ belief'[q] = belief[q]
    BY <2>1 DEF Counts
  <2>3. QED
    BY <2>1, <2>2 DEF HolderInv
<1>2. CASE RouteStep
  BY <1>2, HolderFrame DEF RouteStep, Resolve, CompleteMigration, AbortMigration, Bind,
     BeginMigration, Advance, LeaseUnchanged
<1>3. CASE Tick
  <2>1. /\ lease' = lease /\ belief' = belief /\ shortened' = shortened
        /\ clock' = clock + 1 /\ clock \in Nat
    BY <1>3 DEF Tick, TypeOK
  <2>2. \A q \in Processes : belief[q] # NoLease => belief[q].expires \in Nat
    BY DEF TypeOK, GameLease
  <2>3. \A q \in Processes : Counts(q)' => Counts(q)
    BY <2>1, <2>2 DEF Counts
  <2>4. QED
    BY <2>1, <2>3 DEF HolderInv
<1>4. CASE UNCHANGED vars
  BY <1>4, HolderFrame DEF vars
<1>5. QED
  BY <1>1, <1>2, <1>3, <1>4, HolderLeaseStep DEF Next

\* The inductive invariant of the lease.
LEMMA LeaseCorrect == Spec => []LeaseInv
<1>1. TypeOK /\ TypeOK' /\ LeaseInv /\ [Next]_vars => LeaseInv'
  BY NowStep, WaitStep, TokenStep, HolderStep DEF LeaseInv
<1>2. QED
  BY <1>1, LeaseInit, TypeCorrect, PTL DEF Spec

\* For any number of processes that claim to be the game server, calls of any
\* length and whatever answers are lost: whoever counts on a lease that no late
\* renewal moved back holds it in the store for at least as long, and nobody else
\* counts on that one.
THEOREM BelieversHoldAlways == Spec => []BelieversHold
<1>1. ASSUME TypeOK, LeaseInv
      PROVE  BelieversHold
  <2>1. SUFFICES ASSUME NEW p \in Processes, belief[p] # NoLease,
                        Held(belief[p], belief[p].incarnation, clock),
                        belief[p].incarnation \notin shortened
                 PROVE  /\ Held(lease, belief[p].incarnation, clock)
                        /\ belief[p].expires <= lease.expires
                        /\ \A q \in Processes \ {p} :
                             belief[q] # NoLease =>
                               belief[q].incarnation # belief[p].incarnation
    BY DEF BelieversHold
  <2>2. belief[p] \in GameLease /\ clock \in Nat
    BY <1>1, <2>1 DEF TypeOK
  <2>3. belief[p].state = "active" /\ belief[p].expires # 0 /\ belief[p].expires \in Nat
    BY <2>1, <2>2 DEF Held, GameLease
  <2>4. Counts(p)
    BY <2>1, <2>2, <2>3 DEF Held, Expired, Counts
  <2>5. /\ lease \in GameLease /\ lease # NoLease /\ lease.state = "active"
        /\ lease.incarnation = belief[p].incarnation
        /\ belief[p].expires <= lease.expires /\ lease.expires \in Nat
    BY <1>1, <2>1, <2>4 DEF LeaseInv, HolderInv, TypeOK, GameLease
  <2>6. ~(clock >= lease.expires)
    BY <2>2, <2>3, <2>4, <2>5 DEF Counts
  <2>7. \A q \in Processes \ {p} : belief[q] # NoLease =>
          belief[q].incarnation # belief[p].incarnation
    BY <1>1, <2>1 DEF LeaseInv, TokenInv
  <2>8. QED
    BY <2>5, <2>6, <2>7 DEF Held, Expired
<1>2. QED
  BY <1>1, LeaseCorrect, TypeCorrect, PTL
=============================================================================
