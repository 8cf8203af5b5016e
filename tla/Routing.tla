------------------------------- MODULE Routing -------------------------------
(***************************************************************************)
(* service/global for one game server: the binding that says which global  *)
(* instance serves it, and the lease its processes take under that         *)
(* binding.  Games share nothing, so one is enough.                        *)
(*                                                                         *)
(* Operators read the binding and change it by presenting the epoch they   *)
(* read.  Processes of the game server acquire, renew and release the      *)
(* lease; a call reads the clock first and decides in one compare-and-set  *)
(* later, and goes on when its caller stopped waiting or died.             *)
(*                                                                         *)
(* The group of a binding is fixed when it is created and left out, as are *)
(* the load snapshot and the time stamps nothing decides on.               *)
(***************************************************************************)
EXTENDS Naturals

CONSTANTS
  GlobalSIDs,    \* global instances
  Operators,     \* whoever binds and migrates the game server
  Processes,     \* processes that claim to be the game server
  Threads,       \* calls of the lease half in progress together
  Incarnations,  \* minted lease tokens
  Nobody,        \* the caller of a call that nobody waits for any more
  NoRoute, NoLease, NoTarget,
  Ttl,           \* Config.LeaseTTL
  MaxTime,       \* bound: the last value of the clock
  MaxEpoch       \* bound: the last epoch of the binding

ASSUME RoutingAssumption ==
  /\ Ttl \in Nat \ {0}
  /\ MaxTime \in Nat
  /\ MaxEpoch \in Nat
  /\ Nobody \notin Processes
  /\ NoTarget \notin GlobalSIDs

VARIABLES
  route,   \* Config.Routes: the binding of the game server
  lease,   \* Config.Leases: its lease
  seen,    \* the binding each operator read or was answered last
  belief,  \* the lease each process was answered last
  call,    \* the lease call each thread works on
  clock,
  shortened  \* history: incarnations whose deadline in the store a renewal that
             \* nobody waited for moved back since their process was last answered

vars == <<route, lease, seen, belief, call, clock, shortened>>

\* A binding has a target, another instance than its own, while it migrates.
RouteBinding ==
  {b \in [sid: GlobalSIDs, target: GlobalSIDs \cup {NoTarget}, epoch: Nat \ {0},
          state: {"active", "migrating"}] :
     /\ b.state = "migrating" <=> b.target # NoTarget
     /\ b.target # b.sid}

\* A lease that was given up has no deadline.
GameLease ==
  {l \in [incarnation: Incarnations, sid: GlobalSIDs, epoch: Nat \ {0},
          state: {"active", "released"}, expires: Nat] :
     l.state = "released" <=> l.expires = 0}

\* What stands for a missing record is not a record.
ASSUME MissingAssumption == NoRoute \notin RouteBinding /\ NoLease \notin GameLease

Expired(l, now) == l.state = "active" /\ l.expires # 0 /\ now >= l.expires

Held(l, incarnation, now) ==
  l # NoLease /\ l.state = "active" /\ l.incarnation = incarnation /\ ~Expired(l, now)

Live(l, now) == l # NoLease /\ l.state = "active" /\ ~Expired(l, now)

\* Where a call is: AcquireLease between its read of the binding and its read
\* of the clock, and each of the three before its compare-and-set.
Idle == [pc |-> "idle"]
Caller == Processes \cup {Nobody}
Call ==
  {Idle}
    \cup [pc: {"resolved"}, by: Caller, binding: RouteBinding]
    \cup [pc: {"acquire"}, by: Caller, binding: RouteBinding, now: Nat]
    \cup [pc: {"renew"}, by: Caller, incarnation: Incarnations, now: Nat]
    \cup [pc: {"release"}, by: Caller, incarnation: Incarnations]

Init ==
  /\ route = NoRoute
  /\ lease = NoLease
  /\ seen = [o \in Operators |-> NoRoute]
  /\ belief = [p \in Processes |-> NoLease]
  /\ call = [t \in Threads |-> Idle]
  /\ clock = 1
  /\ shortened = {}

-----------------------------------------------------------------------------
(* The binding.                                                            *)

\* The operator hears the answer, or the answer is lost.
Heard(o, answer) == seen' \in {seen, [seen EXCEPT ![o] = answer]}

LeaseUnchanged == UNCHANGED <<lease, belief, call, clock, shortened>>

\* Insert-only.
Bind(o, g) ==
  LET binding == [sid |-> g, target |-> NoTarget, epoch |-> 1, state |-> "active"] IN
  /\ route = NoRoute
  /\ route' = binding
  /\ Heard(o, binding)
  /\ LeaseUnchanged

Resolve(o) ==
  /\ route # NoRoute
  /\ seen' = [seen EXCEPT ![o] = route]
  /\ UNCHANGED route
  /\ LeaseUnchanged

\* The epoch an operator presents is the one it has seen.
Presented(o) == route # NoRoute /\ seen[o] # NoRoute /\ seen[o].epoch = route.epoch

Advance(o, next) ==
  /\ route.epoch < MaxEpoch
  /\ route' = next
  /\ Heard(o, next)
  /\ LeaseUnchanged

BeginMigration(o, g) ==
  /\ Presented(o)
  /\ route.state # "migrating"
  /\ g # route.sid
  /\ Advance(o, [route EXCEPT !.state = "migrating", !.target = g, !.epoch = @ + 1])

\* Mutant: the switch keeps the epoch of the migration.
CompleteInPlace(o) ==
  /\ Presented(o)
  /\ route.state = "migrating"
  /\ Advance(o, [route EXCEPT !.sid = route.target, !.target = NoTarget,
                              !.state = "active"])

\* On a binding that is not migrating CompleteMigration and AbortMigration
\* answer what is there, which Resolve does as well.
CompleteMigration(o) ==
  /\ Presented(o)
  /\ route.state = "migrating"
  /\ Advance(o, [route EXCEPT !.sid = route.target, !.target = NoTarget,
                              !.state = "active", !.epoch = @ + 1])

AbortMigration(o) ==
  /\ Presented(o)
  /\ route.state = "migrating"
  /\ Advance(o, [route EXCEPT !.target = NoTarget, !.state = "active", !.epoch = @ + 1])

-----------------------------------------------------------------------------
(* The lease.                                                              *)

RouteUnchanged == UNCHANGED <<route, seen>>

\* A process waits for one call at a time.
Start(t, p, c) ==
  /\ call[t] = Idle
  /\ \A u \in Threads : call[u] # Idle => call[u].by # p
  /\ call' = [call EXCEPT ![t] = c]
  /\ UNCHANGED <<lease, clock, shortened>>
  /\ RouteUnchanged

\* The call ends with a lease for its caller, if that still waits.
Answer(t, l) ==
  /\ belief' = IF call[t].by = Nobody THEN belief ELSE [belief EXCEPT ![call[t].by] = l]
  /\ call' = [call EXCEPT ![t] = Idle]
  /\ UNCHANGED clock
  /\ RouteUnchanged

\* The call ends with an error, or with nothing to tell.
Return(t) ==
  /\ call' = [call EXCEPT ![t] = Idle]
  /\ UNCHANGED <<belief, clock, shortened>>
  /\ RouteUnchanged

StartAcquire(t, p) ==
  /\ route # NoRoute
  /\ Start(t, p, [pc |-> "resolved", by |-> p, binding |-> route])
  /\ UNCHANGED belief

ReadClock(t) ==
  /\ call[t].pc = "resolved"
  /\ call' = [call EXCEPT ![t] = [pc |-> "acquire", by |-> call[t].by,
                                  binding |-> call[t].binding, now |-> clock]]
  /\ UNCHANGED <<lease, belief, clock, shortened>>
  /\ RouteUnchanged

\* A token no one holds.  Bound: Incarnations has to have one.
Fresh(i) ==
  /\ lease # NoLease => lease.incarnation # i
  /\ \A p \in Processes : belief[p] # NoLease => belief[p].incarnation # i
  /\ \A t \in Threads : call[t].pc \in {"renew", "release"} => call[t].incarnation # i

Leased(c, i) ==
  [incarnation |-> i, sid |-> c.binding.sid, epoch |-> c.binding.epoch,
   state |-> "active", expires |-> c.now + Ttl]

AcquireLease(t, i) ==
  LET next == Leased(call[t], i) IN
  /\ call[t].pc = "acquire"
  /\ ~Live(lease, call[t].now)
  /\ Fresh(i)
  /\ lease' = next
  /\ shortened' = shortened \ {i}
  /\ Answer(t, next)

RefuseAcquire(t) ==
  /\ call[t].pc = "acquire"
  /\ Live(lease, call[t].now)
  /\ Return(t)
  /\ UNCHANGED lease

\* A process renews the lease it has until it began to give it up.
StartRenew(t, p) ==
  /\ belief[p] # NoLease /\ belief[p].state = "active"
  /\ Start(t, p, [pc |-> "renew", by |-> p, now |-> clock,
                  incarnation |-> belief[p].incarnation])
  /\ UNCHANGED belief

\* The deadline is reckoned from the clock the call read: a call that comes late
\* may move it back.
RenewLease(t) ==
  LET next == [lease EXCEPT !.expires = call[t].now + Ttl] IN
  /\ call[t].pc = "renew"
  /\ IF Held(lease, call[t].incarnation, call[t].now)
     THEN /\ lease' = next
          /\ shortened' = CASE call[t].by # Nobody -> shortened \ {lease.incarnation}
                            [] call[t].by = Nobody /\ next.expires < lease.expires ->
                                 shortened \cup {lease.incarnation}
                            [] OTHER -> shortened
          /\ Answer(t, next)
     ELSE UNCHANGED lease /\ Return(t)

\* A process stops counting on its lease before it gives it up, and may give it
\* up again when no answer comes.
StartRelease(t, p) ==
  /\ belief[p] # NoLease
  /\ Start(t, p, [pc |-> "release", by |-> p, incarnation |-> belief[p].incarnation])
  /\ belief' = [belief EXCEPT ![p].state = "released", ![p].expires = 0]

\* Mutant: a release gives up whatever lease there is.
ReleaseAny(t) ==
  /\ call[t].pc = "release"
  /\ lease' = IF lease = NoLease THEN lease
              ELSE [lease EXCEPT !.state = "released", !.expires = 0]
  /\ Return(t)

ReleaseLease(t) ==
  /\ call[t].pc = "release"
  /\ lease' = IF lease # NoLease /\ lease.incarnation = call[t].incarnation
              THEN [lease EXCEPT !.state = "released", !.expires = 0]
              ELSE lease
  /\ Return(t)

\* The caller stops waiting; the call goes on.
TimeOut(t) ==
  /\ call[t] # Idle
  /\ call[t].by # Nobody
  /\ call' = [call EXCEPT ![t].by = Nobody]
  /\ UNCHANGED <<lease, belief, clock, shortened>>
  /\ RouteUnchanged

\* A process stops and starts again: it forgets its lease and what it waits for.
Restart(p) ==
  /\ belief[p] # NoLease
  /\ belief' = [belief EXCEPT ![p] = NoLease]
  /\ call' = [t \in Threads |-> IF call[t] # Idle /\ call[t].by = p
                                THEN [call[t] EXCEPT !.by = Nobody] ELSE call[t]]
  /\ UNCHANGED <<lease, clock, shortened>>
  /\ RouteUnchanged

Tick ==
  /\ clock < MaxTime
  /\ clock' = clock + 1
  /\ UNCHANGED <<lease, belief, call, shortened>>
  /\ RouteUnchanged

-----------------------------------------------------------------------------

RouteStep ==
  \E o \in Operators :
    \/ Resolve(o) \/ CompleteMigration(o) \/ AbortMigration(o)
    \/ \E g \in GlobalSIDs : Bind(o, g) \/ BeginMigration(o, g)

LeaseStep(t) ==
  \/ ReadClock(t) \/ RefuseAcquire(t) \/ RenewLease(t) \/ ReleaseLease(t) \/ TimeOut(t)
  \/ \E i \in Incarnations : AcquireLease(t, i)
  \/ \E p \in Processes : StartAcquire(t, p) \/ StartRenew(t, p) \/ StartRelease(t, p)

Next ==
  \/ RouteStep
  \/ \E t \in Threads : LeaseStep(t)
  \/ \E p \in Processes : Restart(p)
  \/ Tick

Spec == Init /\ [][Next]_vars

-----------------------------------------------------------------------------
(* Properties.                                                             *)

\* Every variable has its type: a binding has a target other than its own
\* instance exactly while it migrates, and only a lease that was given up has no
\* deadline (BeginMigration, CompleteMigration, AbortMigration, ReleaseLease).
TypeOK ==
  /\ route \in RouteBinding \cup {NoRoute}
  /\ lease \in GameLease \cup {NoLease}
  /\ seen \in [Operators -> RouteBinding \cup {NoRoute}]
  /\ belief \in [Processes -> GameLease \cup {NoLease}]
  /\ call \in [Threads -> Call]
  /\ clock \in Nat
  /\ shortened \subseteq Incarnations

\* No change of a binding is lost: whoever replaces it has seen the very binding
\* that is replaced, whichever operators raced and whichever answers were lost
\* (the epoch that BeginMigration, CompleteMigration and AbortMigration check).
RouteChangesWereSeen ==
  [][route # NoRoute /\ route' # route => \E o \in Operators : seen[o] = route]_vars

\* A process that counts on its lease is the holder in the store for at least as
\* long, so no two processes count on one together, however long the calls take
\* (acquires that race and decide on an old clock, renewals and releases of
\* earlier incarnations, lost answers, restarts), but for one case: a renewal that
\* its caller gave up came after a later one and moved the deadline back
\* (AcquireLease, RenewLease, ReleaseLease).
BelieversHold ==
  \A p \in Processes :
    /\ belief[p] # NoLease /\ Held(belief[p], belief[p].incarnation, clock)
    /\ belief[p].incarnation \notin shortened
    => /\ Held(lease, belief[p].incarnation, clock)
       /\ belief[p].expires <= lease.expires
       /\ \A q \in Processes \ {p} :
            belief[q] # NoLease => belief[q].incarnation # belief[p].incarnation
=============================================================================
