------------------------------- MODULE Activity -------------------------------
(***************************************************************************)
(* service/global/activity for one activity of one group: the aggregation  *)
(* that expected games report to, its entry in the window of the group,    *)
(* the deliveries of its result, and the sweeps that find it again.        *)
(*                                                                         *)
(* These are records of three stores.  Calls of games and operators open   *)
(* an activity, report to it and settle it; sweeps look at the window,     *)
(* finish what has lapsed, and heal what a call left undone.  Each access  *)
(* of a store is a step.  The other activities of the group are a number   *)
(* of places in the window.                                                *)
(*                                                                         *)
(* Refused reports leave an audit and refused opens a count, which nothing *)
(* decides on; both are left out.  Progress of participants is a module of *)
(* its own.                                                                *)
(***************************************************************************)
EXTENDS Naturals, FiniteSets

CONSTANTS
  Games,           \* Activity.ExpectedGameSIDs
  Callers,         \* calls of OpenActivity and NotifyPhase in progress together
  Sweepers,        \* sweep loops, one for each activity process
  GraceWindow, OpeningGrace, DispatchBackoff, MaxMultiplier,
  MaxAttempts,     \* Config.DispatchMaxAttempts
  MaxPending,      \* MaxPendingActivities
  NoActivity, NoDispatch,
  OpenersSurvive,  \* TRUE: no opener stops just as its place is reclaimed
  MaxTime,         \* bound: the last value of the clock
  MaxOthers,       \* bound: how many places other activities take
  MaxReopens,      \* bound: how often one delivery is reopened
  MaxFaults        \* bound: store errors and crashes

Procs == Callers \cup Sweepers

Result == [reason: {"collected", "grace_expired"}, notified: SUBSET Games]

Aggregation ==
  [status: {"pending", "collecting", "complete"}, notified: SUBSET Games,
   deadline: Nat, reason: {"none", "collected", "grace_expired"}]

\* The tokens of a delivery are numbered as they come to be stored; 0 is none.
Dispatch ==
  [state: {"pending", "acked", "exhausted"}, token: Nat \ {0}, result: Result,
   attempts: Nat, next: Nat, reopens: Nat]

ASSUME ActivityAssumption ==
  /\ Games # {} /\ IsFiniteSet(Games)
  /\ Callers \cap Sweepers = {}
  /\ GraceWindow \in Nat \ {0} /\ OpeningGrace \in Nat \ {0}
  /\ DispatchBackoff \in Nat \ {0} /\ MaxMultiplier \in Nat \ {0}
  /\ MaxAttempts \in Nat \ {0} /\ MaxPending \in Nat \ {0}
  /\ NoActivity \notin Aggregation /\ NoDispatch \notin Dispatch
  /\ OpenersSurvive \in BOOLEAN
  /\ MaxTime \in Nat \ {0} /\ MaxOthers \in Nat /\ MaxReopens \in Nat /\ MaxFaults \in Nat

VARIABLES
  activity,  \* Config.Activities: the aggregation
  place,     \* Config.Windows: where the window of the group lists it
  others,    \* Config.Windows: how many places other activities hold
  dispatch,  \* Config.Dispatches: the delivery to each game
  call,      \* where each call and each sweep is
  held,      \* the token each game was handed last
  handed,    \* history: how often the result was handed to each game
  clock,
  faults

vars == <<activity, place, others, dispatch, call, held, handed, clock, faults>>

-----------------------------------------------------------------------------
(* Records.                                                                *)

Opened == [status |-> "pending", notified |-> {}, deadline |-> 0, reason |-> "none"]

Exists == activity # NoActivity
Complete == Exists /\ activity.status = "complete"

\* A deadline of 0 is none: no game has reported yet.
GraceExpired(a, now) == a.deadline # 0 /\ now >= a.deadline

ResultOf(a) == [reason |-> a.reason, notified |-> a.notified]

\* A report: the first one starts the grace window, the last one finishes.
Reported(a, g, now) ==
  LET all == a.notified \cup {g} = Games IN
  [a EXCEPT !.status = IF all THEN "complete" ELSE "collecting",
            !.notified = @ \cup {g},
            !.deadline = IF a.status = "pending" THEN now + GraceWindow ELSE @,
            !.reason = IF all THEN "collected" ELSE @]

\* The window lists an activity as opening, from the time it was admitted, or as
\* confirmed, and apart from that as one whose result is being delivered.
NoPlace == [listed |-> FALSE, opening |-> 0, delivering |-> FALSE]

Pending(w) == w.listed \/ w.opening # 0
PendingCount == others + (IF Pending(place) THEN 1 ELSE 0)

\* What confirmWindow and retireFromWindow make of the window.
Confirmed(w) == [w EXCEPT !.listed = TRUE, !.opening = 0]
Retired(w) == [w EXCEPT !.listed = FALSE, !.opening = 0, !.delivering = TRUE]

\* Mutant: what has been confirmed meanwhile goes as well.
ReclaimedAnyway(w) == [w EXCEPT !.listed = FALSE, !.opening = 0]

Reclaimed(w) == [w EXCEPT !.opening = 0]

NewDispatch(token, result, now) ==
  [state |-> "pending", token |-> token, result |-> result, attempts |-> 0, next |-> now,
   reopens |-> 0]

Due(d, now) == d.state = "pending" /\ now >= d.next

Backoff(n) == DispatchBackoff * (IF n > MaxMultiplier THEN MaxMultiplier ELSE n)

\* Mutant: the intervention leaves no trace.
ReopenedUncounted(d) == [d EXCEPT !.state = "pending", !.attempts = 0, !.next = 0]

Reopened(d) ==
  [d EXCEPT !.state = "pending", !.attempts = 0, !.next = 0, !.reopens = @ + 1]

-----------------------------------------------------------------------------
(* Where a call is: before the access of a store it names.  A sweep goes   *)
(* through "read" to "ensure" and "retire" for the window it read, then    *)
(* through "list" to "remove" for the deliveries.                          *)

Idle == [pc |-> "idle"]
At(step) == [pc |-> step]
Settling(result) == [pc |-> "ensure", todo |-> Games, result |-> result]
Healing(result) == [pc |-> "heal", todo |-> Games, result |-> result]
Finishing(now) == [pc |-> "finish", now |-> now]

\* Once a sweep has healed the deliveries it checks them.
AfterEnsuring(at, g) ==
  IF at.pc = "heal" /\ at.todo = {g} THEN [pc |-> "check", todo |-> Games]
  ELSE [at EXCEPT !.todo = @ \ {g}]

Verdict ==
  {At("list")} \cup [pc: {"finish"}, now: Nat]
    \cup [pc: {"ensure"}, todo: SUBSET Games, result: Result]

Call ==
  Verdict \cup {Idle, At("create"), At("confirm"), At("reclaim"), At("remove")}
    \cup [pc: {"read"}, since: Nat, now: Nat]
    \cup [pc: {"adopt"}, then: Verdict]
    \cup [pc: {"heal"}, todo: SUBSET Games, result: Result]
    \cup [pc: {"check"}, todo: SUBSET Games]

Goto(p, next) == call' = [call EXCEPT ![p] = next]

\* A call answers; the sweep goes on to the deliveries.
Continue(p) == Goto(p, IF p \in Sweepers THEN At("list") ELSE Idle)

Init ==
  /\ activity = NoActivity
  /\ place = NoPlace
  /\ others = 0
  /\ dispatch = [g \in Games |-> NoDispatch]
  /\ call = [p \in Procs |-> Idle]
  /\ held = [g \in Games |-> 0]
  /\ handed = [g \in Games |-> 0]
  /\ clock = 1
  /\ faults = 0

-----------------------------------------------------------------------------
(* OpenActivity.                                                           *)

DispatchUnchanged == UNCHANGED <<dispatch, held, handed>>
TimeUnchanged == UNCHANGED <<clock, faults>>

\* admitToWindow: a place that is there is used again, with the time it was
\* admitted first; a full window refuses.
Admit(c) ==
  /\ call[c] = Idle
  /\ \/ Pending(place) /\ UNCHANGED place
     \/ /\ ~Pending(place) /\ PendingCount < MaxPending
        /\ place' = [place EXCEPT !.opening = clock]
  /\ Goto(c, At("create"))
  /\ UNCHANGED <<activity, others>> /\ DispatchUnchanged /\ TimeUnchanged

\* Insert-only; whoever created the record, its place is confirmed next.
Create(c) ==
  /\ call[c].pc = "create"
  /\ activity' = IF Exists THEN activity ELSE Opened
  /\ Goto(c, At("confirm"))
  /\ UNCHANGED <<place, others>> /\ DispatchUnchanged /\ TimeUnchanged

Confirm(c) ==
  /\ call[c].pc = "confirm"
  /\ place' = Confirmed(place)
  /\ Goto(c, Idle)
  /\ UNCHANGED <<activity, others>> /\ DispatchUnchanged /\ TimeUnchanged

-----------------------------------------------------------------------------
(* NotifyPhase and what follows a completion.                              *)

\* now is the clock as the call read it.  A game that is counted already is
\* answered again; one that comes after completion or after the deadline is
\* refused.
NotifyPhase(c, g, now) ==
  LET next == Reported(activity, g, now) IN
  /\ call[c] = Idle
  /\ Exists /\ ~Complete
  /\ g \notin activity.notified
  /\ ~GraceExpired(activity, now)
  /\ activity' = next
  /\ Goto(c, IF next.status = "complete" THEN Settling(ResultOf(next)) ELSE Idle)
  /\ UNCHANGED <<place, others>> /\ DispatchUnchanged /\ TimeUnchanged

\* Mutant: the create overwrites.
EnsureOverwrites(p, g) ==
  LET token == IF dispatch[g] = NoDispatch THEN 1 ELSE dispatch[g].token + 1 IN
  /\ call[p].pc \in {"ensure", "heal"} /\ g \in call[p].todo
  /\ dispatch' = [dispatch EXCEPT ![g] = NewDispatch(token, call[p].result, clock)]
  /\ Goto(p, AfterEnsuring(call[p], g))
  /\ UNCHANGED <<activity, place, others, held, handed>> /\ TimeUnchanged

\* ensureDispatches, insert-only for each game.  It reads the clock once, before
\* the first; the delivery is due as it is made.
EnsureDispatch(p, g) ==
  /\ call[p].pc \in {"ensure", "heal"} /\ g \in call[p].todo
  /\ dispatch' = IF dispatch[g] # NoDispatch THEN dispatch
                 ELSE [dispatch EXCEPT ![g] = NewDispatch(1, call[p].result, clock)]
  /\ Goto(p, AfterEnsuring(call[p], g))
  /\ UNCHANGED <<activity, place, others, held, handed>> /\ TimeUnchanged

\* retireFromWindow, when every delivery is there.
RetireFromWindow(p) ==
  /\ call[p].pc = "ensure" /\ call[p].todo = {}
  /\ place' = Retired(place)
  /\ Continue(p)
  /\ UNCHANGED <<activity, others>> /\ DispatchUnchanged /\ TimeUnchanged


-----------------------------------------------------------------------------
(* A sweep: AdvanceExpired, then RetireDelivered.                          *)

\* Mutant: what is complete already is taken for settled.
JudgedLapsed(a, now) ==
  IF a.status = "collecting" /\ GraceExpired(a, now) THEN Finishing(now) ELSE At("list")

\* What the sweep does about an aggregation it has read.
Judged(a, now) ==
  CASE a.status = "complete" -> Settling(ResultOf(a))
    [] a.status = "collecting" /\ GraceExpired(a, now) -> Finishing(now)
    [] OTHER -> At("list")

\* The window is read.  Of more than MaxPending confirmed entries some are left
\* out, those that sort last.
Scan(s) ==
  /\ call[s] = Idle
  /\ \/ /\ Pending(place)
        /\ Goto(s, [pc |-> "read", since |-> place.opening, now |-> clock])
     \/ /\ Pending(place) => place.listed /\ others >= MaxPending
        /\ Goto(s, At("list"))
  /\ UNCHANGED <<activity, place, others>> /\ DispatchUnchanged /\ TimeUnchanged

\* now is the clock as the sweep read it, after the window and before the
\* record.  Records are never deleted, so a confirmed one is there.
Inspect(s, now) ==
  LET since == call[s].since IN
  /\ call[s].pc = "read" /\ now >= call[s].now
  /\ Goto(s, IF Exists
             THEN IF since # 0 THEN [pc |-> "adopt", then |-> Judged(activity, now)]
                               ELSE Judged(activity, now)
             ELSE IF since # 0 /\ now >= since + OpeningGrace THEN At("reclaim")
                                                              ELSE At("list"))
  /\ UNCHANGED <<activity, place, others>> /\ DispatchUnchanged /\ TimeUnchanged

\* The sweep confirms on behalf of the opener.
Adopt(s) ==
  /\ call[s].pc = "adopt"
  /\ place' = Confirmed(place)
  /\ Goto(s, call[s].then)
  /\ UNCHANGED <<activity, others>> /\ DispatchUnchanged /\ TimeUnchanged

\* Mutant: completeExpired trusts what the sweep has read.
FinishAnyway(s) ==
  LET next == [activity EXCEPT !.status = "complete", !.reason = "grace_expired"] IN
  /\ call[s].pc = "finish"
  /\ activity' = next
  /\ Goto(s, Settling(ResultOf(next)))
  /\ UNCHANGED <<place, others>> /\ DispatchUnchanged /\ TimeUnchanged

\* completeExpired: whoever finds the aggregation finished leaves it alone.  A
\* deadline is never moved, so the one the sweep has read has lapsed still.
Finish(s) ==
  LET next == [activity EXCEPT !.status = "complete", !.reason = "grace_expired"] IN
  /\ call[s].pc = "finish"
  /\ IF activity.status = "collecting" /\ GraceExpired(activity, call[s].now)
     THEN activity' = next /\ Goto(s, Settling(ResultOf(next)))
     ELSE UNCHANGED activity /\ Goto(s, At("list"))
  /\ UNCHANGED <<place, others>> /\ DispatchUnchanged /\ TimeUnchanged

\* dropOpening of retireFromWindow: only what is still opening goes.
Reclaim(s) ==
  /\ call[s].pc = "reclaim"
  /\ place' = Reclaimed(place)
  /\ Goto(s, At("list"))
  /\ UNCHANGED <<activity, others>> /\ DispatchUnchanged /\ TimeUnchanged

\* DeliveringActivities; the aggregation it then reads is complete for good.
List(s) ==
  /\ call[s].pc = "list"
  /\ Goto(s, IF place.delivering THEN Healing(ResultOf(activity)) ELSE Idle)
  /\ UNCHANGED <<activity, place, others>> /\ DispatchUnchanged /\ TimeUnchanged

\* RetireDelivered looks at each delivery; one that is not terminal ends it.
CheckDispatch(s, g) ==
  /\ call[s].pc = "check" /\ g \in call[s].todo
  /\ Goto(s, IF dispatch[g] = NoDispatch \/ dispatch[g].state = "pending" THEN Idle
             ELSE IF call[s].todo = {g} THEN At("remove")
             ELSE [call[s] EXCEPT !.todo = @ \ {g}])
  /\ UNCHANGED <<activity, place, others>> /\ DispatchUnchanged /\ TimeUnchanged

Remove(s) ==
  /\ call[s].pc = "remove"
  /\ place' = [place EXCEPT !.delivering = FALSE]
  /\ Goto(s, Idle)
  /\ UNCHANGED <<activity, others>> /\ DispatchUnchanged /\ TimeUnchanged

-----------------------------------------------------------------------------
(* Games take their results and acknowledge them; operators reopen.        *)

\* now is the clock as the game's call has read it.  A game that the answer does
\* not reach is one that never acknowledges.
AttemptDispatch(g, now) ==
  LET d == dispatch[g]
      n == d.attempts + 1 IN
  /\ d # NoDispatch /\ d.state = "pending"
  /\ IF d.attempts >= MaxAttempts
     THEN /\ dispatch' = [dispatch EXCEPT ![g].state = "exhausted"]
          /\ UNCHANGED <<held, handed>>
     ELSE /\ Due(d, now)
          /\ dispatch' = [dispatch EXCEPT ![g].attempts = n, ![g].next = now + Backoff(n)]
          /\ handed' = [handed EXCEPT ![g] = @ + 1]
          /\ held' = [held EXCEPT ![g] = d.token]
  /\ UNCHANGED <<activity, place, others, call>> /\ TimeUnchanged

\* Mutant: an acknowledgement that comes late is taken.
AckLate(g) ==
  /\ dispatch[g] # NoDispatch
  /\ held[g] = dispatch[g].token
  /\ dispatch' = [dispatch EXCEPT ![g].state = "acked"]
  /\ UNCHANGED <<activity, place, others, call, held, handed>> /\ TimeUnchanged

\* A token of another delivery and an exhausted delivery are refused.
AckDispatch(g) ==
  /\ dispatch[g] # NoDispatch /\ dispatch[g].state = "pending"
  /\ held[g] = dispatch[g].token
  /\ dispatch' = [dispatch EXCEPT ![g].state = "acked"]
  /\ UNCHANGED <<activity, place, others, call, held, handed>> /\ TimeUnchanged

ReopenDispatch(g) ==
  /\ dispatch[g] # NoDispatch /\ dispatch[g].state = "exhausted"
  /\ dispatch[g].reopens < MaxReopens
  /\ dispatch' = [dispatch EXCEPT ![g] = Reopened(@)]
  /\ UNCHANGED <<activity, place, others, call, held, handed>> /\ TimeUnchanged

-----------------------------------------------------------------------------
(* What goes on around them.                                               *)

\* Other activities are opened and retired.  A confirmation puts one back even
\* when the window is full.
MoveOthers ==
  /\ \/ others < MaxOthers /\ others' = others + 1
     \/ others > 0 /\ others' = others - 1
  /\ UNCHANGED <<activity, place, call>> /\ DispatchUnchanged /\ TimeUnchanged

\* An opener may go: the window lists the activity and is going to.
PlaceIsSafe == Pending(place) /\ \A s \in Sweepers : call[s].pc # "reclaim"

\* A store fails, or the process does.  The write may have been made.
Abandon(p) ==
  /\ faults < MaxFaults
  /\ call[p] # Idle
  /\ OpenersSurvive /\ call[p].pc = "confirm" => PlaceIsSafe
  /\ faults' = faults + 1
  /\ Goto(p, Idle)
  /\ UNCHANGED <<activity, place, others, clock>> /\ DispatchUnchanged

Tick ==
  /\ clock < MaxTime
  /\ clock' = clock + 1
  /\ UNCHANGED <<activity, place, others, call, faults>> /\ DispatchUnchanged

Settle(p) == RetireFromWindow(p) \/ \E g \in Games : EnsureDispatch(p, g)

\* What a call does by itself once it has begun, and what a sweep does.
CallStep(c) == Create(c) \/ Confirm(c) \/ Settle(c)

SweepStep(s) ==
  \/ Scan(s) \/ Adopt(s) \/ Finish(s) \/ Reclaim(s) \/ List(s) \/ Remove(s) \/ Settle(s)
  \/ \E now \in 1..clock : Inspect(s, now)
  \/ \E g \in Games : CheckDispatch(s, g)

GameStep(g) ==
  \/ AckDispatch(g) \/ ReopenDispatch(g)
  \/ \E now \in 1..clock : AttemptDispatch(g, now)

Next ==
  \/ \E c \in Callers :
       \/ Admit(c) \/ CallStep(c)
       \/ \E g \in Games, now \in 1..clock : NotifyPhase(c, g, now)
  \/ \E s \in Sweepers : SweepStep(s)
  \/ \E g \in Games : GameStep(g)
  \/ \E p \in Procs : Abandon(p)
  \/ MoveOthers \/ Tick

\* A call that has begun goes on, and the ticker starts a sweep again and again.
\* Nothing makes games report, take results or acknowledge.
Spec ==
  /\ Init /\ [][Next]_vars
  /\ \A c \in Callers : WF_vars(CallStep(c))
  /\ \A s \in Sweepers : WF_vars(SweepStep(s))

-----------------------------------------------------------------------------
(* Properties.                                                             *)

\* Every variable has its type; one window never lists an activity twice, and
\* what it lists as confirmed or delivers exists.
TypeOK ==
  /\ activity \in Aggregation \cup {NoActivity}
  /\ place \in [listed : BOOLEAN, opening : Nat, delivering : BOOLEAN]
  /\ place.listed => place.opening = 0 /\ Exists
  /\ place.delivering => Complete
  /\ others \in 0..MaxOthers
  /\ dispatch \in [Games -> Dispatch \cup {NoDispatch}]
  /\ call \in [Procs -> Call]
  /\ held \in [Games -> Nat]
  /\ handed \in [Games -> Nat]
  /\ clock \in 1..MaxTime /\ faults \in 0..MaxFaults

\* Every game is sent the same result, the one the activity is complete with,
\* whichever of a last report and several sweeps finished it: nobody finishes
\* what is finished, and no delivery is made of a result that was not written.
\* One that calls itself collected has everybody's report, one that was completed
\* by the sweep lacks somebody's and has somebody's (doc of CompletionReason).
ResultsAgree ==
  /\ \A g \in Games : dispatch[g] # NoDispatch =>
       Complete /\ dispatch[g].result = ResultOf(activity)
  /\ Complete =>
       /\ activity.reason = "collected" <=> activity.notified = Games
       /\ activity.notified # {}

\* Every variable is well typed, and an activity that is not settled is where the sweep will find it, or somebody
\* is about to put it there (doc of Window): no admission, reclaim, confirmation
\* or retirement, in any order, makes it fall out of the window.
Unfinished ==
  /\ Exists
  /\ Complete => \E g \in Games :
       \/ dispatch[g] = NoDispatch
       \/ dispatch[g].state = "pending" /\ dispatch[g].reopens = 0

UnfinishedIsListed ==
  /\ TypeOK
  /\ Unfinished =>
       \/ Pending(place) \/ place.delivering
       \/ \E c \in Callers : call[c].pc = "confirm"

\* A result is handed out as often as its budget allows, once more for each time
\* an operator has reopened it and the record shows: no handout goes uncounted.
HandoutsAreCounted ==
  \A g \in Games : dispatch[g] # NoDispatch =>
    handed[g] = dispatch[g].reopens * MaxAttempts + dispatch[g].attempts

\* The token a game was handed stays good for as long as the delivery is there,
\* however often it is healed or reopened: the game recognises a result it has
\* had by the token (docs of ensureDispatches and ReopenDispatch).
TokenStays ==
  \A g \in Games : held[g] # 0 =>
    dispatch[g] # NoDispatch /\ held[g] = dispatch[g].token

\* A delivery leaves "acked" never, and "exhausted" only by a reopening that is
\* counted; an acknowledgement that comes late does not undo the loss an
\* operator was told of (doc of ErrDispatchExhausted).
TerminalStays ==
  [][\A g \in Games : dispatch[g] # NoDispatch =>
       /\ dispatch'[g] # NoDispatch
       /\ dispatch[g].state = "acked" => dispatch'[g] = dispatch[g]
       /\ dispatch[g].state = "exhausted" =>
            dispatch'[g] = dispatch[g] \/ dispatch'[g] = Reopened(dispatch[g])]_vars

\* An activity whose grace has passed, or that everybody reported to, comes to
\* have a delivery for every game, whatever stopped half way, provided the
\* window does not stay above its bound (doc of AdvanceExpired).
DueIsSettled ==
  <>[](PendingCount <= MaxPending) =>
    ((Exists /\ (Complete \/ GraceExpired(activity, clock)))
       ~> \A g \in Games : dispatch[g] # NoDispatch)
=============================================================================
