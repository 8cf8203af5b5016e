------------------------------- MODULE Progress -------------------------------
(***************************************************************************)
(* ApplyProgress of service/global/activity for one participant of one     *)
(* activity.  A call claims its request in the ledger, counts its delta    *)
(* into the record of the participant, which remembers the last requests   *)
(* it counted, and marks the claim applied.  Each access of a store is a   *)
(* step, a call may stop between any two, and the store drops a claim when *)
(* its time to live has passed.                                            *)
(*                                                                         *)
(* The score of the participant is the sum of what `counted' lists.        *)
(***************************************************************************)
EXTENDS Naturals, Sequences, FiniteSets

CONSTANTS
  Calls,      \* calls of ApplyProgress in progress together
  Requests,   \* request ids for this participant
  Deltas,     \* what a request may add
  Window,     \* MaxProgressWindow
  NoEntry,
  MaxCalls    \* bound: how many calls are made

Entry == [delta: Deltas, state: {"reserved", "applied"}]
Change == [req: Requests, delta: Deltas]

ASSUME ProgressAssumption ==
  /\ IsFiniteSet(Calls)
  /\ Window \in Nat \ {0}
  /\ NoEntry \notin Entry
  /\ MaxCalls \in Nat

VARIABLES
  status,    \* of the activity: Config.Activities
  ledger,    \* Config.Ledger: the reservation of each request
  ring,      \* Participant.AppliedRequestIDs
  call,      \* where each call is, and what it was asked to count
  calls,     \* how many calls were made
  counted,   \* history: what was added to the participant, in order
  answered,  \* history: what a caller was told has been counted
  expired,   \* history: the requests whose reservation the store has dropped
  late,      \* history: how often something was counted after the end
  underway   \* history: how many calls had seen an open activity as it ended

vars == <<status, ledger, ring, call, calls, counted, answered, expired, late, underway>>
histories == <<answered, expired, late, underway>>

Idle == [pc |-> "idle"]
Steps == {"look", "reserve", "inspect", "apply", "mark"}
Ring == UNION {[1 .. n -> Requests] : n \in 0 .. Window}

TypeOK ==
  /\ status \in {"missing", "open", "complete"}
  /\ ledger \in [Requests -> Entry \cup {NoEntry}]
  /\ ring \in Ring
  /\ call \in [Calls -> {Idle} \cup [pc: Steps, asked: Change]]
  /\ calls \in 0 .. MaxCalls
  /\ counted \in Seq(Change)
  /\ answered \subseteq Change
  /\ expired \subseteq Requests
  /\ late \in Nat /\ underway \in Nat

Init ==
  /\ status = "missing"
  /\ ledger = [r \in Requests |-> NoEntry]
  /\ ring = << >>
  /\ call = [c \in Calls |-> Idle]
  /\ calls = 0
  /\ counted = << >>
  /\ answered = {} /\ expired = {}
  /\ late = 0 /\ underway = 0

-----------------------------------------------------------------------------
(* Helpers.                                                                *)

Go(c, step) == call' = [call EXCEPT ![c].pc = step]
Leave(c) == call' = [call EXCEPT ![c] = Idle]

\* Participant.Applied: the ring still lists the request.
Applied(r) == \E i \in 1 .. Len(ring) : ring[i] = r

\* Mutant: a full ring keeps the oldest requests.
RememberedWhileRoom(r) == IF Len(ring) < Window THEN Append(ring, r) ELSE ring

\* appendBounded: the oldest request goes when the ring is full.
Remembered(r) ==
  IF Len(ring) < Window THEN Append(ring, r) ELSE Append(Tail(ring), r)

-----------------------------------------------------------------------------
(* Steps of a call.                                                        *)

Start(c) ==
  /\ call[c] = Idle /\ calls < MaxCalls
  /\ \E asked \in Change : call' = [call EXCEPT ![c] = [pc |-> "look", asked |-> asked]]
  /\ calls' = calls + 1
  /\ UNCHANGED <<status, ledger, ring, counted, histories>>

\* Mutant: the status of the activity is not asked for.
LookPast(c) ==
  /\ call[c].pc = "look"
  /\ Go(c, "reserve")
  /\ UNCHANGED <<status, ledger, ring, calls, counted, histories>>

\* Nothing is counted for an activity that is missing or complete.
Look(c) ==
  /\ call[c].pc = "look"
  /\ IF status = "open" THEN Go(c, "reserve") ELSE Leave(c)
  /\ UNCHANGED <<status, ledger, ring, calls, counted, histories>>

\* The insert-only Create of the reservation, which finds one or makes one.
Reserve(c) ==
  /\ call[c].pc = "reserve"
  /\ LET asked == call[c].asked IN
     IF ledger[asked.req] = NoEntry
     THEN /\ ledger' = [ledger EXCEPT ![asked.req] =
                          [delta |-> asked.delta, state |-> "reserved"]]
          /\ Go(c, "apply")
     ELSE Go(c, "inspect") /\ UNCHANGED ledger
  /\ UNCHANGED <<status, ring, calls, counted, histories>>

\* Mutant: a call that finds a reservation takes it for its own.
InspectStateOnly(c) ==
  /\ call[c].pc = "inspect"
  /\ LET e == ledger[call[c].asked.req] IN
       IF e = NoEntry THEN Leave(c) /\ UNCHANGED answered
       ELSE IF e.state = "reserved" THEN Go(c, "apply") /\ UNCHANGED answered
       ELSE Leave(c) /\ answered' = answered \cup {call[c].asked}
  /\ UNCHANGED <<status, ledger, ring, calls, counted, expired, late, underway>>

\* The reservation found: one that has vanished, or is for another delta, refuses
\* the call; one that was applied answers it; one that was not is taken further.
Inspect(c) ==
  /\ call[c].pc = "inspect"
  /\ LET asked == call[c].asked
         e == ledger[asked.req] IN
       IF e = NoEntry \/ e.delta # asked.delta
       THEN Leave(c) /\ UNCHANGED answered
       ELSE IF e.state = "applied"
       THEN Leave(c) /\ answered' = answered \cup {asked}
       ELSE Go(c, "apply") /\ UNCHANGED answered
  /\ UNCHANGED <<status, ledger, ring, calls, counted, expired, late, underway>>

\* One compare-and-set counts the delta and remembers the request, unless the ring
\* says that it has been counted.
Apply(c) ==
  /\ call[c].pc = "apply"
  /\ LET asked == call[c].asked IN
     IF Applied(asked.req)
     THEN UNCHANGED <<ring, counted, late>>
     ELSE /\ ring' = Remembered(asked.req)
          /\ counted' = Append(counted, asked)
          /\ late' = IF status = "complete" THEN late + 1 ELSE late
  /\ Go(c, "mark")
  /\ UNCHANGED <<status, ledger, calls, answered, expired, underway>>

\* markReservationApplied: a reservation that is gone stays gone.
Mark(c) ==
  /\ call[c].pc = "mark"
  /\ LET asked == call[c].asked IN
     /\ ledger' = IF ledger[asked.req] = NoEntry THEN ledger
                  ELSE [ledger EXCEPT ![asked.req].state = "applied"]
     /\ answered' = answered \cup {asked}
  /\ Leave(c)
  /\ UNCHANGED <<status, ring, calls, counted, expired, late, underway>>

\* A store refuses the call, or the process ends.
Stop(c) ==
  /\ call[c] # Idle
  /\ Leave(c)
  /\ UNCHANGED <<status, ledger, ring, calls, counted, histories>>

-----------------------------------------------------------------------------
(* What happens around the calls.                                          *)

\* The activity is opened, and completes when its games have reported.
Open ==
  /\ status = "missing"
  /\ status' = "open"
  /\ UNCHANGED <<ledger, ring, call, calls, counted, histories>>

Complete ==
  /\ status = "open"
  /\ status' = "complete"
  /\ underway' = Cardinality({c \in Calls : call[c] # Idle /\ call[c].pc # "look"})
  /\ UNCHANGED <<ledger, ring, call, calls, counted, answered, expired, late>>

\* ReservationTTL has passed: the store drops the reservation.
Expire(r) ==
  /\ ledger[r] # NoEntry
  /\ ledger' = [ledger EXCEPT ![r] = NoEntry]
  /\ expired' = expired \cup {r}
  /\ UNCHANGED <<status, ring, call, calls, counted, answered, late, underway>>

CallStep(c) ==
  \/ Start(c) \/ Look(c) \/ Reserve(c) \/ Inspect(c) \/ Apply(c) \/ Mark(c) \/ Stop(c)

Next ==
  \/ \E c \in Calls : CallStep(c)
  \/ Open \/ Complete
  \/ \E r \in Requests : Expire(r)

Spec == Init /\ [][Next]_vars

-----------------------------------------------------------------------------
(* Properties.                                                             *)

\* A request that is sent again, by several calls at once or after a crash between
\* the count and the mark, is counted a second time only when as many others as the
\* ring holds were counted in between (service.go, ApplyProgress).
CountedOncePerWindow ==
  /\ TypeOK
  /\ \A i, j \in 1 .. Len(counted) :
       i < j /\ counted[i].req = counted[j].req => j - i > Window

\* A reservation marked applied, which answers every later call by itself, is one
\* whose request was counted, whoever marked it and whoever claimed it before; and a
\* caller that is told its request went through had its own delta counted, as long
\* as the reservation was kept: a request id used for two deltas never passes for both.
AnsweredWasCounted ==
  /\ \A r \in Requests :
       ledger[r] # NoEntry /\ ledger[r].state = "applied"
         => \E i \in 1 .. Len(counted) : counted[i].req = r
  /\ \A a \in answered :
       a.req \notin expired => \E i \in 1 .. Len(counted) : counted[i] = a

\* The status is read before the participant is written, so a completed activity may
\* still count, but at most once for each call that was past the check as it completed.
LateWasUnderWay == late <= underway

===============================================================================
