--------------------------------- MODULE Rank ---------------------------------
(***************************************************************************)
(* RedisStore of service/rank for one board: the sorted set that ranks it, *)
(* and the hash that says which member each owner has in it and which      *)
(* requests that owner has applied last.                                   *)
(*                                                                         *)
(* A submit reads the member and the requests of its owner, computes the   *)
(* next member, and swaps it in by a script that compares the member only; *)
(* it tries again when it has lost.  Every request may be delivered again, *)
(* at once or later, and a delivery may stop at any point.                 *)
(*                                                                         *)
(* The requests an owner has applied are one string, of ids joined by      *)
(* commas, and an id may have commas of its own: an id is the sequence of  *)
(* tokens between its commas, and so is the string.                        *)
(*                                                                         *)
(* Integers have a width: they are -Half .. Half-1.  The brief of a score  *)
(* is opaque and left out; so are the reads that follow a submit, which    *)
(* look up the rank of the member it has stored.                           *)
(***************************************************************************)
EXTENDS Integers, Sequences, FiniteSets

CONSTANTS
  Callers,       \* submits in progress together
  Owners,        \* owner ids, non-zero
  Tokens,        \* what stands between the commas of an id
  Requests,      \* the submits of producers
  Half,          \* half of the values an int64 has
  Ring,          \* maxAppliedRequests
  Attempts,      \* maxSubmitAttempts
  NoId, NoMember,
  MaxDeliveries, \* bound: how many submits are delivered
  MaxRemovals    \* bound: how often an entry is removed or the board reset

Int64 == -Half .. Half - 1
Wrapped(n) == ((n + Half) % (2 * Half)) - Half

\* An accumulating request has an id (validateSubmit).
IsRequest(r) ==
  /\ DOMAIN r = {"id", "owner", "mode", "value", "tie"}
  /\ r.owner \in Owners /\ r.mode \in {"set", "max", "add"}
  /\ r.value \in Int64 /\ r.tie \in Int64 \ {0}
  /\ r.id # NoId => r.id \in Seq(Tokens) /\ r.id # << >>
  /\ r.mode = "add" => r.id # NoId

ASSUME RankAssumption ==
  /\ Half \in Nat \ {0} /\ Ring \in Nat \ {0} /\ Attempts \in Nat \ {0}
  /\ Owners \subseteq Int64 \ {0}
  /\ \A r \in Requests : IsRequest(r)
  /\ NoId \notin Requests
  /\ NoMember \notin [owner: Owners, value: Int64, tie: Int64]
  /\ MaxDeliveries \in Nat /\ MaxRemovals \in Nat

VARIABLES
  board,      \* the sorted set: its members, all of score 0
  member,     \* the hash: the member of each owner
  applied,    \* the hash: the ring of each owner, oldest token first
  call,       \* where each submit is
  delivered,  \* how many submits were delivered
  removals,
  log,        \* history: the swaps of each owner and, with NoId, its removals
  contended   \* history: per submit that gave up, the swaps of its owner meanwhile

vars == <<board, member, applied, call, delivered, removals, log, contended>>

Member == [owner: Owners, value: Int64, tie: Int64]
-----------------------------------------------------------------------------
(* The order of members.                                                   *)

\* Mutant: the sign bit is not flipped.
Unsigned(n) == n % (2 * Half)

\* sortableUint.
Sortable(n) == (Unsigned(n) + Half) % (2 * Half)

Complement(u) == 2 * Half - 1 - u

\* encodeMember: fields of fixed width, so that bytes compare as these numbers do.
Encoded(m) == <<Sortable(m.value), Complement(Sortable(m.tie)), Complement(Sortable(m.owner))>>

\* The byte order of two members.
Greater(m, n) ==
  LET a == Encoded(m)
      b == Encoded(n)
  IN  \E i \in 1 .. 3 : a[i] > b[i] /\ \A j \in 1 .. i - 1 : a[j] = b[j]

\* ZREVRANK, from 1.
RankOf(m) == 1 + Cardinality({n \in board : Greater(n, m)})

-----------------------------------------------------------------------------
(* Scores.                                                                 *)

Score(r) == [owner |-> r.owner, value |-> r.value, tie |-> r.tie]

\* Max keeps a greater value, and of equal ones the earlier.
Keeps(m, r) ==
  r.mode = "max" /\ (m.value > r.value \/ (m.value = r.value /\ m.tie <= r.tie))

\* nextScore.
NextScore(m, r) ==
  IF m = NoMember THEN Score(r)
  ELSE IF Keeps(m, r) THEN m
  ELSE IF r.mode = "add" THEN [Score(r) EXCEPT !.value = Wrapped(m.value + r.value)]
  ELSE Score(r)

Changed(m, r) == m = NoMember \/ ~Keeps(m, r)

\* ringContains splits the ring, not the id: one with a comma is never found.
Contains(ring, id) ==
  id # NoId /\ Len(id) = 1 /\ \E i \in 1 .. Len(ring) : ring[i] = id[1]

\* What appendRing keeps of a ring: the id that comes after it counts as one.
Kept(ring) == IF Len(ring) < Ring THEN ring ELSE SubSeq(ring, Len(ring) - Ring + 2, Len(ring))

\* appendRing.
Appended(ring, id) ==
  IF id = NoId \/ Contains(ring, id) THEN ring ELSE Kept(ring) \o id

\* The tokens a request adds to a ring.
Places(r) == IF r.id = NoId THEN 0 ELSE Len(r.id)

-----------------------------------------------------------------------------

Idle == [pc |-> "idle"]
Reading(r, try, since) == [pc |-> "read", req |-> r, try |-> try, since |-> since]

Rings == Seq(Tokens)

Call ==
  {Idle}
    \cup [pc: {"read"}, req: Requests, try: 1 .. Attempts, since: Nat]
    \cup [pc: {"swap", "record"}, req: Requests, try: 1 .. Attempts, since: Nat,
          stored: Member \cup {NoMember}, ring: Rings]

TypeOK ==
  /\ board \subseteq Member
  /\ member \in [Owners -> Member \cup {NoMember}]
  /\ applied \in [Owners -> Rings]
  /\ call \in [Callers -> Call]
  /\ delivered \in 0 .. MaxDeliveries /\ removals \in 0 .. MaxRemovals
  /\ \A o \in Owners : \A i \in 1 .. Len(log[o]) :
       log[o][i] \in [req: Requests \cup {NoId}, member: Member \cup {NoMember}, written: Nat]
  /\ contended \subseteq Nat

Init ==
  /\ board = {}
  /\ member = [o \in Owners |-> NoMember]
  /\ applied = [o \in Owners |-> << >>]
  /\ call = [c \in Callers |-> Idle]
  /\ delivered = 0 /\ removals = 0
  /\ log = [o \in Owners |-> << >>]
  /\ contended = {}

-----------------------------------------------------------------------------
(* Submit.                                                                 *)

\* The tokens the first n entries of a log have written to rings.
Written(l, n) == IF n = 0 THEN 0 ELSE l[n].written

Logged(l, r, m) ==
  Append(l, [req |-> r, member |-> m, written |-> Written(l, Len(l)) + Places(r)])

Return(c) == call' = [call EXCEPT ![c] = Idle]

Deliver(c, r) ==
  /\ call[c] = Idle /\ delivered < MaxDeliveries
  /\ call' = [call EXCEPT ![c] = Reading(r, 1, Len(log[r.owner]))]
  /\ delivered' = delivered + 1
  /\ UNCHANGED <<board, member, applied, removals, log, contended>>

\* Mutant: a request is not looked for.
ReadMemberOnly(c) ==
  /\ call[c].pc = "read"
  /\ LET r == call[c].req IN
     call' = [call EXCEPT ![c] =
       [pc |-> IF Changed(member[r.owner], r) THEN "swap" ELSE "record",
        req |-> r, try |-> @.try, since |-> @.since,
        stored |-> member[r.owner], ring |-> applied[r.owner]]]
  /\ UNCHANGED <<board, member, applied, delivered, removals, log, contended>>

\* readOwner: one script reads the member and the ring.  A request the ring lists is
\* answered; one that changes nothing and has no id has nothing to write.
ReadOwner(c) ==
  /\ call[c].pc = "read"
  /\ LET r == call[c].req
         stored == member[r.owner]
         changed == Changed(stored, r)
     IN  IF Contains(applied[r.owner], r.id) \/ (~changed /\ r.id = NoId)
         THEN Return(c)
         ELSE call' = [call EXCEPT ![c] =
                [pc |-> IF changed THEN "swap" ELSE "record", req |-> r,
                 try |-> @.try, since |-> @.since, stored |-> stored,
                 ring |-> applied[r.owner]]]
  /\ UNCHANGED <<board, member, applied, delivered, removals, log, contended>>

\* Mutant: the script leaves the member it replaces in the sorted set.
SwapAdding(o, expected, next, r, ring) ==
  /\ board' = board \cup {next}
  /\ member' = [member EXCEPT ![o] = next]
  /\ applied' = IF r.id = NoId THEN applied ELSE [applied EXCEPT ![o] = ring]
  /\ log' = [log EXCEPT ![o] = Logged(@, r, next)]

\* swapScript, once it has found the member it expects.
Swap(o, expected, next, r, ring) ==
  /\ board' = (board \ {expected}) \cup {next}
  /\ member' = [member EXCEPT ![o] = next]
  /\ applied' = IF r.id = NoId THEN applied ELSE [applied EXCEPT ![o] = ring]
  /\ log' = [log EXCEPT ![o] = Logged(@, r, next)]

\* Mutant: the script does not compare.
ExpectedAnything(o, expected) == expected = NoMember => member[o] = NoMember

Expected(o, expected) == member[o] = expected

SwapNext(c) ==
  /\ call[c].pc = "swap"
  /\ LET r == call[c].req IN
     /\ Expected(r.owner, call[c].stored)
     /\ Swap(r.owner, call[c].stored, NextScore(call[c].stored, r), r,
             Appended(call[c].ring, r.id))
  /\ Return(c)
  /\ UNCHANGED <<delivered, removals, contended>>

\* The swap is lost: the submit reads again, or gives up with ErrConflict.
Lose(c) ==
  /\ call[c].pc = "swap" /\ ~Expected(call[c].req.owner, call[c].stored)
  /\ LET at == call[c] IN
     IF at.try < Attempts
     THEN /\ call' = [call EXCEPT ![c] = Reading(at.req, at.try + 1, at.since)]
          /\ UNCHANGED contended
     ELSE /\ contended' = contended \cup {Len(log[at.req.owner]) - at.since}
          /\ Return(c)
  /\ UNCHANGED <<board, member, applied, delivered, removals, log>>

\* A request that changed nothing is recorded by a swap of the member for itself, and
\* whether that swap found it is not asked.
Record(c) ==
  /\ call[c].pc = "record"
  /\ LET r == call[c].req
         stored == call[c].stored
     IN  IF Expected(r.owner, stored)
         THEN Swap(r.owner, stored, stored, r, Appended(call[c].ring, r.id))
         ELSE UNCHANGED <<board, member, applied, log>>
  /\ Return(c)
  /\ UNCHANGED <<delivered, removals, contended>>

\* The store refuses, or the process ends; the request may be delivered again.
Stop(c) ==
  /\ call[c] # Idle
  /\ Return(c)
  /\ UNCHANGED <<board, member, applied, delivered, removals, log, contended>>

-----------------------------------------------------------------------------
(* The other writes.                                                       *)

\* Mutant: removeScript leaves the ring.
ForgetMember(os) ==
  /\ removals < MaxRemovals
  /\ removals' = removals + 1
  /\ member' = [o \in Owners |-> IF o \in os THEN NoMember ELSE member[o]]
  /\ log' = [o \in Owners |->
               IF o \in os
               THEN Append(log[o], [req |-> NoId, member |-> NoMember,
                                    written |-> Written(log[o], Len(log[o]))])
               ELSE log[o]]
  /\ UNCHANGED <<applied, call, delivered, contended>>

Forget(os) ==
  /\ removals < MaxRemovals
  /\ removals' = removals + 1
  /\ member' = [o \in Owners |-> IF o \in os THEN NoMember ELSE member[o]]
  /\ applied' = [o \in Owners |-> IF o \in os THEN << >> ELSE applied[o]]
  /\ log' = [o \in Owners |->
               IF o \in os
               THEN Append(log[o], [req |-> NoId, member |-> NoMember,
                                    written |-> Written(log[o], Len(log[o]))])
               ELSE log[o]]
  /\ UNCHANGED <<call, delivered, contended>>

\* removeScript.
Remove(o) ==
  /\ member[o] # NoMember
  /\ board' = board \ {member[o]}
  /\ Forget({o})

\* DEL of both keys.
Reset == board' = {} /\ Forget(Owners)

Next ==
  \/ \E c \in Callers :
       \/ \E r \in Requests : Deliver(c, r)
       \/ ReadOwner(c) \/ SwapNext(c) \/ Lose(c) \/ Record(c) \/ Stop(c)
  \/ \E o \in Owners : Remove(o)
  \/ Reset

Spec == Init /\ [][Next]_vars

-----------------------------------------------------------------------------
(* Properties.                                                             *)

\* The sorted set ranks exactly the members the owners have: no submit that lost, and
\* no removal under a submit, leaves a member nobody has, or an owner unranked.
BoardMatchesOwners == TypeOK /\ board = {member[o] : o \in Owners} \ {NoMember}

\* Everybody is ranked as Score promises: larger values first, of equal values the
\* smaller tie, then the smaller owner, also across zero.
Before(m, n) ==
  \/ m.value > n.value
  \/ m.value = n.value /\ (m.tie < n.tie \/ (m.tie = n.tie /\ m.owner < n.owner))

RankedAsPromised ==
  \A m \in board : RankOf(m) = 1 + Cardinality({n \in board : Before(n, m)})

\* The member of an owner after n entries of its log.
MemberAfter(l, n) == IF n = 0 THEN NoMember ELSE l[n].member

\* Every change builds on the member it replaces and not on one that was read before
\* others changed it: nothing added is lost, and max never gives up a better score.
\* A sum past either end of the integers comes out at the other.  And a submit that
\* answers ErrConflict was overtaken by as many changes as it made attempts.
EachChangeBuildsOnTheLast ==
  /\ \A o \in Owners : \A i \in 1 .. Len(log[o]) :
       LET r == log[o][i].req
           m == log[o][i].member
           p == MemberAfter(log[o], i - 1)
       IN  r # NoId /\ p # NoMember =>
             /\ r.mode = "add" =>
                  /\ p.value + r.value \in Int64 => m.value = p.value + r.value
                  /\ p.value + r.value >= Half => m.value = p.value + r.value - 2 * Half
                  /\ p.value + r.value < -Half => m.value = p.value + r.value + 2 * Half
             /\ r.mode = "max" => m = p \/ Before(m, p)
  /\ \A n \in contended : n >= Attempts

\* The owner had one member, then another or none, and by entries i to j of its log
\* the first again.
CameBack(l, i, j) ==
  \E z \in i .. j : \E y \in 1 .. z - 1 : \E x \in 0 .. y - 1 :
    /\ MemberAfter(l, x) = MemberAfter(l, z)
    /\ MemberAfter(l, y) # MemberAfter(l, z)

\* A request that adds, and whose id has no comma, is added once however often it is
\* delivered, until others have written as many tokens as the ring holds, or the owner
\* was removed.  The swap compares members and writes a ring that was read before it,
\* so the promise ends as well when the owner gets back to a member it had before.  A
\* request that adds zero may leave the member as it is, so that another swap does not
\* notice it and forgets that it was applied; it may be counted again, and adds nothing.
AddedOncePerWindow ==
  \A o \in Owners : \A i, j \in 1 .. Len(log[o]) :
    LET r == log[o][i].req IN
    i < j /\ r # NoId /\ r = log[o][j].req /\ r.mode = "add" /\ r.value # 0 /\ Len(r.id) = 1
      => \/ Written(log[o], j - 1) - Written(log[o], i) >= Ring
         \/ \E k \in i .. j : log[o][k].req = NoId
         \/ CameBack(log[o], i, j - 1)

\* After entry k of its log the owner got, with a removal in between, back to a member
\* it had.
Revived(l, k) ==
  \E x \in k .. Len(l) : \E z \in x + 2 .. Len(l) :
    /\ l[x].member = l[z].member /\ l[x].member # NoMember
    /\ \E y \in x + 1 .. z - 1 : l[y].req = NoId

\* What a ring lists, and what is therefore answered without being applied, is of a
\* request that was applied since the owner was removed last: no submit that lost, gave
\* up or stopped half way is in a ring.  (A submit under a removal writes the ring it
\* has read before, if the owner is back at the member it has read.)
ListedWereApplied ==
  \A o \in Owners : \A p \in 1 .. Len(applied[o]) : \E k \in 1 .. Len(log[o]) :
    /\ log[o][k].req # NoId /\ log[o][k].req.id # NoId
    /\ \E t \in 1 .. Len(log[o][k].req.id) : log[o][k].req.id[t] = applied[o][p]
    /\ (\E y \in k .. Len(log[o]) : log[o][y].req = NoId) => Revived(log[o], k)

===============================================================================
