------------------------------ MODULE Directory ------------------------------
(***************************************************************************)
(* service/directory as a service of its own: any number of clients        *)
(* reserve, commit, cancel and release keys, and retry what they did.      *)
(*                                                                         *)
(* Reserve and Commit read the clock and then decide in one compare-and-   *)
(* set.  Cancel and Release read the entry and then delete it if its       *)
(* version is still the one they read.                                     *)
(*                                                                         *)
(* The specification has names of its own (DirectorySpec, ...), so that a  *)
(* module can extend it together with Account, which writes entries too.   *)
(***************************************************************************)
EXTENDS DirectoryEntry

CONSTANTS
  Keys,
  Clients    \* calls that can be in progress together

VARIABLES
  entries,  \* directory store: the entry of each key
  claims,   \* claims ever handed to a caller; it may act on one at any time
  request   \* the call each client is in

directoryVars == <<entries, claims, request, clock>>

Claim == [key: Keys, owner: Owners, token: Tokens]

\* Where a call is between two accesses of the store.  A delete knows the entry
\* its read returned.
Idle == [pc |-> "idle"]
Request ==
  {Idle}
    \cup [pc: {"reserve"}, claim: Claim, now: Nat]
    \cup [pc: {"commit"}, claim: Claim, now: Nat]
    \cup [pc: {"delete"}, key: Keys, read: Entry]

Answer(c) == request' = [request EXCEPT ![c] = Idle]
Enter(c, step) == request[c] = Idle /\ request' = [request EXCEPT ![c] = step]

DirectoryInit ==
  /\ entries = [k \in Keys |-> NoEntry]
  /\ claims = {}
  /\ request = [c \in Clients |-> Idle]
  /\ clock = 1

\* A reserver reads the clock and mints the token it will use if it wins.
\* Bound: the calls of Reserve are at most the tokens.
StartReserve(c, k, o, t) ==
  /\ \A claim \in claims : claim.token # t
  /\ \A d \in Clients : request[d].pc = "reserve" => request[d].claim.token # t
  /\ Enter(c, [pc |-> "reserve", now |-> clock,
               claim |-> [key |-> k, owner |-> o, token |-> t]])
  /\ UNCHANGED <<entries, claims, clock>>

\* Mutant: the entry's deadline is compared with the new one, not with now.
ReserveByDeadline(c) ==
  LET claim == request[c].claim
      e == entries[claim.key]
  IN
  /\ request[c].pc = "reserve"
  /\ IF Free(e, request[c].now + Ttl)
     THEN /\ entries' = [entries EXCEPT ![claim.key] =
                           ReservedEntry(e, claim.owner, claim.token, request[c].now)]
          /\ claims' = claims \cup {claim}
     ELSE UNCHANGED <<entries, claims>>
  /\ Answer(c)
  /\ UNCHANGED clock

\* Another owner's live entry refuses, the caller's own answers the claim it
\* already has, a free key is taken.
Reserve(c) ==
  LET claim == request[c].claim
      e == entries[claim.key]
  IN
  /\ request[c].pc = "reserve"
  /\ IF Free(e, request[c].now)
     THEN /\ entries' = [entries EXCEPT ![claim.key] =
                           ReservedEntry(e, claim.owner, claim.token, request[c].now)]
          /\ claims' = claims \cup {claim}
     ELSE UNCHANGED <<entries, claims>>
  /\ Answer(c)
  /\ UNCHANGED clock

StartCommit(c, claim) ==
  /\ Enter(c, [pc |-> "commit", claim |-> claim, now |-> clock])
  /\ UNCHANGED <<entries, claims, clock>>

Commit(c) ==
  LET claim == request[c].claim IN
  /\ request[c].pc = "commit"
  /\ IF CommitRefused(entries[claim.key], claim.token, request[c].now)
     THEN UNCHANGED entries
     ELSE entries' = [entries EXCEPT ![claim.key] = CommittedEntry(@)]
  /\ Answer(c)
  /\ UNCHANGED <<claims, clock>>

\* The reads of Cancel and Release; where they do not lead to a delete the call
\* answers and changes nothing.
StartDelete(c, k) ==
  Enter(c, [pc |-> "delete", key |-> k, read |-> entries[k]])

Cancel(c, claim) ==
  /\ Cancellable(entries[claim.key], claim.token)
  /\ StartDelete(c, claim.key)
  /\ UNCHANGED <<entries, claims, clock>>

Release(c, k, o) ==
  /\ Releasable(entries[k], o)
  /\ StartDelete(c, k)
  /\ UNCHANGED <<entries, claims, clock>>

\* The version-checked delete.
Delete(c) ==
  LET k == request[c].key IN
  /\ request[c].pc = "delete"
  /\ IF entries[k] # NoEntry /\ entries[k].version = request[c].read.version
     THEN entries' = [entries EXCEPT ![k] = NoEntry]
     ELSE UNCHANGED entries
  /\ Answer(c)
  /\ UNCHANGED <<claims, clock>>

TimePasses ==
  /\ ClockMoves
  /\ UNCHANGED <<entries, claims, request>>

DirectoryNext ==
  \/ \E c \in Clients, k \in Keys, o \in Owners, t \in Tokens : StartReserve(c, k, o, t)
  \/ \E c \in Clients, k \in Keys, o \in Owners : Release(c, k, o)
  \/ \E c \in Clients, claim \in claims : StartCommit(c, claim) \/ Cancel(c, claim)
  \/ \E c \in Clients : Reserve(c) \/ Commit(c) \/ Delete(c)
  \/ TimePasses

DirectorySpec == DirectoryInit /\ [][DirectoryNext]_directoryVars

-----------------------------------------------------------------------------
(* Properties.                                                             *)

\* Every variable has its type; a committed entry has no deadline, and a
\* reservation none further off than Ttl (Reserve, Commit).
DirectoryTypeOK ==
  /\ entries \in [Keys -> Entry \cup {NoEntry}]
  /\ \A k \in Keys : entries[k] # NoEntry =>
        /\ entries[k].state = "committed" <=> entries[k].expires = 0
        /\ entries[k].expires <= clock + Ttl
  /\ claims \subseteq Claim
  /\ request \in [Clients -> Request]
  /\ clock \in Nat

\* Who holds a key now.  A lapsed reservation holds nothing.
Holder(k) == IF Free(entries[k], clock) THEN NoEntry ELSE entries[k].owner

\* A key does not pass from one owner to another: it is free in between,
\* released, cancelled or lapsed.  Decisions are taken on a clock read before
\* the compare-and-set, so an old "now" must never pass for a lapse, and a
\* claim that did lapse must not come back over a new holder (Reserve, Commit).
KeysPassThroughFree ==
  [][\A k \in Keys : Holder(k) # NoEntry => Holder(k)' \in {Holder(k), NoEntry}]_directoryVars
=============================================================================
