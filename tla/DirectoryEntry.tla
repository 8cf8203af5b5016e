--------------------------- MODULE DirectoryEntry ---------------------------
(***************************************************************************)
(* The entry of one key of service/directory and what the decisions of     *)
(* Reserve and Commit make of it.  Directory and Account share it.         *)
(***************************************************************************)
EXTENDS Naturals

CONSTANTS
  Owners,   \* who may hold a key
  Tokens,   \* reservation tokens; random and long enough never to repeat
  Ttl,      \* how long a reservation is held, in ticks of the clock
  NoEntry,  \* a key without entry
  MaxTime   \* bound: the last value of the clock

VARIABLE clock  \* the one clock that every caller reads

\* A committed entry has no deadline, which is written 0.
Entry == [state: {"reserved", "committed"}, owner: Owners, token: Tokens,
          expires: Nat, version: Nat \ {0}]

ASSUME EntryAssumption ==
  /\ Ttl \in Nat \ {0}
  /\ NoEntry \notin Entry
  /\ MaxTime \in Nat

ClockMoves == clock < MaxTime /\ clock' = clock + 1

\* A reservation has lapsed; a committed entry never does.
Expired(e, now) == e.state = "reserved" /\ now >= e.expires

\* A reserver sees a lapsed reservation as absent.
Free(e, now) == e # NoEntry => Expired(e, now)

\* The store numbers the writes of an entry; a write over no entry starts again
\* at 1, also when the key held an entry before.
NextVersion(e) == IF e = NoEntry THEN 1 ELSE e.version + 1

ReservedEntry(e, owner, token, now) ==
  [state |-> "reserved", owner |-> owner, token |-> token,
   expires |-> now + Ttl, version |-> NextVersion(e)]

\* A commit is refused for a key without entry, for an entry that carries
\* another token and for a lapsed reservation; a committed entry answers again.
CommitRefused(e, token, now) ==
  \/ e = NoEntry
  \/ e.token # token
  \/ Expired(e, now)

CommittedEntry(e) ==
  IF e.state = "committed" THEN e
  ELSE [e EXCEPT !.state = "committed", !.expires = 0, !.version = @ + 1]

\* Cancel goes on to its delete only for the caller's own reservation, and
\* Release only for the caller's own entry.
Cancellable(e, token) == e # NoEntry /\ e.token = token /\ e.state = "reserved"
Releasable(e, owner) == e # NoEntry /\ e.owner = owner
=============================================================================
