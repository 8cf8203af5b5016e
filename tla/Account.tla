------------------------------- MODULE Account -------------------------------
(***************************************************************************)
(* Account.CreateRole of service/account over its three stores: the slot   *)
(* of an account on a server, the name directory and the role records.     *)
(*                                                                         *)
(* A create is a process that takes one store access per step, forward to  *)
(* the slot write that commits it, or back through its compensations.      *)
(* Accounts, bans and server status are read once before the first step    *)
(* and never written by it: the creates here are those that passed.        *)
(***************************************************************************)
EXTENDS DirectoryEntry, Sequences, FiniteSets

CONSTANTS
  Servers, Names, PlayerIds,
  NoToken, NoPlayer, NoSlot, NoRole,
  Callers,    \* creates that can be in progress together
  Prompt,     \* TRUE: a create ends before its name claim lapses
  FaultKinds, \* what may fail in this run
  MaxFaults   \* bound: how many faults happen

\* The owners of the name directory are the accounts.
Accounts == Owners
SlotKeys == Accounts \X Servers

Slot == [player: PlayerIds \cup {NoPlayer}, version: Nat \ {0}]
Role == [player: PlayerIds, account: Accounts, server: Servers, name: Names]

ASSUME AccountAssumption ==
  /\ Owners # {} /\ Servers # {} /\ Names # {}
  /\ NoToken \notin Tokens /\ NoPlayer \notin PlayerIds
  /\ NoSlot \notin Slot /\ NoRole \notin Role
  /\ Prompt \in BOOLEAN
  /\ FaultKinds \subseteq {"crash", "refuse", "refuseUndo", "lose"}
  /\ MaxFaults \in Nat

VARIABLES
  slots,   \* slot store: which role occupies the place of an account on a server
  names,   \* name directory: the entry of each name
  roles,   \* role store: the record of each player id
  call,    \* the create each caller is in
  handed,  \* history: the roles that creates answered
  faults   \* history: how many, and whether each let its create undo what it had done

vars == <<slots, names, roles, call, handed, clock, faults>>

-----------------------------------------------------------------------------
(* Creates.  pc is the store access a create takes next; in "undo" it is   *)
(* the head of todo, and "delete" is the second half of giving up a name.  *)

Undoings == {"name", "role", "claim", "slot"}

Call == [pc: {"idle", "reserve", "allocate", "insert", "commit", "record", "undo", "delete"},
         account: Accounts, server: Servers, name: Names,
         token: Tokens \cup {NoToken}, player: PlayerIds \cup {NoPlayer},
         now: Nat,          \* the clock as Reserve or Commit read it
         todo: Seq(Undoings),
         read: Nat]         \* the version of the name entry that was read

IdleCall == [pc |-> "idle", account |-> CHOOSE a \in Accounts : TRUE,
             server |-> CHOOSE s \in Servers : TRUE, name |-> CHOOSE n \in Names : TRUE,
             token |-> NoToken, player |-> NoPlayer, now |-> 0, todo |-> <<>>, read |-> 0]

SlotOf(c) == <<call[c].account, call[c].server>>
RoleOf(c) == [player |-> call[c].player, account |-> call[c].account,
              server |-> call[c].server, name |-> call[c].name]

Return(c) == call' = [call EXCEPT ![c] = IdleCall]
Undo(c, steps) == call' = [call EXCEPT ![c].pc = "undo", ![c].todo = steps]

\* Mutant: the slot is not given back.
CompensateNoSlot(step) == IF step = "record" THEN <<"name", "role">> ELSE <<"role", "claim">>

\* What a failure at each step undoes, in this order.
Compensation(step) ==
  CASE step = "reserve" -> <<"slot">>
    [] step \in {"allocate", "insert"} -> <<"claim", "slot">>
    [] step = "commit" -> <<"role", "claim", "slot">>
    [] step = "record" -> <<"name", "role", "slot">>

Fail(c) == Undo(c, Compensation(call[c].pc))

Init ==
  /\ slots = [k \in SlotKeys |-> NoSlot]
  /\ names = [n \in Names |-> NoEntry]
  /\ roles = [p \in PlayerIds |-> NoRole]
  /\ call = [c \in Callers |-> IdleCall]
  /\ handed = {}
  /\ clock = 1
  /\ faults = [count |-> 0, undone |-> TRUE]

-----------------------------------------------------------------------------
(* Forward.                                                                *)

\* A token nothing remembers: no entry and no create.
Unused(t) ==
  /\ \A n \in Names : names[n] # NoEntry => names[n].token # t
  /\ \A c \in Callers : call[c].token # t

\* Slots.Create is insert-only: a second create of an account on a server ends
\* here.  The winner enters Reserve, which reads the clock and mints a token.
ClaimSlot(c, a, s, n, t) ==
  /\ call[c].pc = "idle"
  /\ slots[<<a, s>>] = NoSlot
  /\ Unused(t)
  /\ slots' = [slots EXCEPT ![<<a, s>>] = [player |-> NoPlayer, version |-> 1]]
  /\ call' = [call EXCEPT ![c] = [IdleCall EXCEPT !.pc = "reserve", !.account = a,
                !.server = s, !.name = n, !.token = t, !.now = clock]]
  /\ UNCHANGED <<names, roles, handed, clock, faults>>

\* Such a second create: it is answered that the account has its role.
RoleLimit(c, a, s) ==
  /\ call[c].pc = "idle"
  /\ slots[<<a, s>>] # NoSlot
  /\ UNCHANGED vars

\* Mutant: a live entry answers its claim to anybody.
ReserveForAnybody(c) ==
  LET e == names[call[c].name] IN
  /\ call[c].pc = "reserve"
  /\ \/ /\ Free(e, call[c].now)
        /\ names' = [names EXCEPT ![call[c].name] =
                       ReservedEntry(e, call[c].account, call[c].token, call[c].now)]
        /\ call' = [call EXCEPT ![c].pc = "allocate"]
     \/ /\ ~Free(e, call[c].now)
        /\ call' = [call EXCEPT ![c].pc = "allocate", ![c].token = e.token]
        /\ UNCHANGED names
  /\ UNCHANGED <<slots, roles, handed, clock, faults>>

\* Names.Reserve.
ReserveName(c) ==
  LET e == names[call[c].name]
      a == call[c].account
  IN
  /\ call[c].pc = "reserve"
  /\ \/ /\ Free(e, call[c].now)
        /\ names' = [names EXCEPT ![call[c].name] =
                       ReservedEntry(e, a, call[c].token, call[c].now)]
        /\ call' = [call EXCEPT ![c].pc = "allocate"]
     \/ /\ ~Free(e, call[c].now) /\ e.owner = a
        /\ call' = [call EXCEPT ![c].pc = "allocate", ![c].token = e.token]
        /\ UNCHANGED names
     \/ /\ ~Free(e, call[c].now) /\ e.owner # a
        /\ Fail(c) /\ UNCHANGED names
  /\ UNCHANGED <<slots, roles, handed, clock, faults>>

\* The allocator answers an id, which may be in use already, or none.
Allocate(c, p) ==
  /\ call[c].pc = "allocate"
  /\ IF p = NoPlayer THEN Fail(c)
     ELSE call' = [call EXCEPT ![c].pc = "insert", ![c].player = p]
  /\ UNCHANGED <<slots, names, roles, handed, clock, faults>>

\* Mutant: the insert overwrites.
InsertOverwrites(c) ==
  /\ call[c].pc = "insert"
  /\ roles' = [roles EXCEPT ![call[c].player] = RoleOf(c)]
  /\ call' = [call EXCEPT ![c].pc = "commit", ![c].now = clock]
  /\ UNCHANGED <<slots, names, handed, clock, faults>>

\* Roles.Create is insert-only.  Names.Commit reads the clock next.
InsertRole(c) ==
  LET p == call[c].player IN
  /\ call[c].pc = "insert"
  /\ IF roles[p] = NoRole
     THEN /\ roles' = [roles EXCEPT ![p] = RoleOf(c)]
          /\ call' = [call EXCEPT ![c].pc = "commit", ![c].now = clock]
     ELSE Fail(c) /\ UNCHANGED roles
  /\ UNCHANGED <<slots, names, handed, clock, faults>>

\* Names.Commit.
CommitName(c) ==
  LET n == call[c].name IN
  /\ call[c].pc = "commit"
  /\ IF CommitRefused(names[n], call[c].token, call[c].now)
     THEN Fail(c) /\ UNCHANGED names
     ELSE /\ names' = [names EXCEPT ![n] = CommittedEntry(@)]
          /\ call' = [call EXCEPT ![c].pc = "record"]
  /\ UNCHANGED <<slots, roles, handed, clock, faults>>

\* Slots.Update, the commit point; then the role is answered.
RecordSlot(c) ==
  LET k == SlotOf(c) IN
  /\ call[c].pc = "record"
  /\ IF slots[k] = NoSlot
     THEN Fail(c) /\ UNCHANGED <<slots, handed>>
     ELSE /\ slots' = [slots EXCEPT ![k] =
                         [player |-> call[c].player, version |-> @.version + 1]]
          /\ handed' = handed \cup {RoleOf(c)}
          /\ Return(c)
  /\ UNCHANGED <<names, roles, clock, faults>>

-----------------------------------------------------------------------------
(* Back.                                                                   *)

\* The compensation at the head of todo is over, done or failed: every one is
\* tried, whatever became of the others.  The slot comes last, then the create
\* answers.
Undone(c) ==
  LET more == Tail(call[c].todo) IN
  IF more = <<>> THEN Return(c) ELSE Undo(c, more)

Undoing(c, step) == call[c].pc = "undo" /\ Head(call[c].todo) = step

\* rollbackRole.  Nobody else writes a role before it is handed out, so the
\* version it checks is the one that was inserted.
UndoRole(c) ==
  /\ Undoing(c, "role")
  /\ roles' = [roles EXCEPT ![call[c].player] = NoRole]
  /\ Undone(c)
  /\ UNCHANGED <<slots, names, handed, clock, faults>>

ReadToDelete(c) ==
  call' = [call EXCEPT ![c].pc = "delete", ![c].read = names[call[c].name].version]

\* Names.Cancel up to its delete; its refusal of a committed entry is no error
\* to rollback.
CancelClaim(c) ==
  /\ Undoing(c, "claim")
  /\ IF Cancellable(names[call[c].name], call[c].token)
     THEN ReadToDelete(c)
     ELSE Undone(c)
  /\ UNCHANGED <<slots, names, roles, handed, clock, faults>>

\* Names.Release up to its delete.
ReleaseName(c) ==
  LET e == names[call[c].name] IN
  /\ Undoing(c, "name")
  /\ IF Releasable(e, call[c].account)
     THEN ReadToDelete(c)
     ELSE Undone(c)
  /\ UNCHANGED <<slots, names, roles, handed, clock, faults>>

\* The version-checked delete of both.
DeleteName(c) ==
  LET n == call[c].name IN
  /\ call[c].pc = "delete"
  /\ names' = IF names[n] # NoEntry /\ names[n].version = call[c].read
              THEN [names EXCEPT ![n] = NoEntry] ELSE names
  /\ Undone(c)
  /\ UNCHANGED <<slots, roles, handed, clock, faults>>

\* releaseSlot, version-checked against the slot as it was created.
ReleaseSlot(c) ==
  LET k == SlotOf(c) IN
  /\ Undoing(c, "slot")
  /\ slots' = IF slots[k] # NoSlot /\ slots[k].version = 1
              THEN [slots EXCEPT ![k] = NoSlot] ELSE slots
  /\ Undone(c)
  /\ UNCHANGED <<names, roles, handed, clock, faults>>

-----------------------------------------------------------------------------
(* Faults and time.                                                        *)

Fault(kind) ==
  /\ kind \in FaultKinds /\ faults.count < MaxFaults
  /\ faults' = [count |-> faults.count + 1, undone |-> faults.undone /\ kind = "refuse"]

\* The process stops: nothing of the create is undone.
Crash(c) ==
  /\ call[c].pc # "idle"
  /\ Fault("crash")
  /\ Return(c)
  /\ UNCHANGED <<slots, names, roles, handed, clock>>

\* A store access fails and had no effect.
Refuse(c) ==
  /\ call[c].pc \in {"reserve", "insert", "commit", "record"}
  /\ Fault("refuse")
  /\ Fail(c)
  /\ UNCHANGED <<slots, names, roles, handed, clock>>

RefuseUndo(c) ==
  /\ call[c].pc \in {"undo", "delete"}
  /\ Fault("refuseUndo")
  /\ Undone(c)
  /\ UNCHANGED <<slots, names, roles, handed, clock>>

\* A write takes effect and its answer is lost, so the create sees a failure.
Lose(c) ==
  LET n == call[c].name IN
  /\ Fault("lose")
  /\ \/ /\ call[c].pc = "reserve" /\ Free(names[n], call[c].now)
        /\ names' = [names EXCEPT ![n] =
                       ReservedEntry(@, call[c].account, call[c].token, call[c].now)]
        /\ UNCHANGED <<slots, roles>>
     \/ /\ call[c].pc = "insert" /\ roles[call[c].player] = NoRole
        /\ roles' = [roles EXCEPT ![call[c].player] = RoleOf(c)]
        /\ UNCHANGED <<slots, names>>
     \/ /\ call[c].pc = "commit" /\ ~CommitRefused(names[n], call[c].token, call[c].now)
        /\ names' = [names EXCEPT ![n] = CommittedEntry(@)]
        /\ UNCHANGED <<slots, roles>>
     \/ /\ call[c].pc = "record" /\ slots[SlotOf(c)] # NoSlot
        /\ slots' = [slots EXCEPT ![SlotOf(c)] =
                       [player |-> call[c].player, version |-> @.version + 1]]
        /\ UNCHANGED <<names, roles>>
  /\ Fail(c)
  /\ UNCHANGED <<handed, clock>>

\* The next tick would find the create still running with a claim that lapsed:
\* the one it would make, the one Reserve would answer again, the one it has.
Late(c) ==
  LET e == names[call[c].name] IN
  \/ /\ call[c].pc = "reserve"
     /\ \/ clock + 1 >= call[c].now + Ttl
        \/ e # NoEntry /\ e.owner = call[c].account /\ Expired(e, clock + 1)
  \/ /\ call[c].pc \notin {"idle", "reserve"}
     /\ e # NoEntry /\ e.token = call[c].token /\ Expired(e, clock + 1)

Tick ==
  /\ ClockMoves
  /\ Prompt => \A c \in Callers : ~Late(c)
  /\ UNCHANGED <<slots, names, roles, call, handed, faults>>

-----------------------------------------------------------------------------

Next ==
  \/ \E c \in Callers, a \in Accounts, s \in Servers, n \in Names, t \in Tokens :
       ClaimSlot(c, a, s, n, t)
  \/ \E c \in Callers, a \in Accounts, s \in Servers : RoleLimit(c, a, s)
  \/ \E c \in Callers : ReserveName(c)
  \/ \E c \in Callers, p \in PlayerIds \cup {NoPlayer} : Allocate(c, p)
  \/ \E c \in Callers :
       \/ InsertRole(c) \/ CommitName(c) \/ RecordSlot(c)
       \/ UndoRole(c) \/ CancelClaim(c) \/ ReleaseName(c) \/ DeleteName(c) \/ ReleaseSlot(c)
       \/ Crash(c) \/ Refuse(c) \/ RefuseUndo(c) \/ Lose(c)
  \/ Tick

Spec == Init /\ [][Next]_vars

-----------------------------------------------------------------------------
(* Properties.                                                             *)

\* Every variable has its type; todo is what is left of a compensation, and the
\* allocator's "no player" never gets as far as a role record (CreateRole).
TypeOK ==
  /\ slots \in [SlotKeys -> Slot \cup {NoSlot}]
  /\ names \in [Names -> Entry \cup {NoEntry}]
  /\ roles \in [PlayerIds -> Role \cup {NoRole}]
  /\ call \in [Callers -> Call]
  /\ \A c \in Callers : call[c].pc \in {"undo", "delete"} <=> call[c].todo # <<>>
  /\ \A c \in Callers : call[c].pc \in {"insert", "commit", "record"} => call[c].player # NoPlayer
  /\ handed \subseteq Role
  /\ clock \in Nat
  /\ faults \in [count: Nat, undone: BOOLEAN]

\* Every variable is well typed, and a role that was handed out is whole and stays
\* whole, whatever other creates, their failures and their compensations do: its record
\* is its account's, its name is committed to the account, and the slot says which role
\* it is.
HandedRolesAreWhole ==
  /\ TypeOK
  /\ \A r \in handed :
       /\ roles[r.player] = r
       /\ names[r.name] # NoEntry
       /\ names[r.name].state = "committed" /\ names[r.name].owner = r.account
       /\ slots[<<r.account, r.server>>] # NoSlot
       /\ slots[<<r.account, r.server>>].player = r.player

\* The roles handed out are those of the atomic registry.
Registry == INSTANCE RoleRegistry WITH registry <- handed

RefinesRegistry == Registry!Spec

\* What somebody still answers for: a create in progress or a role handed out.
Working(c) == call[c].pc # "idle"

SlotIsAnsweredFor(k) ==
  \/ \E r \in handed : <<r.account, r.server>> = k
  \/ \E c \in Callers : Working(c) /\ SlotOf(c) = k

\* A create that fails leaves nothing behind, whoever it raced: no slot that blocks
\* the account, no role record nobody was handed and no name that is taken for good
\* (U-0021 in CreateRole; a reservation that outlives its create lapses).  This is of
\* failures that stop no compensation: no crash, and no failing one.
FailedCreateLeavesNothing ==
  faults.undone =>
    /\ \A k \in SlotKeys : slots[k] # NoSlot => SlotIsAnsweredFor(k)
    /\ \A p \in PlayerIds : roles[p] # NoRole =>
         \/ \E r \in handed : r.player = p
         \/ \E c \in Callers : Working(c) /\ call[c].player = p
    /\ \A n \in Names : names[n] # NoEntry /\ names[n].state = "committed" =>
         \/ \E r \in handed : r.name = n
         \/ \E c \in Callers : Working(c) /\ call[c].name = n
=============================================================================
