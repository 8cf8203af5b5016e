---------------------------- MODULE AccountProofs ----------------------------
(***************************************************************************)
(* service/directory and service/account, which both write directory       *)
(* entries.                                                                *)
(*                                                                         *)
(* The directory, for any keys, owners, tokens and number of calls in      *)
(* progress together: its types, and that a key is free between two        *)
(* owners.  Both rest on one fact about the clock a call has read: it is   *)
(* never ahead of the one the others read.                                 *)
(*                                                                         *)
(* The creates of account, for any accounts, servers, names, ids, callers  *)
(* and faults: first what a step can be, then slots, records, names, and   *)
(* what is left behind.                                                    *)
(***************************************************************************)
EXTENDS Account, Directory, TLAPS

-----------------------------------------------------------------------------
(* The directory.                                                          *)

\* The invariant of every run: types, and no call that will decide on a clock that is
\* ahead.
DirectoryInv ==
  /\ DirectoryTypeOK
  /\ \A c \in Clients : request[c].pc \in {"reserve", "commit"} => request[c].now <= clock

LEMMA CallFields ==
  ASSUME DirectoryTypeOK, NEW c \in Clients
  PROVE  /\ request[c] \in Request
         /\ request[c] = Idle <=> request[c].pc = "idle"
         /\ request[c].pc = "reserve" => request[c] \in [pc: {"reserve"}, claim: Claim, now: Nat]
         /\ request[c].pc = "commit" => request[c] \in [pc: {"commit"}, claim: Claim, now: Nat]
         /\ request[c].pc = "delete" => request[c] \in [pc: {"delete"}, key: Keys, read: Entry]
<1>1. request[c] \in Request
  BY DEF DirectoryTypeOK
<1>2. QED
  BY <1>1 DEF Request, Idle

\* An entry as a store holds it while its clock shows now.
WellFormed(e, now) ==
  /\ e \in Entry
  /\ e.state = "committed" <=> e.expires = 0
  /\ e.expires <= now + Ttl

\* What Reserve and Commit write is an entry.
LEMMA ReservedIsWellFormed ==
  ASSUME NEW e \in Entry \cup {NoEntry}, NEW o \in Owners, NEW t \in Tokens,
         NEW then \in Nat, NEW now \in Nat, then <= now
  PROVE  WellFormed(ReservedEntry(e, o, t, then), now)
<1>1. NextVersion(e) \in Nat \ {0}
  BY DEF NextVersion, Entry
<1>2. then + Ttl \in Nat /\ then + Ttl # 0 /\ then + Ttl <= now + Ttl
  BY EntryAssumption
<1>3. QED
  BY <1>1, <1>2 DEF ReservedEntry, WellFormed, Entry

LEMMA CommittedIsWellFormed ==
  ASSUME NEW now \in Nat, NEW e, WellFormed(e, now)
  PROVE  WellFormed(CommittedEntry(e), now) /\ CommittedEntry(e).owner = e.owner
<1>1. CASE e.state = "committed"
  BY <1>1 DEF CommittedEntry
<1>2. CASE e.state # "committed"
  <2>1. CommittedEntry(e) = [state |-> "committed", owner |-> e.owner, token |-> e.token,
                             expires |-> 0, version |-> e.version + 1]
    BY <1>2 DEF CommittedEntry, WellFormed, Entry
  <2>2. e.version + 1 \in Nat \ {0} /\ 0 <= now + Ttl
    BY EntryAssumption DEF WellFormed, Entry
  <2>3. QED
    BY <2>1, <2>2 DEF WellFormed, Entry
<1>3. QED
  BY <1>1, <1>2

\* A clock that has moved on leaves an entry well formed, and a reservation that had
\* lapsed lapsed.
LEMMA ClockMovesOn ==
  ASSUME NEW then \in Nat, NEW now \in Nat, then <= now,
         NEW e \in Entry \cup {NoEntry}
  PROVE  /\ Free(e, then) => Free(e, now)
         /\ WellFormed(e, then) => WellFormed(e, now)
<1>1. CASE e = NoEntry
  BY <1>1, EntryAssumption DEF Free, WellFormed
<1>2. CASE e \in Entry
  <2>1. e.expires \in Nat
    BY <1>2 DEF Entry
  <2>2. QED
    BY <1>2, <2>1, EntryAssumption DEF Free, Expired, WellFormed
<1>3. QED
  BY <1>1, <1>2

LEMMA EntriesWellFormed ==
  ASSUME DirectoryTypeOK, NEW k \in Keys, entries[k] # NoEntry
  PROVE  WellFormed(entries[k], clock)
BY DEF DirectoryTypeOK, WellFormed

\* Between a step's states, every entry is kept, removed, reserved over a free one, or
\* committed by its token before it lapsed.
LEMMA EntryCases ==
  ASSUME DirectoryInv, [DirectoryNext]_directoryVars, NEW k \in Keys
  PROVE  \/ entries'[k] = entries[k]
         \/ entries'[k] = NoEntry
         \/ \E o \in Owners, t \in Tokens, then \in Nat :
              /\ then <= clock /\ Free(entries[k], then)
              /\ entries'[k] = ReservedEntry(entries[k], o, t, then)
         \/ entries[k] # NoEntry /\ entries'[k] = CommittedEntry(entries[k])
<1>1. ASSUME NEW c \in Clients, Reserve(c), entries'[k] # entries[k]
      PROVE  \E o \in Owners, t \in Tokens, then \in Nat :
               /\ then <= clock /\ Free(entries[k], then)
               /\ entries'[k] = ReservedEntry(entries[k], o, t, then)
  <2>1. /\ request[c].claim \in Claim /\ request[c].now \in Nat /\ request[c].now <= clock
        /\ request[c].pc = "reserve"
    BY <1>1, CallFields DEF Reserve, DirectoryInv
  <2>2. request[c].claim.key = k /\ Free(entries[k], request[c].now)
    BY <1>1, <2>1 DEF Reserve, DirectoryInv, DirectoryTypeOK
  <2>3. entries'[k] = ReservedEntry(entries[k], request[c].claim.owner, request[c].claim.token,
                                    request[c].now)
    BY <1>1, <2>1, <2>2 DEF Reserve, DirectoryInv, DirectoryTypeOK
  <2>4. QED
    BY <2>1, <2>2, <2>3 DEF Claim
<1>2. ASSUME NEW c \in Clients, Commit(c), entries'[k] # entries[k]
      PROVE  entries[k] # NoEntry /\ entries'[k] = CommittedEntry(entries[k])
  BY <1>2 DEF Commit, CommitRefused, DirectoryInv, DirectoryTypeOK
<1>3. ASSUME NEW c \in Clients, Delete(c), entries'[k] # entries[k]
      PROVE  entries'[k] = NoEntry
  BY <1>3 DEF Delete, DirectoryInv, DirectoryTypeOK
<1>4. \/ entries' = entries
      \/ \E c \in Clients : Reserve(c) \/ Commit(c) \/ Delete(c)
  BY DEF DirectoryNext, StartReserve, Release, StartCommit, Cancel, TimePasses, ClockMoves, directoryVars
<1>5. QED
  BY <1>1, <1>2, <1>3, <1>4

LEMMA ClockStep ==
  ASSUME DirectoryInv, [DirectoryNext]_directoryVars
  PROVE  clock \in Nat /\ clock' \in Nat /\ clock <= clock'
<1>1. clock' = clock \/ clock' = clock + 1
  BY DEF DirectoryNext, StartReserve, Release, StartCommit, Cancel, Reserve, Commit, Delete, TimePasses, ClockMoves, directoryVars
<1>2. clock \in Nat
  BY DEF DirectoryInv, DirectoryTypeOK
<1>3. QED
  BY <1>1, <1>2

\* A call that decides later has read a clock that is not ahead.
LEMMA CallStep ==
  ASSUME DirectoryInv, [DirectoryNext]_directoryVars, NEW c \in Clients
  PROVE  /\ request'[c] \in Request
         /\ request'[c].pc \in {"reserve", "commit"} => request'[c].now <= clock'
<1> USE DEF DirectoryInv
<1>1. /\ clock \in Nat /\ clock' \in Nat /\ clock <= clock'
      /\ request[c] \in Request
      /\ request[c].pc \in {"reserve", "commit"} => request[c].now \in Nat /\ request[c].now <= clock
  <2>1. clock \in Nat /\ clock' \in Nat /\ clock <= clock' /\ request[c] \in Request
    BY ClockStep DEF DirectoryTypeOK
  <2>2. request[c].pc \in {"reserve", "commit"} => request[c].now \in Nat /\ request[c].now <= clock
    BY CallFields
  <2>3. QED
    BY <2>1, <2>2
<1>2. CASE request'[c] = request[c]
  BY <1>1, <1>2
<1>3. ASSUME NEW k \in Keys, NEW o \in Owners, NEW t \in Tokens, StartReserve(c, k, o, t)
      PROVE  request'[c] \in [pc: {"reserve"}, claim: Claim, now: Nat] /\ request'[c].now = clock
  BY <1>1, <1>3 DEF StartReserve, Enter, DirectoryTypeOK, Claim
<1>4. ASSUME NEW claim \in claims, StartCommit(c, claim)
      PROVE  request'[c] \in [pc: {"commit"}, claim: Claim, now: Nat] /\ request'[c].now = clock
  BY <1>1, <1>4 DEF StartCommit, Enter, DirectoryTypeOK
<1>5. ASSUME NEW k \in Keys, entries[k] # NoEntry, StartDelete(c, k)
      PROVE  request'[c] \in Request /\ request'[c].pc = "delete"
  BY <1>5 DEF StartDelete, Enter, DirectoryTypeOK, Request
<1>6. CASE Reserve(c) \/ Commit(c) \/ Delete(c)
  BY <1>6 DEF Reserve, Commit, Delete, Answer, DirectoryTypeOK, Request, Idle
<1>7. \/ request'[c] = request[c]
      \/ Reserve(c) \/ Commit(c) \/ Delete(c)
      \/ \E k \in Keys, o \in Owners, t \in Tokens : StartReserve(c, k, o, t)
      \/ \E claim \in claims : StartCommit(c, claim)
      \/ \E k \in Keys : entries[k] # NoEntry /\ StartDelete(c, k)
  <2>1. ASSUME NEW d \in Clients \ {c}, NEW k, NEW o, NEW t, StartReserve(d, k, o, t)
        PROVE  request'[c] = request[c]
    BY <2>1 DEF StartReserve, Enter, DirectoryTypeOK
  <2>2. ASSUME NEW d \in Clients \ {c}, NEW k, NEW o, Release(d, k, o)
        PROVE  request'[c] = request[c]
    BY <2>2 DEF Release, StartDelete, Enter, DirectoryTypeOK
  <2>3. ASSUME NEW d \in Clients \ {c}, NEW claim, StartCommit(d, claim) \/ Cancel(d, claim)
        PROVE  request'[c] = request[c]
    BY <2>3 DEF StartCommit, Cancel, StartDelete, Enter, DirectoryTypeOK
  <2>4. ASSUME NEW d \in Clients \ {c}, Reserve(d) \/ Commit(d) \/ Delete(d)
        PROVE  request'[c] = request[c]
    BY <2>4 DEF Reserve, Commit, Delete, Answer, DirectoryTypeOK
  <2>5. CASE TimePasses \/ UNCHANGED directoryVars
    BY <2>5 DEF TimePasses, ClockMoves, directoryVars
  <2>6. ASSUME NEW k \in Keys, NEW o \in Owners, Release(c, k, o)
        PROVE  entries[k] # NoEntry /\ StartDelete(c, k)
    BY <2>6 DEF Release, Releasable
  <2>7. ASSUME NEW claim \in claims, Cancel(c, claim)
        PROVE  \E k \in Keys : entries[k] # NoEntry /\ StartDelete(c, k)
    BY <2>7 DEF Cancel, Cancellable, DirectoryTypeOK, Claim
  <2>8. QED
    BY <2>1, <2>2, <2>3, <2>4, <2>5, <2>6, <2>7 DEF DirectoryNext
<1>8. Request = {Idle} \cup [pc: {"reserve"}, claim: Claim, now: Nat]
               \cup [pc: {"commit"}, claim: Claim, now: Nat]
               \cup [pc: {"delete"}, key: Keys, read: Entry]
  BY DEF Request
<1>9. QED
  BY <1>1, <1>2, <1>3, <1>4, <1>5, <1>6, <1>7, <1>8

LEMMA DirectoryInvInit == DirectoryInit => DirectoryInv
<1> SUFFICES ASSUME DirectoryInit PROVE DirectoryInv
  OBVIOUS
<1>1. entries \in [Keys -> Entry \cup {NoEntry}] /\ claims \subseteq Claim /\ clock \in Nat
  BY DEF DirectoryInit
<1>2. \A k \in Keys : entries[k] = NoEntry
  BY DEF DirectoryInit
<1>3. Idle \in Request /\ Idle.pc \notin {"reserve", "commit"}
  BY DEF Request, Idle
<1>4. request \in [Clients -> Request] /\ \A c \in Clients : request[c] = Idle
  BY <1>3 DEF DirectoryInit
<1>5. QED
  BY <1>1, <1>2, <1>3, <1>4 DEF DirectoryInv, DirectoryTypeOK

LEMMA DirectoryInvNext ==
  ASSUME DirectoryInv, [DirectoryNext]_directoryVars
  PROVE  DirectoryInv'
<1>1. clock \in Nat /\ clock' \in Nat /\ clock <= clock'
  BY ClockStep
<1>2. ASSUME NEW k \in Keys
      PROVE  entries'[k] = NoEntry \/ WellFormed(entries'[k], clock')
  <2>1. entries[k] \in Entry \cup {NoEntry}
    BY DEF DirectoryInv, DirectoryTypeOK
  <2>2. CASE entries'[k] = entries[k]
    BY <1>1, <2>1, <2>2, ClockMovesOn, EntriesWellFormed DEF DirectoryInv
  <2>3. ASSUME NEW o \in Owners, NEW t \in Tokens, NEW then \in Nat, then <= clock,
               entries'[k] = ReservedEntry(entries[k], o, t, then)
        PROVE  WellFormed(entries'[k], clock')
    BY <1>1, <2>1, <2>3, ReservedIsWellFormed
  <2>4. CASE entries[k] # NoEntry /\ entries'[k] = CommittedEntry(entries[k])
    <3>1. WellFormed(entries[k], clock')
      BY <1>1, <2>1, <2>4, ClockMovesOn, EntriesWellFormed DEF DirectoryInv
    <3>2. QED
      BY <1>1, <2>4, <3>1, CommittedIsWellFormed
  <2>5. QED
    BY <2>2, <2>3, <2>4, EntryCases
<1>3. DOMAIN entries' = Keys /\ entries' = [k \in Keys |-> entries'[k]]
  BY DEF DirectoryNext, StartReserve, Release, StartCommit, Cancel, Reserve, Commit, Delete, TimePasses, ClockMoves, directoryVars,
     DirectoryInv, DirectoryTypeOK
<1>4. entries' \in [Keys -> Entry \cup {NoEntry}]
  BY <1>2, <1>3 DEF WellFormed
<1>5. claims' \subseteq Claim
  <2>1. claims' = claims \/ \E c \in Clients : Reserve(c)
    BY DEF DirectoryNext, StartReserve, Release, StartCommit, Cancel, Commit, Delete, TimePasses, ClockMoves, directoryVars
  <2>2. ASSUME NEW c \in Clients, Reserve(c)
        PROVE  claims' \subseteq claims \cup {request[c].claim} /\ request[c].claim \in Claim
    BY <2>2, CallFields DEF Reserve, DirectoryInv
  <2>3. QED
    BY <2>1, <2>2 DEF DirectoryInv, DirectoryTypeOK
<1>6. request' = [c \in Clients |-> request'[c]]
  BY DEF DirectoryNext, StartReserve, Release, StartCommit, Cancel, Reserve, Commit, Delete, TimePasses, ClockMoves, directoryVars,
     StartDelete, Enter, Answer, DirectoryInv, DirectoryTypeOK
<1>7. request' \in [Clients -> Request]
  BY <1>6, CallStep
<1>8. DirectoryTypeOK'
  BY <1>1, <1>2, <1>4, <1>5, <1>7 DEF DirectoryTypeOK, WellFormed
<1>9. QED
  BY <1>8, CallStep DEF DirectoryInv

LEMMA DirectoryInvAlways == DirectorySpec => []DirectoryInv
<1>1. DirectoryInv /\ [DirectoryNext]_directoryVars => DirectoryInv'
  BY DirectoryInvNext
<1>2. QED
  BY <1>1, DirectoryInvInit, PTL DEF DirectorySpec

\* For any keys, owners, tokens and calls: every entry the store ever holds is well
\* formed, and no reservation is further off than its time to live (Reserve, Commit).
THEOREM DirectoryTypeCorrect == DirectorySpec => []DirectoryTypeOK
<1>1. DirectoryInv => DirectoryTypeOK
  BY DEF DirectoryInv
<1>2. QED
  BY <1>1, DirectoryInvAlways, PTL

\* A call that reserves has seen the key free on a clock that is not ahead, so it is
\* free; one that commits keeps its owner; and a key that is deleted is free.
LEMMA HolderStep ==
  ASSUME DirectoryInv, DirectoryInv', [DirectoryNext]_directoryVars, NEW k \in Keys, Holder(k) # NoEntry
  PROVE  Holder(k)' \in {Holder(k), NoEntry}
<1>1. /\ clock \in Nat /\ entries[k] \in Entry \cup {NoEntry}
      /\ ~Free(entries[k], clock) /\ Holder(k) = entries[k].owner /\ entries[k] # NoEntry
  BY DEF Holder, Free, DirectoryInv, DirectoryTypeOK
<1>2. Holder(k)' = NoEntry \/ Holder(k)' = entries'[k].owner
  BY DEF Holder
<1>3. CASE entries'[k] = entries[k]
  BY <1>1, <1>2, <1>3
<1>4. CASE entries'[k] = NoEntry
  BY <1>4 DEF Holder, Free
<1>5. ASSUME NEW then \in Nat, then <= clock, Free(entries[k], then)
      PROVE  FALSE
  BY <1>1, <1>5, ClockMovesOn
<1>6. CASE entries'[k] = CommittedEntry(entries[k])
  <2>1. WellFormed(entries[k], clock)
    BY <1>1, EntriesWellFormed DEF DirectoryInv
  <2>2. entries'[k].owner = entries[k].owner
    BY <1>1, <1>6, <2>1, CommittedIsWellFormed
  <2>3. QED
    BY <1>1, <1>2, <2>2
<1>7. QED
  BY <1>3, <1>4, <1>5, <1>6, EntryCases

\* Whoever calls, on whatever clock it has read, a key never passes from one owner to
\* another without having been free.
THEOREM KeysAlwaysPassThroughFree == DirectorySpec => KeysPassThroughFree
<1>1. ASSUME DirectoryInv, DirectoryInv', [DirectoryNext]_directoryVars
      PROVE  [\A k \in Keys : Holder(k) # NoEntry => Holder(k)' \in {Holder(k), NoEntry}]_directoryVars
  BY <1>1, HolderStep
<1>2. QED
  BY <1>1, DirectoryInvAlways, PTL DEF DirectorySpec, KeysPassThroughFree

-----------------------------------------------------------------------------
(* Creates: what one answers for, and where it can be.                     *)

\* What may be left of a compensation.
Todos == {<<"slot">>, <<"claim", "slot">>, <<"role", "claim", "slot">>, <<"role", "slot">>,
          <<"name", "role", "slot">>}

\* A create answers for the role record it inserted, and for the name it committed,
\* until it has handed them out or undone them.
OwesRole(k) ==
  \/ k.pc \in {"commit", "record"}
  \/ k.todo \in {<<"role", "claim", "slot">>, <<"role", "slot">>, <<"name", "role", "slot">>}
OwesName(k) == k.pc = "record" \/ k.todo = <<"name", "role", "slot">>

\* How far a create can be.
Shape(k) ==
  /\ k.pc \in {"undo", "delete"} => k.todo \in Todos
  /\ k.pc \notin {"undo", "delete"} => k.todo = <<>>
  /\ k.pc = "delete" => k.todo \in {<<"claim", "slot">>, <<"name", "role", "slot">>}
  /\ k.pc = "idle" <=> k = IdleCall
  /\ k.pc # "idle" => k.token # NoToken
  /\ OwesRole(k) \/ k.pc = "insert" => k.player # NoPlayer

\* What is left of a compensation tells it from the others.
LEMMA TodosDiffer ==
  /\ Todos \subseteq Seq(Undoings) /\ <<>> \notin Todos
  /\ <<"slot">> \notin {<<"claim", "slot">>, <<"role", "claim", "slot">>, <<"role", "slot">>,
                        <<"name", "role", "slot">>}
  /\ <<"claim", "slot">> \notin {<<"role", "claim", "slot">>, <<"role", "slot">>, <<"name", "role", "slot">>}
  /\ <<"role", "claim", "slot">> \notin {<<"role", "slot">>, <<"name", "role", "slot">>}
  /\ <<"role", "slot">> # <<"name", "role", "slot">>
BY DEF Todos, Undoings

\* What is left of each after one step more.
LEMMA TailFacts ==
  /\ Tail(<<"slot">>) = <<>>
  /\ Tail(<<"claim", "slot">>) = <<"slot">>
  /\ Tail(<<"role", "slot">>) = <<"slot">>
  /\ Tail(<<"role", "claim", "slot">>) = <<"claim", "slot">>
  /\ Tail(<<"name", "role", "slot">>) = <<"role", "slot">>
OBVIOUS

\* The step each is at.
LEMMA HeadFacts ==
  /\ Head(<<"slot">>) = "slot"
  /\ Head(<<"claim", "slot">>) = "claim"
  /\ Head(<<"role", "slot">>) = "role"
  /\ Head(<<"role", "claim", "slot">>) = "role"
  /\ Head(<<"name", "role", "slot">>) = "name"
OBVIOUS

\* A create after a failed access, and after a step of its compensation.
Failed(k) == [k EXCEPT !.pc = "undo", !.todo = Compensation(k.pc)]
After(k) == IF Tail(k.todo) = <<>> THEN IdleCall ELSE [k EXCEPT !.pc = "undo", !.todo = Tail(k.todo)]

\* The same create goes on.
Same(k, l) == l.account = k.account /\ l.server = k.server /\ l.name = k.name /\ l.token = k.token

\* A create that fails still answers for what it answered for.
LEMMA FailedCall ==
  ASSUME NEW k \in Call, Shape(k), k.pc \in {"reserve", "allocate", "insert", "commit", "record"}
  PROVE  LET l == Failed(k) IN
         /\ l \in Call /\ Shape(l) /\ Same(k, l) /\ l.player = k.player /\ l.now = k.now /\ l.pc = "undo"
         /\ OwesRole(l) <=> OwesRole(k)
         /\ OwesName(l) <=> OwesName(k)
BY TodosDiffer DEF Failed, Call, Shape, Same, OwesRole, OwesName, Compensation, IdleCall, Todos

\* One step back a create is further on in its compensation, or over; it answers for no
\* name any more, and for a role only if that is still to be undone.
LEMMA AfterCall ==
  ASSUME NEW k \in Call, Shape(k), k.pc \in {"undo", "delete"}
  PROVE  LET l == After(k) IN
         /\ k.todo = <<"slot">> => l = IdleCall
         /\ k.todo # <<"slot">> =>
              /\ l \in Call /\ Shape(l) /\ Same(k, l) /\ l.player = k.player /\ l.now = k.now /\ l.pc = "undo"
              /\ OwesRole(l) <=> OwesRole(k) /\ Head(k.todo) # "role"
              /\ ~OwesName(l)
BY TodosDiffer, TailFacts, HeadFacts
   DEF After, Call, Shape, Same, OwesRole, OwesName, Compensation, IdleCall, Todos

-----------------------------------------------------------------------------
(* The steps of a create by what they write.                               *)

\* Types, and how far each create can be on a clock it has read.
CallInv ==
  /\ TypeOK
  /\ \A c \in Callers : Shape(call[c]) /\ call[c].now <= clock

\* What a create's own moves leave alone.
Stores == <<slots, names, roles, handed, clock>>
MovesTo(c, k) == call' = [call EXCEPT ![c] = k]

\* A write takes effect, and the create goes on to k or takes its lost answer for a
\* failure.
WritesAndMovesTo(c, k) ==
  \/ MovesTo(c, k) /\ UNCHANGED faults
  \/ MovesTo(c, Failed(call[c])) /\ UNCHANGED handed /\ ~faults'.undone

\* Forward: a claim of a free name, or the claim the account has already.
Takes(c) ==
  LET k == call[c] IN
  /\ k.pc = "reserve" /\ Free(names[k.name], k.now)
  /\ names' = [names EXCEPT ![k.name] = ReservedEntry(names[k.name], k.account, k.token, k.now)]
  /\ WritesAndMovesTo(c, [k EXCEPT !.pc = "allocate"])
  /\ UNCHANGED <<slots, roles, handed, clock>>

Adopts(c) ==
  LET k == call[c]
      e == names[k.name]
  IN
  /\ k.pc = "reserve" /\ ~Free(e, k.now) /\ e.owner = k.account
  /\ MovesTo(c, [k EXCEPT !.pc = "allocate", !.token = e.token])
  /\ UNCHANGED <<Stores, faults>>

Allocates(c) ==
  /\ call[c].pc = "allocate"
  /\ \E p \in PlayerIds : MovesTo(c, [call[c] EXCEPT !.pc = "insert", !.player = p])
  /\ UNCHANGED <<Stores, faults>>

Inserts(c) ==
  LET k == call[c] IN
  /\ k.pc = "insert" /\ roles[k.player] = NoRole
  /\ roles' = [roles EXCEPT ![k.player] = RoleOf(c)]
  /\ WritesAndMovesTo(c, [k EXCEPT !.pc = "commit", !.now = clock])
  /\ UNCHANGED <<slots, names, handed, clock>>

Commits(c) ==
  LET k == call[c] IN
  /\ k.pc = "commit" /\ ~CommitRefused(names[k.name], k.token, k.now)
  /\ names' = [names EXCEPT ![k.name] = CommittedEntry(@)]
  /\ WritesAndMovesTo(c, [k EXCEPT !.pc = "record"])
  /\ UNCHANGED <<slots, roles, handed, clock>>

Records(c) ==
  /\ call[c].pc = "record" /\ slots[SlotOf(c)] # NoSlot
  /\ slots' = [slots EXCEPT ![SlotOf(c)] = [player |-> call[c].player, version |-> @.version + 1]]
  /\ \/ handed' = handed \cup {RoleOf(c)} /\ MovesTo(c, IdleCall) /\ UNCHANGED faults
     \/ UNCHANGED handed /\ MovesTo(c, Failed(call[c])) /\ ~faults'.undone
  /\ UNCHANGED <<names, roles, clock>>

\* An access fails without effect.
Fails(c) ==
  /\ call[c].pc \in {"reserve", "allocate", "insert", "commit", "record"}
  /\ MovesTo(c, Failed(call[c]))
  /\ UNCHANGED Stores

\* A compensation.
Deletes(c) == DeleteName(c) /\ MovesTo(c, After(call[c]))
UndoesRole(c) == UndoRole(c) /\ MovesTo(c, After(call[c]))
Releases(c) == ReleaseSlot(c) /\ MovesTo(c, After(call[c]))

ReadsToDelete(c) ==
  LET k == call[c]
      e == names[k.name]
  IN
  /\ k.pc = "undo"
  /\ \/ k.todo = <<"claim", "slot">> /\ Cancellable(e, k.token)
     \/ k.todo = <<"name", "role", "slot">> /\ Releasable(e, k.account)
  /\ MovesTo(c, [k EXCEPT !.pc = "delete", !.read = e.version])
  /\ UNCHANGED <<Stores, faults>>

\* A compensation that has nothing to undo, or fails.
Skips(c) ==
  LET k == call[c]
      e == names[k.name]
  IN
  /\ k.pc \in {"undo", "delete"}
  /\ \/ ~faults'.undone
     \/ k.todo = <<"claim", "slot">>
     \/ k.todo = <<"name", "role", "slot">> /\ ~Releasable(e, k.account)
  /\ MovesTo(c, After(k))
  /\ UNCHANGED Stores

\* The process stops in the middle of a create.
Crashes(c) ==
  /\ call[c].pc # "idle"
  /\ MovesTo(c, IdleCall)
  /\ ~faults'.undone
  /\ UNCHANGED Stores

\* A create wins the slot.
Enters(c) == \E a \in Accounts, s \in Servers, n \in Names, t \in Tokens : ClaimSlot(c, a, s, n, t)

\* Whatever a caller does is one of these; what else happens writes no store.
StepOf(c) ==
  \/ Enters(c)
  \/ Takes(c) \/ Adopts(c) \/ Allocates(c) \/ Inserts(c) \/ Commits(c) \/ Records(c)
  \/ Fails(c) \/ Crashes(c)
  \/ UndoesRole(c) \/ ReadsToDelete(c) \/ Deletes(c) \/ Releases(c) \/ Skips(c)

Waits == UNCHANGED <<slots, names, roles, call, handed, faults>> /\ (UNCHANGED clock \/ Tick)

\* Which store access each step is.
LEMMA PlaceOfStep ==
  ASSUME NEW c \in Callers
  PROVE  /\ Enters(c) => call[c].pc = "idle"
         /\ Takes(c) \/ Adopts(c) => call[c].pc = "reserve"
         /\ Allocates(c) => call[c].pc = "allocate"
         /\ Inserts(c) => call[c].pc = "insert"
         /\ Commits(c) => call[c].pc = "commit"
         /\ Records(c) => call[c].pc = "record"
         /\ Fails(c) => call[c].pc \in {"reserve", "allocate", "insert", "commit", "record"}
         /\ UndoesRole(c) \/ Releases(c) \/ ReadsToDelete(c) => call[c].pc = "undo"
         /\ Deletes(c) => call[c].pc = "delete"
         /\ Skips(c) => call[c].pc \in {"undo", "delete"}
         /\ Crashes(c) => call[c].pc # "idle" /\ ~faults'.undone
BY DEF Enters, ClaimSlot, Takes, Adopts, Allocates, Inserts, Commits, Records, Fails, UndoesRole, UndoRole,
   Releases, ReleaseSlot, ReadsToDelete, Deletes, DeleteName, Skips, Crashes, Undoing

\* Which store each step writes.
LEMMA FrameOfStep ==
  ASSUME NEW c \in Callers, StepOf(c)
  PROVE  /\ clock' = clock
         /\ slots' = slots \/ Enters(c) \/ Records(c) \/ Releases(c)
         /\ names' = names \/ Takes(c) \/ Commits(c) \/ Deletes(c)
         /\ roles' = roles \/ Inserts(c) \/ UndoesRole(c)
         /\ handed' = handed \/ (Records(c) /\ handed' = handed \cup {RoleOf(c)})
         /\ handed \subseteq handed'
<1>1. CASE Takes(c) \/ Inserts(c) \/ Commits(c) \/ Records(c)
  BY <1>1 DEF Takes, Inserts, Commits, Records, WritesAndMovesTo
<1>2. CASE Enters(c) \/ Adopts(c) \/ Allocates(c) \/ Fails(c) \/ Crashes(c) \/ ReadsToDelete(c) \/ Skips(c)
  BY <1>2 DEF Enters, ClaimSlot, Adopts, Allocates, Fails, Crashes, ReadsToDelete, Skips, Stores
<1>3. CASE UndoesRole(c) \/ Deletes(c) \/ Releases(c)
  BY <1>3 DEF UndoesRole, UndoRole, Deletes, DeleteName, Releases, ReleaseSlot
<1>4. QED
  BY <1>1, <1>2, <1>3 DEF StepOf

\* What a create's fields range over.
LEMMA Fields ==
  ASSUME CallInv, NEW c \in Callers
  PROVE  /\ call[c] \in Call /\ Shape(call[c]) /\ call[c].now <= clock
         /\ call[c].account \in Accounts /\ call[c].server \in Servers /\ call[c].name \in Names
         /\ call[c].now \in Nat /\ clock \in Nat
         /\ SlotOf(c) \in SlotKeys
         /\ names[call[c].name] \in Entry \cup {NoEntry}
         /\ slots[SlotOf(c)] \in Slot \cup {NoSlot}
BY DEF CallInv, TypeOK, Call, SlotOf, SlotKeys

\* Fail and Undone in terms of the create.
LEMMA FailMoves ==
  ASSUME CallInv, NEW c \in Callers, Fail(c)
  PROVE  MovesTo(c, Failed(call[c]))
<1>1. call \in [Callers -> Call]
  BY DEF CallInv, TypeOK
<1>2. QED
  BY <1>1 DEF Fail, Undo, MovesTo, Failed, Call

LEMMA UndoneMoves ==
  ASSUME CallInv, NEW c \in Callers, Undone(c)
  PROVE  MovesTo(c, After(call[c]))
<1>1. call \in [Callers -> Call]
  BY DEF CallInv, TypeOK
<1>2. QED
  BY <1>1 DEF Undone, Undo, Return, MovesTo, After, Call

\* The step a compensation is at says what is left of it.
LEMMA HeadOfTodo ==
  ASSUME CallInv, NEW c \in Callers
  PROVE  /\ Undoing(c, "claim") => call[c].todo = <<"claim", "slot">>
         /\ Undoing(c, "name") => call[c].todo = <<"name", "role", "slot">>
         /\ Undoing(c, "slot") => call[c].todo = <<"slot">>
         /\ Undoing(c, "role") => call[c].todo \in {<<"role", "claim", "slot">>, <<"role", "slot">>}
BY Fields, HeadFacts DEF Undoing, Shape, Todos

\* Every step is one of these.
LEMMA StepCases ==
  ASSUME CallInv, [Next]_vars
  PROVE  Waits \/ \E c \in Callers : StepOf(c)
<1> USE DEF Stores
<1>0. call \in [Callers -> Call]
  BY DEF CallInv, TypeOK
<1>1. ASSUME NEW c \in Callers, ReserveName(c)
      PROVE  Takes(c) \/ Adopts(c) \/ Fails(c)
  BY <1>0, <1>1, FailMoves DEF ReserveName, Takes, Adopts, Fails, WritesAndMovesTo, MovesTo, Call
<1>2. ASSUME NEW c \in Callers, NEW p \in PlayerIds \cup {NoPlayer}, Allocate(c, p)
      PROVE  Allocates(c) \/ Fails(c)
  BY <1>0, <1>2, FailMoves DEF Allocate, Allocates, Fails, MovesTo, Call
<1>3. ASSUME NEW c \in Callers, InsertRole(c)
      PROVE  Inserts(c) \/ Fails(c)
  BY <1>0, <1>3, FailMoves DEF InsertRole, Inserts, Fails, WritesAndMovesTo, MovesTo, Call
<1>4. ASSUME NEW c \in Callers, CommitName(c)
      PROVE  Commits(c) \/ Fails(c)
  BY <1>0, <1>4, FailMoves DEF CommitName, Commits, Fails, WritesAndMovesTo, MovesTo, Call
<1>5. ASSUME NEW c \in Callers, RecordSlot(c)
      PROVE  Records(c) \/ Fails(c)
  BY <1>5, FailMoves DEF RecordSlot, Records, Fails, MovesTo, Return
<1>6. ASSUME NEW c \in Callers, CancelClaim(c)
      PROVE  ReadsToDelete(c) \/ Skips(c)
  BY <1>0, <1>6, UndoneMoves, HeadOfTodo
     DEF CancelClaim, ReadsToDelete, ReadToDelete, Skips, MovesTo, Undoing, Call
<1>7. ASSUME NEW c \in Callers, ReleaseName(c)
      PROVE  ReadsToDelete(c) \/ Skips(c)
  BY <1>0, <1>7, UndoneMoves, HeadOfTodo
     DEF ReleaseName, ReadsToDelete, ReadToDelete, Skips, MovesTo, Undoing, Call
<1>8. ASSUME NEW c \in Callers, UndoRole(c) \/ DeleteName(c) \/ ReleaseSlot(c)
      PROVE  UndoesRole(c) \/ Deletes(c) \/ Releases(c)
  BY <1>8, UndoneMoves DEF UndoesRole, Deletes, Releases, UndoRole, DeleteName, ReleaseSlot
<1>9. ASSUME NEW c \in Callers, Crash(c)
      PROVE  Crashes(c)
  BY <1>9 DEF Crash, Crashes, Fault, Return, MovesTo
<1>10. ASSUME NEW c \in Callers, Refuse(c)
       PROVE  Fails(c)
  BY <1>10, FailMoves DEF Refuse, Fails
<1>11. ASSUME NEW c \in Callers, RefuseUndo(c)
       PROVE  Skips(c)
  BY <1>11, UndoneMoves DEF RefuseUndo, Skips, Fault
<1>12. ASSUME NEW c \in Callers, Lose(c)
       PROVE  Takes(c) \/ Inserts(c) \/ Commits(c) \/ Records(c)
  <2>1. ~faults'.undone /\ MovesTo(c, Failed(call[c])) /\ UNCHANGED <<handed, clock>>
    BY <1>12, FailMoves DEF Lose, Fault
  <2>2. QED
    BY <1>12, <2>1 DEF Lose, Takes, Inserts, Commits, Records, WritesAndMovesTo
<1>13. CASE UNCHANGED vars \/ Tick \/ \E c \in Callers, a \in Accounts, s \in Servers : RoleLimit(c, a, s)
  BY <1>13 DEF Waits, Tick, RoleLimit, vars
<1>14. QED
  BY <1>1, <1>2, <1>3, <1>4, <1>5, <1>6, <1>7, <1>8, <1>9, <1>10, <1>11, <1>12, <1>13
     DEF Next, StepOf, Enters

\* A fault that stopped a compensation is never forgotten; the clock never goes back.
LEMMA FaultsStep ==
  ASSUME CallInv, [Next]_vars
  PROVE  /\ faults' \in [count: Nat, undone: BOOLEAN]
         /\ faults'.undone => faults.undone
         /\ clock' \in Nat /\ clock <= clock'
<1>1. faults \in [count: Nat, undone: BOOLEAN] /\ clock \in Nat
  BY DEF CallInv, TypeOK
<1>2. clock' = clock \/ clock' = clock + 1
  BY DEF Next, ClaimSlot, RoleLimit, ReserveName, Allocate, InsertRole, CommitName, RecordSlot,
     UndoRole, CancelClaim, ReleaseName, DeleteName, ReleaseSlot, Crash, Refuse, RefuseUndo, Lose,
     Tick, ClockMoves, vars
<1>3. faults' = faults \/ \E kind \in FaultKinds : Fault(kind)
  BY DEF Next, ClaimSlot, RoleLimit, ReserveName, Allocate, InsertRole, CommitName, RecordSlot,
     UndoRole, CancelClaim, ReleaseName, DeleteName, ReleaseSlot, Crash, Refuse, RefuseUndo, Lose,
     Tick, vars, Fault
<1>4. ASSUME NEW kind, Fault(kind)
      PROVE  /\ faults' \in [count: Nat, undone: BOOLEAN]
             /\ faults'.undone => faults.undone
  <2>1. (faults.undone /\ kind = "refuse") \in BOOLEAN /\ faults.count + 1 \in Nat
    BY <1>1
  <2>2. faults' = [count |-> faults.count + 1, undone |-> (faults.undone /\ kind = "refuse")]
    BY <1>4 DEF Fault
  <2>3. QED
    BY <2>1, <2>2
<1>5. QED
  BY <1>1, <1>2, <1>3, <1>4

\* What becomes of the create that steps.
LEMMA IdleShape == IdleCall \in Call /\ Shape(IdleCall) /\ IdleCall.pc = "idle" /\ IdleCall.now = 0
BY AccountAssumption DEF IdleCall, Call, Shape, OwesRole, Accounts

\* A caller without a create answers for nothing.
LEMMA IdleOwesNothing == ~OwesRole(IdleCall) /\ ~OwesName(IdleCall)
<1>1. IdleCall.pc = "idle" /\ IdleCall.todo = <<>>
  BY DEF IdleCall
<1>2. <<>> \notin {<<"role", "claim", "slot">>, <<"role", "slot">>, <<"name", "role", "slot">>}
  OBVIOUS
<1>3. QED
  BY <1>1, <1>2 DEF OwesRole, OwesName

\* A move is of one caller.
LEMMA MovedCall ==
  ASSUME CallInv, NEW c \in Callers, NEW k, MovesTo(c, k)
  PROVE  call'[c] = k /\ \A d \in Callers : d # c => call'[d] = call[d]
BY DEF MovesTo, CallInv, TypeOK

\* A step leaves its create where creates can be.
LEMMA StepKeepsShape ==
  ASSUME CallInv, NEW c \in Callers, StepOf(c)
  PROVE  /\ call'[c] \in Call /\ Shape(call'[c]) /\ call'[c].now <= clock
         /\ \A d \in Callers : d # c => call'[d] = call[d]
         /\ call' \in [Callers -> Call]
<1>0. /\ call \in [Callers -> Call] /\ call[c] \in Call /\ Shape(call[c])
      /\ call[c].now <= clock /\ clock \in Nat /\ call[c].now \in Nat
      /\ names[call[c].name] \in Entry \cup {NoEntry}
  BY Fields DEF CallInv, TypeOK
<1>1. ASSUME NEW k \in Call, Shape(k), k.now <= clock, MovesTo(c, k)
      PROVE  /\ call'[c] \in Call /\ Shape(call'[c]) /\ call'[c].now <= clock
             /\ \A d \in Callers : d # c => call'[d] = call[d]
             /\ call' \in [Callers -> Call]
  BY <1>0, <1>1, MovedCall DEF MovesTo
<1>2. CASE MovesTo(c, IdleCall)
  BY <1>0, <1>1, <1>2, IdleShape
<1>3. CASE MovesTo(c, Failed(call[c])) /\ call[c].pc \in {"reserve", "allocate", "insert", "commit", "record"}
  BY <1>0, <1>1, <1>3, FailedCall
<1>4. CASE MovesTo(c, After(call[c])) /\ call[c].pc \in {"undo", "delete"}
  <2>1. CASE call[c].todo = <<"slot">>
    BY <1>0, <1>2, <1>4, <2>1, AfterCall
  <2>2. CASE call[c].todo # <<"slot">>
    BY <1>0, <1>1, <1>4, <2>2, AfterCall
  <2>3. QED
    BY <2>1, <2>2
<1>5. ASSUME Enters(c)
      PROVE  \E k \in Call : Shape(k) /\ k.now <= clock /\ MovesTo(c, k)
  <2>1. PICK a \in Accounts, t \in Servers, n \in Names, u \in Tokens : ClaimSlot(c, a, t, n, u)
    BY <1>5 DEF Enters
  <2> DEFINE k == [IdleCall EXCEPT !.pc = "reserve", !.account = a, !.server = t, !.name = n,
                                   !.token = u, !.now = clock]
  <2>2. MovesTo(c, k)
    BY <2>1 DEF ClaimSlot, MovesTo
  <2>3. k \in Call /\ k.now <= clock
    <3>1. clock \in Nat /\ clock <= clock
      BY <1>0
    <3>2. k.now = clock /\ k \in Call
      BY <3>1, IdleShape DEF Call
    <3>3. QED
      BY <3>1, <3>2
  <2>4. Shape(k)
    <3>1. k.pc = "reserve" /\ k.todo = <<>> /\ k.token # NoToken /\ k # IdleCall
      BY IdleShape, AccountAssumption DEF IdleCall
    <3>2. ~OwesRole(k)
      BY <3>1, TodosDiffer DEF OwesRole, Todos
    <3>3. QED
      BY <3>1, <3>2 DEF Shape
  <2>5. QED
    BY <2>2, <2>3, <2>4
<1>6. ASSUME call[c].pc = "reserve"
      PROVE  LET k == [call[c] EXCEPT !.pc = "allocate"] IN
             k \in Call /\ Shape(k) /\ k.now <= clock
  BY <1>0, <1>6 DEF Call, Shape, OwesRole, IdleCall
<1>7. ASSUME call[c].pc = "reserve", NEW e \in Entry
      PROVE  LET k == [call[c] EXCEPT !.pc = "allocate", !.token = e.token] IN
             k \in Call /\ Shape(k) /\ k.now <= clock
  BY <1>0, <1>7, AccountAssumption DEF Call, Shape, OwesRole, IdleCall, Entry
<1>8. ASSUME call[c].pc = "allocate", NEW p \in PlayerIds
      PROVE  LET k == [call[c] EXCEPT !.pc = "insert", !.player = p] IN
             k \in Call /\ Shape(k) /\ k.now <= clock
  BY <1>0, <1>8, AccountAssumption DEF Call, Shape, OwesRole, IdleCall
<1>9. ASSUME call[c].pc = "insert"
      PROVE  LET k == [call[c] EXCEPT !.pc = "commit", !.now = clock] IN
             k \in Call /\ Shape(k) /\ k.now <= clock
  <2>1. call[c].player # NoPlayer /\ call[c].token # NoToken /\ call[c].todo = <<>>
    BY <1>0, <1>9 DEF Shape
  <2> DEFINE k == [call[c] EXCEPT !.pc = "commit", !.now = clock]
  <2>2. k \in Call /\ k.now = clock /\ k.pc = "commit" /\ k.todo = <<>>
    BY <1>0, <2>1 DEF Call
  <2>3. k.player # NoPlayer /\ k.token # NoToken /\ k # IdleCall
    BY <1>0, <2>1, <2>2, IdleShape DEF Call
  <2>4. QED
    BY <1>0, <2>2, <2>3 DEF Shape
<1>10. ASSUME call[c].pc = "commit"
       PROVE  LET k == [call[c] EXCEPT !.pc = "record"] IN
              k \in Call /\ Shape(k) /\ k.now <= clock
  BY <1>0, <1>10 DEF Call, Shape, OwesRole, IdleCall
<1>11. ASSUME call[c].pc = "undo", call[c].todo \in {<<"claim", "slot">>, <<"name", "role", "slot">>},
              NEW e \in Entry
       PROVE  LET k == [call[c] EXCEPT !.pc = "delete", !.read = e.version] IN
              k \in Call /\ Shape(k) /\ k.now <= clock
  BY <1>0, <1>11 DEF Call, Shape, OwesRole, IdleCall, Entry
<1>12. CASE Takes(c)
  BY <1>1, <1>3, <1>6, <1>12 DEF Takes, WritesAndMovesTo
<1>13. CASE Adopts(c)
  BY <1>0, <1>1, <1>7, <1>13 DEF Adopts, Free
<1>14. CASE Allocates(c)
  BY <1>1, <1>8, <1>14 DEF Allocates
<1>15. CASE Inserts(c)
  BY <1>1, <1>3, <1>9, <1>15 DEF Inserts, WritesAndMovesTo
<1>16. CASE Commits(c)
  BY <1>1, <1>3, <1>10, <1>16 DEF Commits, WritesAndMovesTo
<1>17. CASE Records(c) \/ Fails(c) \/ Crashes(c)
  BY <1>2, <1>3, <1>17 DEF Records, Fails, Crashes
<1>18. CASE UndoesRole(c) \/ Deletes(c) \/ Releases(c) \/ Skips(c)
  BY <1>4, <1>18 DEF UndoesRole, Deletes, Releases, Skips, UndoRole, DeleteName, ReleaseSlot, Undoing
<1>19. CASE ReadsToDelete(c)
  BY <1>0, <1>1, <1>11, <1>19 DEF ReadsToDelete, Cancellable, Releasable
<1>20. QED
  BY <1>1, <1>5, <1>12, <1>13, <1>14, <1>15, <1>16, <1>17, <1>18, <1>19 DEF StepOf

\* What Reserve and Commit write.
LEMMA WrittenEntries ==
  /\ \A e \in Entry \cup {NoEntry}, o \in Owners, t \in Tokens, now \in Nat :
       LET f == ReservedEntry(e, o, t, now) IN
       /\ f \in Entry /\ f # NoEntry /\ f.state = "reserved" /\ f.owner = o /\ f.token = t
       /\ f.expires = now + Ttl
  /\ \A e \in Entry :
       LET f == CommittedEntry(e) IN
       /\ f \in Entry /\ f # NoEntry /\ f.state = "committed" /\ f.owner = e.owner /\ f.token = e.token
       /\ e.state = "committed" => f = e
<1>1. ASSUME NEW e \in Entry \cup {NoEntry}, NEW now \in Nat
      PROVE  NextVersion(e) \in Nat \ {0} /\ now + Ttl \in Nat
  BY EntryAssumption DEF NextVersion, Entry
<1>2. ASSUME NEW e \in Entry \cup {NoEntry}, NEW o \in Owners, NEW t \in Tokens, NEW now \in Nat
      PROVE  LET f == ReservedEntry(e, o, t, now) IN
             /\ f \in Entry /\ f # NoEntry /\ f.state = "reserved" /\ f.owner = o /\ f.token = t
             /\ f.expires = now + Ttl
  BY <1>1, EntryAssumption DEF ReservedEntry, Entry
<1>3. ASSUME NEW e \in Entry
      PROVE  LET f == CommittedEntry(e) IN
             /\ f \in Entry /\ f # NoEntry /\ f.state = "committed" /\ f.owner = e.owner /\ f.token = e.token
             /\ e.state = "committed" => f = e
  <2>1. CASE e.state = "committed"
    BY <2>1, EntryAssumption DEF CommittedEntry
  <2>2. CASE e.state # "committed"
    <3>1. CommittedEntry(e) = [state |-> "committed", owner |-> e.owner, token |-> e.token,
                               expires |-> 0, version |-> e.version + 1]
      BY <2>2 DEF CommittedEntry, Entry
    <3>2. e.version + 1 \in Nat \ {0}
      BY DEF Entry
    <3>3. QED
      BY <2>2, <3>1, <3>2, EntryAssumption DEF Entry
  <2>3. QED
    BY <2>1, <2>2
<1>4. QED
  BY <1>2, <1>3

\* A step writes typed slots, entries, records and roles.
LEMMA StepKeepsTypes ==
  ASSUME CallInv, NEW c \in Callers, StepOf(c)
  PROVE  /\ slots' \in [SlotKeys -> Slot \cup {NoSlot}]
         /\ names' \in [Names -> Entry \cup {NoEntry}]
         /\ roles' \in [PlayerIds -> Role \cup {NoRole}]
         /\ handed' \subseteq Role
<1>0. /\ slots \in [SlotKeys -> Slot \cup {NoSlot}]
      /\ names \in [Names -> Entry \cup {NoEntry}]
      /\ roles \in [PlayerIds -> Role \cup {NoRole}]
      /\ handed \subseteq Role
  BY DEF CallInv, TypeOK
<1>1. call[c].pc \in {"insert", "record"} => RoleOf(c) \in Role
  BY Fields DEF Call, RoleOf, Role, Shape, OwesRole
<1>2. slots' \in [SlotKeys -> Slot \cup {NoSlot}]
  <2>1. CASE Enters(c)
    <3>1. [player |-> NoPlayer, version |-> 1] \in Slot
      BY DEF Slot
    <3>2. QED
      BY <1>0, <2>1, <3>1 DEF Enters, ClaimSlot
  <2>2. CASE Records(c)
    <3>1. slots[SlotOf(c)] \in Slot /\ call[c] \in Call
      BY <2>2, Fields DEF Records
    <3>2. [player |-> call[c].player, version |-> slots[SlotOf(c)].version + 1] \in Slot
      BY <3>1 DEF Slot, Call
    <3>3. QED
      BY <1>0, <2>2, <3>2 DEF Records
  <2>3. CASE Releases(c)
    BY <1>0, <2>3 DEF Releases, ReleaseSlot
  <2>4. CASE slots' = slots
    BY <1>0, <2>4
  <2>5. QED
    BY <2>1, <2>2, <2>3, <2>4, FrameOfStep
<1>3. names' \in [Names -> Entry \cup {NoEntry}]
  <2>1. CASE Takes(c)
    <3>1. ReservedEntry(names[call[c].name], call[c].account, call[c].token, call[c].now) \in Entry
      <4>1. call[c].token \in Tokens
        BY <2>1, Fields, IdleShape DEF Takes, Shape, Call
      <4>2. QED
        BY <4>1, Fields, WrittenEntries DEF Accounts
    <3>2. QED
      BY <1>0, <2>1, <3>1 DEF Takes
  <2>2. CASE Commits(c)
    BY <1>0, <2>2, Fields, WrittenEntries DEF Commits, CommitRefused
  <2>3. CASE Deletes(c)
    BY <1>0, <2>3 DEF Deletes, DeleteName
  <2>4. CASE names' = names
    BY <1>0, <2>4
  <2>5. QED
    BY <2>1, <2>2, <2>3, <2>4, FrameOfStep
<1>4. roles' \in [PlayerIds -> Role \cup {NoRole}]
  <2>1. CASE Inserts(c)
    BY <1>0, <1>1, <2>1 DEF Inserts
  <2>2. CASE UndoesRole(c)
    BY <1>0, <2>2 DEF UndoesRole, UndoRole
  <2>3. CASE roles' = roles
    BY <1>0, <2>3
  <2>4. QED
    BY <2>1, <2>2, <2>3, FrameOfStep
<1>5. handed' \subseteq Role
  BY <1>0, <1>1, FrameOfStep, PlaceOfStep
<1>6. QED
  BY <1>2, <1>3, <1>4, <1>5

\* Shape says what TypeOK says of a create.
LEMMA ShapeGivesTypes ==
  ASSUME NEW k \in Call, Shape(k)
  PROVE  /\ k.pc \in {"undo", "delete"} <=> k.todo # <<>>
         /\ k.pc \in {"insert", "commit", "record"} => k.player # NoPlayer
BY TodosDiffer DEF Shape, OwesRole, Todos

\* Both are kept by every step.
LEMMA CallInvNext ==
  ASSUME CallInv, [Next]_vars
  PROVE  CallInv'
<1>1. /\ faults' \in [count: Nat, undone: BOOLEAN]
      /\ clock \in Nat /\ clock' \in Nat /\ clock <= clock'
  BY FaultsStep DEF CallInv, TypeOK
<1>2. CASE Waits
  <2>1. \A c \in Callers : call[c].now \in Nat
    BY Fields
  <2>2. QED
    BY <1>1, <1>2, <2>1 DEF Waits, CallInv, TypeOK
<1>3. ASSUME NEW c \in Callers, StepOf(c)
      PROVE  CallInv'
  <2>1. \A d \in Callers : call'[d] \in Call /\ Shape(call'[d]) /\ call'[d].now <= clock'
    BY <1>3, StepKeepsShape, FrameOfStep, Fields
  <2>2. call' \in [Callers -> Call]
    BY <1>3, StepKeepsShape
  <2>3. TypeOK'
    BY <1>1, <1>3, <2>1, <2>2, StepKeepsTypes, ShapeGivesTypes DEF TypeOK
  <2>4. QED
    BY <2>1, <2>3 DEF CallInv
<1>4. QED
  BY <1>2, <1>3, StepCases

\* And true of no creates.
LEMMA CallInvInit == Init => CallInv
<1> SUFFICES ASSUME Init PROVE CallInv
  OBVIOUS
<1>1. \A c \in Callers : call[c] = IdleCall /\ call[c].now <= clock /\ clock \in Nat
  BY IdleShape DEF Init
<1>2. call \in [Callers -> Call]
  BY IdleShape DEF Init
<1>3. TypeOK
  BY <1>1, <1>2, IdleShape, ShapeGivesTypes DEF Init, TypeOK
<1>4. QED
  BY <1>1, <1>3, IdleShape DEF CallInv

-----------------------------------------------------------------------------
(* Slots: one create or one handed role at a time.                         *)

\* A create in progress has its slot for itself, and so has a role, which the slot names.
SlotInv ==
  /\ \A c \in Callers : Working(c) => slots[SlotOf(c)] # NoSlot
  /\ \A c, d \in Callers : Working(c) /\ Working(d) /\ SlotOf(c) = SlotOf(d) => c = d
  /\ \A r \in handed :
       /\ slots[<<r.account, r.server>>] # NoSlot
       /\ slots[<<r.account, r.server>>].player = r.player
       /\ slots[<<r.account, r.server>>].version # 1
       /\ \A c \in Callers : Working(c) => SlotOf(c) # <<r.account, r.server>>
       /\ \A q \in handed : <<q.account, q.server>> = <<r.account, r.server>> => q = r

\* A create that steps goes on or ends; it never turns into another.
LEMMA GoesOnOrEnds ==
  ASSUME CallInv, NEW c \in Callers, StepOf(c), ~Enters(c)
  PROVE  /\ Working(c)
         /\ \/ call'[c] = IdleCall
            \/ /\ call'[c].account = call[c].account /\ call'[c].server = call[c].server
               /\ call'[c].name = call[c].name /\ call'[c].pc # "reserve"
               /\ call'[c].token = call[c].token \/ Adopts(c)
               /\ call'[c].player = call[c].player \/ Allocates(c)
<1>0. call[c] \in Call /\ Shape(call[c])
  BY Fields
<1>1. CASE call'[c] = Failed(call[c]) /\ call[c].pc \in {"reserve", "allocate", "insert", "commit", "record"}
  BY <1>0, <1>1, FailedCall DEF Working, Same
<1>2. CASE call'[c] = After(call[c]) /\ call[c].pc \in {"undo", "delete"}
  BY <1>0, <1>2, AfterCall DEF Working, Same
<1>3. CASE Takes(c) \/ Inserts(c) \/ Commits(c)
  <2>1. call[c].pc \in {"reserve", "insert", "commit"}
    BY <1>3 DEF Takes, Inserts, Commits
  <2>2. \/ call'[c] = Failed(call[c])
        \/ call'[c] = [call[c] EXCEPT !.pc = "allocate"]
        \/ call'[c] = [call[c] EXCEPT !.pc = "commit", !.now = clock]
        \/ call'[c] = [call[c] EXCEPT !.pc = "record"]
    BY <1>3, MovedCall DEF Takes, Inserts, Commits, WritesAndMovesTo
  <2>3. QED
    BY <1>0, <1>1, <2>1, <2>2 DEF Working, Call
<1>8. CASE Adopts(c)
  <2>1. /\ call[c].pc = "reserve"
        /\ call'[c] = [call[c] EXCEPT !.pc = "allocate", !.token = names[call[c].name].token]
    BY <1>8, MovedCall DEF Adopts
  <2>2. QED
    BY <1>0, <1>8, <2>1 DEF Working, Call
<1>4. CASE Allocates(c) \/ ReadsToDelete(c)
  <2>1. call[c].pc \in {"allocate", "undo"}
    BY <1>4 DEF Allocates, ReadsToDelete
  <2>2. \/ call'[c] = [call[c] EXCEPT !.pc = "delete", !.read = names[call[c].name].version]
        \/ Allocates(c) /\ \E p \in PlayerIds : call'[c] = [call[c] EXCEPT !.pc = "insert", !.player = p]
    BY <1>4, MovedCall DEF Allocates, ReadsToDelete
  <2>3. QED
    BY <1>0, <2>1, <2>2 DEF Working, Call
<1>5. CASE Records(c) \/ Fails(c) \/ Crashes(c)
  BY <1>0, <1>1, <1>5, MovedCall DEF Records, Fails, Crashes, Working
<1>6. CASE UndoesRole(c) \/ Deletes(c) \/ Releases(c) \/ Skips(c)
  BY <1>0, <1>2, <1>6, MovedCall
     DEF UndoesRole, UndoRole, Deletes, DeleteName, Releases, ReleaseSlot, Undoing, Skips, Working
<1>7. QED
  BY <1>3, <1>4, <1>5, <1>6, <1>8 DEF StepOf

\* Who works after a step worked before it, on the same slot.
LEMMA WorksOn ==
  ASSUME CallInv, NEW c \in Callers, StepOf(c), ~Enters(c), NEW d \in Callers, Working(d)'
  PROVE  Working(d) /\ SlotOf(d)' = SlotOf(d)
<1>1. CASE d = c
  BY <1>1, GoesOnOrEnds, IdleShape DEF Working, SlotOf
<1>2. CASE d # c
  BY <1>2, StepKeepsShape DEF Working, SlotOf
<1>3. QED
  BY <1>1, <1>2

LEMMA SlotInvInit == Init => SlotInv
BY IdleShape DEF Init, SlotInv, Working

\* Only the create that has a slot writes it.
LEMMA SlotInvNext ==
  ASSUME CallInv, SlotInv, [Next]_vars
  PROVE  SlotInv'
<1>0. slots \in [SlotKeys -> Slot \cup {NoSlot}]
  BY DEF CallInv, TypeOK
<1>1. CASE Waits
  BY <1>1 DEF Waits, SlotInv, Working, SlotOf
<1>2. ASSUME NEW c \in Callers, Enters(c)
      PROVE  SlotInv'
  <2>1. PICK a \in Accounts, s \in Servers, n \in Names, t \in Tokens : ClaimSlot(c, a, s, n, t)
    BY <1>2 DEF Enters
  <2>2. /\ slots[<<a, s>>] = NoSlot /\ <<a, s>> \in SlotKeys
        /\ slots' = [slots EXCEPT ![<<a, s>>] = [player |-> NoPlayer, version |-> 1]]
        /\ handed' = handed /\ ~Working(c)
    BY <2>1 DEF ClaimSlot, SlotKeys, Working
  <2>3. /\ SlotOf(c)' = <<a, s>>
        /\ \A d \in Callers : d # c => Working(d)' = Working(d) /\ SlotOf(d)' = SlotOf(d)
    <3>1. call'[c].account = a /\ call'[c].server = s
      BY <2>1, IdleShape DEF ClaimSlot, CallInv, TypeOK, Call
    <3>2. \A d \in Callers : d # c => call'[d] = call[d]
      BY <1>2, StepKeepsShape DEF StepOf
    <3>3. QED
      BY <3>1, <3>2 DEF SlotOf, Working
  <2>4. [player |-> NoPlayer, version |-> 1] # NoSlot
    BY AccountAssumption DEF Slot
  <2>5. \A d \in Callers : d # c /\ Working(d) => SlotOf(d) # <<a, s>> /\ SlotOf(d) \in SlotKeys
    BY <2>2, Fields DEF SlotInv
  <2>6. \A r \in handed : <<r.account, r.server>> # <<a, s>>
    BY <2>2 DEF SlotInv
  <2>7. QED
    BY <1>0, <2>2, <2>3, <2>4, <2>5, <2>6 DEF SlotInv
<1>3. ASSUME NEW c \in Callers, StepOf(c), ~Enters(c), slots' = slots, handed' = handed
      PROVE  SlotInv'
  BY <1>3, WorksOn DEF SlotInv
<1>4. ASSUME NEW c \in Callers, Records(c)
      PROVE  SlotInv'
  <2>0. StepOf(c) /\ ~Enters(c)
    BY <1>4, PlaceOfStep DEF StepOf
  <2>1. Working(c) /\ SlotOf(c) \in SlotKeys /\ slots[SlotOf(c)] \in Slot
    BY <1>4, Fields DEF Records, Working
  <2>2. [player |-> call[c].player, version |-> slots[SlotOf(c)].version + 1] \in Slot
    BY <2>1, Fields DEF Slot, Call
  <2>3. /\ slots'[SlotOf(c)] # NoSlot /\ slots'[SlotOf(c)].player = call[c].player
        /\ slots'[SlotOf(c)].version # 1
        /\ \A k \in SlotKeys : k # SlotOf(c) => slots'[k] = slots[k]
    BY <1>0, <1>4, <2>1, <2>2, AccountAssumption DEF Records, Slot
  <2>4. \A r \in handed : <<r.account, r.server>> # SlotOf(c) /\ <<r.account, r.server>> \in SlotKeys
    BY <2>1 DEF SlotInv, CallInv, TypeOK, Role, SlotKeys
  <2>5. \A d \in Callers : Working(d)' => slots'[SlotOf(d)'] # NoSlot
    BY <2>0, <2>1, <2>3, WorksOn, Fields DEF SlotInv
  <2>6. \A d, b \in Callers : Working(d)' /\ Working(b)' /\ SlotOf(d)' = SlotOf(b)' => d = b
    BY <2>0, WorksOn DEF SlotInv
  <2>7. CASE handed' = handed
    BY <2>0, <2>3, <2>4, <2>5, <2>6, <2>7, WorksOn DEF SlotInv
  <2>8. CASE handed' = handed \cup {RoleOf(c)} /\ MovesTo(c, IdleCall)
    <3>1. ~Working(c)'
      BY <2>8, MovedCall, IdleShape DEF Working
    <3>2. \A d \in Callers : Working(d)' => SlotOf(d)' # SlotOf(c)
      BY <2>0, <2>1, <3>1, WorksOn DEF SlotInv
    <3>3. <<RoleOf(c).account, RoleOf(c).server>> = SlotOf(c) /\ RoleOf(c).player = call[c].player
      BY DEF RoleOf, SlotOf
    <3>4. QED
      BY <2>0, <2>3, <2>4, <2>5, <2>6, <2>8, <3>2, <3>3, WorksOn DEF SlotInv
  <2>9. QED
    BY <1>4, <2>7, <2>8 DEF Records
<1>5. ASSUME NEW c \in Callers, Releases(c)
      PROVE  SlotInv'
  <2>0. StepOf(c) /\ ~Enters(c)
    BY <1>5, PlaceOfStep DEF StepOf
  <2>1. Working(c) /\ SlotOf(c) \in SlotKeys /\ handed' = handed
    BY <1>5, Fields DEF Releases, ReleaseSlot, Undoing, Working
  <2>2. ~Working(c)'
    <3>1. call[c].todo = <<"slot">>
      BY <1>5, HeadOfTodo DEF Releases, ReleaseSlot
    <3>2. QED
      BY <1>5, <3>1, MovedCall, AfterCall, Fields, IdleShape DEF Releases, ReleaseSlot, Undoing, Working
  <2>3. \A k \in SlotKeys : k # SlotOf(c) => slots'[k] = slots[k]
    BY <1>0, <1>5, <2>1 DEF Releases, ReleaseSlot
  <2>4. \A d \in Callers : Working(d)' => SlotOf(d)' # SlotOf(c) /\ SlotOf(d)' \in SlotKeys
    BY <2>0, <2>1, <2>2, WorksOn, Fields DEF SlotInv
  <2>5. \A r \in handed : <<r.account, r.server>> # SlotOf(c) /\ <<r.account, r.server>> \in SlotKeys
    BY <2>1 DEF SlotInv, CallInv, TypeOK, Role, SlotKeys
  <2>6. QED
    BY <2>0, <2>1, <2>3, <2>4, <2>5, WorksOn DEF SlotInv
<1>6. ASSUME NEW c \in Callers, StepOf(c)
      PROVE  \/ Enters(c) \/ Records(c) \/ Releases(c)
             \/ ~Enters(c) /\ slots' = slots /\ handed' = handed
  BY <1>6, FrameOfStep
<1>7. QED
  BY <1>1, <1>2, <1>3, <1>4, <1>5, <1>6, StepCases

-----------------------------------------------------------------------------
(* Role records: whoever answers for one finds it as it was inserted.      *)

\* Whoever answers for a record finds its own role there.
RoleInv ==
  /\ \A c \in Callers : OwesRole(call[c]) => roles[call[c].player] = RoleOf(c)
  /\ \A r \in handed : roles[r.player] = r

\* A create comes to answer for a role by inserting it, and stops to by handing it out or
\* undoing it, or because of a fault that lets it undo nothing more.
LEMMA RoleOwed ==
  ASSUME CallInv, NEW c \in Callers, StepOf(c)
  PROVE  /\ OwesRole(call'[c]) => (OwesRole(call[c]) /\ RoleOf(c)' = RoleOf(c)) \/ Inserts(c)
         /\ OwesRole(call[c]) =>
              \/ OwesRole(call'[c]) /\ RoleOf(c)' = RoleOf(c)
              \/ UndoesRole(c) \/ handed' = handed \cup {RoleOf(c)} \/ ~faults'.undone
<1>0. call[c] \in Call /\ Shape(call[c])
  BY Fields
<1>1. CASE call'[c] = Failed(call[c]) /\ call[c].pc \in {"reserve", "allocate", "insert", "commit", "record"}
  BY <1>0, <1>1, FailedCall DEF RoleOf, Same
<1>2. CASE call'[c] = After(call[c]) /\ call[c].pc \in {"undo", "delete"} /\ Head(call[c].todo) # "role"
  <2>1. CASE call[c].todo = <<"slot">>
    <3>1. ~OwesRole(call[c])
      BY <1>0, <1>2, <2>1, TodosDiffer DEF OwesRole
    <3>2. QED
      BY <1>0, <1>2, <2>1, <3>1, AfterCall, IdleOwesNothing
  <2>2. CASE call[c].todo # <<"slot">>
    BY <1>0, <1>2, <2>2, AfterCall DEF RoleOf, Same
  <2>3. QED
    BY <2>1, <2>2
<1>3. /\ ~OwesRole(IdleCall)
      /\ \A k \in Call : Shape(k) /\ OwesRole(k) => k.pc \in {"commit", "record", "undo", "delete"}
  BY TodosDiffer, IdleOwesNothing DEF OwesRole, Shape, Todos
<1>4. CASE /\ call[c].pc \in {"idle", "reserve", "allocate"}
           /\ call'[c].pc \in {"idle", "reserve", "allocate", "insert"}
  BY <1>0, <1>3, <1>4, StepKeepsShape
<1>5. CASE Enters(c)
  BY <1>0, <1>4, <1>5 DEF Enters, ClaimSlot, CallInv, TypeOK
<1>6. CASE Takes(c) \/ Adopts(c) \/ Allocates(c)
  <2>1. call[c].pc \in {"reserve", "allocate"}
    BY <1>6 DEF Takes, Adopts, Allocates
  <2>2. call'[c] = Failed(call[c]) \/ call'[c].pc \in {"allocate", "insert"}
    <3>1. CASE Takes(c)
      <4>1. call'[c] = Failed(call[c]) \/ call'[c] = [call[c] EXCEPT !.pc = "allocate"]
        BY <3>1, MovedCall DEF Takes, WritesAndMovesTo
      <4>2. QED
        BY <1>0, <4>1 DEF Call
    <3>2. CASE Adopts(c)
      <4>1. call'[c] = [call[c] EXCEPT !.pc = "allocate", !.token = names[call[c].name].token]
        BY <3>2, MovedCall DEF Adopts
      <4>2. QED
        BY <1>0, <4>1 DEF Call
    <3>3. CASE Allocates(c)
      <4>1. \E p \in PlayerIds : call'[c] = [call[c] EXCEPT !.pc = "insert", !.player = p]
        BY <3>3, MovedCall DEF Allocates
      <4>2. QED
        BY <1>0, <4>1 DEF Call
    <3>4. QED
      BY <1>6, <3>1, <3>2, <3>3
  <2>3. CASE call'[c] = Failed(call[c])
    BY <1>1, <2>1, <2>3
  <2>4. CASE call'[c].pc \in {"allocate", "insert"}
    BY <1>4, <2>1, <2>4
  <2>5. QED
    BY <2>2, <2>3, <2>4
<1>7. CASE Inserts(c)
  BY <1>0, <1>3, <1>7 DEF Inserts
<1>8. CASE Commits(c)
  <2>1. call[c].pc = "commit"
    BY <1>8 DEF Commits
  <2>2. call'[c] = Failed(call[c]) \/ call'[c] = [call[c] EXCEPT !.pc = "record"]
    BY <1>8, MovedCall DEF Commits, WritesAndMovesTo
  <2>3. QED
    BY <1>0, <1>1, <2>1, <2>2 DEF RoleOf, OwesRole, Call
<1>9. CASE Records(c)
  BY <1>0, <1>1, <1>3, <1>9, MovedCall DEF Records
<1>10. CASE Fails(c)
  BY <1>1, <1>10, MovedCall DEF Fails
<1>11. CASE Crashes(c)
  BY <1>3, <1>11, MovedCall DEF Crashes
<1>12. CASE UndoesRole(c)
  <2>1. call'[c] = After(call[c]) /\ call[c].pc = "undo" /\ Head(call[c].todo) = "role"
        /\ call[c].todo # <<"slot">>
    BY <1>12, MovedCall, HeadFacts DEF UndoesRole, UndoRole, Undoing
  <2>2. QED
    BY <1>0, <1>12, <2>1, AfterCall
<1>13. CASE ReadsToDelete(c)
  <2>1. /\ call[c].pc = "undo"
        /\ call'[c] = [call[c] EXCEPT !.pc = "delete", !.read = names[call[c].name].version]
    BY <1>13, MovedCall DEF ReadsToDelete
  <2>2. QED
    BY <1>0, <2>1 DEF OwesRole, RoleOf, Call
<1>14. CASE Deletes(c)
  BY <1>0, <1>2, <1>14, MovedCall, HeadFacts DEF Deletes, DeleteName, Shape
<1>15. CASE Releases(c)
  BY <1>2, <1>15, MovedCall, HeadOfTodo, HeadFacts DEF Releases, ReleaseSlot, Undoing
<1>16. CASE Skips(c)
  <2>1. call'[c] = After(call[c]) /\ call[c].pc \in {"undo", "delete"}
    BY <1>16, MovedCall DEF Skips
  <2>2. Head(call[c].todo) # "role" \/ ~faults'.undone
    BY <1>16, HeadFacts DEF Skips
  <2>3. CASE Head(call[c].todo) = "role"
    BY <1>0, <2>1, <2>2, <2>3, AfterCall, HeadFacts
  <2>4. QED
    BY <1>2, <2>1, <2>3
<1>17. QED
  BY <1>5, <1>6, <1>7, <1>8, <1>9, <1>10, <1>11, <1>12, <1>13, <1>14, <1>15, <1>16 DEF StepOf

LEMMA RoleInvInit == Init => RoleInv
BY IdleOwesNothing DEF Init, RoleInv

\* Two creates that answer for the same record are the same.
LEMMA OneRoleOneOwner ==
  ASSUME CallInv, SlotInv, RoleInv, NEW c \in Callers, OwesRole(call[c])
  PROVE  /\ Working(c) /\ RoleOf(c) \in Role /\ call[c].player \in PlayerIds
         /\ \A d \in Callers : OwesRole(call[d]) /\ call[d].player = call[c].player => d = c
         /\ \A r \in handed : r.player # call[c].player
<1>1. \A d \in Callers : OwesRole(call[d]) => Working(d)
  BY Fields, TodosDiffer DEF OwesRole, Shape, Working, Todos
<1>2. \A d \in Callers : RoleOf(d) = RoleOf(c) => SlotOf(d) = SlotOf(c)
  BY DEF RoleOf, SlotOf
<1>3. \A r \in handed : r = RoleOf(c) => <<r.account, r.server>> = SlotOf(c)
  BY DEF RoleOf, SlotOf
<1>4. call[c].player \in PlayerIds /\ RoleOf(c) \in Role
  BY Fields DEF Shape, Call, RoleOf, Role
<1>5. QED
  BY <1>1, <1>2, <1>3, <1>4 DEF SlotInv, RoleInv

\* An insert finds no record, so it takes nobody's; only who answers for one deletes it.
LEMMA RoleInvNext ==
  ASSUME CallInv, SlotInv, RoleInv, [Next]_vars
  PROVE  RoleInv'
<1>0. roles \in [PlayerIds -> Role \cup {NoRole}] /\ handed \subseteq Role
  BY DEF CallInv, TypeOK
<1>1. CASE Waits
  BY <1>1 DEF Waits, RoleInv, RoleOf
<1>2. ASSUME NEW c \in Callers, StepOf(c)
      PROVE  RoleInv'
  <2>0. \A d \in Callers : d # c => call'[d] = call[d] /\ RoleOf(d)' = RoleOf(d)
    BY <1>2, StepKeepsShape DEF RoleOf
  <2>1. CASE Inserts(c)
    <3>1. call[c].player \in PlayerIds /\ RoleOf(c) \in Role /\ roles[call[c].player] = NoRole
      BY <2>1, Fields DEF Inserts, Shape, Call, RoleOf, Role
    <3>2. roles' = [roles EXCEPT ![call[c].player] = RoleOf(c)] /\ handed' = handed
      BY <2>1 DEF Inserts, WritesAndMovesTo
    <3>3. RoleOf(c)' = RoleOf(c) /\ call'[c].player = call[c].player
      <4>1. call'[c] = [call[c] EXCEPT !.pc = "commit", !.now = clock] \/ call'[c] = Failed(call[c])
        BY <2>1, MovedCall DEF Inserts, WritesAndMovesTo
      <4>2. call[c] \in Call /\ Shape(call[c]) /\ call[c].pc = "insert"
        BY <2>1, Fields DEF Inserts
      <4>3. CASE call'[c] = [call[c] EXCEPT !.pc = "commit", !.now = clock]
        BY <4>2, <4>3 DEF RoleOf, Call
      <4>4. CASE call'[c] = Failed(call[c])
        BY <4>2, <4>4, FailedCall DEF RoleOf, Same
      <4>5. QED
        BY <4>1, <4>3, <4>4
    <3>4. \A r \in handed : r.player \in PlayerIds /\ r.player # call[c].player
      BY <1>0, <3>1, AccountAssumption DEF RoleInv, Role
    <3>5. \A d \in Callers : d # c /\ OwesRole(call[d]) =>
             call[d].player \in PlayerIds /\ call[d].player # call[c].player
      BY <3>1, OneRoleOneOwner, AccountAssumption DEF RoleInv
    <3>6. \A p \in PlayerIds : p # call[c].player => roles'[p] = roles[p]
      BY <1>0, <3>1, <3>2
    <3>7. roles'[call[c].player] = RoleOf(c)
      BY <1>0, <3>1, <3>2
    <3>8. ASSUME NEW d \in Callers, OwesRole(call'[d])
          PROVE  roles'[call'[d].player] = RoleOf(d)'
      <4>1. CASE d = c
        BY <3>3, <3>7, <4>1
      <4>2. CASE d # c
        BY <2>0, <3>5, <3>6, <3>8, <4>2 DEF RoleInv
      <4>3. QED
        BY <4>1, <4>2
    <3>9. QED
      BY <3>2, <3>4, <3>6, <3>8 DEF RoleInv
  <2>2. CASE UndoesRole(c)
    <3>1. OwesRole(call[c]) /\ handed' = handed /\ roles' = [roles EXCEPT ![call[c].player] = NoRole]
      BY <2>2, HeadOfTodo DEF UndoesRole, UndoRole, OwesRole
    <3>2. ~OwesRole(call'[c])
      <4>1. Head(call[c].todo) = "role" /\ call[c].pc = "undo" /\ call[c].todo # <<"slot">>
            /\ call'[c] = After(call[c])
        BY <2>2, MovedCall, HeadFacts DEF UndoesRole, UndoRole, Undoing
      <4>2. QED
        BY <4>1, AfterCall, Fields
    <3>3. \A p \in PlayerIds : p # call[c].player => roles'[p] = roles[p]
      BY <1>0, <3>1
    <3>4. \A r \in handed : r.player \in PlayerIds /\ r.player # call[c].player
      BY <1>0, <3>1, OneRoleOneOwner DEF Role
    <3>5. \A d \in Callers : d # c /\ OwesRole(call[d]) =>
             call[d].player \in PlayerIds /\ call[d].player # call[c].player
      BY <3>1, OneRoleOneOwner
    <3>6. ASSUME NEW d \in Callers, OwesRole(call'[d])
          PROVE  roles'[call'[d].player] = RoleOf(d)'
      BY <2>0, <3>2, <3>3, <3>5, <3>6 DEF RoleInv
    <3>7. QED
      BY <3>1, <3>3, <3>4, <3>6 DEF RoleInv
  <2>3. CASE handed' = handed \cup {RoleOf(c)} /\ Records(c)
    <3>1. OwesRole(call[c]) /\ roles' = roles /\ ~Inserts(c)
      BY <2>3 DEF Records, OwesRole, Inserts
    <3>2. \A d \in Callers : OwesRole(call'[d]) => OwesRole(call[d]) /\ RoleOf(d)' = RoleOf(d)
      BY <1>2, <2>0, <3>1, RoleOwed
    <3>3. \A d \in Callers : RoleOf(d).player = call[d].player /\ RoleOf(d)'.player = call'[d].player
      BY DEF RoleOf
    <3>4. QED
      BY <2>3, <3>1, <3>2, <3>3 DEF RoleInv
  <2>4. CASE roles' = roles /\ handed' = handed /\ ~Inserts(c)
    <3>1. \A d \in Callers : OwesRole(call'[d]) => OwesRole(call[d]) /\ RoleOf(d)' = RoleOf(d)
      BY <1>2, <2>0, <2>4, RoleOwed
    <3>2. \A d \in Callers : RoleOf(d).player = call[d].player /\ RoleOf(d)'.player = call'[d].player
      BY DEF RoleOf
    <3>3. QED
      BY <2>4, <3>1, <3>2 DEF RoleInv
  <2>5. QED
    BY <1>2, <2>1, <2>2, <2>3, <2>4, FrameOfStep, PlaceOfStep
<1>3. QED
  BY <1>1, <1>2, StepCases

-----------------------------------------------------------------------------
(* Names: with creates that end before their claims lapse, and no name of  *)
(* an account on two of its servers.                                       *)

\* No account asks, on a second server, for a name it has or is being given on another.
NoNameOnTwoServers ==
  \A c \in Callers : Working(c) =>
    /\ \A d \in Callers :
         Working(d) /\ call[d].account = call[c].account /\ call[d].name = call[c].name =>
           call[d].server = call[c].server
    /\ \A r \in handed :
         r.account = call[c].account /\ r.name = call[c].name => r.server = call[c].server

\* A create comes to answer for a name by committing it, and stops to by handing it out
\* or giving it up.
LEMMA NameOwed ==
  ASSUME CallInv, NEW c \in Callers, StepOf(c)
  PROVE  /\ call'[c].pc = "delete" => ReadsToDelete(c)
         /\ OwesName(call'[c]) => OwesName(call[c]) \/ Commits(c)
         /\ OwesName(call[c]) =>
              \/ OwesName(call'[c])
              \/ Deletes(c) \/ handed' = handed \cup {RoleOf(c)} \/ ~faults'.undone
              \/ Skips(c) /\ ~Releasable(names[call[c].name], call[c].account)
<1>0. call[c] \in Call /\ Shape(call[c])
  BY Fields
<1>1. CASE call'[c] = Failed(call[c]) /\ call[c].pc \in {"reserve", "allocate", "insert", "commit", "record"}
  BY <1>0, <1>1, FailedCall
<1>2. ASSUME NEW k \in Call, Shape(k), OwesName(k)
      PROVE  k.pc = "record" \/ (k.todo = <<"name", "role", "slot">> /\ k.pc \in {"undo", "delete"})
  <2>1. <<"name", "role", "slot">> # <<>>
    OBVIOUS
  <2>2. QED
    BY <1>2, <2>1 DEF OwesName, Shape
<1>3. /\ ~OwesName(IdleCall) /\ IdleCall.pc # "delete"
  BY IdleShape, IdleOwesNothing
<1>4. CASE call'[c] = After(call[c]) /\ call[c].pc \in {"undo", "delete"}
  <2>1. ~OwesName(call'[c]) /\ call'[c].pc # "delete"
    BY <1>0, <1>3, <1>4, AfterCall
  <2>2. QED
    <3>1. ASSUME OwesName(call[c])
          PROVE  \/ Deletes(c) \/ ~faults'.undone
                 \/ Skips(c) /\ ~Releasable(names[call[c].name], call[c].account)
      <4>1. call[c].todo = <<"name", "role", "slot">>
        BY <1>0, <1>2, <1>4, <3>1
      <4>2. Deletes(c) \/ Skips(c) \/ ~faults'.undone
        <5>1. ~UndoesRole(c) /\ ~Releases(c)
          BY <4>1, HeadFacts DEF UndoesRole, UndoRole, Releases, ReleaseSlot, Undoing
        <5>2. ~ReadsToDelete(c)
          <6>1. SUFFICES ASSUME ReadsToDelete(c) PROVE FALSE
            OBVIOUS
          <6>2. call'[c] = [call[c] EXCEPT !.pc = "delete", !.read = names[call[c].name].version]
            BY <6>1, MovedCall DEF ReadsToDelete
          <6>3. QED
            BY <1>0, <2>1, <6>2 DEF Call
        <5>3. QED
          BY <1>4, <5>1, <5>2, PlaceOfStep DEF StepOf
      <4>3. QED
        BY <4>1, <4>2, TodosDiffer DEF Skips, Todos
    <3>2. QED
      BY <2>1, <3>1
<1>5. CASE call[c].pc \in {"idle", "reserve", "allocate", "insert"}
           /\ call'[c].pc \in {"idle", "reserve", "allocate", "insert", "commit"}
  BY <1>0, <1>2, <1>5, StepKeepsShape
<1>6. CASE Enters(c)
  BY <1>0, <1>5, <1>6 DEF Enters, ClaimSlot, CallInv, TypeOK
<1>7. CASE Takes(c) \/ Adopts(c) \/ Allocates(c) \/ Inserts(c)
  <2>1. call[c].pc \in {"reserve", "allocate", "insert"}
    BY <1>7 DEF Takes, Adopts, Allocates, Inserts
  <2>2. call'[c] = Failed(call[c]) \/ call'[c].pc \in {"allocate", "insert", "commit"}
    <3>1. CASE Takes(c)
      <4>1. call'[c] = Failed(call[c]) \/ call'[c] = [call[c] EXCEPT !.pc = "allocate"]
        BY <3>1, MovedCall DEF Takes, WritesAndMovesTo
      <4>2. QED
        BY <1>0, <4>1 DEF Call
    <3>2. CASE Adopts(c)
      <4>1. call'[c] = [call[c] EXCEPT !.pc = "allocate", !.token = names[call[c].name].token]
        BY <3>2, MovedCall DEF Adopts
      <4>2. QED
        BY <1>0, <4>1 DEF Call
    <3>3. CASE Allocates(c)
      <4>1. \E p \in PlayerIds : call'[c] = [call[c] EXCEPT !.pc = "insert", !.player = p]
        BY <3>3, MovedCall DEF Allocates
      <4>2. QED
        BY <1>0, <4>1 DEF Call
    <3>4. CASE Inserts(c)
      <4>1. call'[c] = Failed(call[c]) \/ call'[c] = [call[c] EXCEPT !.pc = "commit", !.now = clock]
        BY <3>4, MovedCall DEF Inserts, WritesAndMovesTo
      <4>2. QED
        BY <1>0, <4>1 DEF Call
    <3>5. QED
      BY <1>7, <3>1, <3>2, <3>3, <3>4
  <2>3. CASE call'[c] = Failed(call[c])
    BY <1>1, <2>1, <2>3
  <2>4. CASE call'[c].pc \in {"allocate", "insert", "commit"}
    BY <1>5, <2>1, <2>4
  <2>5. QED
    BY <2>2, <2>3, <2>4
<1>8. CASE Commits(c)
  <2>1. call[c].pc = "commit"
    BY <1>8 DEF Commits
  <2>2. call'[c] = Failed(call[c]) \/ call'[c] = [call[c] EXCEPT !.pc = "record"]
    BY <1>8, MovedCall DEF Commits, WritesAndMovesTo
  <2>3. CASE call'[c] = [call[c] EXCEPT !.pc = "record"]
    BY <1>0, <1>8, <2>1, <2>3 DEF OwesName, Call
  <2>4. QED
    BY <1>1, <2>1, <2>2, <2>3
<1>9. CASE Records(c)
  <2>1. \/ call'[c] = Failed(call[c])
        \/ call'[c] = IdleCall /\ handed' = handed \cup {RoleOf(c)}
    BY <1>9, MovedCall DEF Records
  <2>2. QED
    BY <1>1, <1>3, <1>9, <2>1 DEF Records
<1>10. CASE Fails(c)
  BY <1>1, <1>10, MovedCall DEF Fails
<1>11. CASE Crashes(c)
  BY <1>3, <1>11, MovedCall DEF Crashes
<1>12. CASE ReadsToDelete(c)
  <2>1. /\ call[c].pc = "undo"
        /\ call'[c] = [call[c] EXCEPT !.pc = "delete", !.read = names[call[c].name].version]
    BY <1>12, MovedCall DEF ReadsToDelete
  <2>2. QED
    BY <1>0, <1>12, <2>1 DEF OwesName, Call
<1>13. CASE UndoesRole(c) \/ Deletes(c) \/ Releases(c) \/ Skips(c)
  BY <1>4, <1>13, MovedCall
     DEF UndoesRole, UndoRole, Deletes, DeleteName, Releases, ReleaseSlot, Undoing, Skips
<1>14. QED
  BY <1>6, <1>7, <1>8, <1>9, <1>10, <1>11, <1>12, <1>13 DEF StepOf

\* Then a name of an account is that of one create or of one role.
LEMMA OneNameOneCreate ==
  ASSUME NoNameOnTwoServers, SlotInv, NEW c \in Callers, Working(c)
  PROVE  /\ \A d \in Callers :
              Working(d) /\ call[d].account = call[c].account /\ call[d].name = call[c].name => d = c
         /\ \A r \in handed : ~(r.account = call[c].account /\ r.name = call[c].name)
<1>1. \A d \in Callers :
        call[d].account = call[c].account /\ call[d].server = call[c].server => SlotOf(d) = SlotOf(c)
  BY DEF SlotOf
<1>2. \A r \in handed :
        r.account = call[c].account /\ r.server = call[c].server => <<r.account, r.server>> = SlotOf(c)
  BY DEF SlotOf
<1>3. QED
  BY <1>1, <1>2 DEF NoNameOnTwoServers, SlotInv

\* A reservation is the own one of a create exactly if it carries its token.
TokenInv ==
  /\ \A c, d \in Callers : Working(c) /\ call[c].token = call[d].token => c = d
  /\ \A c \in Callers, m \in Names :
       Working(c) /\ names[m] # NoEntry /\ names[m].token = call[c].token =>
         m = call[c].name /\ names[m].owner = call[c].account /\ call[c].pc # "reserve"
  /\ \A m, n \in Names :
       names[m] # NoEntry /\ names[n] # NoEntry /\ names[m].token = names[n].token => m = n

LEMMA TokenInvInit == Init => TokenInv
BY IdleShape DEF Init, TokenInv, Working

\* Tokens are drawn anew, and a claim that is adopted is of a create that is over.
LEMMA TokenInvNext ==
  ASSUME NoNameOnTwoServers, CallInv, SlotInv, TokenInv, [Next]_vars
  PROVE  TokenInv'
<1>0. names \in [Names -> Entry \cup {NoEntry}]
  BY DEF CallInv, TypeOK
<1>1. CASE Waits
  BY <1>1 DEF Waits, TokenInv, Working
<1>2. ASSUME NEW c \in Callers, StepOf(c)
      PROVE  TokenInv'
  <2>0. /\ \A d \in Callers : d # c => call'[d] = call[d] /\ (Working(d)' <=> Working(d))
        /\ call[c].name \in Names
    BY <1>2, StepKeepsShape, Fields DEF Working
  <2>9. \A d \in Callers : Working(d) => call[d].token # NoToken
    BY Fields DEF Shape, Working
  <2>1. CASE Enters(c)
    <3>1. PICK a \in Accounts, s \in Servers, n \in Names, t \in Tokens : ClaimSlot(c, a, s, n, t)
      BY <2>1 DEF Enters
    <3>2. call'[c].token = t /\ names' = names /\ Unused(t)
      BY <3>1, IdleShape DEF ClaimSlot, CallInv, TypeOK, Call
    <3>3. QED
      BY <2>0, <3>2 DEF TokenInv, Unused
  <2>2. CASE Takes(c)
    <3>0. Working(c) /\ call[c].pc = "reserve"
      BY <2>2 DEF Takes, Working
    <3>1. /\ names'[call[c].name] # NoEntry
          /\ names'[call[c].name].token = call[c].token /\ names'[call[c].name].owner = call[c].account
      <4>1. call[c].token \in Tokens
        BY <2>2, Fields, IdleShape DEF Takes, Shape, Call
      <4>2. names'[call[c].name] =
              ReservedEntry(names[call[c].name], call[c].account, call[c].token, call[c].now)
        BY <1>0, <2>0, <2>2 DEF Takes
      <4>3. /\ names[call[c].name] \in Entry \cup {NoEntry} /\ call[c].account \in Owners
            /\ call[c].now \in Nat
        BY Fields DEF Accounts
      <4>4. QED
        BY <4>1, <4>2, <4>3, WrittenEntries
    <3>2. \A m \in Names : m # call[c].name => names'[m] = names[m]
      BY <1>0, <2>2 DEF Takes
    <3>3. \/ ~Working(c)' /\ call'[c].token = NoToken
          \/ /\ call'[c].token = call[c].token /\ call'[c].account = call[c].account
             /\ call'[c].name = call[c].name /\ call'[c].pc # "reserve"
      <4>1. ~Enters(c) /\ ~Adopts(c)
        BY <2>2 DEF Takes, Adopts, Enters, ClaimSlot
      <4>2. QED
        BY <1>2, <4>1, GoesOnOrEnds, IdleShape DEF Working, IdleCall
    <3>4. ASSUME NEW d \in Callers, NEW b \in Callers, Working(d)', call'[d].token = call'[b].token
          PROVE  d = b
      BY <2>0, <2>9, <3>0, <3>3, <3>4 DEF TokenInv
    <3>5. ASSUME NEW d \in Callers, NEW m \in Names,
                 Working(d)', names'[m] # NoEntry, names'[m].token = call'[d].token
          PROVE  m = call'[d].name /\ names'[m].owner = call'[d].account /\ call'[d].pc # "reserve"
      <4>1. CASE d = c
        BY <2>0, <3>0, <3>1, <3>2, <3>3, <3>5, <4>1 DEF TokenInv
      <4>2. CASE d # c
        BY <2>0, <3>0, <3>1, <3>2, <3>5, <4>2 DEF TokenInv
      <4>3. QED
        BY <4>1, <4>2
    <3>6. ASSUME NEW m \in Names, NEW n \in Names,
                 names'[m] # NoEntry, names'[n] # NoEntry, names'[m].token = names'[n].token
          PROVE  m = n
      BY <2>0, <3>0, <3>1, <3>2, <3>6 DEF TokenInv
    <3>7. QED
      BY <3>4, <3>5, <3>6 DEF TokenInv
  <2>3. CASE Adopts(c)
    <3>1. /\ Working(c) /\ names' = names
          /\ names[call[c].name] \in Entry /\ names[call[c].name].owner = call[c].account
      BY <2>3, Fields DEF Adopts, Working, Free, Stores
    <3>2. /\ call'[c].token = names[call[c].name].token /\ call'[c].account = call[c].account
          /\ call'[c].name = call[c].name /\ call'[c].pc = "allocate"
      <4>1. call'[c] = [call[c] EXCEPT !.pc = "allocate", !.token = names[call[c].name].token]
        BY <2>3, MovedCall DEF Adopts
      <4>2. QED
        BY <4>1, Fields DEF Call
    <3>3. \A d \in Callers : d # c => call[d].token # names[call[c].name].token
      <4>1. ASSUME NEW d \in Callers, d # c, Working(d)
            PROVE  call[d].token # names[call[c].name].token
        <5>1. ~(call[d].account = call[c].account /\ call[d].name = call[c].name)
          BY <3>1, <4>1, OneNameOneCreate
        <5>2. names[call[c].name] # NoEntry /\ call[c].name \in Names
          BY <2>0, <3>1, EntryAssumption
        <5>3. QED
          BY <3>1, <4>1, <5>1, <5>2 DEF TokenInv
      <4>2. ASSUME NEW d \in Callers, ~Working(d)
            PROVE  call[d].token # names[call[c].name].token
        <5>1. call[d].token = NoToken
          <6>1. call[d] = IdleCall
            BY <4>2, Fields DEF Working, Shape
          <6>2. QED
            BY <6>1 DEF IdleCall
        <5>2. QED
          <6>1. names[call[c].name].token \in Tokens
            BY <3>1 DEF Entry
          <6>2. QED
            BY <5>1, <6>1, AccountAssumption
      <4>3. QED
        BY <4>1, <4>2
    <3>4. names[call[c].name] # NoEntry
      BY <3>1, EntryAssumption
    <3>5. QED
      BY <2>0, <3>1, <3>2, <3>3, <3>4 DEF TokenInv
  <2>4. ASSUME \A m \in Names : names'[m] # NoEntry =>
                 names[m] # NoEntry /\ names'[m].token = names[m].token /\ names'[m].owner = names[m].owner,
               ~Enters(c), ~Takes(c), ~Adopts(c)
        PROVE  TokenInv'
    <3>1. /\ Working(c)
          /\ \/ ~Working(c)' /\ call'[c].token = NoToken
             \/ /\ call'[c].token = call[c].token /\ call'[c].account = call[c].account
                /\ call'[c].name = call[c].name /\ call'[c].pc # "reserve"
      BY <1>2, <2>4, GoesOnOrEnds, IdleShape DEF Working, IdleCall
    <3>2. QED
      BY <2>0, <2>4, <2>9, <3>1 DEF TokenInv
  <2>5. CASE Commits(c)
    <3>1. \A m \in Names : names'[m] # NoEntry =>
                 names[m] # NoEntry /\ names'[m].token = names[m].token /\ names'[m].owner = names[m].owner
      BY <1>0, <2>5, WrittenEntries, Fields DEF Commits, CommitRefused
    <3>2. QED
      BY <2>4, <2>5, <3>1 DEF Commits, Enters, ClaimSlot, Takes, Adopts
  <2>6. CASE Deletes(c)
    <3>1. \A m \in Names : names'[m] # NoEntry => names'[m] = names[m]
      BY <1>0, <2>6 DEF Deletes, DeleteName
    <3>2. QED
      BY <2>4, <2>6, <3>1 DEF Deletes, DeleteName, Enters, ClaimSlot, Takes, Adopts
  <2>7. names' = names \/ Takes(c) \/ Commits(c) \/ Deletes(c)
    BY <1>2, FrameOfStep
  <2>8. QED
    BY <2>1, <2>2, <2>3, <2>4, <2>5, <2>6, <2>7
<1>3. QED
  BY <1>1, <1>2, StepCases

\* What a step makes of the names.
LEMMA WrittenNames ==
  ASSUME CallInv, NEW c \in Callers, StepOf(c)
  PROVE  LET n == call[c].name
             e == names[n]
             f == names'[n]
         IN
         /\ \A m \in Names : m # n => names'[m] = names[m]
         /\ \/ names' = names /\ ~Takes(c) /\ ~Commits(c)
            \/ /\ Takes(c) /\ Free(e, call[c].now)
               /\ f # NoEntry /\ f.state = "reserved" /\ f.expires = call[c].now + Ttl
            \/ /\ Commits(c) /\ e # NoEntry /\ e.token = call[c].token
               /\ f # NoEntry /\ f.state = "committed" /\ f.owner = e.owner /\ f.token = e.token
               /\ e.state = "committed" => f = e
            \/ Deletes(c) /\ e # NoEntry /\ e.version = call[c].read /\ f = NoEntry
<1> DEFINE n == call[c].name
           e == names[n]
           f == names'[n]
<1>0. names \in [Names -> Entry \cup {NoEntry}] /\ n \in Names /\ e \in Entry \cup {NoEntry}
  BY Fields DEF CallInv, TypeOK
<1>1. CASE names' = names /\ ~Takes(c) /\ ~Commits(c)
  BY <1>1
<1>2. CASE Takes(c)
  <2>1. call[c].token \in Tokens /\ call[c].now \in Nat /\ call[c].account \in Owners
    BY <1>2, Fields, IdleShape DEF Takes, Shape, Call, Accounts
  <2>2. names' = [names EXCEPT ![n] = ReservedEntry(e, call[c].account, call[c].token, call[c].now)]
    BY <1>2 DEF Takes
  <2>3. /\ f = ReservedEntry(e, call[c].account, call[c].token, call[c].now)
        /\ \A m \in Names : m # n => names'[m] = names[m]
    BY <1>0, <2>2
  <2>4. f # NoEntry /\ f.state = "reserved" /\ f.expires = call[c].now + Ttl
    <3> DEFINE g == ReservedEntry(e, call[c].account, call[c].token, call[c].now)
    <3>1. g # NoEntry /\ g.state = "reserved"
      BY <1>0, <2>1, WrittenEntries
    <3>2. g.expires = call[c].now + Ttl
      BY DEF ReservedEntry
    <3>3. QED
      BY <2>3, <3>1, <3>2
  <2>5. Free(e, call[c].now)
    BY <1>2 DEF Takes
  <2>6. QED
    BY <1>2, <2>3, <2>4, <2>5
<1>3. CASE Commits(c)
  <2>1. e # NoEntry /\ e.token = call[c].token
    BY <1>3 DEF Commits, CommitRefused
  <2>2. names' = [names EXCEPT ![n] = CommittedEntry(@)]
    BY <1>3 DEF Commits
  <2>3. f = CommittedEntry(e) /\ \A m \in Names : m # n => names'[m] = names[m]
    BY <1>0, <2>2
  <2>4. /\ f # NoEntry /\ f.state = "committed" /\ f.owner = e.owner /\ f.token = e.token
        /\ e.state = "committed" => f = e
    BY <1>0, <2>1, <2>3, WrittenEntries
  <2>5. QED
    BY <1>3, <2>1, <2>3, <2>4
<1>4. CASE Deletes(c)
  <2>1. ~Takes(c) /\ ~Commits(c)
    BY <1>4, PlaceOfStep
  <2>2. QED
    BY <1>0, <1>1, <1>4, <2>1 DEF Deletes, DeleteName
<1>5. QED
  BY <1>1, <1>2, <1>3, <1>4, FrameOfStep

\* A claim that a create has, or that Reserve would answer it, does not lapse under it.
TimeInv ==
  \A c \in Callers :
    LET k == call[c]
        e == names[k.name]
    IN
    /\ k.pc = "reserve" => clock < k.now + Ttl
    /\ k.pc = "reserve" /\ e # NoEntry /\ e.owner = k.account => Expired(e, k.now) \/ ~Expired(e, clock)
    /\ Working(c) /\ e # NoEntry /\ e.token = k.token => ~Expired(e, clock)

LEMMA TimeInvInit == Init => TimeInv
BY IdleShape DEF Init, TimeInv, Working

\* The clock waits for whoever would be late; a reservation is written with time to spare.
LEMMA TimeInvNext ==
  ASSUME Prompt, CallInv, TokenInv, TimeInv, [Next]_vars
  PROVE  TimeInv'
<1>1. CASE Waits /\ clock' = clock
  BY <1>1 DEF Waits, TimeInv, Working
<1>2. CASE Waits /\ Tick
  <2>1. /\ names' = names /\ call' = call /\ clock' = clock + 1
        /\ \A c \in Callers : ~Late(c)
    BY <1>2 DEF Waits, Tick, ClockMoves
  <2>2. ASSUME NEW c \in Callers
        PROVE  LET k == call[c]
                   e == names[k.name]
               IN
               /\ k.pc = "reserve" => clock + 1 < k.now + Ttl
               /\ k.pc = "reserve" /\ e # NoEntry /\ e.owner = k.account => ~Expired(e, clock + 1)
               /\ Working(c) /\ e # NoEntry /\ e.token = k.token => ~Expired(e, clock + 1)
    <3>1. call[c].name \in Names /\ call[c].now \in Nat /\ clock \in Nat
      BY Fields
    <3>2. ~Late(c)
      BY <2>1
    <3>3. call[c].pc = "reserve" => clock + 1 < call[c].now + Ttl
      BY <3>1, <3>2, EntryAssumption DEF Late
    <3>4. Working(c) /\ names[call[c].name] # NoEntry /\ names[call[c].name].token = call[c].token =>
            call[c].pc \notin {"idle", "reserve"}
      BY <3>1 DEF TokenInv, Working
    <3>5. QED
      BY <3>2, <3>3, <3>4 DEF Late
  <2>3. QED
    BY <2>1, <2>2 DEF TimeInv, Working
<1>3. ASSUME NEW c \in Callers, StepOf(c)
      PROVE  TimeInv'
  <2>0. /\ clock' = clock /\ clock \in Nat /\ call[c].name \in Names
        /\ \A d \in Callers : d # c => call'[d] = call[d]
    BY <1>3, FrameOfStep, StepKeepsShape, Fields
  <2>1. ASSUME NEW m \in Names
        PROVE  names'[m] = names[m] \/ names'[m] = NoEntry \/ ~Expired(names'[m], clock)
    <3>1. CASE m # call[c].name \/ names' = names \/ Deletes(c) \/ Commits(c)
      BY <1>3, <3>1, WrittenNames, PlaceOfStep DEF Expired
    <3>2. CASE Takes(c) /\ m = call[c].name
      <4>1. clock < call[c].now + Ttl
        BY <3>2 DEF Takes, TimeInv
      <4>2. names'[m] = names[m] \/ names'[m].expires = call[c].now + Ttl
        BY <1>3, <3>2, WrittenNames, PlaceOfStep
      <4>3. QED
        BY <2>0, <4>1, <4>2, Fields, EntryAssumption DEF Expired
    <3>3. QED
      BY <1>3, <3>1, <3>2, WrittenNames
  <2>2. ASSUME NEW d \in Callers, d # c
        PROVE  LET k == call'[d]
                   e == names'[k.name]
               IN
               /\ k.pc = "reserve" => clock < k.now + Ttl
               /\ k.pc = "reserve" /\ e # NoEntry /\ e.owner = k.account => Expired(e, k.now) \/ ~Expired(e, clock)
               /\ Working(d)' /\ e # NoEntry /\ e.token = k.token => ~Expired(e, clock)
    <3>1. call'[d] = call[d] /\ call[d].name \in Names
      BY <2>0, <2>2, Fields
    <3>2. Working(d)' <=> Working(d)
      BY <3>1 DEF Working
    <3>3. QED
      BY <2>1, <3>1, <3>2 DEF TimeInv
  <2>3. LET k == call'[c]
            e == names'[k.name]
        IN
        /\ k.pc = "reserve" => clock < k.now + Ttl
        /\ k.pc = "reserve" /\ e # NoEntry /\ e.owner = k.account => Expired(e, k.now) \/ ~Expired(e, clock)
        /\ Working(c)' /\ e # NoEntry /\ e.token = k.token => ~Expired(e, clock)
    <3>1. CASE Enters(c)
      <4>1. PICK a \in Accounts, s \in Servers, n \in Names, t \in Tokens : ClaimSlot(c, a, s, n, t)
        BY <3>1 DEF Enters
      <4>2. /\ call'[c].token = t /\ call'[c].name = n /\ call'[c].now = clock
            /\ names' = names /\ Unused(t)
        BY <4>1, IdleShape DEF ClaimSlot, CallInv, TypeOK, Call
      <4>3. QED
        BY <2>0, <4>2, EntryAssumption DEF Unused
    <3>2. CASE ~Enters(c) /\ ~Adopts(c)
      <4>1. \/ call'[c] = IdleCall
            \/ /\ call'[c].name = call[c].name /\ call'[c].pc # "reserve" /\ call'[c].token = call[c].token
               /\ Working(c)
        BY <1>3, <3>2, GoesOnOrEnds
      <4>2. QED
        BY <2>0, <2>1, <4>1, IdleShape DEF TimeInv, Working
    <3>3. CASE Adopts(c)
      <4>1. /\ names' = names /\ names[call[c].name] # NoEntry
            /\ names[call[c].name].owner = call[c].account /\ ~Expired(names[call[c].name], call[c].now)
            /\ call[c].pc = "reserve"
        BY <3>3 DEF Adopts, Stores, Free
      <4>2. ~Expired(names[call[c].name], clock)
        BY <4>1 DEF TimeInv
      <4>3. (call'[c].name = call[c].name /\ call'[c].pc # "reserve") \/ call'[c] = IdleCall
        BY <1>3, <4>1, PlaceOfStep, GoesOnOrEnds
      <4>4. QED
        BY <4>1, <4>2, <4>3, IdleShape DEF Working
    <3>4. QED
      BY <3>1, <3>2, <3>3
  <2>4. QED
    BY <2>0, <2>2, <2>3 DEF TimeInv
<1>4. Waits => clock' = clock \/ Tick
  BY DEF Waits
<1>5. QED
  BY <1>1, <1>2, <1>3, <1>4, StepCases

\* A name that was handed out, or that its create answers for, is committed; the entry a
\* create is about to delete is the one it read, and its own.
NameInv ==
  /\ \A r \in handed :
       names[r.name] # NoEntry /\ names[r.name].state = "committed" /\ names[r.name].owner = r.account
  /\ \A c \in Callers :
       LET k == call[c]
           e == names[k.name]
       IN
       /\ OwesName(k) => e # NoEntry /\ e.state = "committed" /\ e.owner = k.account
       /\ k.pc = "delete" => /\ e # NoEntry /\ e.version = k.read /\ e.owner = k.account
                             /\ OwesName(k) \/ e.token = k.token

LEMMA NameInvInit == Init => NameInv
BY IdleShape, IdleOwesNothing DEF Init, NameInv

\* No create writes a name that another one answers for or that was handed out.
LEMMA OthersKeepName ==
  ASSUME CallInv, TokenInv, TimeInv, NameInv,
         NEW c \in Callers, StepOf(c), NEW m \in Names, names[m] # NoEntry,
         ~(m = call[c].name /\ names[m].owner = call[c].account)
  PROVE  /\ names[m].state = "committed" => names'[m] = names[m]
         /\ \A d \in Callers : Working(d) /\ names[m].token = call[d].token => names'[m] = names[m]
<1>0. call[c].name \in Names /\ call[c].now \in Nat /\ clock \in Nat /\ call[c].now <= clock
  BY Fields
<1>1. CASE names' = names \/ m # call[c].name
  BY <1>1, WrittenNames
<1>2. CASE m = call[c].name /\ Takes(c) /\ Free(names[m], call[c].now)
  <2>1. names[m].state = "reserved" /\ call[c].now >= names[m].expires
    BY <1>2 DEF Free, Expired
  <2>2. Expired(names[m], clock)
    <3>1. names[m].expires \in Nat
      BY DEF CallInv, TypeOK, Entry
    <3>2. QED
      BY <1>0, <2>1, <3>1 DEF Expired
  <2>3. ASSUME NEW d \in Callers, Working(d), names[m].token = call[d].token
        PROVE  FALSE
    <3>1. m = call[d].name
      BY <2>3 DEF TokenInv
    <3>2. QED
      BY <2>2, <2>3, <3>1 DEF TimeInv
  <2>4. QED
    BY <2>1, <2>3
<1>3. CASE m = call[c].name /\ Commits(c) /\ names[m].token = call[c].token
  BY <1>3, PlaceOfStep DEF TokenInv, Working
<1>4. CASE m = call[c].name /\ Deletes(c)
  BY <1>4, PlaceOfStep DEF NameInv
<1>5. QED
  BY <1>1, <1>2, <1>3, <1>4, WrittenNames

\* A delete is one step.
LEMMA DeletesOnce ==
  ASSUME CallInv, NEW c \in Callers, Deletes(c)
  PROVE  ~OwesName(call'[c]) /\ call'[c].pc # "delete"
<1>1. call'[c] = After(call[c]) /\ call[c].pc = "delete" /\ call[c] \in Call /\ Shape(call[c])
  BY MovedCall, Fields DEF Deletes, DeleteName
<1>2. call[c].todo # <<"slot">>
  BY <1>1, TodosDiffer DEF Shape
<1>3. QED
  BY <1>1, <1>2, AfterCall

\* Who answers for a name finds it as it left it.
LEMMA NameInvNext ==
  ASSUME NoNameOnTwoServers, CallInv, SlotInv, TokenInv, TimeInv, NameInv, [Next]_vars
  PROVE  NameInv'
<1>1. CASE Waits
  BY <1>1 DEF Waits, NameInv
<1>2. ASSUME NEW c \in Callers, StepOf(c)
      PROVE  NameInv'
  <2>0. /\ \A d \in Callers : d # c => call'[d] = call[d]
        /\ \A d \in Callers : call[d].name \in Names
        /\ \A r \in handed : r.name \in Names
    BY <1>2, StepKeepsShape, Fields DEF CallInv, TypeOK, Role
  \* What the step does to the name of its own create.
  <2>1. ASSUME OwesName(call'[c])
        PROVE  LET f == names'[call'[c].name] IN
               f # NoEntry /\ f.state = "committed" /\ f.owner = call'[c].account
    <3>1. /\ ~Deletes(c) /\ Working(c)
          /\ call'[c].name = call[c].name /\ call'[c].account = call[c].account
      <4>1. ~Enters(c)
        <5>1. Enters(c) => call'[c].pc = "reserve" /\ call'[c].todo = <<>>
          BY IdleShape DEF Enters, ClaimSlot, CallInv, TypeOK, Call, IdleCall
        <5>2. QED
          BY <2>1, <5>1, TodosDiffer DEF OwesName, Todos
      <4>2. QED
        BY <1>2, <2>1, <4>1, DeletesOnce, GoesOnOrEnds, IdleOwesNothing
    <3>2. OwesName(call[c]) \/ Commits(c)
      BY <1>2, <2>1, NameOwed
    <3>3. CASE Commits(c)
      BY <1>2, <2>0, <3>1, <3>3, PlaceOfStep, WrittenNames DEF TokenInv
    <3>4. CASE OwesName(call[c]) /\ ~Commits(c)
      <4>1. call[c].pc # "reserve"
        BY <3>4, Fields, TodosDiffer DEF OwesName, Shape, Todos
      <4>2. names' = names
        BY <1>2, <3>1, <3>4, <4>1, PlaceOfStep, WrittenNames
      <4>3. QED
        BY <3>1, <3>4, <4>2 DEF NameInv
    <3>5. QED
      BY <3>2, <3>3, <3>4
  <2>2. ASSUME call'[c].pc = "delete"
        PROVE  LET f == names'[call'[c].name] IN
               /\ f # NoEntry /\ f.version = call'[c].read /\ f.owner = call'[c].account
               /\ OwesName(call'[c]) \/ f.token = call'[c].token
    <3>1. ReadsToDelete(c)
      BY <1>2, <2>2, NameOwed
    <3>2. names' = names /\ Working(c) /\ call[c].pc = "undo"
      BY <3>1 DEF ReadsToDelete, Stores, Working
    <3>3. /\ call'[c].name = call[c].name /\ call'[c].account = call[c].account
          /\ call'[c].token = call[c].token /\ call'[c].todo = call[c].todo
          /\ call'[c].read = names[call[c].name].version
      <4>1. call'[c] = [call[c] EXCEPT !.pc = "delete", !.read = names[call[c].name].version]
        BY <3>1, MovedCall DEF ReadsToDelete
      <4>2. QED
        BY <4>1, Fields DEF Call
    <3>4. CASE call[c].todo = <<"claim", "slot">> /\ Cancellable(names[call[c].name], call[c].token)
      BY <2>0, <3>2, <3>3, <3>4 DEF Cancellable, TokenInv
    <3>5. CASE call[c].todo = <<"name", "role", "slot">> /\ Releasable(names[call[c].name], call[c].account)
      BY <3>2, <3>3, <3>5 DEF Releasable, OwesName
    <3>6. QED
      BY <3>1, <3>4, <3>5 DEF ReadsToDelete
  <2>3. ASSUME NEW d \in Callers, d # c, OwesName(call[d]) \/ call[d].pc = "delete"
        PROVE  names'[call[d].name] = names[call[d].name]
    <3>1. Working(d)
      BY <2>3, Fields, TodosDiffer DEF OwesName, Shape, Working, Todos
    <3>2. names[call[d].name] # NoEntry /\ names[call[d].name].owner = call[d].account
      BY <2>3 DEF NameInv
    <3>3. OwesName(call[d]) => names[call[d].name].state = "committed"
      BY DEF NameInv
    <3>4. ~OwesName(call[d]) => names[call[d].name].token = call[d].token
      BY <2>3 DEF NameInv
    <3>5. CASE Working(c)
      <4>1. ~(call[d].account = call[c].account /\ call[d].name = call[c].name)
        BY <2>3, <3>1, <3>5, OneNameOneCreate
      <4>2. QED
        BY <1>2, <2>0, <3>1, <3>2, <3>3, <3>4, <4>1, OthersKeepName
    <3>6. CASE ~Working(c)
      BY <1>2, <3>6, PlaceOfStep, WrittenNames DEF Working
    <3>7. QED
      BY <3>5, <3>6
  <2>4. ASSUME NEW r \in handed
        PROVE  names'[r.name] = names[r.name]
    <3>1. CASE Working(c)
      <4>1. ~(r.account = call[c].account /\ r.name = call[c].name)
        BY <3>1, OneNameOneCreate
      <4>2. QED
        BY <1>2, <2>0, <4>1, OthersKeepName DEF NameInv
    <3>2. CASE ~Working(c)
      BY <1>2, <3>2, PlaceOfStep, WrittenNames DEF Working
    <3>3. QED
      BY <3>1, <3>2
  <2>5. ASSUME NEW r \in handed', r \notin handed
        PROVE  names'[r.name] # NoEntry /\ names'[r.name].state = "committed" /\ names'[r.name].owner = r.account
    <3>1. r = RoleOf(c) /\ Records(c) /\ names' = names
      BY <1>2, <2>5, FrameOfStep DEF Records
    <3>2. QED
      BY <3>1 DEF NameInv, OwesName, Records, RoleOf
  <2>6. QED
    <3>1. \A r \in handed' :
            names'[r.name] # NoEntry /\ names'[r.name].state = "committed" /\ names'[r.name].owner = r.account
      BY <2>4, <2>5 DEF NameInv
    <3>2. ASSUME NEW d \in Callers
          PROVE  LET k == call'[d]
                     e == names'[k.name]
                 IN
                 /\ OwesName(k) => e # NoEntry /\ e.state = "committed" /\ e.owner = k.account
                 /\ k.pc = "delete" => /\ e # NoEntry /\ e.version = k.read /\ e.owner = k.account
                                       /\ OwesName(k) \/ e.token = k.token
      <4>1. CASE d = c
        BY <2>1, <2>2, <4>1
      <4>2. CASE d # c
        BY <2>0, <2>3, <4>2 DEF NameInv
      <4>3. QED
        BY <4>1, <4>2
    <3>3. QED
      BY <3>1, <3>2 DEF NameInv
<1>3. QED
  BY <1>1, <1>2, StepCases

-----------------------------------------------------------------------------
(* What is left behind, as long as no fault stopped a compensation.        *)

\* A slot that is taken is somebody's, and not yet written again by a create in progress.
SlotsLeft ==
  faults.undone =>
    /\ \A c \in Callers : Working(c) => slots[SlotOf(c)].version = 1
    /\ \A k \in SlotKeys : slots[k] # NoSlot => SlotIsAnsweredFor(k)

\* Somebody answers for every record, or was handed it.
RolesLeft ==
  faults.undone =>
    \A p \in PlayerIds : roles[p] # NoRole =>
      \/ \E r \in handed : r.player = p
      \/ \E c \in Callers : OwesRole(call[c]) /\ call[c].player = p

\* Somebody answers for every committed name, or was handed it.
NamesLeft ==
  faults.undone =>
    \A n \in Names : names[n] # NoEntry /\ names[n].state = "committed" =>
      \/ \E r \in handed : r.name = n
      \/ \E c \in Callers : OwesName(call[c]) /\ call[c].name = n

LEMMA LeftInit == Init => SlotsLeft /\ RolesLeft /\ NamesLeft
BY IdleShape DEF Init, SlotsLeft, RolesLeft, NamesLeft, Working

\* A create ends by handing out its role or by giving back its slot.
LEMMA EndOfCreate ==
  ASSUME CallInv, NEW c \in Callers, StepOf(c), call'[c] = IdleCall
  PROVE  handed' = handed \cup {RoleOf(c)} \/ Releases(c) \/ ~faults'.undone
<1>0. call[c] \in Call /\ Shape(call[c])
  BY Fields
<1>1. IdleCall.pc = "idle"
  BY IdleShape
<1>2. call'[c].pc # "idle" => call'[c] # IdleCall
  BY <1>1
<1>3. CASE call'[c] = Failed(call[c]) /\ call[c].pc \in {"reserve", "allocate", "insert", "commit", "record"}
  BY <1>0, <1>1, <1>3, FailedCall
<1>4. CASE call'[c] = After(call[c]) /\ call[c].pc \in {"undo", "delete"} /\ call[c].todo # <<"slot">>
  BY <1>0, <1>1, <1>4, AfterCall
<1>5. CASE Enters(c)
  <2>1. PICK a \in Accounts, s \in Servers, n \in Names, t \in Tokens : ClaimSlot(c, a, s, n, t)
    BY <1>5 DEF Enters
  <2>2. call'[c].pc = "reserve"
    <3>1. call'[c] = [IdleCall EXCEPT !.pc = "reserve", !.account = a, !.server = s, !.name = n,
                                      !.token = t, !.now = clock]
      BY <2>1 DEF ClaimSlot, CallInv, TypeOK
    <3>2. QED
      BY <3>1 DEF IdleCall
  <2>3. QED
    BY <1>1, <2>2
<1>6. CASE Takes(c) \/ Inserts(c) \/ Commits(c)
  <2>1. call[c].pc \in {"reserve", "insert", "commit"}
    BY <1>6, PlaceOfStep
  <2>2. \/ call'[c] = Failed(call[c])
        \/ call'[c] = [call[c] EXCEPT !.pc = "allocate"]
        \/ call'[c] = [call[c] EXCEPT !.pc = "commit", !.now = clock]
        \/ call'[c] = [call[c] EXCEPT !.pc = "record"]
    BY <1>6, MovedCall DEF Takes, Inserts, Commits, WritesAndMovesTo
  <2>3. call'[c] = Failed(call[c]) \/ call'[c].pc \in {"allocate", "commit", "record"}
    BY <1>0, <2>2 DEF Call
  <2>4. QED
    BY <1>1, <1>3, <2>1, <2>3
<1>7. CASE Adopts(c)
  <2>1. call'[c] = [call[c] EXCEPT !.pc = "allocate", !.token = names[call[c].name].token]
    BY <1>7, MovedCall DEF Adopts
  <2>2. QED
    BY <1>0, <1>1, <2>1 DEF Call
<1>8. CASE Allocates(c)
  <2>1. \E p \in PlayerIds : call'[c] = [call[c] EXCEPT !.pc = "insert", !.player = p]
    BY <1>8, MovedCall DEF Allocates
  <2>2. QED
    BY <1>0, <1>1, <2>1 DEF Call
<1>9. CASE ReadsToDelete(c)
  <2>1. call'[c] = [call[c] EXCEPT !.pc = "delete", !.read = names[call[c].name].version]
    BY <1>9, MovedCall DEF ReadsToDelete
  <2>2. QED
    BY <1>0, <1>1, <2>1 DEF Call
<1>10. CASE Records(c) \/ Fails(c) \/ Crashes(c)
  BY <1>3, <1>10, MovedCall DEF Records, Fails, Crashes
<1>11. CASE UndoesRole(c)
  BY <1>4, <1>11, MovedCall, HeadFacts DEF UndoesRole, UndoRole, Undoing
<1>12. CASE Deletes(c)
  BY <1>0, <1>4, <1>12, MovedCall, TodosDiffer DEF Deletes, DeleteName, Shape
<1>13. CASE Skips(c)
  BY <1>4, <1>13, MovedCall, TodosDiffer DEF Skips
<1>14. QED
  BY <1>5, <1>6, <1>7, <1>8, <1>9, <1>10, <1>11, <1>12, <1>13 DEF StepOf

\* A create that ends has given back its slot or has a role.
LEMMA SlotsLeftNext ==
  ASSUME CallInv, SlotInv, SlotsLeft, [Next]_vars
  PROVE  SlotsLeft'
<1> SUFFICES ASSUME faults'.undone
             PROVE  /\ \A c \in Callers : Working(c)' => slots'[SlotOf(c)'].version = 1
                    /\ \A k \in SlotKeys : slots'[k] # NoSlot => SlotIsAnsweredFor(k)'
  BY DEF SlotsLeft
<1>0. /\ slots \in [SlotKeys -> Slot \cup {NoSlot}]
      /\ \A c \in Callers : Working(c) => slots[SlotOf(c)].version = 1
      /\ \A k \in SlotKeys : slots[k] # NoSlot => SlotIsAnsweredFor(k)
  BY FaultsStep DEF SlotsLeft, CallInv, TypeOK
<1>1. CASE Waits
  BY <1>0, <1>1 DEF Waits, SlotIsAnsweredFor, Working, SlotOf
<1>2. ASSUME NEW c \in Callers, Enters(c)
      PROVE  /\ \A d \in Callers : Working(d)' => slots'[SlotOf(d)'].version = 1
             /\ \A k \in SlotKeys : slots'[k] # NoSlot => SlotIsAnsweredFor(k)'
  <2>1. PICK a \in Accounts, s \in Servers, n \in Names, t \in Tokens : ClaimSlot(c, a, s, n, t)
    BY <1>2 DEF Enters
  <2>2. /\ <<a, s>> \in SlotKeys /\ slots[<<a, s>>] = NoSlot
        /\ slots' = [slots EXCEPT ![<<a, s>>] = [player |-> NoPlayer, version |-> 1]]
        /\ handed' = handed /\ ~Working(c)
    BY <2>1 DEF ClaimSlot, SlotKeys, Working
  <2>3. /\ call'[c].account = a /\ call'[c].server = s /\ call'[c].pc = "reserve"
        /\ \A d \in Callers : d # c => call'[d] = call[d]
    BY <2>1, IdleShape DEF ClaimSlot, CallInv, TypeOK, Call
  <2>4. /\ Working(c)' /\ SlotOf(c)' = <<a, s>>
        /\ \A d \in Callers : d # c => Working(d)' = Working(d) /\ SlotOf(d)' = SlotOf(d)
    BY <2>3 DEF Working, SlotOf
  <2>5. slots'[<<a, s>>].version = 1 /\ \A k \in SlotKeys : k # <<a, s>> => slots'[k] = slots[k]
    BY <1>0, <2>2
  <2>6. \A d \in Callers : Working(d) => SlotOf(d) \in SlotKeys /\ SlotOf(d) # <<a, s>>
    BY <2>2, Fields DEF SlotInv
  <2>7. \A d \in Callers : Working(d)' => slots'[SlotOf(d)'].version = 1
    BY <1>0, <2>2, <2>4, <2>5, <2>6
  <2>8. \A k \in SlotKeys : SlotIsAnsweredFor(k) => SlotIsAnsweredFor(k)'
    BY <2>2, <2>4 DEF SlotIsAnsweredFor
  <2>9. SlotIsAnsweredFor(<<a, s>>)'
    BY <2>4 DEF SlotIsAnsweredFor
  <2>10. QED
    BY <1>0, <2>5, <2>7, <2>8, <2>9
<1>3. ASSUME NEW c \in Callers, StepOf(c), ~Enters(c)
      PROVE  /\ \A d \in Callers : Working(d)' => slots'[SlotOf(d)'].version = 1
             /\ \A k \in SlotKeys : slots'[k] # NoSlot => SlotIsAnsweredFor(k)'
  <2>0. Working(c) /\ SlotOf(c) \in SlotKeys
    BY <1>3, GoesOnOrEnds, Fields
  <2>1. /\ \A k \in SlotKeys : k # SlotOf(c) => slots'[k] = slots[k]
        /\ handed \subseteq handed'
        /\ slots' = slots \/ Releases(c) \/ Records(c)
    BY <1>0, <1>3, <2>0, FrameOfStep DEF Records, Releases, ReleaseSlot
  <2>2. Working(c)' => slots' = slots
    <3>1. CASE Releases(c)
      <4>1. call'[c] = IdleCall
        BY <3>1, MovedCall, AfterCall, Fields, HeadOfTodo DEF Releases, ReleaseSlot, Undoing
      <4>2. QED
        BY <4>1, IdleShape DEF Working
    <3>2. CASE Records(c)
      BY <3>2, MovedCall, IdleShape DEF Records, Working
    <3>3. QED
      BY <2>1, <3>1, <3>2
  <2>3. ASSUME NEW d \in Callers, Working(d)'
        PROVE  slots'[SlotOf(d)'].version = 1
    <3>1. Working(d) /\ SlotOf(d)' = SlotOf(d) /\ SlotOf(d) \in SlotKeys
      BY <1>3, <2>3, WorksOn, Fields
    <3>2. CASE d = c
      BY <1>0, <2>2, <2>3, <3>1, <3>2
    <3>3. CASE d # c
      <4>1. SlotOf(d) # SlotOf(c)
        BY <2>0, <3>1, <3>3 DEF SlotInv
      <4>2. QED
        BY <1>0, <2>1, <3>1, <4>1
    <3>4. QED
      BY <3>2, <3>3
  <2>4. ASSUME NEW k \in SlotKeys, slots'[k] # NoSlot
        PROVE  SlotIsAnsweredFor(k)'
    <3>1. SlotIsAnsweredFor(k)
      BY <1>0, <2>0, <2>1, <2>4 DEF SlotInv
    <3>2. CASE \E r \in handed : <<r.account, r.server>> = k
      BY <2>1, <3>2 DEF SlotIsAnsweredFor
    <3>3. ASSUME NEW d \in Callers, Working(d), SlotOf(d) = k, d # c
          PROVE  SlotIsAnsweredFor(k)'
      <4>1. call'[d] = call[d]
        BY <1>3, <3>3, StepKeepsShape
      <4>2. QED
        BY <3>3, <4>1 DEF SlotIsAnsweredFor, Working, SlotOf
    <3>4. CASE SlotOf(c) = k
      <4>1. CASE call'[c] # IdleCall
        BY <1>3, <3>4, <4>1, GoesOnOrEnds, StepKeepsShape DEF SlotIsAnsweredFor, Working, SlotOf, Shape
      <4>2. CASE call'[c] = IdleCall
        <5>1. ~Releases(c)
          <6>1. SUFFICES ASSUME Releases(c) PROVE FALSE
            OBVIOUS
          <6>2. slots' = [slots EXCEPT ![k] = NoSlot]
            BY <1>0, <2>0, <3>4, <6>1 DEF Releases, ReleaseSlot, SlotInv
          <6>3. QED
            BY <1>0, <2>4, <6>2
        <5>2. handed' = handed \cup {RoleOf(c)}
          BY <1>3, <4>2, <5>1, EndOfCreate
        <5>3. <<RoleOf(c).account, RoleOf(c).server>> = k
          BY <3>4 DEF RoleOf, SlotOf
        <5>4. QED
          BY <5>2, <5>3 DEF SlotIsAnsweredFor
      <4>3. QED
        BY <4>1, <4>2
    <3>5. QED
      BY <3>1, <3>2, <3>3, <3>4 DEF SlotIsAnsweredFor
  <2>5. QED
    BY <2>3, <2>4
<1>4. ASSUME NEW c \in Callers
      PROVE  Enters(c) => StepOf(c)
  BY DEF StepOf
<1>5. QED
  BY <1>1, <1>2, <1>3, <1>4, StepCases

\* A create answers for its record until that is undone or handed out.
LEMMA RolesLeftNext ==
  ASSUME CallInv, RolesLeft, [Next]_vars
  PROVE  RolesLeft'
<1> SUFFICES ASSUME faults'.undone, NEW p \in PlayerIds, roles'[p] # NoRole
             PROVE  \/ \E r \in handed' : r.player = p
                    \/ \E c \in Callers : OwesRole(call'[c]) /\ call'[c].player = p
  BY DEF RolesLeft
<1>0. /\ roles \in [PlayerIds -> Role \cup {NoRole}]
      /\ roles[p] # NoRole => \/ \E r \in handed : r.player = p
                              \/ \E c \in Callers : OwesRole(call[c]) /\ call[c].player = p
  BY FaultsStep DEF RolesLeft, CallInv, TypeOK
<1>1. CASE Waits
  BY <1>0, <1>1 DEF Waits
<1>2. ASSUME NEW c \in Callers, StepOf(c)
      PROVE  \/ \E r \in handed' : r.player = p
             \/ \E d \in Callers : OwesRole(call'[d]) /\ call'[d].player = p
  <2>0. handed \subseteq handed' /\ \A d \in Callers : d # c => call'[d] = call[d]
    BY <1>2, StepKeepsShape, FrameOfStep
  <2>1. CASE roles[p] # NoRole /\ ~(OwesRole(call[c]) /\ call[c].player = p)
    BY <1>0, <2>0, <2>1
  <2>2. CASE OwesRole(call[c]) /\ call[c].player = p
    <3>1. ~UndoesRole(c)
      <4>1. SUFFICES ASSUME UndoesRole(c) PROVE FALSE
        OBVIOUS
      <4>2. roles' = [roles EXCEPT ![p] = NoRole]
        BY <2>2, <4>1 DEF UndoesRole, UndoRole
      <4>3. QED
        BY <1>0, <4>2
    <3>2. RoleOf(c).player = p /\ RoleOf(c)'.player = call'[c].player
      BY <2>2 DEF RoleOf
    <3>3. CASE OwesRole(call'[c]) /\ RoleOf(c)' = RoleOf(c)
      BY <3>2, <3>3
    <3>4. CASE handed' = handed \cup {RoleOf(c)}
      BY <3>2, <3>4
    <3>5. QED
      BY <1>2, <2>2, <3>1, <3>3, <3>4, RoleOwed
  <2>3. CASE roles[p] = NoRole
    <3>1. Inserts(c) /\ call[c].player = p
      <4>1. Inserts(c) \/ UndoesRole(c)
        BY <1>2, <2>3, FrameOfStep
      <4>2. QED
        BY <1>0, <2>3, <4>1 DEF Inserts, UndoesRole, UndoRole
    <3>2. call'[c] = [call[c] EXCEPT !.pc = "commit", !.now = clock]
      BY <3>1, MovedCall DEF Inserts, WritesAndMovesTo
    <3>3. call'[c].pc = "commit" /\ call'[c].player = p
      BY <3>1, <3>2, Fields DEF Call
    <3>4. QED
      BY <3>3 DEF OwesRole
  <2>4. QED
    BY <2>1, <2>2, <2>3
<1>3. QED
  BY <1>1, <1>2, StepCases

\* A create answers for its name until that is deleted or handed out: the delete finds the
\* version that was read.
LEMMA NamesLeftNext ==
  ASSUME CallInv, SlotInv, TokenInv, TimeInv, NameInv, NamesLeft, [Next]_vars
  PROVE  NamesLeft'
<1> SUFFICES ASSUME faults'.undone, NEW n \in Names, names'[n] # NoEntry, names'[n].state = "committed"
             PROVE  \/ \E r \in handed' : r.name = n
                    \/ \E c \in Callers : OwesName(call'[c]) /\ call'[c].name = n
  BY DEF NamesLeft
<1>0. names[n] # NoEntry /\ names[n].state = "committed" =>
        \/ \E r \in handed : r.name = n
        \/ \E c \in Callers : OwesName(call[c]) /\ call[c].name = n
  BY FaultsStep DEF NamesLeft
<1>1. CASE Waits
  BY <1>0, <1>1 DEF Waits
<1>2. ASSUME NEW c \in Callers, StepOf(c)
      PROVE  \/ \E r \in handed' : r.name = n
             \/ \E d \in Callers : OwesName(call'[d]) /\ call'[d].name = n
  <2>0. handed \subseteq handed' /\ \A d \in Callers : d # c => call'[d] = call[d]
    BY <1>2, StepKeepsShape, FrameOfStep
  <2>1. CASE Commits(c) /\ call[c].name = n
    <3>1. call'[c] = [call[c] EXCEPT !.pc = "record"]
      BY <2>1, MovedCall DEF Commits, WritesAndMovesTo
    <3>2. call'[c].pc = "record" /\ call'[c].name = n
      BY <2>1, <3>1, Fields DEF Call
    <3>3. QED
      BY <3>2 DEF OwesName
  <2>2. CASE OwesName(call[c]) /\ call[c].name = n /\ ~Commits(c)
    <3>1. names[n] # NoEntry /\ names[n].owner = call[c].account
      BY <2>2 DEF NameInv
    <3>2. ~Deletes(c)
      <4>1. SUFFICES ASSUME Deletes(c) PROVE FALSE
        OBVIOUS
      <4>2. names[n].version = call[c].read
        BY <2>2, <4>1, PlaceOfStep DEF NameInv
      <4>3. names' = [names EXCEPT ![n] = NoEntry]
        BY <2>2, <3>1, <4>1, <4>2 DEF Deletes, DeleteName
      <4>4. QED
        BY <4>3 DEF CallInv, TypeOK
    <3>3. Releasable(names[n], call[c].account)
      BY <3>1 DEF Releasable
    <3>4. CASE OwesName(call'[c])
      <4>1. call'[c].name = n
        <5>1. ~Enters(c)
          BY <2>2, IdleOwesNothing, Fields, PlaceOfStep DEF Shape
        <5>2. QED
          BY <1>2, <2>2, <3>4, <5>1, GoesOnOrEnds, IdleOwesNothing
      <4>2. QED
        BY <3>4, <4>1
    <3>5. CASE handed' = handed \cup {RoleOf(c)}
      <4>1. RoleOf(c).name = n
        BY <2>2 DEF RoleOf
      <4>2. QED
        BY <3>5, <4>1
    <3>6. QED
      BY <1>2, <2>2, <3>2, <3>3, <3>4, <3>5, NameOwed
  <2>3. CASE ~(Commits(c) /\ call[c].name = n) /\ ~(OwesName(call[c]) /\ call[c].name = n)
    <3>1. names[n] # NoEntry /\ names[n].state = "committed"
      BY <1>2, <2>3, WrittenNames
    <3>2. QED
      BY <1>0, <2>0, <2>3, <3>1
  <2>4. QED
    BY <2>1, <2>2, <2>3
<1>3. QED
  BY <1>1, <1>2, StepCases

-----------------------------------------------------------------------------
(* What the stores, and what the claims promise.                           *)

\* What holds of every execution.
CreateInv == CallInv /\ SlotInv /\ RoleInv /\ SlotsLeft /\ RolesLeft

LEMMA CreateInvAlways == Spec => []CreateInv
<1>1. Init => CreateInv
  BY CallInvInit, SlotInvInit, RoleInvInit, LeftInit DEF CreateInv
<1>2. CreateInv /\ [Next]_vars => CreateInv'
  BY CallInvNext, SlotInvNext, RoleInvNext, SlotsLeftNext, RolesLeftNext DEF CreateInv
<1>3. QED
  BY <1>1, <1>2, PTL DEF Spec

\* What holds as long as claims outlive creates and names are used once.
ClaimInv == TokenInv /\ TimeInv /\ NameInv /\ NamesLeft

LEMMA ClaimInvAlways ==
  ASSUME Prompt
  PROVE  Spec /\ []NoNameOnTwoServers => []ClaimInv
<1>1. Init => ClaimInv
  BY TokenInvInit, TimeInvInit, NameInvInit, LeftInit DEF ClaimInv
<1>2. NoNameOnTwoServers /\ CreateInv /\ ClaimInv /\ [Next]_vars => ClaimInv'
  BY TokenInvNext, TimeInvNext, NameInvNext, NamesLeftNext DEF ClaimInv, CreateInv
<1>3. QED
  BY <1>1, <1>2, CreateInvAlways, PTL DEF Spec

\* Every variable of the three stores and of the creates is well typed, what a create
\* remembers of its compensation included, whatever fails (CreateRole).
THEOREM AccountTypeCorrect == Spec => []TypeOK
<1>1. CreateInv => TypeOK
  BY DEF CreateInv, CallInv
<1>2. QED
  BY <1>1, CreateInvAlways, PTL

\* Whatever fails, however late creates are and whatever names they ask for: a role that
\* was handed out keeps its record, its slot names it, and no other role has that slot.
THEOREM HandedRolesKeepSlotAndRecord ==
  Spec => [](\A r \in handed :
               /\ roles[r.player] = r
               /\ slots[<<r.account, r.server>>] # NoSlot
               /\ slots[<<r.account, r.server>>].player = r.player
               /\ \A q \in handed : <<q.account, q.server>> = <<r.account, r.server>> => q = r)
<1>1. CreateInv => \A r \in handed :
               /\ roles[r.player] = r
               /\ slots[<<r.account, r.server>>] # NoSlot
               /\ slots[<<r.account, r.server>>].player = r.player
               /\ \A q \in handed : <<q.account, q.server>> = <<r.account, r.server>> => q = r
  BY DEF CreateInv, SlotInv, RoleInv
<1>2. QED
  BY <1>1, CreateInvAlways, PTL

\* With creates that end before their claims lapse, and no name on two servers, a role that
\* was handed out is whole and stays whole: its name is committed to its account, too.
THEOREM HandedRolesAlwaysWhole ==
  ASSUME Prompt
  PROVE  Spec /\ []NoNameOnTwoServers => []HandedRolesAreWhole
<1>1. CreateInv /\ ClaimInv => HandedRolesAreWhole
  BY DEF CreateInv, CallInv, SlotInv, RoleInv, ClaimInv, NameInv, HandedRolesAreWhole
<1>2. QED
  BY <1>1, CreateInvAlways, ClaimInvAlways, PTL

\* Under the same assumptions a create that fails leaves nothing behind, as long as no fault
\* stops a compensation: no slot, no record and no committed name.
THEOREM FailedCreatesLeaveNothing ==
  ASSUME Prompt
  PROVE  Spec /\ []NoNameOnTwoServers => []FailedCreateLeavesNothing
<1>1. CreateInv /\ ClaimInv => FailedCreateLeavesNothing
  <2> SUFFICES ASSUME CreateInv, ClaimInv, faults.undone
               PROVE  /\ \A k \in SlotKeys : slots[k] # NoSlot => SlotIsAnsweredFor(k)
                      /\ \A p \in PlayerIds : roles[p] # NoRole =>
                           \/ \E r \in handed : r.player = p
                           \/ \E c \in Callers : Working(c) /\ call[c].player = p
                      /\ \A n \in Names : names[n] # NoEntry /\ names[n].state = "committed" =>
                           \/ \E r \in handed : r.name = n
                           \/ \E c \in Callers : Working(c) /\ call[c].name = n
    BY DEF FailedCreateLeavesNothing
  <2>1. ASSUME NEW c \in Callers, OwesRole(call[c]) \/ OwesName(call[c])
        PROVE  Working(c)
    BY <2>1, Fields, TodosDiffer DEF CreateInv, OwesRole, OwesName, Shape, Working, Todos
  <2>2. \A k \in SlotKeys : slots[k] # NoSlot => SlotIsAnsweredFor(k)
    BY DEF CreateInv, SlotsLeft
  <2>3. \A p \in PlayerIds : roles[p] # NoRole =>
           \/ \E r \in handed : r.player = p
           \/ \E c \in Callers : Working(c) /\ call[c].player = p
    BY <2>1 DEF CreateInv, RolesLeft
  <2>4. \A n \in Names : names[n] # NoEntry /\ names[n].state = "committed" =>
           \/ \E r \in handed : r.name = n
           \/ \E c \in Callers : Working(c) /\ call[c].name = n
    BY <2>1 DEF ClaimInv, NamesLeft
  <2>5. QED
    BY <2>2, <2>3, <2>4
<1>2. QED
  BY <1>1, CreateInvAlways, ClaimInvAlways, PTL

\* Under the same assumptions the creates implement the atomic registry: the roles handed
\* out have different ids, an account has one on a server, and names are of one account.
THEOREM CreatesImplementRegistry ==
  ASSUME Prompt
  PROVE  Spec /\ []NoNameOnTwoServers => RefinesRegistry
<1>1. Init => Registry!Init
  BY DEF Init, Registry!Init
<1>2. CreateInv /\ ClaimInv /\ [Next]_vars => [Registry!Next]_handed
  <2> SUFFICES ASSUME CreateInv, ClaimInv, [Next]_vars, handed' # handed
               PROVE  Registry!Next
    OBVIOUS
  <2>1. PICK c \in Callers : StepOf(c)
    BY StepCases DEF CreateInv, Waits
  <2>2. Records(c) /\ handed' = handed \cup {RoleOf(c)}
    BY <2>1, FrameOfStep
  <2>3. OwesRole(call[c]) /\ OwesName(call[c]) /\ Working(c)
    BY <2>2 DEF Records, OwesRole, OwesName, Working
  <2>4. RoleOf(c) \in Role /\ \A q \in handed : q.player # call[c].player
    BY <2>3, OneRoleOneOwner DEF CreateInv
  <2>5. \A q \in handed : <<q.account, q.server>> # SlotOf(c)
    BY <2>3 DEF CreateInv, SlotInv
  <2>6. \A q \in handed : q.name = call[c].name => q.account = call[c].account
    BY <2>3 DEF ClaimInv, NameInv
  <2>7. Registry!Admissible(RoleOf(c))
    BY <2>4, <2>5, <2>6 DEF Registry!Admissible, RoleOf, SlotOf
  <2>8. RoleOf(c) \in Registry!Role
    BY <2>4 DEF Role, Registry!Role, Accounts
  <2>9. QED
    BY <2>2, <2>7, <2>8 DEF Registry!Next, Registry!Create
<1>3. QED
  BY <1>1, <1>2, CreateInvAlways, ClaimInvAlways, PTL DEF Spec, RefinesRegistry, Registry!Spec

\* The assumption on names holds by itself where there is one server, because the slot of
\* an account lets one create through.
THEOREM OneServerHasNoSecond ==
  ASSUME \A s, t \in Servers : s = t
  PROVE  Spec => []NoNameOnTwoServers
<1>1. CreateInv => NoNameOnTwoServers
  BY Fields DEF CreateInv, CallInv, TypeOK, Role, NoNameOnTwoServers
<1>2. QED
  BY <1>1, CreateInvAlways, PTL

\* So with one server and creates that end in time, everything the creates promise holds
\* of every execution: whole roles, nothing left behind, and the atomic registry.
THEOREM OneServerKeepsItsPromises ==
  ASSUME Prompt, \A s, t \in Servers : s = t
  PROVE  Spec => []HandedRolesAreWhole /\ []FailedCreateLeavesNothing /\ RefinesRegistry
<1>1. Spec => []NoNameOnTwoServers
  BY OneServerHasNoSecond
<1>2. Spec /\ []NoNameOnTwoServers => []HandedRolesAreWhole
  BY HandedRolesAlwaysWhole
<1>3. Spec /\ []NoNameOnTwoServers => []FailedCreateLeavesNothing
  BY FailedCreatesLeaveNothing
<1>4. Spec /\ []NoNameOnTwoServers => RefinesRegistry
  BY CreatesImplementRegistry
<1>5. QED
  BY <1>1, <1>2, <1>3, <1>4, PTL
=============================================================================
