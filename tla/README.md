# Specifications of roost-kit

`roost-kit` is the assembly layer of a game server framework. Most of its
directories are Mods that read configuration and hand it to engines that live in
`roost-core`; the program's own state machines are the common services under
`service/`. This directory models those services and the assembly of a process in
TLA+, checks them with TLC and proves most of what is checked with TLAPS.

Every service keeps its state in a `versionstore.Store` of `roost-core` (Redis in
production). Such a store has an insert-only `Create`, a `Load`, an `Update` that
retries a compare-and-set until the decision it was given was taken on the record
it replaces, and a version-checked `Delete`; there is no unconditional write. So
one update is one atomic step in these models, and everything another process
does can happen between two of them. What a service decides *outside* an update,
on a clock or a record it read before, is where its interesting behaviour is.

## 1. Inventory

| Component | State | Operations | Talks to | What is hard | What makes it correct |
|---|---|---|---|---|---|
| platform payments, `service/platform` | one order record per provider order id; a Redis sorted set of pending ids, written with the record by one script | `HandleCallback`, `AttemptDelivery`, retry loop, `ReopenDelivery`, `SettleOutOfBand` | deliverer (callback into the game), provider (signed HTTP), operators | an attempt is a claim, a call of unknown length and a record of the answer; it can be joined by other attempts, an operator, a crash | every attempt accounted for; delivered is final; the index agrees with the records; one delivery at a time |
| platform login, `service/platform/identity.go` | none | verify a credential, sign a session | external verifier | nothing is kept | - |
| directory, `service/directory` | one entry per key: reserved with a deadline, or committed | `Reserve`, `Commit`, `Cancel`, `Release`, `Lookup` | used by account | decisions on a clock read earlier; read-then-delete | a key never passes from one owner to another without being free |
| account roles, `service/account` | a slot per account and server, a name directory, a role record per player | `CreateRole` over three stores; `Login`, `SelectRole`, `UpdateProfile`, `MarkLogout`, `UpsertServer` over one each | directory, player-id allocator | five writes and their compensations, without a transaction | a role handed out is whole; a create that failed leaves nothing |
| global routing, `service/global` | per game server and game: a binding with an epoch, a lease with an incarnation and a deadline | `Bind`, `BeginMigration`, `CompleteMigration`, `AbortMigration`, `AcquireLease`, `RenewLease`, `ReleaseLease`, reads | operators, game server processes | racing operators, stalled renewals, restarted processes that send old releases | no change of a binding is lost; whoever counts on a lease holds it, alone |
| chat, `service/chat` | per channel: sequence, ring of messages, ledger of idempotency keys, eviction count | `Publish`, `PublishSystem`, `Prune`, `History`, `Scrollback`, `Stats` | publishers that retry, readers that page | ring and ledger are cut by different rules while readers page | a key stores once per window; a reader is never missing something it was not told of |
| global activity, `service/global/activity` | six stores: activities, participants, progress ledger, audits, dispatches, windows | `OpenActivity`, `NotifyPhase`, `AdvanceExpired`, `ApplyProgress`, `AttemptDispatch`, `AckDispatch`, `RetireDelivered`, `ReopenDispatch` | games (deliveries), sweeper | one activity is spread over six stores with no transaction | every activity completes once and every game hears of it; progress counts once |
| rank, `service/rank` | per board a sorted set of encoded members, and a hash with the member and the ring of applied request ids of each owner | `Submit`, `Remove`, `Reset`, reads | producers that retry | read and swap are apart, and the swap compares less than was read; order is that of bytes | set and hash agree; an accumulating submit counts once; owners are ranked as promised |
| reward flow, `service/examples/split` | none of its own | send, reserve, grant, commit | mail (in roost-core), inventory | crash between grant and commit | a reward is granted once |
| mail, match, session | in roost-core | aliases, a Mod, a Server with a ticker each | - | a run hook that does not get the implementation it sweeps | see assembly |
| rpc assembly (`*_rpc_assembly_gen.go`) | what a process publishes under the two names of a service | `OwnerCapabilities`, `Server.Init`, `ClientMod` | registry, bus | a process with the wrong combination serves through itself | a Server answers from its own implementation |
| rpc codecs (`*_rpc_gen.go`) | none | generated encoding and dispatch | bus | - | - |
| infrastructure mods (`dataengine`, `nest`, `redis`, `mongo`, `nats`, `etcd`, `saga`, `room`, `manager`, `lock`, `ops`, `configdata`, `remoteentity`, `mods`) | the registry of the process; handles on engines of roost-core; readiness; the fence of the dispatcher | `Init`, `Provide`, `Start`, `Stop`, `/readyz`, the fatal hooks | each other through the registry, roost-core | a lookup that works in one order of assembly and not in another; a Mod stopped under those that use it | order is by dependency alone; ready means serving; a fatal write stops the dispatcher |
| `statslog` | a file | periodic line, `FlushOnce` | - | - | - |
| scripts, CI | - | - | - | - | - |

Interactions inside the repository: account calls the directory for names (the
model of account contains the directory's decisions, from the shared module
`DirectoryEntry`); the reward flow calls mail; nothing else calls another service. Mods find
each other by capability names in the registry of their process.

## 2. Modules

```
DirectoryEntry <- Directory <- MCDirectory     RoleRegistry: what Account implements
               <- Account   <- MCAccount
                            <- AccountProofs   (extends Directory and Account)
Platform <- MCPlatform,  PlatformProofs
Routing  <- MCRouting,   RoutingProofs
Chat     <- MCChat,      ChatProofs
Activity <- MCActivity,  ActivityProofs
Progress <- MCProgress,  ProgressProofs
Rank     <- MCRank,      RankProofs
Assembly <- MCAssembly,  AssemblyProofs
```

Operators that a comment calls "Mutant" are not part of a specification. Each is
one definition with a plausible bug in it, and exists to show that the run of a
property notices the bug; `PROJECT.json` says which goes with which.

### Platform (`service/platform`)

A process is one call: `Callers` are transport threads in `HandleCallback`,
`Sweepers` are the retry loops of platform processes.

| Model | Code |
|---|---|
| `orders[o]`, `index[o]`, `Store` | the order record and its member in the pending index; `redis_store.go` writes both in one script, so `Store` does |
| `Callback`, `Create`, `Reread` | `HandleCallback`: insert-only create, or read what is there and compare its digest |
| `Claim` | the claiming update of `AttemptDelivery`, with the clock as the call read it on entry (`now`): not due, budget spent, or claimed until `now + backoff` |
| `Deliver` | the call of the deliverer between the updates. It grants, refuses, or grants and answers an error |
| `RecordSuccess`, `RecordFailure` | the update after the answer |
| `FailureStep` | what `AttemptDelivery` returns after a failure wraps the error of the deliverer (`%w`), and the retry loop asks it `errors.Is`: an error that wraps `ErrOrderInvalid` is taken for an order that is not recorded, one that wraps `ErrMalformedRecord` for one that does not decode. `Causes` is what a deliverer's error may wrap |
| `ReadPage`, `NextInPage`, `RetirePending`, `DeferPending` | `retryPendingOnce` and what it does with an id it could not attempt |
| `ReopenDelivery`, `SettleOutOfBand` | `admin.go` |
| `Abandon`, `Restart`, `Poison`, `Repair` | a store error or a cancelled context, a process restart, a stored record that no longer decodes, and its repair |

A signature, a malformed payload or a refused callback change nothing and are left
out; the digest of a payload is a model value, and its payment time (`PaidAts`) any integer, because
`HandleCallback` replaces only zero and `PendingScore` falls back on the creation time. `granted`
belongs to the deliverer; `claims` and `disowned` are history variables: `disowned` has the orders
whose entry a loop was told to retire by a deliverer.

### DirectoryEntry and Directory (`service/directory`)

`DirectoryEntry` holds an entry, what `Reserve` and `Commit` decide of one, and the clock.
`Directory` is the service alone. `Reserve` and `Commit` read the clock in one step
and decide in a later one; `Cancel` and `Release` read and then `Delete` by version.
`claims` remembers every claim ever handed out, because a client may present an old
one at any time. Versions restart at 1 when a key is taken again, as in the store. The
specification has names of its own (`DirectorySpec`, `DirectoryNext`, ...) so that one module can
prove about it and about Account.

### Account and RoleRegistry (`service/account`)

One `Call` is one `CreateRole`; `pc` is its next store access. Forward: `ClaimSlot`,
`ReserveName`, `Allocate`, `InsertRole`, `CommitName`, `RecordSlot`. A failure puts
what the code undoes, in its order, into `todo` (`Compensation`), and `UndoRole`,
`CancelClaim`, `ReleaseName`, `DeleteName` and `ReleaseSlot` work it off; each one is
tried whatever became of the others. Faults are a crash (`Crash`), an access that
failed (`Refuse`), a compensation that failed (`RefuseUndo`) and a write whose
answer is lost (`Lose`).

`RoleRegistry` is the promise: roles appear one at a time, a player id names one, an
account has one per server, two accounts never share a name. `Account` implements it
with the registry mapped to the roles that creates have answered (`handed`).

Accounts, bans and server status are read once before the first step of a create and
it never writes them, so the creates modelled are those that passed. `faults` counts the
faults and remembers whether all of them let their create undo what it had done. Version checks of
a role record collapse because nobody else writes a role before it is handed out.
Tokens are reused when nothing remembers them (`Unused`), which stands for random
tokens that never repeat.

### Routing (`service/global`)

`route` is the binding and `lease` the lease of one game server for one game; games
share nothing. `Operators` act on what they have `seen`: the last binding they read
or were answered, and an answer may be lost (`Heard`). `Processes` are what believes
it is the game server; a `Thread` is a call in progress, which keeps going when its
caller timed out (`TimeOut`) or died (`Restart`). `AcquireLease` reads the binding,
then the clock, then decides in an update (`StartAcquire`, `ReadClock`,
`AcquireLease` or `RefuseAcquire`); a renewal has read the clock before its update.
No call need be quick: the clock may pass any deadline while a call is under way. `shortened` is a
history variable, of the incarnations whose deadline was moved back by a renewal that nobody waited
for any more; the next renewal that is waited for, or a new lease, takes them out of it.
`belief` is what a process was last answered: it is the client of `global`, not code
in `src/`, and follows what the package's doc asks of one (stop counting on a lease
before giving it up, renew only what one has). The group of a binding, load snapshots
and time stamps decide nothing and are left out.

### Chat (`service/chat`)

One channel with its publishers, its pruner and one reader. `Store` is the one write
path: sequence, message, key and retention in one update. `Replay` is a retry of
what is retained. `Prune` drops any prefix of the ring: the stamps it judges come from
publishers' clocks and need not be in order, and the code drops up to the first
message that is young enough. The reader is a client that opens the channel, follows
it forward and scrolls back, as `NewestPage`, `PageAfter` and `PageBefore` answer it.
Permissions, rules and bodies are decided before the write. Refusals (a key whose
message is gone, another sender's key) change nothing.

### Activity (`service/global/activity`)

One activity of one group, over the three stores that decide about it: the aggregation
(`activity`), its entry in the window of the group (`place`: confirmed, opening since, or
delivering) and one delivery per expected game (`dispatch`). `Callers` are calls of
`OpenActivity` and `NotifyPhase`, `Sweepers` the loops of `server_run.go`; `call` says which
access of a store each has next.

| Model | Code |
|---|---|
| `Admit`, `Create`, `Confirm` | `OpenActivity`: `admitToWindow`, the insert-only create, `confirmWindow` |
| `NotifyPhase` | its update, with the clock as the call read it; the report that completes goes on to `settleCompletion` |
| `EnsureDispatch`, `RetireFromWindow` | `settleCompletion`, one step per delivery (any order of games) |
| `Scan`, `Inspect`, `Adopt`, `Finish`, `Reclaim` | `AdvanceExpired`: the window, the clock and the record are read one after another, the entry is confirmed for the opener, the aggregation is completed, or the entry is given up |
| `List`, `EnsureDispatch`, `CheckDispatch`, `Remove` | `DeliveringActivities` and `RetireDelivered` |
| `AttemptDispatch`, `AckDispatch`, `ReopenDispatch` | the game's two calls and the operator's |
| `MoveOthers` | the other activities of the group, of which only the number of places counts |
| `Abandon` | a store error, whether or not the write was made, or a process that stops |

Accepted reports are told apart by their game only. A delivery that is handed out is held
by its game (`held`); a lost answer is a game that never acknowledges. `handed` is a
history variable. `OpenersSurvive` is an assumption in the manner of `Prompt` below: with it,
an opener does not stop between its create and its confirmation while no entry of the
activity is left, or while a sweep is about to give it up.

Left out: audits of refused reports and the count of refused opens (nothing is decided on
them); the index of owed deliveries, which the store writes with the delivery and which only
tells a game what to ask for; the limit of activities one sweep completes, earliest deadline
first, and the rotation of the delivering list, which only put an activity off. Records of
activities and deliveries are never deleted.

### Progress (`service/global/activity`, `ApplyProgress`)

One participant of one activity. `ledger` holds the reservation of each request id, `ring`
the last requests its record counted. A call goes through `Look` (the status of the
activity), `Reserve` (the insert-only create), `Inspect` (when it found a reservation),
`Apply` (one compare-and-set that counts the delta and remembers the request) and `Mark`, and
may `Stop` between any two; the same request may be under way in several calls, with the same
delta or another. `Complete` is what the sweep or a last report does to the activity
meanwhile, and `Expire` the time to live of a reservation, at any moment. `counted` lists what
was added, so that the score is its sum; `answered` is what callers were told.

### Rank (`service/rank`)

One board: `board` is the sorted set (all its scores are 0, so that bytes decide), `member` and
`applied` the hash of owners. Scripts are atomic. `ReadOwner` is the reading script, `SwapNext` and
`Lose` the swap that found the member it expected or did not (eight attempts in the code), `Record`
the swap of an unchanged member for itself that only stores the request, whose outcome the code does
not ask for. A ring is stored as one string, its ids joined by commas, and `validateSubmit` lets an
id have commas; so an id is a sequence of `Tokens`, those between its commas, and a ring is the
sequence of all of them. `Contains` finds only an id of one token, perhaps as a piece of another id,
and `Kept` is what `appendRing` keeps under the id it adds, which it counts as one. `Deliver` starts
a submit with any request, as often as it likes, so that every request may come again; `Stop` is a
store error or a process that ends; `Remove` and `Reset` run under them. `Sortable`, `Complement`
and `Encoded` are the encoding at a width of `2 * Half` values, and `Greater` is the order of its
bytes; `Wrapped` is the addition of the machine. `log` remembers the swaps and removals of each
owner, and with each how many tokens the owner's swaps had written by then (`written`).

### Assembly (`mods`, the Mods of all packages, `*_rpc_assembly_gen.go`)

A Mod is a record of what the code of its package says: `requires` and `prefers` (`DependsOn`,
`OptionalDependsOn`), `needs`, `wants` and `later` (what `Provide` must find, may find, and
what `Start` must find in the registry), `gives` and `lends` (what it publishes, always or
when nobody has), `settings` (`Init` fails when one of them is wrong). The nine services
have an owner, a Server and a client each, from the generated assembly; `itself` says which of the two
names an owner publishes hold the implementation.

| Model | Code |
|---|---|
| `Configure` | `Init` of every Mod, and app's check that each `DependsOn` is installed |
| `Provide`, `ProvideMissing` | `Provide`: the lookups, then `RegisterAll`, which publishes all or fails; or a lookup that found nothing |
| `Start`, `Outage` | `Start` of a Mod with its late lookup; an engine that cannot be built, or a server that does not answer |
| `Serve` | `Server.Init`, which takes the implementation and the bus, the run hook, which asserts the type it sweeps, and the lifecycle hook of ops |
| `Fatal` | `onFatal` of dataengine (fences nest, fails the process) and of remote entity (fails the process) |
| `End`, `Stop`, `Down` | a signal or a runtime failure; `Stop` of every Mod |

`app` itself lives in roost-core and is external: that it provides and starts every Mod after
those it depends on, stops it after those that depend on it, and otherwise in any order, is taken
from how the Mods of this repository use it and say so. `KitMods` are the Mods of the repository
with their collaborators: `AssemblyAssumption` says that a process is put together from these, and
that a collaborator it binds looks up nothing but what the redis Mod publishes (for others see
section 5). A setting stands for everything `Init` of that Mod refuses. Registries built into
every app (health, metrics, admin, lifecycle) are always there.

## 3. Runs

Passing runs are named after the question they answer; a `violation` run shows a
disagreement between the code and what the repository says of it. Bounds are
constants (`MaxTime`, `MaxFaults`, ...) in the guards of the actions that count.

| Run | Instance | Shows |
|---|---|---|
| `platform_safety` | 1 order, 2 digests, payment times -1, 0 and 1, 2 callers, 2 attempts, base 1, `MaxTime` 4, 1 reopen, 1 fault, `Prompt` FALSE | With attempts of any length, store errors, undecodable records and operators: `ClaimsAreAccounted`, `GrantsAreClaimed`, `PendingIsIndexed`, `DeliveredIsFinal`, `FirstCallbackWins` |
| `platform_sweep` | 2 orders (one an orphan of the index), 1 caller, 1 retry loop, pages of 1, base 2, 1 reopen, 1 fault, `MaxTime` 3, `Prompt` TRUE, true answers whose errors wrap anything, fair | `AtMostOneInFlight`, `NoAttemptOutlivesItsOrder`, `AtMostOneGrant`, `SettledIsFinal`, `PendingIsIndexed` under loops that retire and defer, and the liveness property `EveryDueEntryIsWorked`: no due entry keeps the head of a page for ever |
| `platform_settle` (violation) | 1 order, 2 callers, base 1, `Prompt` FALSE | without `Prompt`, `SettledIsFinal` fails |
| `directory_claims` | 2 owners, 3 tokens, 2 clients, 1 key, TTL 1, `MaxTime` 4 | `KeysPassThroughFree`, however old the clocks and claims are that clients act on |
| `account_shard` | 1 server, 2 accounts, 1 name, 2 ids, 4 tokens, 2 creates, 2 faults of every kind, `MaxTime` 5, `Prompt` TRUE | `HandedRolesAreWhole`, `FailedCreateLeavesNothing` and the refinement `RefinesRegistry` |
| `routing_lease` | 2 instances, 2 operators, 2 processes, 2 threads, 2 incarnations, TTL 2, `MaxTime` 3, `MaxEpoch` 3, calls of any length | `RouteChangesWereSeen`, `BelieversHold` |
| `chat_paging` | 2 senders, 5 keys, ring of 3, ledger of 4, pages of 2, `MaxSeq` 7 | `RingIsTheTail`, `StoredOncePerWindow`, `FeedHasNoHoles`, `NoMoreMeansAll` |
| `activity_window` | 2 games, 2 calls, 2 sweeps, both grace times 1, `MaxTime` 2, 1 attempt, 1 fault, `OpenersSurvive` TRUE | `ResultsAgree`, `UnfinishedIsListed` |
| `activity_deliver` | 2 games, 1 call, 1 sweep, a window of 1 place and 1 other activity, 1 attempt, 1 reopen, 1 fault, fair | `HandoutsAreCounted`, `TokenStays`, `TerminalStays`, and the liveness property `DueIsSettled` |
| `progress_once` | 2 calls at a time and 4 in all, 3 requests, 2 deltas, a ring of 2 | `CountedOncePerWindow`, `AnsweredWasCounted`, `LateWasUnderWay` |
| `rank_board` | 2 submits at a time and 5 in all, integers -2 .. 1, 2 owners, 6 requests (add 1, add -1, add 1 with an id that is the ids of two others with a comma between, max and set on one owner, max on the other), a ring of 2, 2 attempts, 1 removal | `BoardMatchesOwners`, `RankedAsPromised`, `EachChangeBuildsOnTheLast`, `AddedOncePerWindow`, `ListedWereApplied` |
| `assembly_process` | the game process with all options and with up to one Mod forgotten; each service with its owner, its client, both or neither, and without a bus; two processes of the rest; each with up to one wrong setting; 1 outage, fair | `LookupsFindWhatIsInstalled`, `DependantsStopFirst`, `ServesItsOwn`, `ReadyIsServing`, and the liveness property `CompleteProcessServes` |

Why these bounds are enough for the cases that matter. *Platform*: two callers are two attempts of
one order, which is what races; two attempts of budget distinguish "one left" from "spent", one
reopen makes the budget begin again, and in `platform_safety` the clock reaches the deadline of the
last attempt of a budget, so that one more is due with nothing left of it. A payment time of -1, 0
or 1 takes each branch of the score. In `platform_sweep` a page of one entry makes every entry
behind the head depend on the head being worked, one of the two orders is in the index before it has
a record, and a loop retires and defers entries of either, for every reason it has. *Directory*: TTL
1 and four ticks let a claim lapse, be taken by another owner and lapse again while a client still
acts on the first clock; the third token is the second claim of one owner. *Account*: two creates,
on one slot, on one name or on one id; two faults, so a compensation can fail as well. *Routing*:
two incarnations are a lease and the one that takes it over, and one that nobody remembers comes
again; epoch 3 is a whole migration. TTL 2 and three ticks are the least that lets a late renewal do
harm: a lease is acquired at 1, its renewal reads the clock and stalls, it is renewed at 2 until 4,
the stalled one moves that back to 3, and at 3 another process acquires. *Chat*: seven sequences
roll a ring of three over twice and the ledger of four once; five keys are one more than the ledger
remembers. *Progress*: three requests are one more than the ring of two remembers, so that a fourth
call can bring the first back. *Rank*: five deliveries fill the ring of two, roll it over and repeat
what it forgot: two ids of one token are just what drops the token before them, which is where
`AddedOncePerWindow` ends; the pieces of the long id are ids of other requests; integers of two bits
overflow in two additions, and have both signs for values, ties and owners; two attempts are a retry
and a giving up. *Assembly*: no Mod looks at more than the registry, so a process with one Mod
missing shows every lookup failing once, and one outage or fatal write at every step. *Activity*:
two games are one that reports and one that is missing, two calls an opener and a reporter, or two
openers, and two sweeps the pair that reclaims, adopts or completes together; at time 2 everything
begun at time 1 has lapsed. A window of one place is full with one other activity, and the place
this one comes back to is beyond it. A budget of one attempt is spent by the first, and one
reopening renews it.

Every run checks for deadlock, except two: in `progress_once` and `rank_board` the number of
calls is bounded, and when all are made nobody has anything to do. In the others there is at
the bounds of an instance always an operator, a caller, a reader or a sweep that can
still act, and a process of `assembly_process` ends in `Gone`.

The type invariants of Platform, Routing and Directory are proved and in no run. That of Account, Chat, Activity, Progress and Rank is the first conjunct of an invariant of
their runs, and so part of the theorem about that invariant.

### `Prompt`

Two services keep some promises only if calls are quick compared with a deadline, and the code does
not enforce it. The models make that an explicit constant instead of an unspoken assumption: with
`Prompt` the clock does not pass the deadline while the call runs. For *Platform* an attempt ends
before its first backoff does; for *Account* a create ends before its name claim lapses. Routing
needs no such assumption. Every property that does not need it is checked without it, and what
happens without it is shown by the `violation` runs or described in section 5.

### Fairness

`platform_sweep` checks liveness under weak fairness of `CallStep(p)` for each
caller and `SweepStep(s)` for each retry loop: a goroutine that has a step to take takes
it (the deliverer is a call that returns, with an answer or with the error of its
context), and the loop of `server_run.go` passes as long as its process is up.
Nothing obliges a provider to call, an operator to act, a record to be repaired, time to
pass or a fault to happen, and `MaxFaults` means only that restarts do not go on for
ever.

`activity_deliver` assumes the same of a call that has begun (`CallStep`) and of a sweep, which
its ticker starts again (`SweepStep`). It does not assume that games report, take their
results or acknowledge them, nor that a full window empties: `DueIsSettled` supposes that
from some time on the window is within its bound, because a sweep reads no further.

`assembly_process` assumes that app goes on by itself (`Proceed`: it calls the next `Init`, `Provide`,
`Start` or `Stop`, each of which returns) and that it ends a process that reported a runtime
failure (`End` then). Nothing makes a process end that serves without failure, and nothing makes an
outage or a fatal write happen.

## 4. Proofs

Eight modules prove what the runs check, for every value of the constants that satisfies the named
assumptions of the module they extend: any number of orders, games, owners, keys, callers, sweeps
and Mods, and any bounds, budgets and times. `Prompt` and the like are hypotheses of the theorems
that need them. Each assumption is evaluated in a run. They give sizes a deployment configures
their type (`MaxAttempts`, `Ttl`, ...; the code makes them positive), and say that finitely many
calls are in progress at a time (`ConstantsAssumption`, `ProgressAssumption`), which the proofs
that count calls need.

| Theorem | Statement |
|---|---|
| `PlatformProofs!TypeCorrect` | `Spec => []TypeOK` |
| `PlatformProofs!BudgetCorrect` | `Spec => [](ClaimsAreAccounted /\ GivenUpIsSpent)` |
| `PlatformProofs!DeliveredStaysDelivered` | `Spec => DeliveredIsFinal` |
| `PlatformProofs!FirstCallbackStays` | `Spec => FirstCallbackWins` |
| `PlatformProofs!GrantsAlwaysClaimed` | `Spec => []GrantsAreClaimed` |
| `PlatformProofs!PendingAlwaysIndexed` | `Spec => []PendingIsIndexed` |
| `PlatformProofs!OneAttemptAtATime` | with `Prompt`, `AtMostOneInFlight` and `NoAttemptOutlivesItsOrder` always hold |
| `PlatformProofs!AttemptsNeverOutliveOrders` | the second of these by itself |
| `PlatformProofs!SettledStaysSettled` | with `Prompt`, `Spec => SettledIsFinal` |
| `PlatformProofs!GrantedOnceAlways` | with `Prompt` and a deliverer whose answers are true, `Spec => []AtMostOneGrant` |
| `RoutingProofs!TypeCorrect` | `Spec => []TypeOK` |
| `RoutingProofs!NoRouteChangeIsLost` | `Spec => RouteChangesWereSeen` |
| `RoutingProofs!BelieversHoldAlways` | `Spec => []BelieversHold` |
| `AccountProofs!DirectoryTypeCorrect` | `DirectorySpec => []DirectoryTypeOK` |
| `AccountProofs!KeysAlwaysPassThroughFree` | `DirectorySpec => KeysPassThroughFree` |
| `AccountProofs!AccountTypeCorrect` | `Spec => []TypeOK` |
| `AccountProofs!HandedRolesKeepSlotAndRecord` | `Spec =>` always: a role handed out keeps its record and its slot, and its account has no other on its server |
| `AccountProofs!HandedRolesAlwaysWhole` | with `Prompt`, `Spec /\ []NoNameOnTwoServers => []HandedRolesAreWhole` |
| `AccountProofs!FailedCreatesLeaveNothing` | the same for `FailedCreateLeavesNothing` |
| `AccountProofs!CreatesImplementRegistry` | the same for `RefinesRegistry` |
| `AccountProofs!OneServerHasNoSecond` | with one server, `Spec => []NoNameOnTwoServers` |
| `AccountProofs!OneServerKeepsItsPromises` | with `Prompt` and one server, `HandedRolesAreWhole` and `FailedCreateLeavesNothing` always hold, and `RefinesRegistry` |
| `ChatProofs!RingIsAlwaysTheTail` | `Spec => []RingIsTheTail` |
| `ChatProofs!StoredOnceAlways` | `Spec => []StoredOncePerWindow` |
| `ChatProofs!FeedNeverHasHoles` | `Spec => []FeedHasNoHoles` |
| `ChatProofs!NoMoreAlwaysMeansAll` | `Spec => NoMoreMeansAll` |
| `ActivityProofs!ResultsAlwaysAgree` | `Spec => []ResultsAgree` |
| `ActivityProofs!HandoutsAlwaysCounted` | `Spec => []HandoutsAreCounted` |
| `ActivityProofs!TokensAlwaysStay` | `Spec => []TokenStays` |
| `ActivityProofs!TerminalAlwaysStays` | `Spec => TerminalStays` |
| `ActivityProofs!UnfinishedAlwaysListed` | with `OpenersSurvive`, `Spec => []UnfinishedIsListed` |
| `ProgressProofs!CountedOnceAlways` | `Spec => []CountedOncePerWindow` |
| `ProgressProofs!AnsweredWasCountedAlways` | `Spec => []AnsweredWasCounted` |
| `ProgressProofs!LateWasUnderWayAlways` | `Spec => []LateWasUnderWay` |
| `RankProofs!RankTypeCorrect` | `Spec => []TypeOK` |
| `RankProofs!BoardAlwaysMatchesOwners` | `Spec => []BoardMatchesOwners` |
| `RankProofs!RankedAsPromisedAlways` | `Spec => []RankedAsPromised` |
| `RankProofs!EachChangeBuildsOnTheLastAlways` | `Spec => []EachChangeBuildsOnTheLast` |
| `RankProofs!AddedOnceAlways` | `Spec => []AddedOncePerWindow` |
| `RankProofs!ListedWereAppliedAlways` | `Spec => []ListedWereApplied` |
| `AssemblyProofs!LookupsAlwaysFindWhatIsInstalled` | `Spec => []LookupsFindWhatIsInstalled` |
| `AssemblyProofs!DependantsAlwaysStopFirst` | `Spec => []DependantsStopFirst` |
| `AssemblyProofs!ServesItsOwnAlways` | `Spec => []ServesItsOwn` |
| `AssemblyProofs!ReadyIsServingAlways` | `Spec => []ReadyIsServing` |

**Platform.** `TypeOK` is inductive. It includes that no record counts more attempts
than its budget, which is what makes `BudgetSpent` mean "exactly spent" below.
`BudgetInv` adds to `ClaimsAreAccounted` and `GivenUpIsSpent` that an id without a
record has no history, since the first callback must start from zero. The lemma
`StepOrderChange` says, once, what any step can make of a record (leave it, create it,
claim it, exhaust it, deliver it, reopen it, settle it), and the budget, the two action
properties and `FirstCallbackStays` follow from that list without looking at the
actions again. For mutual exclusion `AtMostOneInFlight` is not inductive: an attempt
between claim and answer must be known to *hold* its order. `PromptInv` says so: the
attempt started less than `Base` ago, and the deadline its claim wrote is at least `Base`
after that start; so whoever judges the order due (`DueIsFree`) finds nobody in
flight, and the record of a flying attempt stays `reserved`.

`GrantsAreClaimed` bounds one counter by another, and a call of the deliverer in progress is in
neither: `GrantInv` counts the attempts that are with the deliverer (`Granting`) beside the grants,
against the claims. `GrantChange` lists what a step does to that account: a claim pays for one more,
or an attempt leaves the deliverer, with a grant or without. `IndexInv` adds to `PendingIsIndexed`
what makes a score positive, a creation time from the first write on, and what a loop may be about
to drop: every id that a page or a call of a loop names has a record or is an orphan, and a loop
that retires does so for an orphan or for an order whose deliverer told it to (`disowned`).
`IndexChange` says once which entries a step may take away. `OnceInv` says that before the first
fault whatever was granted is recorded, or its attempt is about to record it; by `PromptInv` no
other attempt is at the deliverer then.

**Routing.** `RouteChangesWereSeen` needs that an epoch names one binding: `EpochInv` says that no
operator has seen an epoch later than the stored one, and that whoever has seen the stored epoch has
seen the stored binding. `BelieversHold` needs four facts, `LeaseInv`: the clock a call decides on
is never ahead (`NowInv`); a process waits for one call at a time (`WaitInv`); two processes never
hold one token, a renewal carries the token of its caller, and a token being released is nobody's
active lease any more (`TokenInv`); and whoever counts on a lease that is not `shortened` is its
holder in the store, for at least as long (`HolderInv`). An old clock does no harm to an acquire: a
lease that had lapsed then has lapsed now (`HolderAcquire`). A renewal on an old clock either is the
last its caller sent and waits for, so that nobody counts on more than it writes, or was given up,
and then it marks what it moves back (`HolderRenew`). A release that arrives late is harmless by
`TokenInv`: its token is not that of a lease anybody counts on.

**Directory.** A reservation is judged on a clock that was read earlier. That clock is never ahead
(`DirectoryInv`), so an entry that looked lapsed to a call has lapsed, and no deadline that is
written is further off than `Ttl`. `Delete` by version removes whatever has that version, perhaps
the entry of another owner, but it leaves the key free, and that is all `KeysPassThroughFree`
asks.

**Account.** A create is ten store accesses that others come between, so the proof does not go
action by action: `StepCases`, `PlaceOfStep` and `FrameOfStep` say, once, which of the three stores
a step writes, how, and where its create is before and after, and each part of the invariant looks
only at the writes of its own store. Two parts need no assumption. A slot is taken by an insert, so
a create in progress has it for itself and a role that was handed out keeps it (`SlotInv`). A record
is inserted, so whoever *owes* it (`OwesRole`: it has inserted it and has neither handed it out nor
undone it) finds it as it was (`RoleInv`); the compensation of a create whose id was taken does not
owe the record and does not touch it.

Names are the hard part, because an entry can lapse, be taken again at the same version, and be
deleted by whoever read the old one. `TokenInv` says whose a reservation is: two creates never have
one token, and an entry that carries the token of a create is of its name and its account. `TimeInv`
says that such an entry does not lapse under its create (from `Prompt`). Over these, `NameInv` says
that a name that was handed out, or that a create owes (`OwesName`), stays committed to its account,
and that the entry a create is about to delete is still the one it read. `OthersKeepName` is the
lemma behind it: no step of a create writes a name that belongs to another. What a failed create
leaves is judged by who owes what: until a fault stops a compensation, each slot, record and committed
name is owed by a create or was handed out (`SlotsLeft`, `RolesLeft`, `NamesLeft`). The refinement
follows: only `RecordSlot` changes `handed`, and the invariant makes the role it adds admissible.

Both assumptions are needed. Without `Prompt` a create deletes an entry that has become another's
(section 5, directory). `NoNameOnTwoServers` says that no account asks, on a second server, for a
name it has or is being given on another; section 5 gives the trace otherwise. It is an
assumption about what callers ask for, not about the code, and with one server it is a theorem,
because the slot lets an account ask once. `OneServerKeepsItsPromises` puts the two together and
is what `account_shard` checks on its instance.

**Chat.** Everything is tied to `log`, what was ever stored: the ring is its tail (`LogInv`), and
a key the ledger does not know was last used as many messages ago as it remembers keys
(`KeysInv`), so a key that is stored anew is far enough from its last use (`OnceInv`). `PageIs`
says, once, what any page is: a stretch of the log between two places (`IsStretch`) with the gap
and more flags that fit it; the three ways to page follow from it.

**Activity.** A call remembers things between two accesses, and others act meanwhile. `CallOK`
says of each place a call can be in what it found there that *still* holds: the result it is to
deliver is the one the activity is complete with, a delivery it has checked off is over. The
lemmas `ActivityStep` and `DeliveriesStep` list what a step can make of the activity and of a
delivery, and that nothing a call remembers is undone (`Persists`) follows from the lists.
`WindowInv` adds that an entry about to be reclaimed is not what an unfinished activity relies on;
it needs `OpenersSurvive`.

**Progress.** The ring is the end of what was counted (`RingInv`), so a request that is not in it
was counted at least `Window` changes ago or never. What is marked, or answered, was counted
(`MarkedInv`), with the delta of its reservation unless that was dropped (`ReservedInv`). For
`LateWasUnderWay` the calls past the check (`Past`) are counted together with what came late:
nobody joins them after the completion, and who counts leaves them.

**Rank.** `RankedAsPromised` is about the encoding alone: `Sortable` and `Complement` keep and
turn the order of integers of any width, so comparing bytes compares value, tie and owner, in that
order. The rest rests on `log`: the member of an owner is where its log ends (`LastInv`), each
entry builds on the one before it (`ChangeInv`), and the board has exactly these members
(`BoardInv`). `RingInv` says what a ring remembers of the log up to some entry: the stored ring of
the whole log, a ring that a submit carries of the part it has read, at whose end stands the
member it expects. A swap that succeeds with such a ring has either read all there is, or the
member came back, which ends the promise (`CameBack`). It counts tokens: a request stands no further
from the end of the ring than tokens were written since its entry (`Since`, which by `CountInv` only
grows). `ListedInv` is the converse: what a ring lists is of an entry of the part of the log it was
read from, and no removal has followed that entry in it for good. A ring that is written back over a
removal finds the member it was read with, which is the case `Revived` names; an owner without a member
has an empty ring (`EmptyInv`).

**Assembly.** First comes what the Mods of the repository declare: who publishes each capability
that is looked up, and that whoever looks it up is ordered after that Mod by `DependsOn` or
`OptionalDependsOn`. Over these facts the invariant (`AssemblyInv`) says, by how far the process
is, what the registry holds and what was found or missed in it. No order of assembly is assumed
beyond what app promises.

`GivenUpIsSpent`, the type invariants of Platform, Routing and Directory, and what `HandedRolesKeepSlotAndRecord` says
are proved and in no run. Every invariant and action property of a passing run is proved, for Account
as far as its two assumptions go.

Out of the prover's reach, and so with TLC for good: liveness under fairness
(`EveryDueEntryIsWorked`, `DueIsSettled`, `CompleteProcessServes`), `ENABLED`, and what would need
induction over data. That rings and logs have certain entries needs no induction: the invariants
above speak of each entry by its place.

## 5. Where the code and what is said of it differ

Shown by a run:

- `platform_settle`: an attempt slower than its backoff turns a settled order into a
  delivered one: the refund *and* the goods of `admin.go:157`.

Met while modelling, not shown by a run:

- platform: `service.go:416` says at most one attempt is in flight. The claim holds an order
  for its backoff only, and nothing bounds the deliverer by it: `AtMostOneInFlight` fails
  with `Prompt` FALSE.
- routing: `types.go:182` says a renewal against a different binding is refused. `RenewLease`
  does not read the binding, so a lease taken before a migration is extended for as long as
  its holder renews it.
- directory: a version restarts at 1 when a key is taken again, so a `Cancel` or
  `Release` that read an entry, was delayed, and finds another owner's entry with the same
  version deletes that one (the comment at `store.go:235` argues that it cannot).
  `directory_claims` does not contradict this: the key is free after it. In Account the
  same happens when creates may outlive their claims, which is why
  `HandedRolesAreWhole` is checked with `Prompt`.
- account: a crash between the slot claim and the slot write leaves a slot that blocks
  the account on that server; the comment at `service.go:214` says a crash leaves
  claims that expire. A lost answer of `Names.Commit` leaves a name committed that no role
  has, because the compensation for a failed commit is a cancel, which refuses a committed
  entry (`service.go:363`). Where the name is refused (`service.go:263-268`), a failing
  `releaseSlot` is not reported, unlike at `:358`. `FailedCreateLeavesNothing` is therefore said of
  executions in which only accesses that the create saw refused have failed.
- account: an account that uses its own name on a second server is answered its committed claim
  (`directory/store.go:122`). When the last write of that create fails, `Release`
  (`service.go:325`) gives up the name of its first role, another account takes it, and two accounts
  have roles of one name, although `account_test.go:263` says names are globally unique. It takes
  two servers, one failed access and no concurrency; `account_shard` has one server, where it
  cannot happen (`OneServerHasNoSecond`). With a second one in its `Servers`, TLC finds it
  as a violation of `HandedRolesAreWhole`.
- platform: `RetirePending` drops an index entry on what an earlier read said. If a first
  callback creates the order in between, the order is pending and not in the index
  (`redis_store.go:138`). It takes an orphan entry to begin with, and `PendingIsIndexed` exempts the
  orders that had one (`Orphans`).
- platform: `AttemptDelivery` returns the error of the deliverer wrapped (`service.go:524` and
  `:528`, `%w`), and the retry loop takes what it wraps for its own (`server_run.go:96` and `:111`,
  `errors.Is`). A deliverer that looks something up and answers an error wrapping `ErrOrderInvalid`
  makes the loop retire the entry of an order that is recorded, reserved and has attempts left.
  Nothing tries the order again until the provider calls back, although `server_run.go:100` says
  that retiring is "safe exactly because there is nothing to deliver" and `redis_store.go:128` that
  `RetirePending` "should be used for no other" case. `PendingIsIndexed` exempts such orders
  (`disowned`); without that, `platform_sweep` finds the trace. An error that wraps
  `versionstore.ErrMalformedRecord` puts a healthy order off by `PoisonedRetryDelay` instead of its
  backoff.
- routing: nothing bounds the time between the clock a renewal reads and its update, so a stalled
  one writes `old now + TTL`. It can move a deadline backwards under a process that was answered a
  later one, and two processes count on their leases at once: `BelieversHold` exempts such leases
  (`shortened`). And a renewal that read the clock in time extends a lease that has lapsed since,
  which `service.go:340` says is not done; until somebody acquires, it harms nobody.
  `CompleteMigration` says it is idempotent once complete, but a retry with the epoch before the
  completion is answered `ErrRouteStale`.
- chat: a cursor of 0 is "no cursor". A client that opened an unused channel and asks for
  what came after is given the newest page, and is told there is more before it, not after.
- activity: `types.go:770` warns that an activity with no window entry would never be swept. A
  sweep that finds no record judges the entry lapsed (`service.go:768`), the opener then
  creates the record, the sweep gives the entry up, and the opener stops before it confirms:
  no entry is left. `UnfinishedIsListed` fails that way with `OpenersSurvive` FALSE. An open
  that is retried after `OpeningGrace` keeps the time of its first admission
  (`service.go:312`), so that its entry may be given up as soon as it is used.
- activity: `confirmWindow` (`service.go:289`) appends whatever the window holds. After a
  reclaim, or after a completion that retired the activity before its opener confirmed, the
  window can exceed `MaxPendingActivities`, and the sweep stops reading at that many
  (`service.go:737`); the comment there supposes only an older build could do it.
- activity: the attempt after the last one of a budget exhausts a delivery whether or not it
  is due (`service.go:1316`), so a game that asks again while it is still at work has its
  acknowledgement refused.
- activity: reopening an exhausted delivery does not put its activity back into `Delivering`,
  so the sweep no longer reports it as waiting.
- activity, progress: `service.go:953` says no interleaving of a redelivery counts twice. A
  request that was applied but not marked in the ledger, and comes again after more than
  `MaxProgressWindow` others, is counted again: the ring has forgotten it. The same happens when its
  reservation expires. `CountedOncePerWindow` says exactly how far the promise goes. `ApplyProgress`
  checks the status before it writes (`service.go:987`), so progress can land after the completion, but
  no more than `LateWasUnderWay` allows.
- rank: `store.go:16-19` says a request id makes a submit idempotent, and `validateSubmit` refuses
  none but the empty one. The ring joins ids by commas and `ringContains` splits it at commas
  (`redis_store.go:398`), so a request whose id has a comma, `a,b`, is never found: delivered again,
  it is added again at once. And once `a,b` is in the ring `a` is found there, so an add with that
  id is answered without being made. An id of many commas drives other requests out of the ring
  early; `appendRing` counts it as one, so that the ring has more than `maxAppliedRequests` pieces
  until the next request. `AddedOncePerWindow` is about ids without commas, with a window counted in
  tokens; if it spoke of the others too, `rank_board` would refute it.
- rank: the swap compares the member only and writes the ring that was read before it. When two
  submits leave the member as it is (a max that is not better, recorded), or one takes it away and
  another brings it back (add 1, add -1), the later swap writes a ring without the earlier request,
  and a replay of that one is applied again. `AddedOncePerWindow` excludes members that came back
  (`CameBack`) for this reason, and requests that add 0, which may be forgotten the same way and
  recorded again without adding anything. `service/rank` says nothing about a sum that leaves int64;
  it wraps, and the owner goes from one end of the board to the other.
- assembly: `platform/identity.go:117` and `account/identity.go` say a collaborator is bound after
  the process's other Mods have published. Both Mods depend on redis only, so app may provide
  the Mod a collaborator looks for after them. `assembly_process` binds them to redis, for which the
  words are true.
- assembly: `global_mod.go:93` says lapsed leases are reclaimed by the Server's run hook, and
  `activity_mod.go:132` that due dispatches are retried by it. The run hook of global only waits for its
  context (a lapsed lease is judged when somebody acquires), and that of activity reports deliveries and
  leaves asking for them to the games. `match_mod.go:119-120` says the package does not own a ticker;
  `match/server_run.go` starts one. The run hook of session sweeps the owners of `sweepOwners`, which
  are always none.

## 6. Not modelled, and why

- `Login`, `SelectRole`, `UpdateProfile`, `MarkLogout`, `UpsertServer` of account: one record
  and one update each; they do not meet the create except through reads before its first
  step.
- platform login: keeps no state.
- mail, match, session, dataengine, nest, saga, room, manager and the other mods: their
  state machines live in roost-core; what is here configures, orders and starts them, which is
  Assembly.
- the reward flow of the split example: it reserves, grants and commits a claim of mail, one
  call after another. Whether a reward is granted twice after a crash between grant and commit
  (`consumer.go:83`) is decided by the lease and the token of that claim, which are
  in roost-core, and by an inventory the example keeps in memory.
- generated rpc codecs, scripts: no state that outlives a call.
- statslog: a ticker appends a line to a file under a mutex. A `FlushOnce` after
  `Stop` opens the file again (`statslog.go:286`) and nobody closes it, which decides nothing.
- ops: `m.server` is read by the goroutine of `Start` and reset by `StopWithContext`; the
  requests it serves are passed on to registries of roost-core.

## 7. Plan

Order: what handles money first (Platform), then what other services rest on
(Directory, then Account over it), then what keeps two processes from being one game
server (Routing), then the densest single record (Chat), what is spread over most stores
(Activity, then Progress), the one record with two structures (Rank), and last what puts all
of them into a process (Assembly). All of these are done with their runs, `RoleRegistry` as an
abstract specification, and their proofs.

What is left, in this order:

1. Abstract specifications: a payment ledger that Platform implements, a lock that Directory
   implements.
2. The rest of account, if it can meet a create; bound collaborators that look up other Mods.
