------------------------------- MODULE Assembly -------------------------------
(***************************************************************************)
(* One process put together from Mods: what each Mod asks the order of     *)
(* assembly for (DependsOn, OptionalDependsOn), what it looks up when it   *)
(* is provided or started and what it publishes, the Server that owns a    *)
(* service, the client Mods of the processes that call one, readiness, and *)
(* the fence after a fatal storage outcome.                                *)
(*                                                                         *)
(* The order itself belongs to app of roost-core, which is external: it    *)
(* refuses a Mod whose DependsOn is not installed, provides every Mod      *)
(* after those it depends on, starts them when all are provided, runs the  *)
(* Service when all are started, and stops a Mod after those that depend   *)
(* on it.  Mods that do not depend on each other come in any order.        *)
(*                                                                         *)
(* The registries that every app.Registry has built in (health, metrics,   *)
(* admin, lifecycle, runtime failure) are never missing and are left out.  *)
(***************************************************************************)
EXTENDS Naturals, FiniteSets

CONSTANTS
  Deployments,  \* the processes: which Mods, which Service
  NoServer,     \* the Service is the application's own
  MaxOutages    \* bound: how often a Mod, or a storage write, fails

-----------------------------------------------------------------------------
(* Mods.                                                                   *)

Mod(name, requires, prefers, settings, needs, gives) ==
  [name |-> name,
   requires |-> requires, prefers |-> prefers,  \* DependsOn, OptionalDependsOn
   settings |-> settings,                       \* Init refuses to be without
   needs |-> needs, later |-> {},               \* looked up by Provide, by Start
   wants |-> {},                                \* looked up by Provide, and may be absent
   gives |-> gives, lends |-> {},               \* published; published if nobody has
   itself |-> {}]                               \* of those, the implementation unwrapped

RedisMod == Mod("redis", {}, {}, {}, {}, {"redis", "redis.lock"})

MongoMod == Mod("mongo", {}, {}, {}, {}, {"mongo"})

EtcdMod == Mod("etcd", {}, {}, {}, {}, {"etcd", "etcd.discovery", "etcd.election"})

NatsGives == {"nats", "nats.jetstream", "nats.rpc", "bus"}

\* Mutant: the reliable bus is not ordered after Redis.
NatsModUnordered(reliable) ==
  Mod("nats", {}, {}, {}, IF reliable THEN {"redis"} ELSE {}, NatsGives)

NatsMod(reliable) ==
  Mod("nats", {}, {"redis"}, {}, IF reliable THEN {"redis"} ELSE {}, NatsGives)

RoomMod(jetstream) ==
  Mod("room", {"nats"}, {}, {}, {IF jetstream THEN "nats.jetstream" ELSE "nats"}, {"room"})

\* Mutant: the sync bus is looked up at Start, when every Mod is provided.
RemoteEntityModUnordered(loader) ==
  [Mod("remote_entity", {"redis"} \cup (IF loader THEN {"mongo"} ELSE {}), {}, {"sid"},
       {"redis"} \cup (IF loader THEN {"mongo"} ELSE {}),
       {"remote_entity", "remote_entity.atomic_store", "redis.versioned_lock"})
     EXCEPT !.later = {"room"}]

RemoteEntityMod(loader) ==
  [Mod("remote_entity", {"redis", "room"} \cup (IF loader THEN {"mongo"} ELSE {}), {}, {"sid"},
       {"redis"} \cup (IF loader THEN {"mongo"} ELSE {}),
       {"remote_entity", "remote_entity.atomic_store", "redis.versioned_lock"})
     EXCEPT !.later = {"room"}]

DataEngineNeeds(remote) ==
  {"mongo", "nats.jetstream"}
    \cup (IF remote THEN {"remote_entity", "remote_entity.atomic_store"} ELSE {})

\* Mutant: it depends on the health registry, which no Mod is named after.
DataEngineModOnHealth(remote) ==
  Mod("dataengine", {"health"}, {"mongo", "nats"} \cup (IF remote THEN {"remote_entity"} ELSE {}),
      {"persistence.engine", "dataengine.wal"}, DataEngineNeeds(remote), {"dataengine"})

DataEngineMod(remote) ==
  Mod("dataengine", {}, {"mongo", "nats"} \cup (IF remote THEN {"remote_entity"} ELSE {}),
      {"persistence.engine", "dataengine.wal"}, DataEngineNeeds(remote), {"dataengine"})

NestMod ==
  [Mod("nest", {}, {"dataengine", "remote_entity"}, {"persistence.engine"},
       {"dataengine"}, {"nest"})
     EXCEPT !.wants = {"remote_entity"}, !.lends = {"entity.runtime"}]

SagaMod ==
  Mod("saga", {"mongo", "nats"}, {"dataengine"}, {"saga.receipt_ttl"},
      {"mongo", "nats.jetstream"}, {"saga"})

ConfigDataMod == Mod("config_data", {}, {}, {}, {}, {"config_data"})
LockMod == Mod("lock", {}, {}, {}, {}, {"lock"})
ManagerMod == Mod("manager", {}, {}, {}, {}, {"manager"})
StatsLogMod == Mod("stats_log", {}, {}, {}, {}, {"stats_log"})
OpsMod == Mod("ops", {}, {}, {"ops.admin_token"}, {}, {"ops"})

-----------------------------------------------------------------------------
(* Services: a Mod that owns one, the Server that runs it, and the Mod of  *)
(* a process that calls it over the bus.                                   *)

Service(capability, local) == [capability |-> capability, local |-> local]

Accounts    == Service("service.account", "service.account.local")
Messaging   == Service("service.chat", "service.chat.local")
Routing     == Service("service.global", "service.global.local")
Coordinator == Service("service.global.activity", "service.global.activity.local")
Mail        == Service("service.mail", "service.mail.local")
Match       == Service("service.match", "service.match.local")
Platform    == Service("service.platform", "service.platform.local")
Rank        == Service("service.rank", "service.rank.local")
Session     == Service("service.session", "service.session.local")

\* OwnerCapabilities, published by the one Mod that has the stores.
Owner(service, settings) ==
  [Mod(service.capability, {"redis"}, {}, settings, {"redis"},
       {service.capability, service.local}) EXCEPT !.itself = {service.local}]

DirectoryMod ==
  Mod("service.directory", {"redis"}, {}, {"normalizer", "directory"}, {"redis"},
      {"service.directory"})

\* Collaborators bind before the service is built, and look up what they need.
AccountMod(bound) ==
  [Owner(Accounts, {"account.collaborators", "account"}) EXCEPT !.needs = @ \cup bound]
PlatformMod(bound) ==
  [Owner(Platform, {"platform.collaborators", "platform", "platform.hash_tag"})
     EXCEPT !.needs = @ \cup bound]

ChatMod     == Owner(Messaging, {"chat.collaborators", "chat"})
GlobalMod   == Owner(Routing, {"global"})
ActivityMod == Owner(Coordinator, {"activity"})
MailMod     == Owner(Mail, {"mail"})
MatchMod    == Owner(Match, {"match"})
RankMod     == Owner(Rank, {"rank"})
SessionMod  == Owner(Session, {"session.releaser", "session"})

\* A Server takes the implementation and the bus; sweeps says that its run hook has
\* periodic work on the implementation, and will have nothing else.
Server(service, sweeps) == [service |-> service, sweeps |-> sweeps]

AccountsServer    == Server(Accounts, FALSE)
MessagingServer   == Server(Messaging, TRUE)
RoutingServer     == Server(Routing, FALSE)
CoordinatorServer == Server(Coordinator, TRUE)
MailServer        == Server(Mail, FALSE)
MatchServer       == Server(Match, TRUE)
PlatformServer    == Server(Platform, TRUE)
RankServer        == Server(Rank, FALSE)
SessionServer     == Server(Session, TRUE)

Client(service) ==
  Mod(service.capability, {"nats"}, {}, {"call_timeout"}, {"bus"}, {service.capability})

AccountsClient    == Client(Accounts)
MessagingClient   == Client(Messaging)
RoutingClient     == Client(Routing)
CoordinatorClient == Client(Coordinator)
MailClient        == Client(Mail)
MatchClient       == Client(Match)
PlatformClient    == Client(Platform)
RankClient        == Client(Rank)
SessionClient     == Client(Session)

-----------------------------------------------------------------------------
(* What a process may be put together from.                                *)

Services == {Accounts, Messaging, Routing, Coordinator, Mail, Match, Platform, Rank, Session}

InfrastructureMods ==
  {RedisMod, MongoMod, EtcdMod, NestMod, SagaMod,
   ConfigDataMod, LockMod, ManagerMod, StatsLogMod, OpsMod}
    \cup UNION {{NatsMod(b), RoomMod(b), RemoteEntityMod(b), DataEngineMod(b)} : b \in BOOLEAN}

\* What the collaborators of a deployment look up is not in this repository.  Their Mods
\* are ordered after that of Redis only, so they can count on no more.
OwnerMods ==
  {DirectoryMod, ChatMod, GlobalMod, ActivityMod, MailMod, MatchMod, RankMod, SessionMod}
    \cup UNION {{AccountMod(bound), PlatformMod(bound)} : bound \in SUBSET RedisMod.gives}

ClientMods == {Client(s) : s \in Services}

KitMods == InfrastructureMods \cup OwnerMods \cup ClientMods

ASSUME AssemblyAssumption ==
  /\ \A d \in Deployments :
       /\ d.mods \subseteq KitMods
       /\ d.server # NoServer => \E s \in Services, sweeps \in BOOLEAN : d.server = Server(s, sweeps)
  /\ MaxOutages \in Nat

-----------------------------------------------------------------------------
VARIABLES
  mods, server,  \* the deployment
  wrong,         \* the settings that are wrong
  process,       \* where the process is
  provided, started, stopped,
  registry,      \* the Mod that published each capability
  missed,        \* the optional lookups that found nothing
  failure,       \* why the process stops, if not by a signal
  ready,         \* what ops was told by the hooks of the service
  fatal,         \* the Mods that met a fatal outcome
  fenced,        \* the dispatcher refuses work
  outages

vars == <<mods, server, wrong, process, provided, started, stopped, registry, missed,
          failure, ready, fatal, fenced, outages>>

NoFailure == [kind |-> "none"]
Names == {m.name : m \in mods}
Given == UNION {m.gives : m \in mods}
Before(m) == {p \in mods : p.name \in m.requires \cup m.prefers}
Found(c) == c \in DOMAIN registry

\* The lookups of a Mod that has been provided, or started, and what they found.
Held(m) ==
  (IF m \in provided
   THEN m.needs \cup {c \in m.wants : <<m.name, c>> \notin missed} ELSE {})
    \cup (IF m \in started THEN m.later ELSE {})

Init ==
  /\ \E d \in Deployments :
       /\ mods = d.mods /\ server = d.server
       /\ wrong \in {{}} \cup {{w} : w \in UNION {m.settings : m \in d.mods}}
  /\ process = "new"
  /\ provided = {} /\ started = {} /\ stopped = {}
  /\ registry = << >> /\ missed = {}
  /\ failure = NoFailure
  /\ ready = FALSE /\ fatal = {} /\ fenced = FALSE
  /\ outages = 0

Fail(why) ==
  /\ failure' = why
  /\ process' = "stopping"

-----------------------------------------------------------------------------
(* Init of every Mod.                                                      *)

\* app: a Mod whose DependsOn is not installed is refused before any Init.
Incomplete == \E m \in mods : ~(m.requires \subseteq Names)

Misconfigured == \E m \in mods : m.settings \cap wrong # {}

Configure ==
  /\ process = "new"
  /\ IF Incomplete THEN Fail([kind |-> "incomplete"])
     ELSE IF Misconfigured THEN Fail([kind |-> "setting"])
     ELSE process' = "providing" /\ UNCHANGED failure
  /\ UNCHANGED <<mods, server, wrong, provided, started, stopped, registry, missed,
                 ready, fatal, fenced, outages>>

-----------------------------------------------------------------------------
(* Provide.                                                                *)

ProvideNext(m) == process = "providing" /\ m \in mods \ provided /\ Before(m) \subseteq provided

\* A required capability is looked up and is not there.
ProvideMissing(m) ==
  /\ ProvideNext(m)
  /\ \E c \in m.needs : ~Found(c) /\ Fail([kind |-> "missing", what |-> c])
  /\ UNCHANGED <<mods, server, wrong, provided, started, stopped, registry, missed,
                 ready, fatal, fenced, outages>>

Published(m) == m.gives \cup {c \in m.lends : ~Found(c)}

\* RegisterAll: all capabilities of a Mod are free, or none is published.
RegisterAll(m) ==
  IF \E c \in Published(m) : Found(c)
  THEN /\ Fail([kind |-> "clash"])
       /\ UNCHANGED <<registry, provided, missed>>
  ELSE /\ registry' = [c \in DOMAIN registry \cup Published(m) |->
                         IF Found(c) THEN registry[c] ELSE m]
       /\ provided' = provided \cup {m}
       /\ missed' = missed \cup {<<m.name, c>> : c \in {w \in m.wants : ~Found(w)}}
       /\ UNCHANGED <<process, failure>>

Provide(m) ==
  /\ ProvideNext(m) /\ \A c \in m.needs : Found(c)
  /\ RegisterAll(m)
  /\ UNCHANGED <<mods, server, wrong, started, stopped, ready, fatal, fenced, outages>>

-----------------------------------------------------------------------------
(* Start, and the Service.                                                 *)

StartAll ==
  /\ process = "providing" /\ provided = mods
  /\ process' = "starting"
  /\ UNCHANGED <<mods, server, wrong, provided, started, stopped, registry, missed,
                 failure, ready, fatal, fenced, outages>>

StartNext(m) ==
  process = "starting" /\ failure = NoFailure /\ m \in mods \ started /\ Before(m) \subseteq started

Start(m) ==
  /\ StartNext(m)
  /\ IF \A c \in m.later : Found(c)
     THEN started' = started \cup {m} /\ UNCHANGED <<process, failure>>
     ELSE /\ \E c \in m.later : ~Found(c) /\ Fail([kind |-> "missing", what |-> c])
          /\ UNCHANGED started
  /\ UNCHANGED <<mods, server, wrong, provided, stopped, registry, missed, ready, fatal,
                 fenced, outages>>

\* What a Mod builds when it is provided, or connects to when it is started, fails.
Outage(m) ==
  /\ ProvideNext(m) \/ StartNext(m)
  /\ outages < MaxOutages
  /\ outages' = outages + 1
  /\ Fail([kind |-> "outage"])
  /\ UNCHANGED <<mods, server, wrong, provided, started, stopped, registry, missed,
                 ready, fatal, fenced>>

\* Mutant: a Server is content with any capability of its service.
AnyCapability(s) == s.capability

\* Server.Init asks for the implementation.
Owned(s) == s.local

\* Server.Init: what it takes out of the registry, before it registers its handlers.
Takes == IF server = NoServer THEN {} ELSE {Owned(server.service), "bus"}

\* The run hook asserts the type of the implementation.
HookRuns ==
  server = NoServer \/ ~server.sweeps \/
  Owned(server.service) \in registry[Owned(server.service)].itself

\* The hooks of ops, if it is installed.
ServiceIsReady(r) == ready' = (r /\ "ops" \in Names)

Serve ==
  /\ process = "starting" /\ failure = NoFailure /\ started = mods
  /\ IF \E c \in Takes : ~Found(c)
     THEN /\ \E c \in Takes : ~Found(c) /\ Fail([kind |-> "missing", what |-> c])
          /\ UNCHANGED ready
     ELSE IF HookRuns
     THEN process' = "serving" /\ ServiceIsReady(TRUE) /\ UNCHANGED failure
     ELSE Fail([kind |-> "hook"]) /\ UNCHANGED ready
  /\ UNCHANGED <<mods, server, wrong, provided, started, stopped, registry, missed, fatal,
                 fenced, outages>>

-----------------------------------------------------------------------------
(* Fatal outcomes, and the end.                                            *)

Running(m) == m \in started \ stopped

\* Mutant: the process is told, and the dispatcher is not.
NestUnfenced == UNCHANGED fenced

FenceNest == fenced' = (fenced \/ Found("nest"))

\* A storage outcome that leaves the engine and the storage apart: the dispatcher is
\* fenced and the process is told.  Remote Entity only tells the process.
Fatal(m) ==
  /\ Running(m) /\ m.name \in {"dataengine", "remote_entity"} \ fatal
  /\ outages < MaxOutages /\ outages' = outages + 1
  /\ fatal' = fatal \cup {m.name}
  /\ failure' = IF failure = NoFailure THEN [kind |-> "fatal"] ELSE failure
  /\ IF m.name = "dataengine" THEN FenceNest ELSE UNCHANGED fenced
  /\ UNCHANGED <<mods, server, wrong, process, provided, started, stopped, registry,
                 missed, ready>>

\* app: a runtime failure ends the process, as a signal does.
End ==
  /\ process = "serving" \/ (process = "starting" /\ failure # NoFailure)
  /\ process' = "stopping"
  /\ ServiceIsReady(FALSE)
  /\ UNCHANGED <<mods, server, wrong, provided, started, stopped, registry, missed,
                 failure, fatal, fenced, outages>>

Stop(m) ==
  /\ process = "stopping" /\ m \in provided \ stopped
  /\ \A d \in provided : m \in Before(d) => d \in stopped
  /\ stopped' = stopped \cup {m}
  /\ UNCHANGED <<mods, server, wrong, process, provided, started, registry, missed,
                 failure, ready, fatal, fenced, outages>>

Down ==
  /\ process = "stopping" /\ stopped = provided
  /\ process' = "down"
  /\ UNCHANGED <<mods, server, wrong, provided, started, stopped, registry, missed,
                 failure, ready, fatal, fenced, outages>>

Gone == process = "down" /\ UNCHANGED vars

\* What app does by itself.  It never has to end a process that serves.
Proceed ==
  \/ Configure \/ StartAll \/ Serve \/ Down
  \/ \E m \in mods : ProvideMissing(m) \/ Provide(m) \/ Start(m) \/ Stop(m)

Next ==
  \/ Proceed \/ End \/ Gone
  \/ \E m \in mods : Outage(m) \/ Fatal(m)

Spec == Init /\ [][Next]_vars

FairSpec == Spec /\ WF_vars(Proceed) /\ WF_vars(End /\ failure # NoFailure)

-----------------------------------------------------------------------------
(* Properties.                                                             *)

\* Whatever order app chooses, a lookup that fails asks for what no Mod of the process
\* publishes, and an optional lookup finds what is installed: how the Mods were listed
\* decides nothing.
LookupsFindWhatIsInstalled ==
  /\ failure.kind = "missing" =>
       failure.what \notin UNION {m.gives \cup m.lends : m \in mods}
  /\ \A m \in provided : m.wants \cap Given \subseteq Held(m)

\* No Mod is stopped under another that still holds what it published.
DependantsStopFirst ==
  \A m \in provided \ stopped : \A c \in Held(m) : registry[c] \notin stopped

\* A process that serves a service answers from the implementation one of its own Mods
\* published, and its consumers find that service under the other name: it never
\* forwards to itself, however clients and owners are combined.
ServesItsOwn ==
  process = "serving" /\ server # NoServer =>
    LET s == server.service IN
    /\ Found(s.capability) /\ Found(s.local)
    /\ registry[s.capability] = registry[s.local]
    /\ s.local \in registry[s.local].itself

\* /readyz: the service has started and is not stopping, and no health check fails.
Healthy ==
  \A m \in provided :
    /\ m.name \notin fatal
    /\ m.name \in {"dataengine", "nest", "saga"} => Running(m)
    /\ m.name \in {"redis", "mongo", "nats", "room"} => m \notin stopped

Readyz == ready /\ Healthy

\* A process that says it is ready serves, with everything it was assembled from
\* running; and a fatal storage outcome leaves no dispatcher that takes work.
ReadyIsServing ==
  /\ Readyz => process = "serving" /\ failure = NoFailure /\ \A m \in mods : Running(m)
  /\ "dataengine" \in fatal /\ "nest" \in Names => fenced

\* The Mods of the process publish all that is looked up, each thing once, and every
\* setting is right.
Complete ==
  /\ wrong = {}
  /\ \A m \in mods : m.needs \cup m.later \subseteq Given
  /\ \A m, n \in mods : m = n \/ m.gives \cap n.gives = {}
  /\ server # NoServer => {server.service.local, "bus"} \subseteq Given

\* A complete process comes to serve, unless something it connects to fails; and every
\* process that stops is down in the end.
CompleteProcessServes ==
  /\ Complete => <>(process = "serving" \/ failure.kind \in {"outage", "fatal"})
  /\ process = "stopping" ~> process = "down"

===============================================================================
