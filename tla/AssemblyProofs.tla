---------------------------- MODULE AssemblyProofs ----------------------------
(***************************************************************************)
(* A process put together from any of the Mods of this repository, in any  *)
(* order app may choose, with any number of failures: what its lookups     *)
(* find, what is stopped under whom, which implementation it serves, and   *)
(* what it is when it says that it is ready.                               *)
(*                                                                         *)
(* What the Mods declare comes first: who publishes what is looked up, and *)
(* that who looks it up is ordered after the one who publishes it.  The    *)
(* invariant says what that makes of the registry.                         *)
(***************************************************************************)
EXTENDS Assembly, TLAPS

Offers(m) == m.gives \cup m.lends
LooksUp(m) == m.needs \cup m.wants \cup m.later

DeploymentInv ==
  /\ mods \subseteq KitMods
  /\ server # NoServer => \E s \in Services, sweeps \in BOOLEAN : server = Server(s, sweeps)

\* How far the process is says which Mods were provided, started and stopped.
PhaseInv ==
  /\ provided \subseteq mods /\ started \subseteq provided /\ stopped \subseteq provided
  /\ process \in {"new", "providing"} => started = {} /\ failure = NoFailure
  /\ process \in {"new", "providing", "starting", "serving"} => stopped = {}
  /\ process \in {"starting", "serving"} \/ started # {} => provided = mods
  /\ process = "serving" => started = mods
  /\ ready => process = "serving"

\* The registry has what the provided Mods publish, each thing from one of them.
RegistryInv ==
  /\ \A c \in DOMAIN registry : registry[c] \in provided /\ c \in Offers(registry[c])
  /\ \A m \in provided :
       /\ Offers(m) \subseteq DOMAIN registry
       /\ \A c \in m.gives : registry[c] = m

\* What a Mod looked up was there, or is not to be had in this process.
HeldInv ==
  /\ \A m \in provided :
       /\ m.needs \subseteq DOMAIN registry
       /\ \A c \in m.wants :
            IF <<m.name, c>> \in missed THEN c \notin Given ELSE c \in DOMAIN registry
  /\ \A m \in started : m.later \subseteq DOMAIN registry
  /\ \A x \in missed : \E m \in provided : \E c \in m.wants : x = <<m.name, c>>

MissingInv == failure.kind = "missing" => \A m \in mods : failure.what \notin Offers(m)

\* A serving process that was told to stop met a fatal outcome.
FatalInv ==
  /\ \A n \in fatal : \E m \in started : m.name = n
  /\ process = "serving" /\ failure # NoFailure => fatal # {}
  /\ "dataengine" \in fatal /\ "nest" \in Names => fenced

StopInv == \A m \in stopped, d \in provided : m \in Before(d) => d \in stopped

\* The Server that serves was given an implementation.
ServedInv == process = "serving" /\ server # NoServer => Found(server.service.local)

AssemblyInv ==
  /\ DeploymentInv /\ PhaseInv /\ RegistryInv /\ HeldInv
  /\ MissingInv /\ FatalInv /\ StopInv /\ ServedInv

-----------------------------------------------------------------------------
(* What the Mods declare.                                                  *)

\* Who publishes what: the table the lemmas below read.
PublishedBy(name) ==
  CASE name = "redis" -> {"redis", "redis.lock"}
    [] name = "mongo" -> {"mongo"}
    [] name = "nats" -> {"nats", "nats.jetstream", "bus"}
    [] name = "room" -> {"room"}
    [] name = "remote_entity" -> {"remote_entity", "remote_entity.atomic_store"}
    [] name = "dataengine" -> {"dataengine"}

Publishers == {"redis", "mongo", "nats", "room", "remote_entity", "dataengine"}

\* No service is named like a thing of the infrastructure, and no two alike.
LEMMA ServiceNames ==
  ASSUME NEW s \in Services
  PROVE  /\ \A n \in Publishers : s.capability \notin PublishedBy(n) /\ s.local \notin PublishedBy(n)
         /\ s.capability \notin {"nest", "dataengine", "remote_entity", "saga"}
         /\ s.local # "nest"
         /\ \A z \in Services : s.local # z.capability /\ (s.local = z.local => s = z)
BY DEF Services, Accounts, Messaging, Routing, Coordinator, Mail, Match, Platform, Rank,
   Session, Service, Publishers, PublishedBy

\* The Mods that have to do with one service: its owner, and its clients.
OwnerOf(m, s) ==
  /\ m.name = s.capability /\ m.requires = {"redis"} /\ m.prefers = {}
  /\ m.needs \subseteq {"redis", "redis.lock"} /\ m.later = {} /\ m.wants = {}
  /\ m.gives = {s.capability, s.local} /\ m.lends = {} /\ m.itself = {s.local}

ClientOf(m, s) ==
  /\ m.name = s.capability /\ m.requires = {"nats"} /\ m.prefers = {}
  /\ m.needs = {"bus"} /\ m.later = {} /\ m.wants = {}
  /\ m.gives = {s.capability} /\ m.lends = {}

LEMMA OwnerFields ==
  ASSUME NEW s, NEW set
  PROVE  OwnerOf(Owner(s, set), s)
BY DEF Owner, Mod, OwnerOf

LEMMA BoundFields ==
  ASSUME NEW s, NEW set, NEW bound \in SUBSET RedisMod.gives
  PROVE  OwnerOf([Owner(s, set) EXCEPT !.needs = @ \cup bound], s)
<1>1. bound \subseteq {"redis", "redis.lock"}
  BY DEF RedisMod, Mod
<1>2. QED
  BY <1>1 DEF Owner, Mod, OwnerOf

\* A Mod of this repository belongs to the infrastructure or to one service.
LEMMA Kinds ==
  ASSUME NEW m \in KitMods
  PROVE  \/ m \in InfrastructureMods
         \/ m = DirectoryMod
         \/ \E s \in Services : OwnerOf(m, s)
         \/ \E s \in Services : ClientOf(m, s)
<1>1. CASE m \in ClientMods
  <2>1. PICK s \in Services : m = Client(s)
    BY <1>1 DEF ClientMods
  <2>2. ClientOf(m, s)
    BY <2>1 DEF Client, Mod, ClientOf
  <2>3. QED
    BY <2>2
<1>2. /\ Accounts \in Services /\ Messaging \in Services /\ Routing \in Services
      /\ Coordinator \in Services /\ Mail \in Services /\ Match \in Services
      /\ Platform \in Services /\ Rank \in Services /\ Session \in Services
  BY DEF Services
<1>3. CASE m \in OwnerMods
  <2>1. CASE m \in {ChatMod, GlobalMod, ActivityMod, MailMod, MatchMod, RankMod, SessionMod}
    BY <1>2, <2>1, OwnerFields
       DEF ChatMod, GlobalMod, ActivityMod, MailMod, MatchMod, RankMod, SessionMod
  <2>2. ASSUME NEW bound \in SUBSET RedisMod.gives, m \in {AccountMod(bound), PlatformMod(bound)}
        PROVE  \E s \in Services : OwnerOf(m, s)
    <3>1. ASSUME m = AccountMod(bound)
          PROVE  OwnerOf(m, Accounts)
      BY <3>1, BoundFields DEF AccountMod
    <3>2. ASSUME m = PlatformMod(bound)
          PROVE  OwnerOf(m, Platform)
      BY <3>2, BoundFields DEF PlatformMod
    <3>3. QED
      BY <1>2, <2>2, <3>1, <3>2
  <2>3. QED
    BY <1>3, <2>1, <2>2 DEF OwnerMods
<1>4. QED
  BY <1>1, <1>3 DEF KitMods

LEMMA InfrastructureKinds ==
  ASSUME NEW m \in InfrastructureMods
  PROVE  \/ m \in {RedisMod, MongoMod, EtcdMod, NestMod, SagaMod,
                   ConfigDataMod, LockMod, ManagerMod, StatsLogMod, OpsMod}
         \/ \E b \in BOOLEAN : m \in {NatsMod(b), RoomMod(b), RemoteEntityMod(b), DataEngineMod(b)}
BY DEF InfrastructureMods

\* What a Mod that is looked up publishes, nobody else does.
LEMMA OnePublisher ==
  ASSUME NEW m \in KitMods, NEW n \in Publishers, NEW c \in Offers(m), c \in PublishedBy(n)
  PROVE  m.name = n
<1>1. ASSUME NEW s \in Services, OwnerOf(m, s) \/ ClientOf(m, s)
      PROVE  FALSE
  BY <1>1, ServiceNames DEF OwnerOf, ClientOf, Offers
<1>2. CASE m = DirectoryMod
  BY <1>2 DEF DirectoryMod, Mod, Offers, Publishers, PublishedBy
<1>3. CASE m \in {RedisMod, MongoMod, EtcdMod, SagaMod}
  BY <1>3 DEF RedisMod, MongoMod, EtcdMod, SagaMod, Mod, Offers, Publishers, PublishedBy
<1>4. CASE m = NestMod
  BY <1>4 DEF NestMod, Mod, Offers, Publishers, PublishedBy
<1>5. CASE m \in {ConfigDataMod, LockMod, ManagerMod, StatsLogMod, OpsMod}
  BY <1>5 DEF ConfigDataMod, LockMod, ManagerMod, StatsLogMod, OpsMod, Mod, Offers,
     Publishers, PublishedBy
<1>6. ASSUME NEW b \in BOOLEAN, m = NatsMod(b)
      PROVE  m.name = n
  BY <1>6 DEF NatsMod, NatsGives, Mod, Offers, Publishers, PublishedBy
<1>7. ASSUME NEW b \in BOOLEAN, m = RoomMod(b)
      PROVE  m.name = n
  BY <1>7 DEF RoomMod, Mod, Offers, Publishers, PublishedBy
<1>8. ASSUME NEW b \in BOOLEAN, m = RemoteEntityMod(b)
      PROVE  m.name = n
  BY <1>8 DEF RemoteEntityMod, Mod, Offers, Publishers, PublishedBy
<1>9. ASSUME NEW b \in BOOLEAN, m = DataEngineMod(b)
      PROVE  m.name = n
  BY <1>9 DEF DataEngineMod, Mod, Offers, Publishers, PublishedBy
<1>10. QED
  BY <1>1, <1>2, <1>3, <1>4, <1>5, <1>6, <1>7, <1>8, <1>9, Kinds, InfrastructureKinds

\* Whatever a Mod looks up, it is ordered after the Mod that publishes it.
LEMMA OrderedAfter ==
  ASSUME NEW m \in KitMods, NEW c \in LooksUp(m)
  PROVE  \E n \in Publishers : c \in PublishedBy(n) /\ n \in m.requires \cup m.prefers
<1>1. ASSUME NEW s \in Services, OwnerOf(m, s) \/ ClientOf(m, s)
      PROVE  \E n \in Publishers : c \in PublishedBy(n) /\ n \in m.requires \cup m.prefers
  BY <1>1 DEF OwnerOf, ClientOf, LooksUp, Publishers, PublishedBy
<1>2. CASE m = DirectoryMod
  BY <1>2 DEF DirectoryMod, Mod, LooksUp, Publishers, PublishedBy
<1>3. CASE m \in {RedisMod, MongoMod, EtcdMod, SagaMod}
  BY <1>3 DEF RedisMod, MongoMod, EtcdMod, SagaMod, Mod, LooksUp, Publishers, PublishedBy
<1>4. CASE m = NestMod
  BY <1>4 DEF NestMod, Mod, LooksUp, Publishers, PublishedBy
<1>5. CASE m \in {ConfigDataMod, LockMod, ManagerMod, StatsLogMod, OpsMod}
  BY <1>5 DEF ConfigDataMod, LockMod, ManagerMod, StatsLogMod, OpsMod, Mod, LooksUp
<1>6. ASSUME NEW b \in BOOLEAN, m = NatsMod(b)
      PROVE  \E n \in Publishers : c \in PublishedBy(n) /\ n \in m.requires \cup m.prefers
  BY <1>6 DEF NatsMod, Mod, LooksUp, Publishers, PublishedBy
<1>7. ASSUME NEW b \in BOOLEAN, m = RoomMod(b)
      PROVE  \E n \in Publishers : c \in PublishedBy(n) /\ n \in m.requires \cup m.prefers
  BY <1>7 DEF RoomMod, Mod, LooksUp, Publishers, PublishedBy
<1>8. ASSUME NEW b \in BOOLEAN, m = RemoteEntityMod(b)
      PROVE  \E n \in Publishers : c \in PublishedBy(n) /\ n \in m.requires \cup m.prefers
  BY <1>8 DEF RemoteEntityMod, Mod, LooksUp, Publishers, PublishedBy
<1>9. ASSUME NEW b \in BOOLEAN, m = DataEngineMod(b)
      PROVE  \E n \in Publishers : c \in PublishedBy(n) /\ n \in m.requires \cup m.prefers
  BY <1>9 DEF DataEngineMod, DataEngineNeeds, Mod, LooksUp, Publishers, PublishedBy
<1>10. QED
  BY <1>1, <1>2, <1>3, <1>4, <1>5, <1>6, <1>7, <1>8, <1>9, Kinds, InfrastructureKinds

LEMMA PublisherComesBefore ==
  ASSUME DeploymentInv, NEW m \in mods, NEW p \in mods, NEW c \in LooksUp(m), c \in Offers(p)
  PROVE  p \in Before(m)
BY OrderedAfter, OnePublisher DEF DeploymentInv, Before

\* Who publishes the local name of a service is its owner.
LEMMA LocalIsOwned ==
  ASSUME NEW m \in KitMods, NEW s \in Services, s.local \in Offers(m)
  PROVE  OwnerOf(m, s)
<1>1. ASSUME NEW z \in Services, OwnerOf(m, z)
      PROVE  OwnerOf(m, s)
  BY <1>1, ServiceNames DEF OwnerOf, Offers
<1>2. ASSUME NEW z \in Services, ClientOf(m, z)
      PROVE  FALSE
  BY <1>2, ServiceNames DEF ClientOf, Offers
<1>3. s.local \notin {"service.directory", "redis", "redis.lock", "mongo", "etcd", "etcd.discovery",
         "etcd.election", "nats", "nats.jetstream", "nats.rpc", "bus", "room", "remote_entity",
         "remote_entity.atomic_store", "redis.versioned_lock", "dataengine", "nest",
         "entity.runtime", "saga", "config_data", "lock", "manager", "stats_log", "ops"}
  BY DEF Services, Accounts, Messaging, Routing, Coordinator, Mail, Match, Platform, Rank,
     Session, Service
<1>4. CASE m = DirectoryMod
  BY <1>3, <1>4 DEF DirectoryMod, Mod, Offers
<1>5. CASE m \in {RedisMod, MongoMod, EtcdMod, SagaMod}
  BY <1>3, <1>5 DEF RedisMod, MongoMod, EtcdMod, SagaMod, Mod, Offers
<1>6. CASE m = NestMod
  BY <1>3, <1>6 DEF NestMod, Mod, Offers
<1>7. CASE m \in {ConfigDataMod, LockMod, ManagerMod, StatsLogMod, OpsMod}
  BY <1>3, <1>7 DEF ConfigDataMod, LockMod, ManagerMod, StatsLogMod, OpsMod, Mod, Offers
<1>8. ASSUME NEW b \in BOOLEAN,
             m \in {NatsMod(b), RoomMod(b), RemoteEntityMod(b), DataEngineMod(b)}
      PROVE  FALSE
  BY <1>3, <1>8 DEF NatsMod, NatsGives, RoomMod, RemoteEntityMod, DataEngineMod, Mod, Offers
<1>9. QED
  BY <1>1, <1>2, <1>4, <1>5, <1>6, <1>7, <1>8, Kinds, InfrastructureKinds

\* Only the dispatcher has a lookup that may find nothing, and only it is called nest.
LEMMA OneNest ==
  ASSUME NEW m \in KitMods
  PROVE  /\ m.name = "nest" => m = NestMod
         /\ m.wants # {} => m = NestMod
<1>1. ASSUME NEW s \in Services, OwnerOf(m, s) \/ ClientOf(m, s)
      PROVE  m.name # "nest" /\ m.wants = {}
  BY <1>1, ServiceNames DEF OwnerOf, ClientOf
<1>2. CASE m = DirectoryMod
  BY <1>2 DEF DirectoryMod, Mod
<1>3. CASE m \in {RedisMod, MongoMod, EtcdMod, SagaMod}
  BY <1>3 DEF RedisMod, MongoMod, EtcdMod, SagaMod, Mod
<1>4. CASE m \in {ConfigDataMod, LockMod, ManagerMod, StatsLogMod, OpsMod}
  BY <1>4 DEF ConfigDataMod, LockMod, ManagerMod, StatsLogMod, OpsMod, Mod
<1>5. ASSUME NEW b \in BOOLEAN,
             m \in {NatsMod(b), RoomMod(b), RemoteEntityMod(b), DataEngineMod(b)}
      PROVE  m.name # "nest" /\ m.wants = {}
  BY <1>5 DEF NatsMod, RoomMod, RemoteEntityMod, DataEngineMod, Mod
<1>6. QED
  BY <1>1, <1>2, <1>3, <1>4, <1>5, Kinds, InfrastructureKinds

LEMMA NestGives == NestMod.name = "nest" /\ "nest" \in Offers(NestMod)
BY DEF NestMod, Mod, Offers

-----------------------------------------------------------------------------
(* The invariant.                                                          *)

LEMMA InitInv == Init => AssemblyInv
<1> SUFFICES ASSUME Init PROVE AssemblyInv
  OBVIOUS
<1>1. DeploymentInv
  BY AssemblyAssumption DEF Init, DeploymentInv
<1>2. PhaseInv /\ HeldInv /\ StopInv /\ FatalInv
  BY DEF Init, PhaseInv, HeldInv, StopInv, FatalInv
<1>3. RegistryInv
  BY DEF Init, RegistryInv
<1>4. MissingInv
  BY DEF Init, NoFailure, MissingInv
<1>5. ServedInv
  BY DEF Init, ServedInv
<1>6. QED
  BY <1>1, <1>2, <1>3, <1>4, <1>5 DEF AssemblyInv

LEMMA SameDeployment ==
  ASSUME DeploymentInv, [Next]_vars
  PROVE  DeploymentInv' /\ mods' = mods /\ server' = server
<1>1. mods' = mods /\ server' = server
  BY DEF Next, Proceed, Configure, StartAll, Serve, Down, ProvideMissing, Provide, Start, Stop,
     End, Gone, Outage, Fatal, vars
<1>2. QED
  BY <1>1 DEF DeploymentInv

\* What a step of each kind leaves alone.
LEMMA Kept ==
  ASSUME [Next]_vars
  PROVE  /\ (\E m \in mods : Provide(m)) \/ UNCHANGED <<provided, registry, missed>>
         /\ (\E m \in mods : Start(m)) \/ UNCHANGED started
         /\ (\E m \in mods : Stop(m)) \/ UNCHANGED stopped
         /\ (\E m \in mods : Fatal(m)) \/ UNCHANGED <<fatal, fenced>>
         /\ Serve \/ End \/ UNCHANGED ready
BY DEF Next, Proceed, Configure, StartAll, Serve, Down, ProvideMissing, Provide, Start, Stop,
   End, Gone, Outage, Fatal, vars

LEMMA PhaseStep ==
  ASSUME DeploymentInv, PhaseInv, [Next]_vars
  PROVE  PhaseInv'
<1> USE DEF PhaseInv
<1>1. CASE Configure
  BY <1>1 DEF Configure, Fail
<1>2. CASE StartAll
  BY <1>2 DEF StartAll
<1>3. CASE Serve
  BY <1>3 DEF Serve, Fail, ServiceIsReady
<1>4. CASE Down
  BY <1>4 DEF Down
<1>5. ASSUME NEW m \in mods, ProvideMissing(m)
      PROVE  PhaseInv'
  BY <1>5 DEF ProvideMissing, ProvideNext, Fail
<1>6. ASSUME NEW m \in mods, Provide(m)
      PROVE  PhaseInv'
  BY <1>6 DEF Provide, ProvideNext, RegisterAll, Fail
<1>7. ASSUME NEW m \in mods, Start(m)
      PROVE  PhaseInv'
  BY <1>7 DEF Start, StartNext, Fail
<1>8. ASSUME NEW m \in mods, Stop(m)
      PROVE  PhaseInv'
  BY <1>8 DEF Stop
<1>9. CASE End
  BY <1>9 DEF End, ServiceIsReady
<1>10. ASSUME NEW m \in mods, Outage(m)
       PROVE  PhaseInv'
  BY <1>10 DEF Outage, ProvideNext, StartNext, Fail
<1>11. ASSUME NEW m \in mods, Fatal(m)
       PROVE  PhaseInv'
  BY <1>11 DEF Fatal, Running
<1>12. CASE UNCHANGED vars
  BY <1>12 DEF vars
<1>13. QED
  BY <1>1, <1>2, <1>3, <1>4, <1>5, <1>6, <1>7, <1>8, <1>9, <1>10, <1>11, <1>12
     DEF Next, Proceed, Gone

\* A Mod is provided with all it publishes, or not at all.
LEMMA ProvideCases ==
  ASSUME NEW m \in mods, Provide(m)
  PROVE  \/ UNCHANGED <<provided, registry, missed>>
         \/ /\ \A c \in Published(m) : c \notin DOMAIN registry
            /\ provided' = provided \cup {m}
            /\ DOMAIN registry' = DOMAIN registry \cup Published(m)
            /\ \A c \in DOMAIN registry : registry'[c] = registry[c]
            /\ \A c \in Published(m) : registry'[c] = m
            /\ missed' = missed \cup {<<m.name, c>> : c \in {w \in m.wants : ~Found(w)}}
BY DEF Provide, RegisterAll, Found

LEMMA RegistryStep ==
  ASSUME RegistryInv, [Next]_vars
  PROVE  RegistryInv'
<1>1. CASE UNCHANGED <<provided, registry>>
  BY <1>1 DEF RegistryInv
<1>2. ASSUME NEW m \in mods, Provide(m), ~UNCHANGED <<provided, registry>>
      PROVE  RegistryInv'
  <2>1. /\ \A c \in Published(m) : c \notin DOMAIN registry
        /\ provided' = provided \cup {m}
        /\ DOMAIN registry' = DOMAIN registry \cup Published(m)
        /\ \A c \in DOMAIN registry : registry'[c] = registry[c]
        /\ \A c \in Published(m) : registry'[c] = m
    BY <1>2, ProvideCases
  <2>2. m.gives \subseteq Published(m) /\ Published(m) \subseteq Offers(m)
        /\ Offers(m) \subseteq DOMAIN registry \cup Published(m)
    BY DEF Published, Offers, Found
  <2>3. ASSUME NEW c \in DOMAIN registry'
        PROVE  registry'[c] \in provided' /\ c \in Offers(registry'[c])
    BY <2>1, <2>2, <2>3 DEF RegistryInv
  <2>4. ASSUME NEW p \in provided'
        PROVE  /\ Offers(p) \subseteq DOMAIN registry'
               /\ \A c \in p.gives : registry'[c] = p
    <3>1. CASE p = m
      BY <2>1, <2>2, <3>1
    <3>2. CASE p \in provided
      BY <2>1, <3>2 DEF RegistryInv, Offers
    <3>3. QED
      BY <2>1, <2>4, <3>1, <3>2
  <2>5. QED
    BY <2>3, <2>4 DEF RegistryInv, Offers
<1>3. QED
  BY <1>1, <1>2, Kept

LEMMA HeldStep ==
  ASSUME DeploymentInv, PhaseInv, RegistryInv, HeldInv, [Next]_vars
  PROVE  HeldInv'
<1>1. mods' = mods /\ DOMAIN registry \subseteq DOMAIN registry'
  BY SameDeployment, Kept, ProvideCases
<1>2. Given' = Given
  BY <1>1 DEF Given
<1>3. ASSUME NEW n \in provided'
      PROVE  /\ n.needs \subseteq DOMAIN registry'
             /\ \A c \in n.wants :
                  IF <<n.name, c>> \in missed' THEN c \notin Given' ELSE c \in DOMAIN registry'
  <2>1. CASE UNCHANGED <<provided, registry, missed>>
    BY <1>2, <1>3, <2>1 DEF HeldInv
  <2>2. ASSUME NEW m \in mods, Provide(m), ~UNCHANGED <<provided, registry, missed>>
        PROVE  /\ n.needs \subseteq DOMAIN registry'
               /\ \A c \in n.wants :
                    IF <<n.name, c>> \in missed' THEN c \notin Given' ELSE c \in DOMAIN registry'
    <3>1. /\ provided' = provided \cup {m}
          /\ missed' = missed \cup {<<m.name, c>> : c \in {w \in m.wants : ~Found(w)}}
      BY <2>2, ProvideCases
    <3>2. /\ m \notin provided /\ Before(m) \subseteq provided
          /\ m.needs \subseteq DOMAIN registry
      BY <2>2 DEF Provide, ProvideNext, Found
    <3>3. CASE n = m
      <4>1. ASSUME NEW c \in m.wants, ~Found(c)
            PROVE  c \notin Given
        <5>1. ASSUME NEW p \in mods, c \in p.gives
              PROVE  FALSE
          <6>1. p \in provided
            BY <3>2, <4>1, <5>1, PublisherComesBefore DEF LooksUp, Offers
          <6>2. QED
            BY <4>1, <5>1, <6>1 DEF RegistryInv, Offers, Found
        <5>2. QED
          BY <5>1 DEF Given
      <4>2. ASSUME NEW c \in m.wants, <<m.name, c>> \in missed, Found(c)
            PROVE  FALSE
        <5>1. PICK p \in provided : \E w \in p.wants : <<m.name, c>> = <<p.name, w>>
          BY <4>2 DEF HeldInv
        <5>2. p = NestMod /\ m = NestMod
          BY <4>2, <5>1, OneNest DEF DeploymentInv, PhaseInv
        <5>3. QED
          BY <3>2, <5>1, <5>2
      <4>3. QED
        BY <1>1, <1>2, <3>1, <3>2, <3>3, <4>1, <4>2 DEF Found
    <3>4. CASE n \in provided
      <4>1. ASSUME NEW c \in n.wants, <<n.name, c>> \in missed'
            PROVE  <<n.name, c>> \in missed
        <5>1. n = NestMod
          BY <3>4, <4>1, OneNest DEF PhaseInv, DeploymentInv
        <5>2. m.name # "nest"
          BY <3>2, <3>4, <5>1, OneNest DEF DeploymentInv
        <5>3. n.name # m.name
          BY <5>1, <5>2, NestGives
        <5>4. QED
          BY <3>1, <4>1, <5>3
      <4>2. QED
        BY <1>1, <1>2, <3>1, <3>4, <4>1 DEF HeldInv
    <3>5. QED
      BY <1>3, <3>1, <3>3, <3>4
  <2>3. QED
    BY <2>1, <2>2, Kept
<1>4. ASSUME NEW n \in started'
      PROVE  n.later \subseteq DOMAIN registry'
  <2>1. CASE n \in started
    BY <1>1, <2>1 DEF HeldInv
  <2>2. CASE n \notin started
    BY <1>1, <1>4, <2>2, Kept DEF Start, Found
  <2>3. QED
    BY <2>1, <2>2
<1>5. ASSUME NEW x \in missed'
      PROVE  \E n \in provided' : \E c \in n.wants : x = <<n.name, c>>
  <2>1. CASE UNCHANGED <<provided, registry, missed>>
    BY <1>5, <2>1 DEF HeldInv
  <2>2. ASSUME NEW m \in mods, Provide(m), ~UNCHANGED <<provided, registry, missed>>
        PROVE  \E n \in provided' : \E c \in n.wants : x = <<n.name, c>>
    <3>1. /\ provided' = provided \cup {m}
          /\ missed' = missed \cup {<<m.name, c>> : c \in {w \in m.wants : ~Found(w)}}
      BY <2>2, ProvideCases
    <3>2. QED
      BY <1>5, <3>1 DEF HeldInv
  <2>3. QED
    BY <2>1, <2>2, Kept
<1>6. QED
  BY <1>3, <1>4, <1>5 DEF HeldInv

\* What a lookup does not find is not published by a Mod that was provided, and those
\* that publish what is looked up were provided.
LEMMA NothingMissed ==
  ASSUME DeploymentInv, RegistryInv, NEW m \in mods, Before(m) \subseteq provided,
         NEW c \in LooksUp(m), ~Found(c), NEW p \in mods
  PROVE  c \notin Offers(p)
<1>1. ASSUME c \in Offers(p)
      PROVE  FALSE
  <2>1. p \in provided
    BY <1>1, PublisherComesBefore
  <2>2. QED
    BY <1>1, <2>1 DEF RegistryInv, Found
<1>2. QED
  BY <1>1

LEMMA MissingStep ==
  ASSUME DeploymentInv, PhaseInv, RegistryInv, MissingInv, [Next]_vars
  PROVE  MissingInv'
<1>1. mods' = mods
  BY SameDeployment
<1>2. ASSUME failure' = failure \/ failure'.kind # "missing"
      PROVE  MissingInv'
  BY <1>1, <1>2 DEF MissingInv
<1>3. ASSUME NEW c, failure' = [kind |-> "missing", what |-> c],
             \A m \in mods : c \notin Offers(m)
      PROVE  MissingInv'
  BY <1>1, <1>3 DEF MissingInv
<1>4. ASSUME NEW m \in mods, ProvideMissing(m)
      PROVE  MissingInv'
  <2>1. PICK c \in m.needs : ~Found(c) /\ failure' = [kind |-> "missing", what |-> c]
    BY <1>4 DEF ProvideMissing, Fail
  <2>2. Before(m) \subseteq provided /\ c \in LooksUp(m)
    BY <1>4, <2>1 DEF ProvideMissing, ProvideNext, LooksUp
  <2>3. QED
    BY <1>3, <2>1, <2>2, NothingMissed
<1>5. ASSUME NEW m \in mods, Start(m)
      PROVE  MissingInv'
  <2>1. CASE failure' = failure
    BY <1>2, <2>1
  <2>2. ASSUME NEW c \in m.later, ~Found(c), failure' = [kind |-> "missing", what |-> c]
        PROVE  MissingInv'
    <3>1. Before(m) \subseteq provided /\ c \in LooksUp(m)
      BY <1>5, <2>2 DEF Start, StartNext, Before, LooksUp, PhaseInv
    <3>2. QED
      BY <1>3, <2>2, <3>1, NothingMissed
  <2>3. QED
    BY <1>5, <2>1, <2>2 DEF Start, Fail
<1>6. CASE Serve
  <2>1. ASSUME NEW c, ~Found(c), failure' = [kind |-> "missing", what |-> c]
        PROVE  MissingInv'
    <3>1. provided = mods
      BY <1>6 DEF Serve, PhaseInv
    <3>2. \A m \in mods : c \notin Offers(m)
      BY <2>1, <3>1 DEF RegistryInv, Found
    <3>3. QED
      BY <1>3, <2>1, <3>2
  <2>2. CASE failure' = failure \/ failure' = [kind |-> "hook"]
    BY <1>2, <2>2
  <2>3. QED
    BY <1>6, <2>1, <2>2 DEF Serve, Fail
<1>7. ASSUME NEW m \in mods, Provide(m) \/ Outage(m) \/ Fatal(m)
      PROVE  MissingInv'
  <2>1. failure' = failure \/ failure' \in {[kind |-> "clash"], [kind |-> "outage"], [kind |-> "fatal"]}
    BY <1>7 DEF Provide, RegisterAll, Outage, Fatal, Fail
  <2>2. QED
    BY <1>2, <2>1
<1>8. CASE Configure
  <2>1. failure' = failure \/ failure' \in {[kind |-> "incomplete"], [kind |-> "setting"]}
    BY <1>8 DEF Configure, Fail
  <2>2. QED
    BY <1>2, <2>1
<1>9. ASSUME StartAll \/ Down \/ End \/ (\E m \in mods : Stop(m)) \/ UNCHANGED vars
      PROVE  MissingInv'
  BY <1>2, <1>9 DEF StartAll, Down, End, Stop, vars
<1>10. QED
  BY <1>4, <1>5, <1>6, <1>7, <1>8, <1>9 DEF Next, Proceed, Gone

LEMMA FatalStep ==
  ASSUME DeploymentInv, PhaseInv, RegistryInv, FatalInv, [Next]_vars
  PROVE  FatalInv'
<1>1. mods' = mods /\ Names' = Names
  BY SameDeployment DEF Names
<1>2. started \subseteq started'
  BY Kept DEF Start
<1>3. ASSUME NEW m \in mods, Fatal(m)
      PROVE  FatalInv'
  <2>1. /\ m \in started /\ fatal' = fatal \cup {m.name} /\ started' = started
    BY <1>3 DEF Fatal, Running
  <2>2. \A n \in fatal' : \E x \in started' : x.name = n
    BY <2>1 DEF FatalInv
  <2>3. ASSUME "nest" \in Names
        PROVE  Found("nest")
    <3>1. NestMod \in mods
      BY <2>3, OneNest DEF Names, DeploymentInv
    <3>2. NestMod \in provided
      BY <2>1, <3>1 DEF PhaseInv
    <3>3. QED
      BY <3>2, NestGives DEF RegistryInv, Found
  <2>4. "dataengine" \in fatal' /\ "nest" \in Names' => fenced'
    <3>1. CASE m.name = "dataengine"
      BY <1>1, <1>3, <2>3, <3>1 DEF Fatal, FenceNest
    <3>2. CASE m.name # "dataengine"
      <4>1. fenced' = fenced /\ ("dataengine" \in fatal' <=> "dataengine" \in fatal)
        BY <1>3, <2>1, <3>2 DEF Fatal
      <4>2. QED
        BY <1>1, <4>1 DEF FatalInv
    <3>3. QED
      BY <3>1, <3>2
  <2>5. QED
    BY <2>1, <2>2, <2>4 DEF FatalInv
<1>4. ASSUME UNCHANGED <<fatal, fenced>>,
             process' = "serving" => failure' = NoFailure \/ (process = process' /\ failure' = failure)
      PROVE  FatalInv'
  BY <1>1, <1>2, <1>4 DEF FatalInv
<1>5. ASSUME UNCHANGED <<fatal, fenced>>
      PROVE  process' = "serving" => failure' = NoFailure \/ (process = process' /\ failure' = failure)
  <2>1. CASE \E m \in mods : Fatal(m)
    BY <1>5, <2>1 DEF Fatal
  <2>2. CASE Serve
    BY <2>2 DEF Serve, Fail
  <2>3. CASE Configure \/ StartAll \/ Down \/ End \/ UNCHANGED vars
    BY <2>3 DEF Configure, StartAll, Down, End, Fail, vars
  <2>4. ASSUME NEW m \in mods, ProvideMissing(m) \/ Provide(m) \/ Start(m) \/ Stop(m) \/ Outage(m)
        PROVE  process' = "serving" => process = process' /\ failure' = failure
    BY <2>4 DEF ProvideMissing, Provide, ProvideNext, RegisterAll, Start, StartNext, Stop,
       Outage, Fail
  <2>5. QED
    BY <2>1, <2>2, <2>3, <2>4 DEF Next, Proceed, Gone
<1>6. QED
  BY <1>3, <1>4, <1>5, Kept

LEMMA StopStep ==
  ASSUME PhaseInv, StopInv, DeploymentInv, [Next]_vars
  PROVE  StopInv'
<1>1. \A m : Before(m)' = Before(m)
  BY SameDeployment DEF Before
<1>2. CASE UNCHANGED <<provided, stopped>>
  BY <1>1, <1>2 DEF StopInv
<1>3. ASSUME NEW m \in mods, Provide(m)
      PROVE  StopInv'
  BY <1>3 DEF Provide, ProvideNext, PhaseInv, StopInv
<1>4. ASSUME NEW m \in mods, Stop(m)
      PROVE  StopInv'
  BY <1>1, <1>4 DEF Stop, StopInv
<1>5. QED
  BY <1>2, <1>3, <1>4, Kept

LEMMA ServedStep ==
  ASSUME DeploymentInv, ServedInv, [Next]_vars
  PROVE  ServedInv'
<1>1. server' = server /\ DOMAIN registry \subseteq DOMAIN registry'
  BY SameDeployment, Kept, ProvideCases
<1>2. CASE Serve
  <2>1. ASSUME process' = "serving", server # NoServer
        PROVE  \A c \in Takes : Found(c)
    BY <1>2, <2>1 DEF Serve, Fail
  <2>2. ASSUME process' = "serving", server # NoServer
        PROVE  Found(server.service.local)
    BY <2>1, <2>2 DEF Takes, Owned
  <2>3. QED
    BY <1>1, <2>2 DEF ServedInv, Found
<1>3. CASE ~Serve
  <2>1. process' = "serving" => process = "serving"
    BY <1>3 DEF Next, Proceed, Configure, StartAll, Down, ProvideMissing, Provide,
       RegisterAll, Start, Stop, End, Gone, Outage, Fatal, Fail, vars
  <2>2. QED
    BY <1>1, <2>1 DEF ServedInv, Found
<1>4. QED
  BY <1>2, <1>3

LEMMA AssemblyInvAlways == Spec => []AssemblyInv
<1>1. AssemblyInv /\ [Next]_vars => AssemblyInv'
  BY SameDeployment, PhaseStep, RegistryStep, HeldStep, MissingStep, FatalStep, StopStep,
     ServedStep DEF AssemblyInv
<1>2. QED
  BY <1>1, InitInv, PTL DEF Spec

-----------------------------------------------------------------------------
(* The theorems.                                                           *)

\* In every process that can be put together from the Mods of this repository, and in
\* every order app may provide and start them: a lookup that fails asks for what no Mod
\* publishes, and an optional one finds what is installed (Provide, Start, Server.Init).
THEOREM LookupsAlwaysFindWhatIsInstalled == Spec => []LookupsFindWhatIsInstalled
<1>1. ASSUME AssemblyInv
      PROVE  LookupsFindWhatIsInstalled
  <2>1. failure.kind = "missing" => failure.what \notin UNION {m.gives \cup m.lends : m \in mods}
    BY <1>1 DEF AssemblyInv, MissingInv, Offers
  <2>2. ASSUME NEW m \in provided, NEW c \in m.wants \cap Given
        PROVE  c \in Held(m)
    BY <1>1, <2>2 DEF AssemblyInv, HeldInv, Held
  <2>3. QED
    BY <2>1, <2>2 DEF LookupsFindWhatIsInstalled
<1>2. QED
  BY <1>1, AssemblyInvAlways, PTL

\* No Mod is stopped while another that has not been stopped holds what it published,
\* whatever came up and whatever failed before (Stop).
THEOREM DependantsAlwaysStopFirst == Spec => []DependantsStopFirst
<1>1. ASSUME AssemblyInv
      PROVE  DependantsStopFirst
  <2> USE <1>1 DEF AssemblyInv
  <2>1. ASSUME NEW m \in provided \ stopped, NEW c \in Held(m), registry[c] \in stopped
        PROVE  FALSE
    <3>1. m \in mods /\ c \in LooksUp(m) /\ c \in DOMAIN registry
      BY <2>1 DEF Held, HeldInv, LooksUp, PhaseInv
    <3>2. registry[c] \in mods /\ c \in Offers(registry[c])
      BY <3>1 DEF RegistryInv, PhaseInv
    <3>3. registry[c] \in Before(m)
      BY <3>1, <3>2, PublisherComesBefore
    <3>4. QED
      BY <2>1, <3>3 DEF StopInv
  <2>2. QED
    BY <2>1 DEF DependantsStopFirst
<1>2. QED
  BY <1>1, AssemblyInvAlways, PTL

\* A process that serves a service serves the implementation one of its own Mods
\* published, which is what its consumers find: it cannot have taken a client for it and
\* forward to itself, whichever owners and clients it was put together from (Server.Init,
\* OwnerCapabilities).
THEOREM ServesItsOwnAlways == Spec => []ServesItsOwn
<1>1. ASSUME AssemblyInv
      PROVE  ServesItsOwn
  <2>1. SUFFICES ASSUME process = "serving", server # NoServer
                 PROVE  LET s == server.service IN
                        /\ Found(s.capability) /\ Found(s.local)
                        /\ registry[s.capability] = registry[s.local]
                        /\ s.local \in registry[s.local].itself
    BY DEF ServesItsOwn
  <2> DEFINE s == server.service
             owner == registry[s.local]
  <2>2. s \in Services
    BY <1>1, <2>1 DEF AssemblyInv, DeploymentInv, Server
  <2>3. Found(s.local)
    BY <1>1, <2>1 DEF AssemblyInv, ServedInv
  <2>4. owner \in provided /\ s.local \in Offers(owner) /\ owner \in KitMods
    BY <1>1, <2>3 DEF AssemblyInv, RegistryInv, PhaseInv, DeploymentInv, Found
  <2>5. OwnerOf(owner, s)
    BY <2>2, <2>4, LocalIsOwned
  <2>6. s.capability \in owner.gives /\ s.local \in owner.itself
    BY <2>5 DEF OwnerOf
  <2>7. Found(s.capability) /\ registry[s.capability] = owner
    BY <1>1, <2>4, <2>6 DEF AssemblyInv, RegistryInv, Offers, Found
  <2>8. QED
    BY <2>3, <2>6, <2>7
<1>2. QED
  BY <1>1, AssemblyInvAlways, PTL

\* A process that says it is ready serves, has met no fatal outcome, and has all its
\* Mods running; and where the engine met one, the dispatcher is fenced (checkHealth,
\* handleReady, onFatal).
THEOREM ReadyIsServingAlways == Spec => []ReadyIsServing
<1>1. ASSUME AssemblyInv
      PROVE  ReadyIsServing
  <2> USE <1>1 DEF AssemblyInv
  <2>1. ASSUME Readyz
        PROVE  process = "serving" /\ failure = NoFailure /\ \A m \in mods : Running(m)
    <3>1. process = "serving" /\ started = mods /\ stopped = {} /\ provided = mods
      BY <2>1 DEF Readyz, PhaseInv
    <3>2. fatal = {}
      BY <2>1, <3>1 DEF Readyz, Healthy, FatalInv
    <3>3. QED
      BY <3>1, <3>2 DEF FatalInv, Running
  <2>2. QED
    BY <2>1 DEF ReadyIsServing, FatalInv
<1>2. QED
  BY <1>1, AssemblyInvAlways, PTL

===============================================================================
