------------------------------ MODULE MCAssembly ------------------------------
(* Assembly for TLC.  A game process has its engine, with its options and with  *)
(* up to one Mod forgotten; a service process has an owner or a client or both; *)
(* another one has the Mods that depend on nothing.                              *)
EXTENDS Assembly

Process(ms, s) == [mods |-> ms, server |-> s]

Engine(reliable, jetstream, loader, remote) ==
  {RedisMod, MongoMod, NatsMod(reliable), RoomMod(jetstream), RemoteEntityMod(loader),
   DataEngineMod(remote), NestMod, SagaMod}

Lacking(engine) == {engine \ {m} : m \in engine}

Games ==
  {Process(Engine(r, j, l, d) \cup {OpsMod}, NoServer) : r, j, l, d \in BOOLEAN}
    \cup UNION {{Process(ms \cup {OpsMod}, NoServer) : ms \in Lacking(Engine(r, j, TRUE, j))} :
                r, j \in BOOLEAN}

Owns(own, serve, call) == [own |-> own, serve |-> serve, call |-> call]

ServiceSets ==
  {Owns(AccountMod({}), AccountsServer, AccountsClient),
   Owns(ChatMod, MessagingServer, MessagingClient),
   Owns(GlobalMod, RoutingServer, RoutingClient),
   Owns(ActivityMod, CoordinatorServer, CoordinatorClient),
   Owns(MailMod, MailServer, MailClient),
   Owns(MatchMod, MatchServer, MatchClient),
   Owns(PlatformMod({"redis"}), PlatformServer, PlatformClient),
   Owns(RankMod, RankServer, RankClient),
   Owns(SessionMod, SessionServer, SessionClient)}

Owners ==
  UNION {{Process({RedisMod, NatsMod(FALSE)} \cup ms, s.serve) :
            ms \in {{OpsMod, s.own}, {OpsMod, s.call}, {OpsMod, s.own, s.call}, {}}} :
           s \in ServiceSets}
    \cup {Process({RedisMod, s.own}, s.serve) : s \in ServiceSets}

Others ==
  {Process({EtcdMod, ConfigDataMod, LockMod, ManagerMod, StatsLogMod}, NoServer),
   Process({RedisMod, DirectoryMod, MailMod, RankMod}, NoServer)}

MCDeployments == Games \cup Owners \cup Others
===============================================================================
