---------------------------- MODULE RoleRegistry ----------------------------
(***************************************************************************)
(* What service/account promises of the roles it hands out, as one atomic  *)
(* step: a player id names one role, an account has one role on a server,  *)
(* and no two accounts have roles of the same name.                        *)
(***************************************************************************)
CONSTANTS Owners, Servers, Names, PlayerIds

VARIABLE registry  \* the roles handed out

Role == [player: PlayerIds, account: Owners, server: Servers, name: Names]

Admissible(r) ==
  \A q \in registry :
    /\ q.player # r.player
    /\ <<q.account, q.server>> # <<r.account, r.server>>
    /\ q.name = r.name => q.account = r.account

Init == registry = {}

Create(r) == Admissible(r) /\ registry' = registry \cup {r}

Next == \E r \in Role : Create(r)

Spec == Init /\ [][Next]_registry
=============================================================================
