----------------------------- MODULE MCNetSetup -----------------------------
(***************************************************************************)
(* An instance of NetSetup for TLC: addresses of three bits, the gateway   *)
(* at 6, and policies that hold the gateway, miss it, name it, advertise a *)
(* default route or cannot be read.                                        *)
(***************************************************************************)
EXTENDS NetSetup

Entry(ip, mask) == [ip |-> ip, mask |-> mask]
Upper == Entry(5, 4)        \* 4/1, with host bits
Lower == Entry(1, 6)        \* 0/2
Default == Entry(0, 0)
Malformed == Entry(0, 5)

Policies ==
  {<<>>, <<Malformed>>, <<Lower, Malformed>>, <<Upper, Lower>>, <<Default, Lower>>,
   <<Entry(6, 7)>>, <<Upper, Entry(7, 4)>>}

Profile(want_routes, want_dns, half) ==
  [want_routes |-> want_routes, want_dns |-> want_dns, half_internet |-> half]
OtherProfiles ==
  {Profile(TRUE, FALSE, FALSE), Profile(FALSE, TRUE, FALSE), Profile(TRUE, TRUE, TRUE)}

Server == [xml |-> <<3, 6>>, ipcp |-> <<3, 1>>]
Servers == {[xml |-> <<>>, ipcp |-> <<NoAddress, NoAddress>>], Server}

Physical == Route(PrefixNew(0, 0), "eth", 2)
UsersRoutes ==
  {{}, {Route(PrefixNew(0, 3), "lan", 0)},   \* within a range
   {Route(PrefixNew(4, 1), "lan", 0)},       \* in its place
   {Route(PrefixNew(6, 3), "eth", 0)}}       \* to the gateway

Scenario(profile, entries, servers, gateway, users, stale, usable, resolved, mtu) ==
  [want_routes |-> profile.want_routes, want_dns |-> profile.want_dns,
   half_internet |-> profile.half_internet, entries |-> entries,
   xml_dns |-> servers.xml, ipcp_dns |-> servers.ipcp, gateway |-> gateway,
   routes |-> users \cup {Physical}, stale |-> stale, usable |-> usable, resolved |-> resolved,
   mtu |-> mtu]

\* Within the upper range and around the gateway.
MCLocals == {PrefixNew(6, 2)}

\* Pins of earlier sessions, still there or gone: along the path, and along another.
Pin == [dest |-> PrefixNew(6, 3), dev |-> "eth"]
OldPath == [dest |-> PrefixNew(6, 3), dev |-> "lan"]

MCScenarios ==
  {Scenario(Profile(TRUE, TRUE, FALSE), e, Server, 6, r, <<>>, TRUE, TRUE, 1) :
     e \in Policies, r \in UsersRoutes}
  \cup
  {Scenario(pr, e, Server, 6, {Route(PrefixNew(0, 3), "lan", 0)}, <<>>, TRUE, TRUE, 1) :
     pr \in OtherProfiles, e \in Policies}
  \cup
  {Scenario(Profile(TRUE, TRUE, FALSE), e, s, g, {}, <<>>, u, d, 2) :
     e \in {<<>>, <<Lower>>}, s \in Servers, g \in {6, NoAddress}, u \in BOOLEAN, d \in BOOLEAN}
  \cup
  {Scenario(Profile(TRUE, TRUE, FALSE), e, s, 6, r, <<Pin>>, TRUE, TRUE, 1) :
     e \in {<<Lower>>, <<Upper>>}, s \in Servers, r \in {{}, {Route(PrefixNew(6, 3), "eth", 0)}}}
  \cup
  {Scenario(Profile(TRUE, TRUE, FALSE), e, Server, 6, r, <<OldPath>>, TRUE, TRUE, 1) :
     e \in {<<Lower>>, <<Upper>>}, r \in {{}, {Route(PrefixNew(6, 3), "lan", 0)}}}
=============================================================================
