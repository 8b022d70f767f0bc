---------------------------- MODULE NetSetupProofs ----------------------------
(***************************************************************************)
(* Theorems about NetSetup, for any policy, profile, routing table and     *)
(* width of addresses: the gateway is never routed into its own tunnel by  *)
(* a set-up that succeeded, all traffic goes through the tunnel only if it *)
(* is meant to, a device that took the place of ours is spared, the tunnel *)
(* is up only when what it carries is routed into it, and a set-up that    *)
(* nothing interferes with fails only for the reasons it may.              *)
(*                                                                         *)
(* Three inductive invariants, each on top of the first: IInv, of what set-*)
(* up may do; DoneInv, of what it has done; CalmInv, of a calm set-up.     *)
(*                                                                         *)
(* plan and the parsing of the policy are loops over sequences.  What they *)
(* compute is proved by induction, in the form that needs no operator as a *)
(* parameter: a set of numbers that has 0 and with n has n + 1 is Nat.     *)
(***************************************************************************)
EXTENDS NetSetup, DataInduction

-----------------------------------------------------------------------------
(* The inductive invariant. *)

Results == {"ok", "exists", "gone", "failed", "rejected"}

\* Where the tunnel's routes may lead: never to everything, to the gateway alone, to a range
\* that holds it unless it is pinned, or to half of the internet unless that is meant.
MayRoute ==
  {p \in AnyPrefix \cup ToSet(Halves) :
     /\ p.len # 0
     /\ policy.gateway # NoAddress =>
          p # Host(policy.gateway) /\ (NeedsPin(policy) \/ ~Within(p, policy.gateway))
     /\ p.len = 1 => FullTunnel(policy) \/ \E q \in ToSet(policy.split) : q.len <= 1}

\* What plan consists of.
PinDels == [op : {"pin_del"}, dest : AnyPrefix, dev : PhysicalDevs, servers : {<<>>}]
Pins == [op : {"pin_add"}, dest : {Host(policy.gateway)}, dev : PhysicalDevs, servers : {<<>>}]
TunOps ==
  [op : {"route_add"}, dest : MayRoute, dev : {Tun}, servers : {<<>>}]
  \cup [op : {"dns", "domain"}, dest : {PrefixNew(0, 0)}, dev : {Tun}, servers : Seq(Addresses)]
ConfigOps ==
  [op : {"addr", "link_up", "mtu"}, dest : {PrefixNew(0, 0)}, dev : {Tun}, servers : {<<>>}]

\* The pin comes after what is deleted and before what is routed into the tunnel.
Planned(q) ==
  /\ q \in Seq(PinDels \cup Pins \cup TunOps)
  /\ \A i \in DOMAIN q : q[i] \in Pins =>
       /\ policy.gateway # NoAddress
       /\ \A j \in 1 .. i - 1 : q[j] \in PinDels
       /\ \A j \in i + 1 .. Len(q) : q[j] \in TunOps
  /\ NeedsPin(policy) => \E i \in DOMAIN q : q[i] \in Pins

PolicyOK ==
  /\ policy.gateway \in Addresses \cup {NoAddress}
  /\ policy.split \in Seq(AnyPrefix)
  /\ policy.dns \in Seq(Addresses) /\ Len(policy.dns) <= MaxDns
  /\ policy.stale \in Seq(PinDels)
  /\ policy.users \subseteq [dest : AnyPrefix, dev : PhysicalDevs, metric : Nat]
  /\ policy.malformed <=> policy.advertised /\ policy.split = <<>>
  /\ limit \in Nat

PhaseOK ==
  /\ pc \in {"address", "mtu", "plan", "apply", "check", "run", "recheck", "judge", "done"}
  /\ phase \in {"address", "mtu", "routes"}
  /\ pc = "address" => phase = "address"
  /\ pc \in {"address", "mtu", "plan"} => phase # "routes" /\ results = <<>>
  /\ pc = "apply" => phase = "routes" /\ results = <<>> /\ at = 1 /\ ops # <<>>
  /\ pc = "address" \/ (pc = "done" /\ phase = "address")
       \/ ~(policy.malformed /\ policy.want_routes)

OpsOK ==
  /\ phase # "routes" => ops \in Seq(ConfigOps)
  /\ phase = "routes" => Planned(ops)

ResultsOK ==
  /\ results \in Seq(Results) /\ at \in Nat
  /\ pc \in {"check", "run", "recheck"} => at \in DOMAIN ops
  /\ pc \in {"check", "run"} => Len(results) = at - 1
  /\ pc = "recheck" => Len(results) \in {at - 1, at}
  /\ Len(results) <= Len(ops)
  /\ \A i \in DOMAIN results : results[i] = "gone" => ops[i].op = "pin_del"
  /\ pc = "run" =>
       commands \in {<<"flush", "addr">>, <<"addr">>, <<ops[at].op>>}
       /\ (commands # <<ops[at].op>> => ops[at].op = "addr")
  /\ pc = "recheck" => commands = <<>> \/ (commands = <<"addr">> /\ ops[at].op = "addr")

IsPin(i) == ops[i].op = "pin_add"

IsRoute(r) ==
  r.dest.len \in Lengths /\ r.dest = [net |-> r.dest.net, len |-> r.dest.len] /\ r.metric \in Nat

RoutesOK ==
  /\ \A r \in routes : IsRoute(r) /\ r.dev \in PhysicalDevs \cup {Tun, "other"}
  /\ \A r \in routes : r.dev \in {Tun, "other"} =>
       /\ phase = "routes" /\ pc # "apply" /\ r.dest \in MayRoute
       /\ \A i \in DOMAIN ops : IsPin(i) => i \in DOMAIN results

\* The route that a pin_add left, or found, unless it went with its device.
PinStands == lost \/ \E r \in routes : r.dest = Host(policy.gateway) /\ r.metric = 0

PinsOK ==
  phase = "routes" =>
    /\ \A i \in DOMAIN results : IsPin(i) /\ results[i] \in {"ok", "exists"} => PinStands
    /\ pc = "recheck" /\ IsPin(at) /\ Len(results) = at - 1 => PinStands

LinkOK ==
  link \in [{Tun, "other"} ->
              [address : BOOLEAN, up : BOOLEAN,
               mtu : Nat \cup {LargestMtu}, dns : Seq(Addresses)]]

DeviceOK ==
  /\ device \in {Tun, "other", "none"}
  /\ device # Tun => pc = "done" \/ phase = "routes"
  /\ link["other"].dns = <<>>

StraysOK ==
  strays = 0 \/
  (/\ strays = 1 /\ device = "other" /\ verdict # "up" /\ phase = "routes"
   /\ \/ pc = "recheck" /\ OnTun(ops[at])
      \/ pc = "judge" /\ aborted
      \/ pc = "done")

VerdictOK ==
  verdict = "up" =>
    /\ pc = "done" /\ phase = "routes"
    /\ \A i \in DOMAIN ops : IsPin(i) => i \in DOMAIN results /\ results[i] \in {"ok", "exists"}

IInv ==
  /\ PolicyOK /\ PhaseOK /\ OpsOK /\ ResultsOK /\ RoutesOK /\ PinsOK /\ LinkOK /\ DeviceOK
  /\ StraysOK /\ VerdictOK
-----------------------------------------------------------------------------
(* What set-up has done so far. *)

Helping == pc \in {"check", "run", "recheck", "judge"}

\* What the tunnel is to carry is routed into it by the plan.
IsTheGateways(p) == p.len = Width /\ p.net = policy.gateway
Complete(q) ==
  /\ FullTunnel(policy) => \A h \in ToSet(Halves) : RouteAdd(h) \in ToSet(q)
  /\ policy.want_routes =>
       /\ \A p \in ToSet(policy.split) :
            p.len = 0 \/ IsTheGateways(p) \/ RouteAdd(p) \in ToSet(q)
       /\ policy.want_dns /\ ~FullTunnel(policy) =>
            \A d \in ToSet(policy.dns) : NeedsDnsRoute(policy, d) => RouteAdd(Host(d)) \in ToSet(q)

CompleteOK == phase = "routes" => Complete(ops)

\* A route into the tunnel has its range to itself, and goes with the device.
TunnelOK ==
  \A r \in routes :
    /\ r.dev = "other" => device = "other"
    /\ r.dev = Tun =>
         /\ device = Tun /\ r.metric = 0
         /\ \A q \in routes : q.dest = r.dest /\ q.metric = 0 => q.dev = Tun

\* What the helper says it added is there.
Added(i) == Route(ops[i].dest, Tun, 0) \in routes

AddedOK ==
  phase = "routes" /\ device = Tun =>
    /\ \A i \in DOMAIN results : ops[i].op = "route_add" /\ results[i] = "ok" => Added(i)
    /\ pc = "recheck" /\ ops[at].op = "route_add" /\ Len(results) = at - 1 => Added(at)

\* The user was warned of each physical route into a range of the VPN's, or the table could
\* not be read, or the route appeared later.
Known(r) ==
  \/ r.dest.len = 0 \/ r.dest \in warned \cup missed \cup late
  \/ policy.gateway # NoAddress /\ r.dest = Host(policy.gateway)
  \/ \A p \in ToSet(policy.split) : ~Hides(p, r.dest)

WarnedOK ==
  phase = "routes" /\ policy.want_routes /\ ~FullTunnel(policy) =>
    \A r \in routes : r.dev \in PhysicalDevs => Known(r)

\* The device has been set up before routes are.
HasDone(op) ==
  /\ op = "addr" => link[Tun].address
  /\ op = "link_up" => link[Tun].up
  /\ op = "mtu" => link[Tun].mtu <= limit

ConfigOK ==
  /\ pc \in {"mtu", "plan", "apply"} \/ phase \in {"mtu", "routes"} =>
       link[Tun].address /\ link[Tun].up
  /\ pc \in {"plan", "apply"} \/ phase = "routes" => link[Tun].mtu <= limit
  /\ Helping /\ phase = "address" => ops = <<LinkOp("addr", <<>>), LinkOp("link_up", <<>>)>>
  /\ Helping /\ phase = "mtu" => ops = <<LinkOp("mtu", <<>>)>>
  /\ Helping /\ phase # "routes" =>
       /\ \A i \in DOMAIN results : results[i] = "ok" => HasDone(ops[i].op)
       /\ pc = "recheck" /\ commands = <<>> /\ Len(results) = at - 1 => HasDone(ops[at].op)

DoneInv == CompleteOK /\ TunnelOK /\ AddedOK /\ WarnedOK /\ ConfigOK /\ UpMeansRouted

-----------------------------------------------------------------------------
(* Loops over sequences. *)

\* One turn of the loop that Pushed is, and the loop.
Turn(s, which, o, n) == IF n \in which THEN Append(o, s[n]) ELSE o
Loop(s, which, f) == f = [n \in 0 .. Len(s) |-> IF n = 0 THEN <<>> ELSE Turn(s, which, f[n - 1], n)]

\* Pushed is the last of its turns.
LEMMA PushedLoop ==
  ASSUME NEW S, NEW s \in Seq(S), NEW which
  PROVE  \E out : /\ out[0] = <<>>
                  /\ \A n \in 1 .. Len(s) : out[n] = Turn(s, which, out[n - 1], n)
                  /\ Pushed(s, which) = out[Len(s)]
  <1> DEFINE L == Len(s)
             step == [n \in 1 .. L |-> [o \in Seq(S) |-> Turn(s, which, o, n)]]
  <1>1. L \in Nat /\ DOMAIN s = 1 .. L
    OBVIOUS
  <1>2. <<>> \in Seq(S)
    OBVIOUS
  <1>3. \A o \in Seq(S), n \in 1 .. L : Turn(s, which, o, n) \in Seq(S)
    BY <1>1 DEF Turn
  <1> HIDE DEF L
  <1>4. step \in [1 .. L -> [Seq(S) -> Seq(S)]]
    BY <1>3
  <1>a. \A n \in 1 .. L : \A o \in Seq(S) : step[n][o] = Turn(s, which, o, n)
    OBVIOUS
  <1> HIDE DEF step
  <1>5. \E f : Loop(s, which, f)
    <2>0. PICK f : Iterates(L, Seq(S), <<>>, step, f)
      BY <1>1, <1>2, <1>4, Iteration
    <2>1. /\ f \in [0 .. L -> Seq(S)] /\ f[0] = <<>>
          /\ \A n \in 1 .. L : f[n] = step[n][f[n - 1]]
      BY <2>0 DEF Iterates
    <2> DEFINE g == [n \in 0 .. L |-> IF n = 0 THEN <<>> ELSE Turn(s, which, f[n - 1], n)]
    <2>2. \A n \in 0 .. L : f[n] = g[n]
      <3> TAKE n \in 0 .. L
      <3>1. CASE n = 0
        BY <2>1, <3>1
      <3>2. CASE n # 0
        <4>1. n \in 1 .. L /\ n - 1 \in 0 .. L
          BY <1>1, <3>2
        <4> QED BY <1>a, <2>1, <3>2, <4>1
      <3> QED BY <3>1, <3>2
    <2>3. f = [n \in 0 .. L |-> f[n]] /\ g = [n \in 0 .. L |-> g[n]]
      BY <2>1
    <2>4. f = g
      BY ONLY <2>2, <2>3
    <2> QED BY <2>4 DEF Loop, L
  <1> DEFINE out == CHOOSE f : Loop(s, which, f)
  <1>6. Pushed(s, which) = out[L]
    BY DEF Pushed, Loop, Turn, L
  <1>7. Loop(s, which, out)
    BY <1>5
  <1> HIDE DEF out
  <1>8. out[0] = <<>> /\ \A n \in 1 .. L : out[n] = Turn(s, which, out[n - 1], n)
    BY <1>1, <1>7 DEF Loop, L
  <1> QED BY <1>6, <1>8 DEF L

\* It pushes the elements of s at the given positions, and nothing else.
LEMMA PushedIs ==
  ASSUME NEW S, NEW s \in Seq(S), NEW which
  PROVE  /\ Pushed(s, which) \in Seq({s[n] : n \in which \cap DOMAIN s})
         /\ \A n \in which \cap DOMAIN s : s[n] \in ToSet(Pushed(s, which))
  <1> DEFINE T == {s[n] : n \in which \cap DOMAIN s}
             L == Len(s)
  <1>1. L \in Nat /\ DOMAIN s = 1 .. L
    OBVIOUS
  <1>2. <<>> \in Seq(T)
    OBVIOUS
  <1>3. \A o \in Seq(T), n \in 1 .. L : Turn(s, which, o, n) \in Seq(T)
    <2> TAKE o \in Seq(T), n \in 1 .. L
    <2>1. n \in which => s[n] \in T
      BY <1>1
    <2> HIDE DEF T
    <2> QED BY <2>1 DEF Turn
  <1>4. \A n \in which \cap DOMAIN s : s[n] \in T
    OBVIOUS
  <1> HIDE DEF T, L
  <1>5. PICK out : /\ out[0] = <<>> /\ \A n \in 1 .. L : out[n] = Turn(s, which, out[n - 1], n)
                   /\ Pushed(s, which) = out[L]
    BY PushedLoop DEF L
  <1> DEFINE Has(m) == \A n \in 1 .. m : n \in which => s[n] \in ToSet(out[m])
             D == {m \in Nat : m <= L => out[m] \in Seq(T) /\ Has(m)}
  <1>6. 0 \in D
    <2>1. out[0] \in Seq(T) /\ Has(0)
      BY <1>2, <1>5
    <2> HIDE DEF Has
    <2> QED BY <2>1
  <1>7. \A m \in Nat : m \in D => m + 1 \in D
    <2> SUFFICES ASSUME NEW m \in Nat, m \in D, m + 1 <= L PROVE out[m + 1] \in Seq(T) /\ Has(m + 1)
      OBVIOUS
    <2>1. out[m + 1] = Turn(s, which, out[m], m + 1) /\ m + 1 \in 1 .. L
      BY <1>1, <1>5
    <2>2. out[m] \in Seq(T) /\ Has(m)
      BY <1>1
    <2>3. out[m + 1] \in Seq(T)
      BY <1>3, <2>1, <2>2
    <2>4. ToSet(out[m]) \subseteq ToSet(out[m + 1])
      BY <2>1, <2>2 DEF Turn, ToSet
    <2>5. m + 1 \in which => s[m + 1] \in ToSet(out[m + 1])
      <3> SUFFICES ASSUME m + 1 \in which PROVE s[m + 1] \in ToSet(out[m + 1])
        OBVIOUS
      <3>1. out[m + 1] = Append(out[m], s[m + 1])
        BY <2>1 DEF Turn
      <3>2. s[m + 1] \in T
        BY <1>1, <1>4, <2>1
      <3> DEFINE o == out[m]
                 e == s[m + 1]
      <3>3. o \in Seq(T) /\ e \in T /\ out[m + 1] = Append(o, e)
        BY <2>2, <3>1, <3>2
      <3> HIDE DEF o, e
      <3>4. Len(o) + 1 \in DOMAIN Append(o, e) /\ Append(o, e)[Len(o) + 1] = e
        BY <3>3
      <3> QED BY <3>3, <3>4 DEF ToSet, e
    <2>6. Has(m + 1)
      <3> SUFFICES ASSUME NEW n \in 1 .. m + 1, n \in which PROVE s[n] \in ToSet(out[m + 1])
        OBVIOUS
      <3>1. CASE n = m + 1
        BY <2>5, <3>1
      <3>2. CASE n # m + 1
        BY <2>2, <2>4, <3>2
      <3> QED BY <3>1, <3>2
    <2> QED BY <2>3, <2>6
  <1>8. \A m \in Nat : m \in D
    <2> HIDE DEF D
    <2> QED BY <1>6, <1>7, Induction
  <1>9. out[L] \in Seq(T) /\ Has(L)
    BY <1>1, <1>8
  <1> QED BY <1>1, <1>5, <1>9 DEF T

\* The elements that are in a set.
LEMMA OnlyIs ==
  ASSUME NEW S, NEW s \in Seq(S), NEW keep
  PROVE  /\ Only(s, keep) \in Seq(keep \cap S)
         /\ \A x \in keep \cap ToSet(s) : x \in ToSet(Only(s, keep))
  <1> DEFINE which == {n \in DOMAIN s : s[n] \in keep}
             T == {s[n] : n \in which \cap DOMAIN s}
  <1>1. /\ Only(s, keep) \in Seq(T)
        /\ \A n \in which \cap DOMAIN s : s[n] \in ToSet(Only(s, keep))
    BY PushedIs DEF Only
  <1>2. T \subseteq keep \cap S
    OBVIOUS
  <1>3. \A x \in keep \cap ToSet(s) : \E n \in which \cap DOMAIN s : x = s[n]
    BY DEF ToSet
  <1>4. \A x \in keep \cap ToSet(s) : x \in ToSet(Only(s, keep))
    BY <1>1, <1>3
  <1> HIDE DEF T
  <1> QED BY <1>1, <1>2, <1>4

\* Those that were not pushed before.
LEMMA DistinctIs ==
  ASSUME NEW S, NEW s \in Seq(S)
  PROVE  Distinct(s) \in Seq(S)
  <1> DEFINE which == {n \in DOMAIN s : \A i \in 1 .. n - 1 : s[i] # s[n]}
             T == {s[n] : n \in which \cap DOMAIN s}
  <1>1. Distinct(s) \in Seq(T)
    BY PushedIs DEF Distinct
  <1>2. T \subseteq S
    OBVIOUS
  <1> HIDE DEF T
  <1> QED BY <1>1, <1>2

-----------------------------------------------------------------------------
(* Addresses and routing tables. *)

\* The prefix of a host is its address.
LEMMA HostIs ==
  ASSUME NEW a \in Int
  PROVE  Net(a, Width) = a /\ Host(a) = [net |-> a, len |-> Width]
  <1>1. 2^(Width - Width) = 1
    BY RoutePlanAssumption
  <1>2. a % 1 = 0
    OBVIOUS
  <1> QED BY <1>1, <1>2 DEF Net, Host, PrefixNew

\* A prefix is one, and is one of a routing table's.
LEMMA PrefixIs ==
  ASSUME NEW p \in AnyPrefix
  PROVE  p.len \in Lengths /\ p = [net |-> p.net, len |-> p.len]
  BY DEF AnyPrefix, PrefixNew

\* Longest prefix, then lowest metric: there is a best route if there is any.
LEMMA LookupIs ==
  ASSUME NEW table, NEW a, Reachable(table, a), \A r \in table : IsRoute(r)
  PROVE  /\ Lookup(table, a) \in table /\ Within(Lookup(table, a).dest, a)
         /\ \A q \in table : Within(q.dest, a) => Preferred(Lookup(table, a), q)
  <1> DEFINE found == {r \in table : Within(r.dest, a)}
             Short(r) == Width - r.dest.len
             Shorts == {Short(r) : r \in found}
  <1>1. found # {} /\ \A r \in found : r.dest.len \in Lengths /\ r.metric \in Nat
    BY DEF Reachable, IsRoute
  <1>2. Shorts # {} /\ Shorts \subseteq Nat
    BY <1>1, RoutePlanAssumption DEF Lengths
  <1>3. PICK m \in Shorts : \A n \in Shorts : m <= n
    BY <1>2, Least
  <1> DEFINE longest == {r \in found : Short(r) = m}
             Metrics == {r.metric : r \in longest}
  <1>4. Metrics # {} /\ Metrics \subseteq Nat
    BY <1>1, <1>3
  <1>5. PICK l \in Metrics : \A n \in Metrics : l <= n
    BY <1>4, Least
  <1>6. PICK r \in longest : r.metric = l
    BY <1>5
  <1>7. \A q \in found : Preferred(r, q)
    <2> TAKE q \in found
    <2>1. m <= Short(q) /\ Short(r) = m /\ r.dest.len \in Lengths /\ q.dest.len \in Lengths
      BY <1>1, <1>3, <1>6
    <2>2. r.dest.len >= q.dest.len
      BY <2>1, RoutePlanAssumption DEF Lengths
    <2>3. CASE Short(q) = m
      <3>1. r.metric <= q.metric
        BY <1>5, <1>6, <2>3
      <3> QED BY <2>1, <2>2, <3>1 DEF Preferred, Lengths
    <2>4. CASE Short(q) # m
      BY <2>1, <2>2, <2>4, RoutePlanAssumption DEF Preferred, Lengths
    <2> QED BY <2>3, <2>4
  <1>8. \E b \in found : \A q \in found : Preferred(b, q)
    BY <1>6, <1>7
  <1>9. Lookup(table, a) \in found /\ \A q \in found : Preferred(Lookup(table, a), q)
    <2> HIDE DEF found
    <2>1. Lookup(table, a) = CHOOSE b \in found : \A q \in found : Preferred(b, q)
      BY DEF Lookup, found
    <2> QED BY <1>8, <2>1
  <1> QED BY <1>9

\* The prefix of a prefix is the prefix of the address.
LEMMA NetNests ==
  ASSUME NEW a \in Int, NEW m \in Lengths, NEW k \in Lengths, k <= m
  PROVE  Net(Net(a, m), k) = Net(a, k) /\ Net(a, m) \in Int
  <1> DEFINE i == Width - m
             j == m - k
             d == 2^i
  <1>1. i \in Nat /\ j \in Nat /\ Width - k = i + j
    BY RoutePlanAssumption DEF Lengths
  <1> HIDE DEF i, j
  <1>2. d \in Nat \ {0}
    BY <1>1, Power
  <1>3. PICK c \in Nat \ {0} : 2^(i + j) = d * c
    BY <1>1, PowerDivides
  <1> HIDE DEF d
  <1> DEFINE b == a - (a % d)
  <1>4. b - (b % (d * c)) = a - (a % (d * c))
    BY <1>2, BlocksNest
  <1>5. a % d \in Int
    BY <1>2
  <1>6. Net(a, m) = b
    BY DEF Net, d, i
  <1>7. b \in Int
    BY <1>5
  <1> HIDE DEF b
  <1>8. Net(b, k) = b - (b % (d * c)) /\ Net(a, k) = a - (a % (d * c))
    BY <1>1, <1>3 DEF Net
  <1> QED BY <1>4, <1>6, <1>7, <1>8

\* A longer prefix that holds an address of a range lies in the range.
LEMMA LongerIsCovered ==
  ASSUME NEW a \in Int, NEW p, NEW q, p.len \in Lengths, q.len \in Lengths,
         Within(p, a), Within(q, a), q.len >= p.len
  PROVE  Covers(p, q)
  BY NetNests DEF Within, Covers

\* Every address is in one of the halves.
LEMMA HalvesCover ==
  ASSUME NEW a \in Addresses
  PROVE  \E h \in ToSet(Halves) : Within(h, a) /\ h.len = 1
  <1> DEFINE H == 2^(Width - 1)
  <1>1. H \in Nat \ {0} /\ 2^Width = 2 * H
    <2> DEFINE n == Width - 1
    <2>1. n \in Nat /\ n + 1 = Width
      BY RoutePlanAssumption
    <2> HIDE DEF n
    <2>2. 2^n \in Nat \ {0} /\ 2^(n + 1) = 2 * 2^n
      BY <2>1, Power
    <2> QED BY <2>1, <2>2 DEF n
  <1>2. Net(0, 1) = 0 - (0 % H) /\ Net(H, 1) = H - (H % H) /\ Net(a, 1) = a - (a % H)
    BY DEF Net
  <1>3. DOMAIN Halves = 1 .. 2 /\ Halves[1] = PrefixNew(0, 1) /\ Halves[2] = PrefixNew(H, 1)
    BY DEF Halves
  <1>4. Halves[1] \in ToSet(Halves) /\ Halves[2] \in ToSet(Halves)
    BY <1>3 DEF ToSet
  <1>5. a \in 0 .. 2 * H - 1
    BY <1>1 DEF Addresses
  <1> HIDE DEF H
  <1>6. Net(0, 1) = 0 /\ Net(H, 1) = H
    <2>1. (H * 0 + 0) % H = 0 /\ (H * 1 + 0) % H = 0
      <3>1. 0 \in 0 .. H - 1
        BY <1>1
      <3> QED BY <1>1, <3>1, Remainder
    <2>2. H * 0 + 0 = 0 /\ H * 1 + 0 = H
      BY <1>1
    <2> QED BY <1>1, <1>2, <2>1, <2>2
  <1>7. CASE a < H
    <2>1. a % H = a
      <3>1. (H * 0 + a) % H = a
        BY <1>1, <1>5, <1>7, Remainder
      <3>2. H * 0 + a = a
        BY <1>1, <1>5
      <3> QED BY <3>1, <3>2
    <2>2. Net(a, 1) = 0
      BY <1>2, <1>5, <2>1
    <2>3. Within(Halves[1], a) /\ Halves[1].len = 1
      BY <1>3, <1>6, <2>2 DEF Within, PrefixNew
    <2> QED BY <1>4, <2>3
  <1>8. CASE a >= H
    <2> DEFINE z == a - H
    <2>1. z \in 0 .. H - 1 /\ H * 1 + z = a
      BY <1>1, <1>5, <1>8
    <2>2. (H * 1 + z) % H = z
      BY <1>1, <2>1, Remainder
    <2>3. Net(a, 1) = H
      BY <1>1, <1>2, <1>5, <2>1, <2>2
    <2>4. Within(Halves[2], a) /\ Halves[2].len = 1
      BY <1>3, <1>6, <2>3 DEF Within, PrefixNew
    <2> QED BY <1>4, <2>4
  <1> QED BY <1>1, <1>5, <1>7, <1>8

-----------------------------------------------------------------------------
(* What the policy is made of. *)

\* Split routes are prefixes, whatever the gateway sent.
LEMMA SplitRoutesIs ==
  ASSUME NEW entries \in Seq([ip : Int, mask : Int])
  PROVE  SplitRoutes(entries) \in Seq(AnyPrefix)
  <1> DEFINE E == [ip : Int, mask : Int]
             keep == {e \in ToSet(entries) : Readable(e)}
             good == Only(entries, keep)
             ranges == [i \in DOMAIN good |-> PrefixNew(good[i].ip, MaskToLen(good[i].mask))]
  <1>1. good \in Seq(keep \cap E)
    BY OnlyIs
  <1>2. \A e \in keep : PrefixNew(e.ip, MaskToLen(e.mask)) \in AnyPrefix
    <2> TAKE e \in keep
    <2>1. e.ip \in Addresses /\ \E len \in Lengths : e.mask = MaskOf(len)
      BY DEF Readable, Contiguous
    <2>2. MaskToLen(e.mask) \in Lengths
      BY <2>1 DEF MaskToLen
    <2> QED BY <2>1, <2>2 DEF AnyPrefix
  <1> HIDE DEF keep, good
  <1>3. DOMAIN good = 1 .. Len(good) /\ Len(good) \in Nat /\ \A i \in DOMAIN good : good[i] \in keep
    BY <1>1
  <1>4. ranges \in [1 .. Len(good) -> AnyPrefix]
    BY <1>2, <1>3
  <1>5. ranges \in Seq(AnyPrefix)
    BY <1>3, <1>4
  <1> HIDE DEF ranges
  <1>6. SplitRoutes(entries) = Distinct(ranges)
    BY DEF SplitRoutes, ranges, good, keep
  <1> QED BY <1>5, <1>6, DistinctIs

\* DNS servers are addresses.
LEMMA EffectiveDnsIs ==
  ASSUME NEW xml \in Seq(Addresses \cup {NoAddress}), NEW ipcp \in Seq(Addresses \cup {NoAddress})
  PROVE  EffectiveDns(xml, ipcp) \in Seq(Addresses) /\ Len(EffectiveDns(xml, ipcp)) <= MaxDns
  <1> DEFINE A == Addresses \cup {NoAddress}
             some == Only(xml \o ipcp, Addresses)
             all == Distinct(some)
             n == Min({MaxDns, Len(all)})
  <1>1. xml \o ipcp \in Seq(A)
    OBVIOUS
  <1>2. some \in Seq(Addresses \cap A)
    BY <1>1, OnlyIs
  <1>3. some \in Seq(Addresses)
    <2> HIDE DEF some
    <2> QED BY <1>2
  <1>4. all \in Seq(Addresses)
    BY <1>3, DistinctIs
  <1> HIDE DEF all
  <1>5. n \in 0 .. Len(all) /\ n <= MaxDns
    <2>1. Len(all) \in Nat
      BY <1>4
    <2>2. MaxDns \in Nat
      BY RoutePlanAssumption
    <2>3. \E x \in {MaxDns, Len(all)} : \A y \in {MaxDns, Len(all)} : x <= y
      BY <2>1, <2>2
    <2>4. n \in {MaxDns, Len(all)} /\ \A y \in {MaxDns, Len(all)} : n <= y
      BY <2>3 DEF Min
    <2> QED BY <2>1, <2>2, <2>4
  <1> HIDE DEF n
  <1>6. SubSeq(all, 1, n) \in Seq(Addresses) /\ Len(SubSeq(all, 1, n)) <= MaxDns
    BY <1>4, <1>5, RoutePlanAssumption
  <1> QED BY <1>6 DEF EffectiveDns, n, all

\* The policy of every scenario is well formed.
LEMMA PolicyIs ==
  ASSUME NEW s \in Scenarios, policy = PolicyOf(s), limit = policy.mtu
  PROVE  PolicyOK
  <1>1. /\ s.gateway \in Addresses \cup {NoAddress}
        /\ s.routes \subseteq [dest : AnyPrefix, dev : PhysicalDevs, metric : Nat]
        /\ s.stale \in Seq([dest : AnyPrefix, dev : PhysicalDevs])
        /\ s.entries \in Seq([ip : Int, mask : Int])
        /\ s.xml_dns \in Seq(Addresses \cup {NoAddress})
        /\ s.ipcp_dns \in Seq(Addresses \cup {NoAddress})
        /\ s.mtu \in Nat
    BY NetSetupAssumption
  <1>2. policy.split = SplitRoutes(s.entries) /\ policy.split \in Seq(AnyPrefix)
    BY <1>1, SplitRoutesIs DEF PolicyOf
  <1>3. policy.dns \in Seq(Addresses) /\ Len(policy.dns) <= MaxDns
    BY <1>1, EffectiveDnsIs DEF PolicyOf
  <1>4. policy.stale \in Seq(PinDels)
    <2>1. policy.stale = [i \in DOMAIN s.stale |-> PinDel(s.stale[i].dest, s.stale[i].dev)]
      BY DEF PolicyOf
    <2> DEFINE R == [dest : AnyPrefix, dev : PhysicalDevs]
               old == s.stale
    <2>2. \A p \in R : PinDel(p.dest, p.dev) \in PinDels
      BY DEF PinDel, PinDels
    <2>3. old \in Seq(R)
      BY <1>1
    <2> HIDE DEF R, old
    <2>4. /\ Len(old) \in Nat /\ DOMAIN old = 1 .. Len(old)
          /\ \A i \in 1 .. Len(old) : old[i] \in R
      BY <2>3
    <2>5. [i \in DOMAIN old |-> PinDel(old[i].dest, old[i].dev)] \in [1 .. Len(old) -> PinDels]
      BY <2>2, <2>4
    <2>6. policy.stale \in Seq(PinDels)
      BY <2>1, <2>5, <2>4 DEF old
    <2> QED BY <2>6
  <1>5. policy.malformed <=> policy.advertised /\ policy.split = <<>>
    BY <1>2 DEF PolicyOf, AllMalformed
  <1>6. /\ policy.gateway = s.gateway /\ policy.users = s.routes /\ policy.mtu = s.mtu
    BY DEF PolicyOf
  <1> QED BY <1>1, <1>2, <1>3, <1>4, <1>5, <1>6 DEF PolicyOK

-----------------------------------------------------------------------------
(* What plan makes of it. *)

\* Whatever is routed into the tunnel is added after the rest of a plan.
LEMMA PlannedGrows ==
  ASSUME NEW q, Planned(q), NEW c \in Seq(TunOps)
  PROVE  Planned(q \o c)
  <1> DEFINE S == PinDels \cup Pins \cup TunOps
  <1>1. q \in Seq(S) /\ c \in Seq(S)
    <2>1. TunOps \subseteq S
      OBVIOUS
    <2> HIDE DEF S
    <2>2. c \in Seq(S)
      BY <2>1
    <2>3. q \in Seq(S)
      BY DEF Planned, S
    <2> QED BY <2>2, <2>3
  <1>2. \A o \in TunOps : o \notin Pins
    BY DEF TunOps, Pins
  <1> HIDE DEF S
  <1> DEFINE t == q \o c
  <1>3. /\ t \in Seq(S) /\ Len(t) = Len(q) + Len(c) /\ Len(q) \in Nat /\ Len(c) \in Nat
        /\ DOMAIN t = 1 .. Len(t) /\ DOMAIN q = 1 .. Len(q)
        /\ \A i \in 1 .. Len(q) : t[i] = q[i]
        /\ \A i \in Len(q) + 1 .. Len(t) : t[i] \in TunOps
    BY <1>1
  <1> HIDE DEF t
  <1>4. ASSUME NEW i \in DOMAIN t, t[i] \in Pins
        PROVE  /\ policy.gateway # NoAddress
               /\ \A j \in 1 .. i - 1 : t[j] \in PinDels
               /\ \A j \in i + 1 .. Len(t) : t[j] \in TunOps
    <2>1. i \in DOMAIN q /\ t[i] = q[i]
      BY <1>2, <1>3, <1>4
    <2>2. /\ policy.gateway # NoAddress
          /\ \A j \in 1 .. i - 1 : q[j] \in PinDels
          /\ \A j \in i + 1 .. Len(q) : q[j] \in TunOps
      BY <1>4, <2>1 DEF Planned
    <2> QED BY <1>3, <2>1, <2>2
  <1>5. NeedsPin(policy) => \E i \in DOMAIN t : t[i] \in Pins
    BY <1>3 DEF Planned
  <1> QED BY <1>3, <1>4, <1>5 DEF Planned, S, t

\* A route into the tunnel that it may have.
LEMMA RoutesAre ==
  ASSUME NEW s, NEW S, s \in Seq(S), NEW dest, dest \in [S -> MayRoute],
         NEW t, t = [i \in DOMAIN s |-> RouteAdd(dest[s[i]])]
  PROVE  t \in Seq(TunOps)
  <1>1. \A p \in MayRoute : RouteAdd(p) \in TunOps
    BY DEF RouteAdd, TunOps
  <1> HIDE DEF TunOps, MayRoute
  <1>2. t \in [1 .. Len(s) -> TunOps] /\ Len(s) \in Nat
    BY <1>1
  <1> QED BY <1>2

\* The parts of a plan: the gateway's pin, the halves of the internet, the ranges, the DNS
\* servers' routes, and the DNS settings.
PinPart(table) ==
  IF NeedsPin(policy) THEN <<PinAdd(Host(policy.gateway), Lookup(table, policy.gateway).dev)>>
  ELSE <<>>
HalvesPart == IF FullTunnel(policy) THEN [i \in DOMAIN Halves |-> RouteAdd(Halves[i])] ELSE <<>>
RangesPart ==
  LET ranges == Explicit(policy)
  IN IF policy.want_routes THEN [i \in DOMAIN ranges |-> RouteAdd(ranges[i])] ELSE <<>>
UseDns == policy.want_dns /\ policy.dns # <<>>
ServersPart ==
  LET servers == Only(policy.dns, {d \in ToSet(policy.dns) : NeedsDnsRoute(policy, d)})
  IN IF policy.want_routes /\ ~FullTunnel(policy) /\ UseDns
     THEN [i \in DOMAIN servers |-> RouteAdd(Host(servers[i]))] ELSE <<>>
DnsPart ==
  IF UseDns /\ policy.resolved THEN <<LinkOp("dns", policy.dns), LinkOp("domain", <<>>)>> ELSE <<>>

\* plan pins the gateway before it routes anything into the tunnel that holds it.
LEMMA PlanParts ==
  ASSUME PolicyOK, NEW table, ~PlanFails(policy, table),
         \A r \in table : IsRoute(r) /\ r.dev \in PhysicalDevs
  PROVE  /\ Plan(policy, table) =
              policy.stale \o PinPart(table) \o HalvesPart \o RangesPart \o ServersPart \o DnsPart
         /\ Planned(policy.stale \o PinPart(table))
         /\ HalvesPart \in Seq(TunOps) /\ RangesPart \in Seq(TunOps)
         /\ ServersPart \in Seq(TunOps) /\ DnsPart \in Seq(TunOps)
  <1> DEFINE g == policy.gateway
             pin == PinAdd(Host(g), Lookup(table, g).dev)
             explicit == Explicit(policy)
             servers == Only(policy.dns, {d \in ToSet(policy.dns) : NeedsDnsRoute(policy, d)})
             use_dns == UseDns
             p2 == PinPart(table)
             p3 == HalvesPart
             p4 == RangesPart
             p5 == ServersPart
             p6 == DnsPart
  <1> USE DEF PinPart, HalvesPart, RangesPart, ServersPart, DnsPart, UseDns
  <1>1. Plan(policy, table) = policy.stale \o p2 \o p3 \o p4 \o p5 \o p6
    BY DEF Plan
  <1>2. Planned(policy.stale \o p2)
    <2>1. policy.stale \in Seq(PinDels)
      BY DEF PolicyOK
    <2>2. \A o \in PinDels : o \notin Pins
      BY DEF PinDels, Pins
    <2> DEFINE S == PinDels \cup Pins \cup TunOps
    <2>3. CASE ~NeedsPin(policy)
      <3>1. policy.stale \o p2 = policy.stale
        BY <2>1, <2>3
      <3> DEFINE q == policy.stale
      <3>2. q \in Seq(S)
        BY <2>1
      <3>3. \A i \in DOMAIN q : q[i] \notin Pins
        BY <2>1, <2>2
      <3> HIDE DEF q
      <3>4. Planned(q)
        BY <2>3, <3>2, <3>3 DEF Planned
      <3> QED BY <3>1, <3>4 DEF q
    <2>4. CASE NeedsPin(policy)
      <3>1. g # NoAddress /\ Reachable(table, g)
        BY <2>4 DEF NeedsPin, PlanFails
      <3>2. Lookup(table, g) \in table
        BY <3>1, LookupIs
      <3>3. pin \in Pins
        BY <3>2 DEF PinAdd, Pins
      <3> DEFINE q == policy.stale \o <<pin>>
                 L == Len(policy.stale)
      <3> HIDE DEF pin
      <3>4. /\ q \in Seq(S) /\ Len(q) = L + 1 /\ L \in Nat /\ DOMAIN q = 1 .. L + 1
            /\ q[L + 1] = pin /\ \A i \in 1 .. L : q[i] \in PinDels
        BY <2>1, <3>3
      <3> HIDE DEF q
      <3>5. \A i \in DOMAIN q : q[i] \in Pins => i = L + 1
        BY <2>2, <3>4
      <3>6. Planned(q)
        BY <3>1, <3>3, <3>4, <3>5 DEF Planned
      <3> QED BY <2>4, <3>6 DEF q, pin
    <2> QED BY <2>3, <2>4
  <1>a. g # NoAddress => g \in Int /\ Net(g, Width) = g /\ Host(g) = [net |-> g, len |-> Width]
    BY HostIs DEF PolicyOK, Addresses
  <1>b. Width > 1
    BY RoutePlanAssumption
  <1>3. p3 \in Seq(TunOps)
    <2>1. CASE ~FullTunnel(policy)
      BY <2>1
    <2>2. CASE FullTunnel(policy)
      <3> DEFINE H == ToSet(Halves)
                 dest == [p \in H |-> p]
      <3>1. Halves \in Seq(H) /\ \A p \in H : p.len = 1
        <4>1. DOMAIN Halves = 1 .. 2 /\ Len(Halves) = 2
          BY DEF Halves
        <4>2. Halves[1].len = 1 /\ Halves[2].len = 1
          BY DEF Halves, PrefixNew
        <4>3. H = {Halves[1], Halves[2]}
          BY <4>1 DEF ToSet
        <4>4. Halves \in Seq(H)
          BY <4>1, <4>3 DEF Halves
        <4> QED BY <4>2, <4>3, <4>4
      <3>2. \A p \in H : p \in MayRoute
        <4> TAKE p \in H
        <4>1. p.len = 1 /\ p.len # Width /\ p.len # 0
          BY <1>b, <3>1
        <4>2. g # NoAddress => p # Host(g) /\ NeedsPin(policy)
          BY <1>a, <2>2, <4>1 DEF NeedsPin, FullTunnel
        <4> QED BY <2>2, <4>1, <4>2 DEF MayRoute
      <3> HIDE DEF H
      <3>3. dest \in [H -> MayRoute] /\ \A i \in DOMAIN Halves : dest[Halves[i]] = Halves[i]
        BY <3>1, <3>2
      <3> HIDE DEF dest
      <3>4. p3 = [i \in DOMAIN Halves |-> RouteAdd(dest[Halves[i]])]
        BY <2>2, <3>3
      <3> QED BY <3>1, <3>3, <3>4, RoutesAre
    <2> QED BY <2>1, <2>2
  <1>4. p4 \in Seq(TunOps)
    <2>1. CASE ~policy.want_routes
      BY <2>1
    <2>2. CASE policy.want_routes
      <3> DEFINE E == {p \in ToSet(policy.split) : p.len # 0 /\ ~(p.len = Width /\ p.net = g)}
                 dest == [p \in E |-> p]
      <3>0. policy.split \in Seq(AnyPrefix)
        BY DEF PolicyOK
      <3>1. explicit \in Seq(E)
        <4>1. explicit \in Seq(E \cap AnyPrefix)
          BY <3>0, OnlyIs DEF Explicit
        <4> HIDE DEF E
        <4> QED BY <4>1
      <3>2. \A p \in E : p \in MayRoute
        <4> TAKE p \in E
        <4>1. p \in AnyPrefix /\ p \in ToSet(policy.split) /\ p.len # 0
          BY <3>0 DEF ToSet
        <4>2. g # NoAddress => p # Host(g)
          BY <1>a
        <4>3. g # NoAddress /\ Within(p, g) => NeedsPin(policy)
          BY <2>2, <4>1 DEF NeedsPin
        <4>4. p.len = 1 => \E q \in ToSet(policy.split) : q.len <= 1
          BY <4>1
        <4> HIDE DEF E
        <4> QED BY <4>1, <4>2, <4>3, <4>4 DEF MayRoute
      <3> HIDE DEF E, explicit
      <3>3. dest \in [E -> MayRoute] /\ \A i \in DOMAIN explicit : dest[explicit[i]] = explicit[i]
        BY <3>1, <3>2
      <3> HIDE DEF dest
      <3>4. p4 = [i \in DOMAIN explicit |-> RouteAdd(dest[explicit[i]])]
        BY <2>2, <3>3 DEF explicit
      <3> QED BY <3>1, <3>3, <3>4, RoutesAre
    <2> QED BY <2>1, <2>2
  <1>5. p5 \in Seq(TunOps)
    <2>1. CASE ~(policy.want_routes /\ ~FullTunnel(policy) /\ use_dns)
      BY <2>1
    <2>2. CASE policy.want_routes /\ ~FullTunnel(policy) /\ use_dns
      <3> DEFINE E == {d \in ToSet(policy.dns) : NeedsDnsRoute(policy, d)}
                 dest == [d \in E |-> Host(d)]
      <3>0. policy.dns \in Seq(Addresses)
        BY DEF PolicyOK
      <3>1. servers \in Seq(E)
        <4>1. servers \in Seq(E \cap Addresses)
          BY <3>0, OnlyIs
        <4> HIDE DEF E
        <4> QED BY <4>1
      <3>2. \A d \in E : Host(d) \in MayRoute
        <4> TAKE d \in E
        <4>1. d \in Addresses /\ d # g
          BY <3>0 DEF ToSet, NeedsDnsRoute
        <4>2. d \in Int /\ Host(d) = [net |-> d, len |-> Width]
          BY <4>1, HostIs DEF Addresses
        <4>3. Host(d) \in AnyPrefix
          BY <4>1, RoutePlanAssumption DEF AnyPrefix, Host, Lengths
        <4>4. g # NoAddress => Host(d) # Host(g) /\ ~Within(Host(d), g)
          BY <1>a, <4>1, <4>2 DEF Within
        <4>5. Host(d).len \notin {0, 1}
          BY <1>b, <4>2
        <4> HIDE DEF E
        <4> QED BY <4>3, <4>4, <4>5 DEF MayRoute
      <3> HIDE DEF E, servers
      <3>3. dest \in [E -> MayRoute] /\ \A i \in DOMAIN servers : dest[servers[i]] = Host(servers[i])
        BY <3>1, <3>2
      <3> HIDE DEF dest
      <3>4. p5 = [i \in DOMAIN servers |-> RouteAdd(dest[servers[i]])]
        BY <2>2, <3>3 DEF servers
      <3> QED BY <3>1, <3>3, <3>4, RoutesAre
    <2> QED BY <2>1, <2>2
  <1>6. p6 \in Seq(TunOps)
    <2>1. policy.dns \in Seq(Addresses) /\ <<>> \in Seq(Addresses)
      BY DEF PolicyOK
    <2>2. LinkOp("dns", policy.dns) \in TunOps /\ LinkOp("domain", <<>>) \in TunOps
      BY <2>1 DEF LinkOp, TunOps
    <2> HIDE DEF TunOps
    <2> QED BY <2>2
  <1> HIDE DEF PinPart, HalvesPart, RangesPart, ServersPart, DnsPart
  <1> QED BY <1>1, <1>2, <1>3, <1>4, <1>5, <1>6

\* So the whole plan does.
LEMMA PlanIs ==
  ASSUME PolicyOK, NEW table, ~PlanFails(policy, table),
         \A r \in table : IsRoute(r) /\ r.dev \in PhysicalDevs
  PROVE  Planned(Plan(policy, table))
  <1> DEFINE q1 == policy.stale \o PinPart(table)
             q2 == q1 \o HalvesPart
             q3 == q2 \o RangesPart
             q4 == q3 \o ServersPart
  <1>1. /\ Plan(policy, table) = q4 \o DnsPart /\ Planned(q1)
        /\ HalvesPart \in Seq(TunOps) /\ RangesPart \in Seq(TunOps)
        /\ ServersPart \in Seq(TunOps) /\ DnsPart \in Seq(TunOps)
    BY PlanParts
  <1> HIDE DEF q1
  <1>2. Planned(q2)
    BY <1>1, PlannedGrows
  <1> HIDE DEF q2
  <1>3. Planned(q3)
    BY <1>1, <1>2, PlannedGrows
  <1> HIDE DEF q3
  <1>4. Planned(q4)
    BY <1>1, <1>3, PlannedGrows
  <1> HIDE DEF q4
  <1> QED BY <1>1, <1>4, PlannedGrows

\* A part of a sequence is in it.
LEMMA InParts ==
  ASSUME NEW S, NEW a \in Seq(S), NEW b \in Seq(S)
  PROVE  a \o b \in Seq(S) /\ ToSet(a) \subseteq ToSet(a \o b) /\ ToSet(b) \subseteq ToSet(a \o b)
  <1> DEFINE c == a \o b
  <1>1. /\ c \in Seq(S) /\ Len(c) = Len(a) + Len(b) /\ Len(a) \in Nat /\ Len(b) \in Nat
        /\ DOMAIN a = 1 .. Len(a) /\ DOMAIN b = 1 .. Len(b) /\ DOMAIN c = 1 .. Len(c)
        /\ \A i \in 1 .. Len(a) : c[i] = a[i]
        /\ \A i \in 1 .. Len(b) : c[Len(a) + i] = b[i]
    OBVIOUS
  <1> HIDE DEF c
  <1>2. ToSet(a) \subseteq ToSet(c)
    BY <1>1 DEF ToSet
  <1>3. \A i \in 1 .. Len(b) : b[i] \in ToSet(c)
    <2> TAKE i \in 1 .. Len(b)
    <2>1. Len(a) + i \in DOMAIN c
      BY <1>1
    <2> QED BY <1>1, <2>1 DEF ToSet
  <1>4. ToSet(b) \subseteq ToSet(c)
    BY <1>1, <1>3 DEF ToSet
  <1> QED BY <1>1, <1>2, <1>4 DEF c

\* plan routes into the tunnel all that it is to carry, but for the gateway.
LEMMA PlanCompletes ==
  ASSUME PolicyOK, NEW table, ~PlanFails(policy, table),
         \A r \in table : IsRoute(r) /\ r.dev \in PhysicalDevs
  PROVE  Complete(Plan(policy, table))
  <1> DEFINE S == PinDels \cup Pins \cup TunOps
             q1 == policy.stale \o PinPart(table)
             q2 == q1 \o HalvesPart
             q3 == q2 \o RangesPart
             q4 == q3 \o ServersPart
             q5 == q4 \o DnsPart
  <1>1. Plan(policy, table) = q5
    BY PlanParts
  <1>2. q1 \in Seq(S)
    BY PlanParts DEF Planned
  <1>3. /\ HalvesPart \in Seq(S) /\ RangesPart \in Seq(S)
        /\ ServersPart \in Seq(S) /\ DnsPart \in Seq(S)
    <2>1. /\ HalvesPart \in Seq(TunOps) /\ RangesPart \in Seq(TunOps)
          /\ ServersPart \in Seq(TunOps) /\ DnsPart \in Seq(TunOps)
      BY PlanParts
    <2>2. TunOps \subseteq S
      OBVIOUS
    <2> HIDE DEF S
    <2> QED BY <2>1, <2>2
  <1> HIDE DEF S, q1
  <1>4. q2 \in Seq(S) /\ ToSet(HalvesPart) \subseteq ToSet(q2)
    BY <1>2, <1>3, InParts
  <1> HIDE DEF q2
  <1>5. q3 \in Seq(S) /\ ToSet(q2) \subseteq ToSet(q3) /\ ToSet(RangesPart) \subseteq ToSet(q3)
    BY <1>3, <1>4, InParts
  <1> HIDE DEF q3
  <1>6. q4 \in Seq(S) /\ ToSet(q3) \subseteq ToSet(q4) /\ ToSet(ServersPart) \subseteq ToSet(q4)
    BY <1>3, <1>5, InParts
  <1> HIDE DEF q4
  <1>7. ToSet(q4) \subseteq ToSet(q5)
    BY <1>3, <1>6, InParts
  <1> HIDE DEF q5
  <1>8. ToSet(HalvesPart) \subseteq ToSet(q5) /\ ToSet(RangesPart) \subseteq ToSet(q5)
    BY <1>4, <1>5, <1>6, <1>7
  <1>9. ASSUME FullTunnel(policy), NEW h \in ToSet(Halves)
        PROVE  RouteAdd(h) \in ToSet(q5)
    <2>1. HalvesPart = [i \in DOMAIN Halves |-> RouteAdd(Halves[i])]
      BY <1>9 DEF HalvesPart
    <2>2. PICK i \in DOMAIN Halves : h = Halves[i]
      BY DEF ToSet
    <2>3. i \in DOMAIN HalvesPart /\ HalvesPart[i] = RouteAdd(h)
      BY <2>1, <2>2
    <2>4. RouteAdd(h) \in ToSet(HalvesPart)
      BY <2>3 DEF ToSet
    <2> QED BY <1>8, <2>4
  <1>10. ASSUME policy.want_routes, NEW p \in ToSet(policy.split), p.len # 0, ~IsTheGateways(p)
         PROVE  RouteAdd(p) \in ToSet(q5)
    <2> DEFINE ranges == Explicit(policy)
               keep == {x \in ToSet(policy.split) : x.len # 0 /\ ~(x.len = Width /\ x.net = policy.gateway)}
    <2>1. p \in keep \cap ToSet(policy.split)
      BY <1>10 DEF IsTheGateways
    <2>2. policy.split \in Seq(AnyPrefix)
      BY DEF PolicyOK
    <2>3. ranges = Only(policy.split, keep)
      BY DEF Explicit
    <2> HIDE DEF ranges, keep
    <2>4. p \in ToSet(ranges)
      BY <2>1, <2>2, <2>3, OnlyIs
    <2>5. PICK i \in DOMAIN ranges : p = ranges[i]
      BY <2>4 DEF ToSet
    <2>6. RangesPart = [n \in DOMAIN ranges |-> RouteAdd(ranges[n])]
      BY <1>10 DEF RangesPart, ranges
    <2>7. i \in DOMAIN RangesPart /\ RangesPart[i] = RouteAdd(p)
      BY <2>5, <2>6
    <2>8. RouteAdd(p) \in ToSet(RangesPart)
      BY <2>7 DEF ToSet
    <2> QED BY <1>8, <2>8
  <1>11. ASSUME policy.want_routes, policy.want_dns, ~FullTunnel(policy),
                NEW d \in ToSet(policy.dns), NeedsDnsRoute(policy, d)
         PROVE  RouteAdd(Host(d)) \in ToSet(q5)
    <2> DEFINE keep == {x \in ToSet(policy.dns) : NeedsDnsRoute(policy, x)}
               servers == Only(policy.dns, keep)
    <2>1. d \in keep \cap ToSet(policy.dns)
      BY <1>11
    <2>2. policy.dns \in Seq(Addresses) /\ policy.dns # <<>>
      BY DEF PolicyOK, ToSet
    <2>3. ServersPart = [i \in DOMAIN servers |-> RouteAdd(Host(servers[i]))]
      BY <1>11, <2>2 DEF ServersPart, UseDns
    <2> HIDE DEF keep
    <2>4. d \in ToSet(servers)
      BY <2>1, <2>2, OnlyIs
    <2> HIDE DEF servers
    <2>5. PICK i \in DOMAIN servers : d = servers[i]
      BY <2>4 DEF ToSet
    <2>6. i \in DOMAIN ServersPart /\ ServersPart[i] = RouteAdd(Host(d))
      BY <2>3, <2>5
    <2>7. RouteAdd(Host(d)) \in ToSet(ServersPart)
      BY <2>6 DEF ToSet
    <2> QED BY <1>6, <1>7, <2>7
  <1> QED BY <1>1, <1>9, <1>10, <1>11 DEF Complete

-----------------------------------------------------------------------------
(* The invariant holds initially, and the policy never changes. *)

\* Initially nothing is set up.
LEMMA InitInv ==
  ASSUME NetInit
  PROVE  IInv
  <1>1. PICK s \in Scenarios : policy = PolicyOf(s)
    BY DEF NetInit
  <1>2. PolicyOK
    BY <1>1, PolicyIs DEF NetInit
  <1>3. routes \subseteq [dest : AnyPrefix, dev : PhysicalDevs, metric : Nat]
    BY <1>2 DEF NetInit, PolicyOK
  <1>4. \A r \in routes : IsRoute(r) /\ r.dev \in PhysicalDevs
    <2> TAKE r \in routes
    <2>1. r.dest \in AnyPrefix /\ r.dev \in PhysicalDevs /\ r.metric \in Nat
      BY <1>3
    <2> QED BY <2>1, PrefixIs DEF IsRoute
  <1>5. RoutesOK
    BY <1>4, NetSetupAssumption DEF RoutesOK
  <1>6. PhaseOK /\ OpsOK
    BY DEF NetInit, PhaseOK, OpsOK
  <1>7. ResultsOK
    BY DEF NetInit, ResultsOK
  <1>8. LinkOK /\ DeviceOK
    BY NetSetupAssumption DEF NetInit, LinkOK, DeviceOK, Fresh
  <1>9. PinsOK /\ StraysOK /\ VerdictOK
    BY DEF NetInit, PinsOK, StraysOK, VerdictOK
  <1> QED BY <1>2, <1>5, <1>6, <1>7, <1>8, <1>9 DEF IInv

\* What the rest of a proof reads of a state depends on the policy.
LEMMA SamePolicy ==
  ASSUME policy' = policy
  PROVE  /\ MayRoute' = MayRoute /\ Pins' = Pins /\ TunOps' = TunOps
         /\ \A q : Planned(q)' <=> Planned(q)
  BY DEF MayRoute, Pins, TunOps, Planned

\* No step changes the policy, or what was negotiated.
LEMMA PolicyStays ==
  ASSUME [NetNext]_netVars
  PROVE  policy' = policy /\ limit' = limit
  BY DEF NetNext, OnNetwork, Worker, Helper, Around, netVars, RefusesPolicy, ByIoctl, ByHelper,
         NoPrivilege, HelperConfigured, NoPathRead, Plans, DoesNotApply, Dismissed, Applies, StopsSuperseded,
         Validates, RejectsOp, Runs, RunFails, Rechecks, Judges, CannotVerify, Stops, DeviceGoes,
         OtherDevice, NewAttempt, PathChanges

\* Operations of a request, by what it is for.
LEMMA OpIs ==
  ASSUME PolicyOK, OpsOK
  PROVE  /\ Len(ops) \in Nat /\ DOMAIN ops = 1 .. Len(ops)
         /\ \A i \in DOMAIN ops :
              /\ phase # "routes" => ops[i] \in ConfigOps
              /\ phase = "routes" => ops[i] \in PinDels \cup Pins \cup TunOps
  <1> DEFINE P == PinDels \cup Pins \cup TunOps
  <1>1. ops \in Seq(ConfigOps) \/ ops \in Seq(P)
    BY DEF OpsOK, Planned
  <1>2. phase # "routes" => ops \in Seq(ConfigOps)
    BY DEF OpsOK
  <1>3. phase = "routes" => ops \in Seq(P)
    BY DEF OpsOK, Planned
  <1> HIDE DEF P
  <1> QED BY <1>1, <1>2, <1>3 DEF P

\* The kinds of operation are told apart by their names.
LEMMA OpKinds ==
  /\ \A o \in ConfigOps : o.op \in {"addr", "link_up", "mtu"} /\ o.servers = <<>>
  /\ \A o \in PinDels : o.op = "pin_del" /\ o.dev \in PhysicalDevs
  /\ \A o \in Pins :
       o.op = "pin_add" /\ o.dest = Host(policy.gateway) /\ o.dev \in PhysicalDevs
  /\ \A o \in TunOps : o.op \in {"route_add", "dns", "domain"}
  /\ \A o \in TunOps : o.op = "route_add" => o.dest \in MayRoute
  /\ \A o \in TunOps : o.op # "route_add" => o.servers \in Seq(Addresses)
  <1>1. \A o \in ConfigOps : o.op \in {"addr", "link_up", "mtu"} /\ o.servers = <<>>
    BY DEF ConfigOps
  <1>2. \A o \in PinDels : o.op = "pin_del" /\ o.dev \in PhysicalDevs
    BY DEF PinDels
  <1>3. \A o \in Pins :
          o.op = "pin_add" /\ o.dest = Host(policy.gateway) /\ o.dev \in PhysicalDevs
    BY DEF Pins
  <1>4. \A o \in TunOps : o.op \in {"route_add", "dns", "domain"}
    BY DEF TunOps
  <1>5. \A o \in TunOps : o.op = "route_add" => o.dest \in MayRoute
    BY DEF TunOps
  <1>6. \A o \in TunOps : o.op # "route_add" => o.servers \in Seq(Addresses)
    BY DEF TunOps
  <1> QED BY <1>1, <1>2, <1>3, <1>4, <1>5, <1>6

-----------------------------------------------------------------------------
(* Each part of the invariant is kept by every step. *)

\* The policy stays what it is.
LEMMA PolicyStep ==
  ASSUME IInv, [NetNext]_netVars
  PROVE  PolicyOK'
  <1>1. policy' = policy /\ limit' = limit
    BY PolicyStays
  <1> QED BY <1>1 DEF IInv, PolicyOK

\* on_network, then the helper or nobody, then apply, the helper, and the verdict.
LEMMA PhaseStep ==
  ASSUME IInv, [NetNext]_netVars
  PROVE  PhaseOK'
  <1> USE DEF IInv, PhaseOK, Ends
  <1>0. policy' = policy
    BY PolicyStays
  <1>1. CASE OnNetwork
    <2>1. CASE RefusesPolicy
      BY <1>0, <2>1 DEF RefusesPolicy, Refused
    <2>2. CASE ByIoctl
      BY <1>0, <2>2 DEF ByIoctl, Refused, After
    <2>3. CASE ByHelper
      BY <1>0, <2>3 DEF ByHelper, Refused
    <2>4. CASE NoPrivilege
      BY <1>0, <2>4 DEF NoPrivilege, Refused, NotConfigured
    <2>5. CASE HelperConfigured
      BY <1>0, <2>5 DEF HelperConfigured, NotConfigured, After
    <2>6. CASE Plans
      BY <1>0, <2>6 DEF Plans
    <2>7. CASE NoPathRead
      BY <1>0, <2>7 DEF NoPathRead
    <2> QED BY <1>1, <2>1, <2>2, <2>3, <2>4, <2>5, <2>6, <2>7 DEF OnNetwork
  <1>2. CASE Worker
    BY <1>0, <1>2 DEF Worker, DoesNotApply, Dismissed, Applies, Judges, CannotVerify
  <1>3. CASE Helper
    BY <1>0, <1>3 DEF Helper, StopsSuperseded, Validates, RejectsOp, NextOp, Runs, RunFails, Rechecks
  <1>4. CASE Around \/ UNCHANGED netVars
    BY <1>0, <1>4 DEF Around, Stops, DeviceGoes, OtherDevice, NewAttempt, PathChanges, setupVars, netVars
  <1> QED BY <1>1, <1>2, <1>3, <1>4 DEF NetNext

\* The operations are those of the plan, or those that set the device up.
LEMMA OpsStep ==
  ASSUME IInv, [NetNext]_netVars
  PROVE  OpsOK'
  <1>0. policy' = policy /\ \A q : Planned(q)' <=> Planned(q)
    BY PolicyStays, SamePolicy
  <1>1. CASE UNCHANGED <<phase, ops>>
    BY <1>0, <1>1 DEF IInv, OpsOK
  <1>2. CASE ByHelper
    <2>1. phase' # "routes"
      BY <1>2 DEF ByHelper
    <2>2. LinkOp("addr", <<>>) \in ConfigOps /\ LinkOp("link_up", <<>>) \in ConfigOps
          /\ LinkOp("mtu", <<>>) \in ConfigOps
      BY DEF LinkOp, ConfigOps
    <2> HIDE DEF ConfigOps
    <2>3. ops' \in Seq(ConfigOps)
      BY <1>2, <2>2 DEF ByHelper
    <2> QED BY <2>1, <2>3 DEF OpsOK
  <1>3. CASE HelperConfigured
    <2>1. phase' # "routes" /\ ops' = <<>>
      BY <1>3 DEF HelperConfigured
    <2> QED BY <2>1 DEF OpsOK
  <1>4. CASE Plans
    <2>1. CASE PlanFails(policy, routes)
      BY <1>0, <1>4, <2>1 DEF IInv, OpsOK, Plans
    <2>2. CASE ~PlanFails(policy, routes)
      <3>1. phase' = "routes" /\ ops' = Plan(policy, routes)
        BY <1>4, <2>2 DEF Plans
      <3>2. \A r \in routes : IsRoute(r) /\ r.dev \in PhysicalDevs
        BY <1>4 DEF IInv, PhaseOK, RoutesOK, Plans
      <3>3. Planned(ops')
        BY <2>2, <3>1, <3>2, PlanIs DEF IInv
      <3>4. Planned(ops)'
        BY <1>0, <3>3 DEF Planned, NeedsPin, FullTunnel, MayRoute, Pins, TunOps
      <3> QED BY <3>1, <3>4 DEF OpsOK
    <2> QED BY <2>1, <2>2
  <1> QED
    BY <1>1, <1>2, <1>3, <1>4
    DEF NetNext, OnNetwork, Worker, Helper, Around, netVars, setupVars, RefusesPolicy, ByIoctl,
        NoPrivilege, NoPathRead, DoesNotApply, Dismissed, Applies, StopsSuperseded, Validates, RejectsOp,
        Runs, RunFails, Rechecks, Judges, CannotVerify, Stops, DeviceGoes, OtherDevice, NewAttempt, PathChanges

\* The result of an operation is recorded, and the next one is looked at.
LEMMA NextOpResults ==
  ASSUME IInv, pc \in {"check", "recheck"}, Len(results) = at - 1,
         NEW r \in Results, r # "gone", NextOp(r), UNCHANGED <<ops, phase>>
  PROVE  /\ ResultsOK' /\ results' = Append(results, r) /\ Len(results') = at
  <1>1. /\ results \in Seq(Results) /\ at \in DOMAIN ops /\ Len(ops) \in Nat /\ at \in Nat
        /\ DOMAIN ops = 1 .. Len(ops)
        /\ \A i \in DOMAIN results : results[i] = "gone" => ops[i].op = "pin_del"
    BY OpIs DEF IInv, ResultsOK
  <1>2. results' = Append(results, r) /\ commands' = <<>> /\ ops' = ops
    BY DEF NextOp
  <1>3. results' \in Seq(Results) /\ Len(results') = at
    BY <1>1, <1>2
  <1>4. \A i \in DOMAIN results' : results'[i] = "gone" => ops'[i].op = "pin_del"
    BY <1>1, <1>2
  <1>5. CASE at < Len(ops)
    BY <1>1, <1>2, <1>3, <1>4, <1>5 DEF NextOp, ResultsOK
  <1>6. CASE ~(at < Len(ops))
    BY <1>1, <1>2, <1>3, <1>4, <1>6 DEF NextOp, ResultsOK
  <1> QED BY <1>2, <1>3, <1>5, <1>6

\* One result for each operation looked at, which is one of the request's.
LEMMA ResultsStep ==
  ASSUME IInv, [NetNext]_netVars
  PROVE  ResultsOK'
  <1>0. ResultsOK /\ PhaseOK /\ Len(ops) \in Nat /\ DOMAIN ops = 1 .. Len(ops)
    BY OpIs DEF IInv
  <1>1. CASE UNCHANGED <<pc, ops, at, commands, results>>
    BY <1>0, <1>1 DEF ResultsOK
  <1>2. CASE \/ RefusesPolicy \/ DoesNotApply \/ Dismissed \/ Judges \/ CannotVerify
             \/ ByIoctl \/ NoPrivilege \/ NoPathRead
    <2>1. /\ UNCHANGED <<ops, at, commands, results>>
          /\ pc' \in {"mtu", "plan", "done"}
      BY <1>2 DEF RefusesPolicy, DoesNotApply, Dismissed, Judges, CannotVerify, ByIoctl, NoPrivilege, Ends,
                  NotConfigured, NoPathRead, After
    <2> QED BY <1>0, <2>1 DEF ResultsOK
  <1>3. CASE ByHelper
    <2>1. /\ pc' = "check" /\ at' = 1 /\ results' = <<>>
          /\ \/ ops' = <<LinkOp("addr", <<>>), LinkOp("link_up", <<>>)>>
             \/ ops' = <<LinkOp("mtu", <<>>)>>
      BY <1>3 DEF ByHelper
    <2> QED BY <2>1 DEF ResultsOK
  <1>4. CASE HelperConfigured
    <2>1. /\ pc' \in {"mtu", "plan", "done"} /\ at' = 1 /\ results' = <<>> /\ ops' = <<>>
      BY <1>4 DEF HelperConfigured, NotConfigured, Ends, After
    <2> QED BY <2>1 DEF ResultsOK
  <1>5. CASE Plans
    <2>1. results' = <<>> /\ pc' \in {"done", "apply"}
      BY <1>0, <1>5 DEF Plans, Ends, PhaseOK
    <2>2. at' \in Nat
      BY <1>0, <1>5 DEF Plans, ResultsOK
    <2>3. Len(ops') \in Nat
      BY OpsStep, PolicyStep, <1>5 DEF NetNext, OnNetwork, OpsOK, Planned
    <2> QED BY <2>1, <2>2, <2>3 DEF ResultsOK
  <1>6. CASE Applies \/ StopsSuperseded
    <2>1. /\ UNCHANGED <<ops, at, commands, results>>
          /\ pc' = "judge" \/ (pc' = "check" /\ pc = "apply")
      BY <1>6 DEF Applies, StopsSuperseded
    <2>2. pc = "apply" => at = 1 /\ ops # <<>> /\ results = <<>>
      BY <1>0 DEF PhaseOK
    <2>3. ops # <<>> => Len(ops) # 0
      BY <1>0 DEF IInv, OpsOK, Planned
    <2> QED BY <1>0, <2>1, <2>2, <2>3 DEF ResultsOK
  <1>7. CASE RejectsOp
    BY <1>0, <1>7, NextOpResults DEF RejectsOp, ResultsOK, Results
  <1>8. CASE Validates
    <2>1. CASE Accepts(Op)
      <3>1. /\ pc = "check" /\ pc' = "run" /\ commands' = Commands(Op)
            /\ UNCHANGED <<ops, at, results>>
        BY <1>8, <2>1 DEF Validates
      <3> QED BY <1>0, <3>1 DEF ResultsOK, Commands, Op
    <2>2. CASE ~Accepts(Op)
      BY <1>0, <1>8, <2>2, NextOpResults DEF Validates, ResultsOK, Results
    <2> QED BY <2>1, <2>2
  <1>9. CASE Runs \/ RunFails
    <2>1. /\ pc = "run" /\ pc' = "recheck" /\ UNCHANGED <<ops, at>> /\ at \in DOMAIN ops
          /\ Len(results) = at - 1
          /\ commands \in {<<"flush", "addr">>, <<"addr">>, <<ops[at].op>>}
          /\ commands # <<ops[at].op>> => ops[at].op = "addr"
      BY <1>0, <1>9 DEF Runs, RunFails, ResultsOK
    <2>2. \/ commands' = Tail(commands) /\ results' = results
          \/ \E out \in Results : /\ commands' = <<>> /\ results' = Append(results, out)
                                  /\ out = "gone" => ops[at].op = "pin_del"
      <3>1. CASE RunFails
        BY <3>1 DEF RunFails, Results
      <3>2. CASE Runs
        <4> DEFINE dev == Named(Op)
                   out == IF dev = "none" THEN "failed" ELSE Outcome(Op)
        <4>1. out \in Results /\ (out = "gone" => ops[at].op = "pin_del")
          BY DEF Results, Outcome, Op
        <4>2. IF out = "ok" THEN commands' = Tail(commands) /\ UNCHANGED results
              ELSE commands' = <<>> /\ results' = Append(results, out)
          BY <3>2 DEF Runs
        <4> HIDE DEF dev, out
        <4> QED BY <4>1, <4>2
      <3> QED BY <1>9, <3>1, <3>2
    <2>3. CASE commands' = Tail(commands) /\ results' = results
      <3>1. commands' = <<>> \/ (commands' = <<"addr">> /\ ops[at].op = "addr")
        <4> DEFINE o == ops[at].op
        <4>1. /\ Tail(<<o>>) = <<>> /\ Tail(<<"addr">>) = <<>>
              /\ Tail(<<"flush", "addr">>) = <<"addr">> /\ <<"flush", "addr">> # <<o>>
          OBVIOUS
        <4>2. CASE commands = <<"flush", "addr">>
          BY <2>1, <2>3, <4>1, <4>2
        <4>3. CASE commands # <<"flush", "addr">>
          BY <2>1, <2>3, <4>1, <4>3
        <4> QED BY <4>2, <4>3
      <3> QED BY <1>0, <2>1, <2>3, <3>1 DEF ResultsOK
    <2>4. ASSUME NEW out \in Results, commands' = <<>>, results' = Append(results, out),
                 out = "gone" => ops[at].op = "pin_del"
          PROVE  ResultsOK'
      <3>1. results \in Seq(Results) /\ at \in Nat
        BY <1>0 DEF ResultsOK
      <3>2. results' \in Seq(Results) /\ Len(results') = at
        BY <2>1, <2>4, <3>1
      <3>3. \A i \in DOMAIN results' : results'[i] = "gone" => ops'[i].op = "pin_del"
        BY <1>0, <2>1, <2>4, <3>1 DEF ResultsOK
      <3> QED BY <1>0, <2>1, <2>4, <3>2, <3>3 DEF ResultsOK
    <2> QED BY <2>2, <2>3, <2>4
  <1>10. CASE Rechecks
    <2>1. /\ pc = "recheck" /\ UNCHANGED ops /\ at \in DOMAIN ops /\ results \in Seq(Results)
          /\ Len(results) \in {at - 1, at} /\ at \in Nat
          /\ \A i \in DOMAIN results : results[i] = "gone" => ops[i].op = "pin_del"
      BY <1>0, <1>10 DEF Rechecks, ResultsOK
    <2>2. CASE ChangedUnderneath(Op)
      <3>1. /\ results' = Append(SubSeq(results, 1, at - 1), "failed")
            /\ pc' = "judge" /\ at' = at
        BY <1>10, <2>2 DEF Rechecks
      <3> DEFINE old == SubSeq(results, 1, at - 1)
      <3>2. /\ old \in Seq(Results) /\ Len(old) = at - 1
            /\ \A i \in 1 .. at - 1 : old[i] = results[i]
        <4>1. 1 \in Nat /\ at - 1 \in 0 .. Len(results)
          BY <2>1
        <4> QED BY <2>1, <4>1
      <3> HIDE DEF old
      <3>3. results' \in Seq(Results) /\ Len(results') = at
        BY <2>1, <3>1, <3>2 DEF Results, old
      <3>4. \A i \in DOMAIN results' : results'[i] = "gone" => ops'[i].op = "pin_del"
        BY <2>1, <3>1, <3>2 DEF old
      <3> QED BY <1>0, <2>1, <3>1, <3>3, <3>4 DEF ResultsOK
    <2>3. CASE ~ChangedUnderneath(Op) /\ Len(results) = at
      <3>1. CASE at < Len(ops)
        BY <1>0, <1>10, <2>1, <2>3, <3>1 DEF Rechecks, ResultsOK
      <3>2. CASE ~(at < Len(ops))
        BY <1>0, <1>10, <2>1, <2>3, <3>2 DEF Rechecks, ResultsOK
      <3> QED BY <3>1, <3>2
    <2>4. CASE ~ChangedUnderneath(Op) /\ Len(results) # at /\ commands = <<>>
      BY <1>10, <2>1, <2>4, NextOpResults DEF Rechecks, Results
    <2>5. CASE ~ChangedUnderneath(Op) /\ Len(results) # at /\ commands # <<>>
      BY <1>0, <1>10, <2>1, <2>5 DEF Rechecks, ResultsOK
    <2> QED BY <2>2, <2>3, <2>4, <2>5
  <1> QED
    BY <1>1, <1>2, <1>3, <1>4, <1>5, <1>6, <1>7, <1>8, <1>9, <1>10
    DEF NetNext, OnNetwork, Worker, Helper, Around, netVars, setupVars, Stops, DeviceGoes,
        OtherDevice, NewAttempt, PathChanges

\* Once the plan is made its operations stay, and what is known of each is kept, but
\* that the last may turn out to have failed.
LEMMA ResultsGrow ==
  ASSUME IInv, [NetNext]_netVars, phase = "routes"
  PROVE  /\ phase' = phase /\ ops' = ops /\ (pc # "apply" => pc' # "apply")
         /\ DOMAIN results \subseteq DOMAIN results'
         /\ \A i \in DOMAIN results : results'[i] \in {results[i], "failed"}
  <1>0. /\ ResultsOK /\ PhaseOK /\ ~OnNetwork
        /\ results \in Seq(Results) /\ at \in Nat /\ (pc = "recheck" => at >= 1)
    <2>1. DOMAIN ops = 1 .. Len(ops) /\ Len(ops) \in Nat
      BY OpIs DEF IInv
    <2> QED
      BY <2>1 DEF IInv, PhaseOK, ResultsOK, OnNetwork, RefusesPolicy, Refused, ByIoctl, ByHelper,
                  NoPrivilege, HelperConfigured, NoPathRead, Plans
  <1>1. phase' = phase /\ ops' = ops /\ (pc # "apply" => pc' # "apply")
    BY <1>0
    DEF NetNext, Worker, Helper, Around, netVars, setupVars, DoesNotApply, Dismissed, Applies, Ends,
        StopsSuperseded, Validates, RejectsOp, NextOp, Runs, RunFails, Rechecks, Judges, CannotVerify, Stops,
        DeviceGoes, OtherDevice, NewAttempt, PathChanges
  <1>2. \/ results' = results
        \/ \E out : results' = Append(results, out)
        \/ /\ results' = Append(SubSeq(results, 1, at - 1), "failed")
           /\ Len(results) \in {at - 1, at} /\ at >= 1
    <2>1. CASE Validates \/ RejectsOp
      BY <2>1 DEF Validates, RejectsOp, NextOp
    <2>2. CASE Runs
      <3> DEFINE out == IF Named(Op) = "none" THEN "failed" ELSE Outcome(Op)
      <3>1. results' = results \/ results' = Append(results, out)
        BY <2>2 DEF Runs
      <3> QED BY <3>1
    <2>3. CASE RunFails
      BY <2>3 DEF RunFails
    <2>4. CASE Rechecks
      BY <1>0, <2>4 DEF Rechecks, NextOp, ResultsOK
    <2>5. CASE UNCHANGED results
      BY <2>5
    <2> QED
      BY <1>0, <2>1, <2>2, <2>3, <2>4, <2>5
      DEF NetNext, Worker, Helper, Around, netVars, setupVars, DoesNotApply, Dismissed, Applies,
          StopsSuperseded, Judges, CannotVerify, Stops, DeviceGoes, OtherDevice, NewAttempt, PathChanges
  <1>3. ASSUME NEW out, results' = Append(results, out)
        PROVE  /\ DOMAIN results \subseteq DOMAIN results'
               /\ \A i \in DOMAIN results : results'[i] = results[i]
    BY <1>0, <1>3
  <1>4. ASSUME results' = Append(SubSeq(results, 1, at - 1), "failed"), Len(results) \in {at - 1, at}, at >= 1
        PROVE  /\ DOMAIN results \subseteq DOMAIN results'
               /\ \A i \in DOMAIN results : results'[i] \in {results[i], "failed"}
    <2> DEFINE old == SubSeq(results, 1, at - 1)
    <2>1. /\ old \in Seq(Results) /\ Len(old) = at - 1
          /\ \A i \in 1 .. at - 1 : old[i] = results[i]
      <3>1. at - 1 \in 0 .. Len(results)
        BY <1>0, <1>4
      <3> QED BY <1>0, <3>1
    <2> HIDE DEF old
    <2> QED BY <1>0, <1>4, <2>1 DEF old
  <1> QED BY <1>1, <1>2, <1>3, <1>4

\* The gateway is pinned after what is deleted, before what is routed into the tunnel.
LEMMA PinOrder ==
  ASSUME IInv, phase = "routes", NEW i \in DOMAIN ops, IsPin(i)
  PROVE  /\ policy.gateway # NoAddress /\ ops[i].dest = Host(policy.gateway)
         /\ \A j \in DOMAIN ops : ops[j].op = "pin_del" => j < i
         /\ \A j \in DOMAIN ops : ops[j].op = "route_add" => i < j
  <1>1. ops[i] \in Pins /\ Planned(ops) /\ DOMAIN ops = 1 .. Len(ops) /\ Len(ops) \in Nat
    BY OpIs, OpKinds DEF IInv, IsPin, OpsOK
  <1>2. /\ policy.gateway # NoAddress
        /\ \A j \in 1 .. i - 1 : ops[j] \in PinDels
        /\ \A j \in i + 1 .. Len(ops) : ops[j] \in TunOps
    BY <1>1 DEF Planned
  <1>3. ops[i].op = "pin_add" /\ ops[i].dest = Host(policy.gateway)
    BY <1>1, OpKinds
  <1>4. \A j \in DOMAIN ops : ops[j].op = "pin_del" => j < i
    BY <1>1, <1>2, <1>3, OpKinds
  <1>5. \A j \in DOMAIN ops : ops[j].op = "route_add" => i < j
    BY <1>1, <1>2, <1>3, OpKinds
  <1> QED BY <1>2, <1>3, <1>4, <1>5

\* The address of a host as a prefix of its own.
LEMMA GatewayHost ==
  ASSUME PolicyOK, policy.gateway # NoAddress
  PROVE  /\ policy.gateway \in Int /\ Net(policy.gateway, Width) = policy.gateway
         /\ Host(policy.gateway) = [net |-> policy.gateway, len |-> Width]
         /\ Width \in Lengths /\ Width > 1
  BY HostIs, RoutePlanAssumption DEF PolicyOK, Addresses, Lengths

\* What the physical network adds to the table is a default route or that to a local network;
\* what it takes away goes with a device of it, or is a default route.
LEMMA Appears ==
  ASSUME PathChanges, NEW r \in routes', r \notin routes
  PROVE  \E p \in AnyPrefix :
           r = Route(p, "wlan", 1) /\ (p = PrefixNew(0, 0) \/ (phase = "routes" => p \in late'))
  <1>1. PrefixNew(0, 0) \in AnyPrefix
    <2>0. 2^Width \in Nat \ {0}
      BY Power, RoutePlanAssumption
    <2>1. 0 \in Addresses /\ 0 \in Lengths
      BY <2>0, RoutePlanAssumption DEF Addresses, Lengths
    <2> QED BY <2>1 DEF AnyPrefix
  <1>2. CASE Adds(Route(PrefixNew(0, 0), "wlan", 1))
    BY <1>1, <1>2 DEF Adds
  <1>3. ASSUME NEW p \in Locals, Adds(Route(p, "wlan", 1)),
               late' = (IF phase = "routes" THEN late \cup {p} ELSE late)
        PROVE  \E q \in AnyPrefix :
                 r = Route(q, "wlan", 1) /\ (q = PrefixNew(0, 0) \/ (phase = "routes" => q \in late'))
    BY <1>3, NetSetupAssumption DEF Adds
  <1>4. ASSUME NEW which, Drops(which) PROVE FALSE
    BY <1>4 DEF Drops
  <1> QED BY <1>2, <1>3, <1>4 DEF PathChanges

LEMMA Vanishes ==
  ASSUME PathChanges, NEW r \in routes, r \notin routes'
  PROVE  /\ r.dest.len = 0 \/ r.dev \in PhysicalDevs
         /\ r.dest.len # 0 /\ phase = "routes" /\ r.dest = Host(policy.gateway) => lost'
  <1>1. ASSUME NEW new, Adds(new) PROVE FALSE
    BY <1>1 DEF Adds
  <1>2. CASE Drops({x \in routes : x.dest.len = 0})
    BY <1>2 DEF Drops
  <1>3. ASSUME NEW d \in PhysicalDevs, Drops({x \in routes : x.dev = d})
        PROVE  /\ r.dev \in PhysicalDevs
               /\ phase = "routes" /\ r.dest = Host(policy.gateway) => lost'
    BY <1>3 DEF Drops
  <1> QED BY <1>1, <1>2, <1>3 DEF PathChanges

\* A route that appears is of the physical network, or one that the helper adds for
\* the operation it is at.
LEMMA NewRoutes ==
  ASSUME IInv, [NetNext]_netVars, NEW r \in routes', r \notin routes
  PROVE  /\ IsRoute(r)
         /\ \/ r.dev \in PhysicalDevs
            \/ /\ r.dev \in {Tun, "other"} /\ r.dest \in MayRoute
               /\ Runs /\ phase = "routes" /\ ops[at].op = "route_add"
  <1>1. CASE PathChanges
    <2>1. PICK p \in AnyPrefix : r = Route(p, "wlan", 1)
      BY <1>1, Appears
    <2>2. r.dest = p /\ r.dev = "wlan" /\ r.metric = 1
      BY <2>1 DEF Route
    <2>3. "wlan" \in PhysicalDevs
      BY NetSetupAssumption
    <2> QED BY <2>2, <2>3, PrefixIs DEF IsRoute
  <1>2. CASE Runs
    <2> DEFINE op == ops[at]
               dev == Named(Op)
    <2>1. r \in RoutesAfter(op, dev) /\ dev # "none"
      BY <1>2 DEF Runs, Op
    <2>2. op.op \in {"route_add", "pin_add"} /\ r = Route(op.dest, dev, 0)
      BY <2>1 DEF RoutesAfter
    <2>3. r.dest = op.dest /\ r.dev = dev /\ r.metric = 0
      BY <2>2 DEF Route
    <2>4. at \in DOMAIN ops
      BY <1>2 DEF IInv, ResultsOK, Runs
    <2>5. phase = "routes" /\ op \in PinDels \cup Pins \cup TunOps
      BY <2>2, <2>4, OpIs, OpKinds DEF IInv
    <2>6. CASE op.op = "pin_add"
      <3>1. op \in Pins /\ policy.gateway # NoAddress
        BY <2>4, <2>5, <2>6, OpKinds, PinOrder DEF IsPin
      <3>2. r.dest = Host(policy.gateway) /\ op.dev \in PhysicalDevs /\ r.dev = op.dev
        BY <2>3, <2>6, <3>1, OpKinds DEF Named, Op
      <3>3. IsRoute(r)
        BY <2>3, <3>1, <3>2, GatewayHost DEF IInv, IsRoute
      <3> QED BY <3>2, <3>3
    <2>7. CASE op.op = "route_add"
      <3>1. r.dest \in MayRoute
        BY <2>3, <2>5, <2>7, OpKinds
      <3>2. r.dev \in {Tun, "other"}
        BY <2>1, <2>3, <2>7 DEF Named, Op, IInv, DeviceOK
      <3>3. r.dest \in AnyPrefix \cup ToSet(Halves)
        BY <3>1 DEF MayRoute
      <3>4. \A h \in ToSet(Halves) : h = [net |-> h.net, len |-> h.len] /\ h.len = 1
        BY DEF ToSet, Halves, PrefixNew
      <3>5. 1 \in Lengths
        BY RoutePlanAssumption DEF Lengths
      <3>6. IsRoute(r)
        BY <2>3, <3>3, <3>4, <3>5, PrefixIs DEF IsRoute
      <3> QED BY <1>2, <2>5, <2>7, <3>1, <3>2, <3>6
    <2> QED BY <2>2, <2>6, <2>7
  <1>3. CASE DeviceGoes
    BY <1>3 DEF DeviceGoes
  <1> QED
    BY <1>1, <1>2, <1>3
    DEF NetNext, OnNetwork, Worker, Helper, Around, netVars, systemVars, RefusesPolicy, ByIoctl, ByHelper,
        NoPrivilege, HelperConfigured, NoPathRead, Plans, DoesNotApply, Dismissed, Applies, StopsSuperseded,
        Validates, RejectsOp, RunFails, Rechecks, Judges, CannotVerify, Stops, OtherDevice, NewAttempt

\* Routes lead into the tunnel where they may, and after the gateway was pinned.
LEMMA RoutesStep ==
  ASSUME IInv, [NetNext]_netVars
  PROVE  RoutesOK'
  <1>0. /\ RoutesOK /\ ResultsOK /\ MayRoute' = MayRoute
        /\ DOMAIN ops = 1 .. Len(ops) /\ Len(ops) \in Nat
    BY PolicyStays, SamePolicy, OpIs DEF IInv
  <1>1. \A r \in routes' : IsRoute(r) /\ r.dev \in PhysicalDevs \cup {Tun, "other"}
    BY <1>0, NewRoutes DEF RoutesOK
  <1>2. ASSUME NEW r \in routes', r.dev \in {Tun, "other"}
        PROVE  /\ phase' = "routes" /\ pc' # "apply" /\ r.dest \in MayRoute'
               /\ \A i \in DOMAIN ops' : IsPin(i)' => i \in DOMAIN results'
    <2>0. r.dev \notin PhysicalDevs
      BY <1>2, NetSetupAssumption
    <2>1. CASE r \in routes
      <3>1. /\ phase = "routes" /\ pc # "apply" /\ r.dest \in MayRoute
            /\ \A i \in DOMAIN ops : IsPin(i) => i \in DOMAIN results
        BY <1>0, <1>2, <2>1 DEF RoutesOK
      <3> QED BY <1>0, <3>1, ResultsGrow DEF IsPin
    <2>2. CASE r \notin routes
      <3>1. r.dest \in MayRoute /\ Runs /\ phase = "routes" /\ ops[at].op = "route_add"
        BY <2>0, <2>2, NewRoutes
      <3>2. pc = "run" /\ at \in DOMAIN ops /\ Len(results) = at - 1 /\ results \in Seq(Results)
        BY <1>0, <3>1 DEF Runs, ResultsOK
      <3>3. \A i \in DOMAIN ops : IsPin(i) => i \in DOMAIN results
        BY <1>0, <3>1, <3>2, PinOrder
      <3>4. pc' # "apply"
        BY <3>1, <3>2, ResultsGrow
      <3> QED BY <1>0, <3>1, <3>3, <3>4, ResultsGrow DEF IsPin
    <2> QED BY <2>1, <2>2
  <1> QED BY <1>1, <1>2 DEF RoutesOK, IsRoute

\* The pin stays: what the plan deletes comes before it, a device that goes takes the
\* routes into it along, and a change of network the default route, or the pin with its
\* device.
LEMMA PinStays ==
  ASSUME IInv, [NetNext]_netVars, phase = "routes", PinStands,
         NEW i \in DOMAIN ops, IsPin(i), i \in DOMAIN results \/ pc = "recheck"
  PROVE  PinStands'
  <1>0. policy.gateway # NoAddress /\ policy' = policy
    BY PinOrder, PolicyStays
  <1>7. lost => lost'
    BY DEF NetNext, OnNetwork, Worker, Helper, Around, netVars, unseenVars, RefusesPolicy, ByIoctl, ByHelper,
           NoPrivilege, HelperConfigured, NoPathRead, Plans, DoesNotApply, Dismissed, Applies, StopsSuperseded,
           Validates, RejectsOp, Runs, RunFails, Rechecks, Judges, CannotVerify, Stops, DeviceGoes,
           OtherDevice, NewAttempt, PathChanges, Drops
  <1>8. CASE lost
    BY <1>7, <1>8 DEF PinStands
  <1> SUFFICES ASSUME ~lost PROVE PinStands'
    BY <1>8
  <1>1. PICK r \in routes : r.dest = Host(policy.gateway) /\ r.metric = 0
    BY DEF PinStands
  <1>2. r.dest.len > 0
    BY <1>0, <1>1, GatewayHost, RoutePlanAssumption DEF IInv
  <1>3. CASE Runs
    <2>0. pc = "run"
      BY <1>3 DEF Runs
    <2>1. /\ i \in DOMAIN results /\ results \in Seq(Results) /\ Len(results) = at - 1
          /\ at \in DOMAIN ops
      BY <2>0 DEF IInv, ResultsOK
    <2>2. ops[at].op # "pin_del"
      <3>1. i < at /\ at \in Nat
        BY <2>1 DEF IInv, ResultsOK
      <3>2. ops[at].op = "pin_del" => at < i
        BY <2>1, PinOrder
      <3>3. i \in Nat
        BY <2>1
      <3> QED BY <3>1, <3>2, <3>3
    <2>3. routes \subseteq routes'
      BY <1>3, <2>2 DEF Runs, RoutesAfter, Op
    <2> QED BY <1>0, <1>1, <2>3 DEF PinStands
  <1>4. CASE DeviceGoes
    <2>1. r.dev # Tun
      BY <1>0, <1>1 DEF IInv, RoutesOK, MayRoute
    <2>2. r \in routes'
      BY <1>1, <1>4, <2>1 DEF DeviceGoes
    <2> QED BY <1>0, <1>1, <2>2 DEF PinStands
  <1>5. CASE PathChanges
    <2>1. r \in routes' \/ lost'
      BY <1>1, <1>2, <1>5, Vanishes
    <2> QED BY <1>0, <1>1, <2>1 DEF PinStands
  <1>6. CASE UNCHANGED routes
    BY <1>0, <1>1, <1>6 DEF PinStands
  <1> QED
    BY <1>3, <1>4, <1>5, <1>6
    DEF NetNext, OnNetwork, Worker, Helper, Around, netVars, systemVars, RefusesPolicy, ByIoctl, ByHelper,
        NoPrivilege, HelperConfigured, NoPathRead, Plans, DoesNotApply, Dismissed, Applies, StopsSuperseded,
        Validates, RejectsOp, RunFails, Rechecks, Judges, CannotVerify, Stops, OtherDevice, NewAttempt

\* A result that appears is that of the operation the helper is at; if it is that a
\* pin was set, or was there, it is.
LEMMA NewResult ==
  ASSUME IInv, [NetNext]_netVars, phase = "routes",
         NEW i \in DOMAIN results', i \notin DOMAIN results, IsPin(i)
  PROVE  results'[i] \in {"ok", "exists"} => PinStands'
  <1>0. /\ ResultsOK /\ ops' = ops /\ policy' = policy
        /\ results \in Seq(Results) /\ at \in Nat
    BY ResultsGrow, PolicyStays DEF IInv, ResultsOK
  <1>1. CASE Validates \/ RejectsOp
    <2>1. results' = Append(results, "rejected") \/ results' = results
      BY <1>1 DEF Validates, RejectsOp, NextOp
    <2>2. results'[i] = "rejected"
      BY <1>0, <2>1
    <2> QED BY <2>2
  <1>2. CASE RunFails
    <2>1. results'[i] = "failed"
      BY <1>0, <1>2 DEF RunFails
    <2> QED BY <2>1
  <1>3. CASE Runs
    <2> DEFINE out == IF Named(Op) = "none" THEN "failed" ELSE Outcome(Op)
    <2>0. Len(results) = at - 1
      BY <1>0, <1>3 DEF Runs, ResultsOK
    <2>1. out # "ok" /\ results' = Append(results, out) /\ routes' = routes
      BY <1>3 DEF Runs
    <2>2. results'[i] = out /\ i = at
      BY <1>0, <2>0, <2>1
    <2>3. CASE out = "exists"
      <3>1. ops[at].op = "pin_add" /\ at \in DOMAIN ops
        BY <1>0, <1>3, <2>2 DEF IsPin, Runs, ResultsOK
      <3>2. PICK r \in routes : r.dest = ops[at].dest /\ r.metric = 0
        BY <2>3 DEF Outcome, Op, SameRoute
      <3>3. ops[at].dest = Host(policy.gateway)
        BY <3>1, PinOrder DEF IsPin
      <3> QED BY <1>0, <2>1, <3>2, <3>3 DEF PinStands
    <2>4. CASE out # "exists"
      BY <2>1, <2>2, <2>4
    <2> QED BY <2>3, <2>4
  <1>4. CASE Rechecks
    <2>0. pc = "recheck" /\ at \in DOMAIN ops /\ Len(results) \in {at - 1, at} /\ at >= 1
      <3>1. DOMAIN ops = 1 .. Len(ops) /\ Len(ops) \in Nat
        BY OpIs DEF IInv
      <3> QED BY <1>0, <1>4, <3>1 DEF Rechecks, ResultsOK
    <2>1. CASE ChangedUnderneath(Op)
      <3> DEFINE old == SubSeq(results, 1, at - 1)
      <3>1. results' = Append(old, "failed")
        BY <1>4, <2>1 DEF Rechecks
      <3>2. old \in Seq(Results) /\ Len(old) = at - 1
        <4>1. at - 1 \in 0 .. Len(results)
          BY <1>0, <2>0
        <4> QED BY <1>0, <4>1
      <3> HIDE DEF old
      <3>3. results'[i] = "failed"
        BY <1>0, <2>0, <3>1, <3>2
      <3> QED BY <3>3
    <2>2. CASE ~ChangedUnderneath(Op)
      <3>1. results' = Append(results, "ok") /\ Len(results) # at
        <4>1. results' = results \/ (results' = Append(results, "ok") /\ Len(results) # at)
          BY <1>4, <2>2 DEF Rechecks, NextOp
        <4> QED BY <4>1
      <3>2. i = at /\ Len(results) = at - 1
        BY <1>0, <2>0, <3>1
      <3>3. PinStands
        BY <2>0, <3>2 DEF IInv, PinsOK
      <3> QED BY <2>0, <3>2, <3>3, PinStays
    <2> QED BY <2>1, <2>2
  <1>5. CASE UNCHANGED results
    BY <1>5
  <1> QED
    BY <1>1, <1>2, <1>3, <1>4, <1>5
    DEF NetNext, OnNetwork, Worker, Helper, Around, netVars, setupVars, RefusesPolicy, Refused, ByIoctl,
        ByHelper, NoPrivilege, HelperConfigured, NoPathRead, Plans, DoesNotApply, Dismissed, Applies,
        IInv, PhaseOK,
        StopsSuperseded, Judges, CannotVerify, Stops, DeviceGoes, OtherDevice, NewAttempt, PathChanges

\* A pin that was set, or was there already, is there.
LEMMA PinsStep ==
  ASSUME IInv, [NetNext]_netVars
  PROVE  PinsOK'
  <1>1. CASE phase # "routes"
    <2>1. phase' = "routes" => Plans
      BY <1>1
      DEF NetNext, OnNetwork, Worker, Helper, Around, netVars, setupVars, RefusesPolicy, ByIoctl,
          ByHelper, NoPrivilege, HelperConfigured, NoPathRead, DoesNotApply, Dismissed, Applies, IInv, PhaseOK,
          StopsSuperseded, Validates, RejectsOp, Runs, RunFails, Rechecks, Judges, CannotVerify, Stops,
          DeviceGoes, OtherDevice, NewAttempt, PathChanges
    <2>2. Plans => results' = <<>> /\ pc' # "recheck"
      BY DEF Plans, Ends, IInv, PhaseOK
    <2> QED BY <2>1, <2>2 DEF PinsOK
  <1>2. CASE phase = "routes"
    <2>0. ops' = ops /\ DOMAIN results' \subseteq DOMAIN ops'
      <3>1. ResultsOK' /\ Len(ops') \in Nat /\ DOMAIN ops' = 1 .. Len(ops') /\ ops' = ops
        BY <1>2, ResultsGrow, ResultsStep, OpIs DEF IInv
      <3> QED BY <3>1 DEF ResultsOK
    <2>1. ASSUME NEW i \in DOMAIN results', IsPin(i), results'[i] \in {"ok", "exists"}
          PROVE  PinStands'
      <3>1. CASE i \in DOMAIN results
        <4>1. results[i] \in {"ok", "exists"}
          BY <1>2, <2>1, <3>1, ResultsGrow
        <4>2. PinStands
          BY <1>2, <2>1, <3>1, <4>1 DEF IInv, PinsOK
        <4> QED BY <1>2, <2>0, <2>1, <3>1, <4>2, PinStays
      <3>2. CASE i \notin DOMAIN results
        BY <1>2, <2>1, <3>2, NewResult
      <3> QED BY <3>1, <3>2
    <2>2. ASSUME pc' = "recheck", IsPin(at'), Len(results') = at' - 1
          PROVE  PinStands'
      <3>1. CASE Runs
        <4> DEFINE dev == Named(Op)
                   out == IF dev = "none" THEN "failed" ELSE Outcome(Op)
        <4>1. /\ pc = "run" /\ at' = at /\ at \in DOMAIN ops /\ Len(results) = at - 1
              /\ results \in Seq(Results) /\ at \in Nat
          BY <3>1 DEF Runs, IInv, ResultsOK
        <4>2. out = "ok"
          <5>1. out # "ok" => results' = Append(results, out)
            BY <3>1 DEF Runs
          <5> HIDE DEF out
          <5> QED BY <2>2, <4>1, <5>1
        <4>3. Route(Op.dest, dev, 0) \in routes'
          BY <2>2, <3>1, <4>1, <4>2 DEF Runs, RoutesAfter, Op, IsPin
        <4>4. Op.dest = Host(policy.gateway) /\ policy' = policy
          BY <1>2, <2>2, <4>1, PinOrder, PolicyStays DEF Op
        <4> QED BY <4>3, <4>4 DEF PinStands, Route
      <3>2. CASE RunFails
        <4>1. /\ at' = at /\ Len(results) = at - 1 /\ results \in Seq(Results) /\ at \in Nat
              /\ results' = Append(results, "failed")
          BY <3>2 DEF RunFails, IInv, ResultsOK
        <4> QED BY <2>2, <4>1
      <3>3. CASE pc = "recheck" /\ at' = at /\ results' = results
        <4>1. PinStands
          BY <1>2, <2>2, <3>3 DEF IInv, PinsOK
        <4>2. at \in DOMAIN ops
          BY <3>3 DEF IInv, ResultsOK
        <4> QED BY <1>2, <2>2, <3>3, <4>1, <4>2, PinStays
      <3>4. Runs \/ RunFails \/ (pc = "recheck" /\ at' = at /\ results' = results)
        BY <2>2
        DEF NetNext, OnNetwork, Worker, Helper, Around, netVars, setupVars, RefusesPolicy, ByIoctl,
            ByHelper, NoPrivilege, NotConfigured, HelperConfigured, NoPathRead, Plans, DoesNotApply, Dismissed,
            Applies, StopsSuperseded, Validates, RejectsOp, NextOp, Rechecks, Judges, CannotVerify, Stops, Ends,
            DeviceGoes, OtherDevice, NewAttempt, PathChanges, After
      <3> QED BY <3>1, <3>2, <3>3, <3>4
    <2> QED BY <2>0, <2>1, <2>2 DEF PinsOK, IsPin
  <1> QED BY <1>1, <1>2

\* The two devices keep the shape of a device.
LEMMA LinkStep ==
  ASSUME IInv, [NetNext]_netVars
  PROVE  LinkOK' /\ link'["other"].dns = <<>>
  <1> DEFINE L == [address : BOOLEAN, up : BOOLEAN,
                   mtu : Nat \cup {LargestMtu}, dns : Seq(Addresses)]
  <1>0. link \in [{Tun, "other"} -> L] /\ link["other"].dns = <<>> /\ limit \in Nat
    BY DEF IInv, LinkOK, DeviceOK, PolicyOK
  <1>1. CASE UNCHANGED link
    BY <1>0, <1>1 DEF LinkOK
  <1>2. ASSUME NEW dev \in {Tun, "other"}, NEW l \in L, link' = [link EXCEPT ![dev] = l],
               dev = "other" => l.dns = <<>>
        PROVE  LinkOK' /\ link'["other"].dns = <<>>
    <2> HIDE DEF L
    <2>1. link' \in [{Tun, "other"} -> L]
      BY <1>0, <1>2
    <2>2. link'["other"].dns = <<>>
      BY <1>0, <1>2
    <2> QED BY <2>1, <2>2 DEF LinkOK, L
  <1>3. CASE ByIoctl
    <2>1. Configured(pc, link[Tun]) \in L
      BY <1>0 DEF Configured
    <2> HIDE DEF L
    <2>2. link' = [link EXCEPT ![Tun] = Configured(pc, link[Tun])] /\ Tun # "other"
      BY <1>3, NetSetupAssumption DEF ByIoctl
    <2> QED BY <1>2, <2>1, <2>2
  <1>4. CASE Runs
    <2> DEFINE dev == Named(Op)
               command == Head(commands)
               new == LinkAfter(Op, command, link[dev])
    <2>1. \/ link' = link
          \/ link' = [link EXCEPT ![dev] = new] /\ dev \in {Tun, "other"}
      BY <1>0, <1>4 DEF Runs
    <2>2. /\ command \in {"flush", "addr", Op.op} /\ at \in DOMAIN ops
          /\ commands \in {<<"flush", "addr">>, <<"addr">>, <<Op.op>>}
      BY <1>4 DEF Runs, IInv, ResultsOK, Op
    <2>3. /\ Op.op = "dns" => Op.servers \in Seq(Addresses)
          /\ Op.op # "dns" => command # "dns"
      <3>1. /\ phase # "routes" => Op \in ConfigOps
            /\ phase = "routes" => Op \in PinDels \cup Pins \cup TunOps
        BY <2>2, OpIs DEF IInv, Op
      <3>2. Op.op = "dns" => Op \in TunOps
        BY <3>1, OpKinds
      <3> QED BY <2>2, <3>2, OpKinds
    <2>4. Op.op = "dns" => dev # "other"
      BY NetSetupAssumption DEF Named
    <2>5. CASE dev \in {Tun, "other"} /\ link' = [link EXCEPT ![dev] = new]
      <3> DEFINE l == link[dev]
      <3>1. l \in L /\ (dev = "other" => l.dns = <<>>)
        BY <1>0, <2>5
      <3> HIDE DEF l, dev, command
      <3>2. LinkAfter(Op, command, l) \in L
        BY <1>0, <2>3, <3>1 DEF LinkAfter
      <3>3. dev = "other" => LinkAfter(Op, command, l).dns = <<>>
        BY <2>3, <2>4, <3>1 DEF LinkAfter
      <3> HIDE DEF L
      <3> QED BY <1>2, <2>5, <3>2, <3>3 DEF l
    <2> QED BY <1>1, <2>1, <2>5
  <1> QED
    BY <1>1, <1>3, <1>4
    DEF NetNext, OnNetwork, Worker, Helper, Around, netVars, systemVars, RefusesPolicy, ByHelper,
        NoPrivilege, HelperConfigured, NoPathRead, Plans, DoesNotApply, Dismissed, Applies, StopsSuperseded,
        Validates, RejectsOp, RunFails, Rechecks, Judges, CannotVerify, Stops, DeviceGoes, OtherDevice,
        NewAttempt, PathChanges

\* A device goes once set-up is over or has come to the routes.
LEMMA DeviceStep ==
  ASSUME IInv, [NetNext]_netVars
  PROVE  DeviceOK'
  <1>0. DeviceOK /\ PhaseOK
    BY DEF IInv
  <1>1. CASE DeviceGoes \/ OtherDevice
    <2>1. /\ device' \in {"other", "none"} /\ UNCHANGED <<pc, phase>>
          /\ pc = "done" \/ phase = "routes"
      BY <1>0, <1>1, NetSetupAssumption DEF DeviceGoes, OtherDevice, setupVars, DeviceOK
    <2> QED BY <2>1, LinkStep DEF DeviceOK
  <1>2. CASE OnNetwork
    <2>1. device' = device /\ (phase = "routes" => FALSE) /\ pc # "done"
      BY <1>0, <1>2
      DEF PhaseOK, OnNetwork, systemVars, RefusesPolicy, Refused, ByIoctl, ByHelper, NoPrivilege,
          HelperConfigured, NoPathRead, Plans
    <2> QED BY <1>0, <2>1, LinkStep DEF DeviceOK
  <1>3. CASE ~(DeviceGoes \/ OtherDevice \/ OnNetwork)
    <2>1. /\ UNCHANGED <<device, phase>> /\ (pc = "done" => pc' = "done")
      BY <1>3
      DEF NetNext, Worker, Helper, Around, netVars, systemVars, setupVars, DoesNotApply, Dismissed,
          Applies, Ends, StopsSuperseded, Validates, RejectsOp, Runs, RunFails, Rechecks, Judges, CannotVerify,
          Stops, NewAttempt, PathChanges
    <2> QED BY <1>0, <2>1, LinkStep DEF DeviceOK
  <1> QED BY <1>1, <1>2, <1>3

\* The command that changes another device is the last of the session's.
LEMMA StraysStep ==
  ASSUME IInv, [NetNext]_netVars
  PROVE  StraysOK'
  <1>0. StraysOK /\ PhaseOK /\ ResultsOK /\ DeviceOK /\ VerdictOK
    BY DEF IInv
  <1>1. CASE Runs
    <2>1. strays = 0 /\ pc = "run" /\ pc' = "recheck" /\ UNCHANGED <<ops, at, device, phase, verdict>>
      BY <1>0, <1>1 DEF Runs, StraysOK
    <2>2. CASE strays' = strays
      BY <2>1, <2>2 DEF StraysOK
    <2>3. CASE strays' # strays
      <3>1. Named(Op) = "other" /\ strays' = 1
        BY <1>1, <2>1, <2>3 DEF Runs
      <3>2. at \in DOMAIN ops
        BY <1>0, <2>1 DEF ResultsOK
      <3>3. OnTun(Op)
        <4>1. Op.op \in {"pin_add", "pin_del"} => Op.dev \in PhysicalDevs
          <5>1. /\ phase # "routes" => Op \in ConfigOps
                /\ phase = "routes" => Op \in PinDels \cup Pins \cup TunOps
            BY <3>2, OpIs DEF IInv, Op
          <5> QED BY <5>1, OpKinds
        <4>2. "other" \notin PhysicalDevs
          BY NetSetupAssumption
        <4> QED BY <3>1, <4>1, <4>2 DEF OnTun, Named
      <3>4. device = "other"
        BY <3>1, <3>3, NetSetupAssumption DEF OnTun, Named
      <3>5. phase = "routes" /\ verdict # "up"
        BY <1>0, <2>1, <3>4, NetSetupAssumption DEF DeviceOK, VerdictOK
      <3> QED BY <2>1, <3>1, <3>3, <3>4, <3>5 DEF StraysOK, Op, OnTun
    <2> QED BY <2>2, <2>3
  <1>2. CASE ~Runs
    <2>0. strays' = strays
      BY <1>2
      DEF NetNext, OnNetwork, Worker, Helper, Around, netVars, RefusesPolicy, ByIoctl, ByHelper,
          NoPrivilege, HelperConfigured, NoPathRead, Plans, DoesNotApply, Dismissed, Applies, StopsSuperseded,
          Validates, RejectsOp, RunFails, Rechecks, Judges, CannotVerify, Stops, DeviceGoes, OtherDevice,
          NewAttempt, PathChanges
    <2>1. CASE strays = 0
      BY <2>0, <2>1 DEF StraysOK
    <2>2. CASE strays # 0
      <3>0. /\ strays = 1 /\ device = "other" /\ verdict # "up" /\ phase = "routes"
            /\ \/ pc = "recheck" /\ OnTun(ops[at])
               \/ pc = "judge" /\ aborted
               \/ pc = "done"
        BY <1>0, <2>2 DEF StraysOK
      <3>1. CASE Rechecks
        <4>1. ChangedUnderneath(Op)
          BY <3>0, <3>1, NetSetupAssumption DEF Rechecks, ChangedUnderneath, Op, SessionTun
        <4>2. pc' = "judge" /\ aborted' /\ UNCHANGED <<device, verdict, phase>>
          BY <3>1, <4>1 DEF Rechecks, systemVars
        <4> QED BY <2>0, <3>0, <4>2 DEF StraysOK
      <3>2. CASE Judges \/ CannotVerify
        <4>1. pc = "judge" /\ aborted /\ pc' = "done" /\ verdict' = "error"
              /\ UNCHANGED <<device, phase>>
          BY <3>0, <3>2 DEF Judges, CannotVerify, ApplyFails, Ends
        <4> QED BY <2>0, <3>0, <4>1 DEF StraysOK
      <3>3. CASE Stops \/ NewAttempt \/ PathChanges \/ UNCHANGED netVars
        <4>1. UNCHANGED <<pc, ops, at, aborted, verdict, phase, device>>
          BY <3>3 DEF Stops, NewAttempt, PathChanges, netVars, setupVars, systemVars
        <4> QED BY <2>0, <3>0, <4>1 DEF StraysOK, OnTun
      <3> QED
        BY <1>2, <3>0, <3>1, <3>2, <3>3, NetSetupAssumption
        DEF NetNext, OnNetwork, Worker, Helper, Around, RefusesPolicy, Refused, ByIoctl, ByHelper,
            NoPrivilege, HelperConfigured, NoPathRead, Plans, DoesNotApply, Dismissed, Applies, StopsSuperseded,
            Validates, RejectsOp, RunFails, DeviceGoes, OtherDevice
    <2> QED BY <2>1, <2>2
  <1> QED BY <1>1, <1>2

\* A set-up that succeeded has pinned the gateway if the plan says so.
LEMMA VerdictStep ==
  ASSUME IInv, [NetNext]_netVars
  PROVE  VerdictOK'
  <1>0. VerdictOK /\ PhaseOK /\ DOMAIN ops = 1 .. Len(ops) /\ Len(ops) \in Nat
    BY OpIs DEF IInv
  <1>1. CASE Judges
    <2>0. UNCHANGED <<ops, results, phase>> /\ phase = "routes" /\ pc' = "done"
      BY <1>1 DEF Judges, CannotVerify, Ends
    <2>1. ASSUME verdict' = "up", NEW i \in DOMAIN ops, IsPin(i)
          PROVE  i \in DOMAIN results /\ results[i] \in {"ok", "exists"}
      <3>1. ~ApplyFails
        BY <1>1, <2>1 DEF Judges, CannotVerify, Ends
      <3>2. results \in Seq(Results) /\ ~(Len(results) < Len(ops))
        BY <3>1 DEF ApplyFails, IInv, ResultsOK
      <3>3. i \in DOMAIN results
        BY <1>0, <3>2
      <3>4. ~Fatal(i)
        BY <3>1, <3>3 DEF ApplyFails
      <3> QED BY <2>1, <3>3, <3>4 DEF Fatal, IsPin
    <2> QED BY <2>0, <2>1 DEF VerdictOK, IsPin
  <1>2. CASE Plans
    <2>1. CASE verdict' = "up"
      <3>1. ops' = <<>> /\ pc' = "done" /\ phase' = "routes"
        BY <1>0, <1>2, <2>1 DEF Plans, Ends, VerdictOK
      <3> QED BY <3>1 DEF VerdictOK
    <2> QED BY <2>1 DEF VerdictOK
  <1>3. CASE UNCHANGED <<pc, phase, ops, results, verdict>>
    BY <1>0, <1>3 DEF VerdictOK, IsPin
  <1>4. CASE verdict' # "up"
    BY <1>4 DEF VerdictOK
  <1> QED
    BY <1>0, <1>1, <1>2, <1>3, <1>4
    DEF NetNext, OnNetwork, Worker, Helper, Around, netVars, setupVars, systemVars, RefusesPolicy, ByIoctl,
        ByHelper, NoPrivilege, NotConfigured, HelperConfigured, NoPathRead, DoesNotApply, Dismissed,
        Applies, Ends,
        CannotVerify, StopsSuperseded, Validates, RejectsOp, Runs, RunFails, Rechecks, Stops, DeviceGoes,
        OtherDevice, NewAttempt, PathChanges, VerdictOK

-----------------------------------------------------------------------------
(* The theorems. *)

\* Whatever fails, ends or is replaced while the network is set up, what is known of
\* the operations, the pin and the routes stays consistent (on_network, apply, execute).
THEOREM InvariantHolds == NetSpec => []IInv
  <1>1. NetInit => IInv
    BY InitInv
  <1>2. IInv /\ [NetNext]_netVars => IInv'
    BY PolicyStep, PhaseStep, OpsStep, ResultsStep, RoutesStep, PinsStep, LinkStep, DeviceStep,
       StraysStep, VerdictStep DEF IInv
  <1> QED BY <1>1, <1>2, PTL DEF NetSpec

\* Nothing is more specific than a route to the gateway alone.
LEMMA PinIsBest ==
  ASSUME PolicyOK, RoutesOK, policy.gateway # NoAddress,
         NEW q \in routes, q.dest = Host(policy.gateway),
         NEW dev, RoutedTo(routes, policy.gateway, dev)
  PROVE  \E r \in routes : r.dest = Host(policy.gateway) /\ r.dev = dev
  <1> DEFINE g == policy.gateway
             r == Lookup(routes, g)
  <1>1. Reachable(routes, g) /\ r.dev = dev
    BY DEF RoutedTo
  <1>2. \A x \in routes : IsRoute(x)
    BY DEF RoutesOK
  <1>3. /\ r \in routes /\ Within(r.dest, g)
        /\ \A x \in routes : Within(x.dest, g) => Preferred(r, x)
    BY <1>1, <1>2, LookupIs
  <1>4. g \in Int /\ Net(g, Width) = g /\ Host(g) = [net |-> g, len |-> Width]
    BY GatewayHost
  <1>5. q.dest = Host(g)
    OBVIOUS
  <1> HIDE DEF r, g
  <1>6. Within(q.dest, g) /\ q.dest.len = Width
    BY <1>4, <1>5 DEF Within
  <1>7. r.dest.len >= Width /\ r.dest.len \in Lengths
    <2>1. Preferred(r, q)
      BY <1>3, <1>6
    <2>2. r.dest.len \in Lengths
      BY <1>2, <1>3 DEF IsRoute
    <2>3. Width \in Nat /\ r.dest.len \in Nat
      BY <2>2, RoutePlanAssumption DEF Lengths
    <2> QED BY <1>6, <2>1, <2>2, <2>3 DEF Preferred
  <1>8. r.dest.len = Width
    BY <1>7, RoutePlanAssumption DEF Lengths
  <1>9. r.dest = [net |-> g, len |-> Width]
    BY <1>2, <1>3, <1>4, <1>8 DEF IsRoute, Within
  <1> QED BY <1>1, <1>3, <1>4, <1>9 DEF g

\* So it is never routed into the tunnel once it is pinned.
LEMMA PinHolds ==
  ASSUME PolicyOK, RoutesOK, policy.gateway # NoAddress, PinStands, ~lost
  PROVE  ~RoutedTo(routes, policy.gateway, Tun)
  <1> SUFFICES ASSUME RoutedTo(routes, policy.gateway, Tun) PROVE FALSE
    OBVIOUS
  <1>1. PICK r \in routes : r.dest = Host(policy.gateway) /\ r.dev = Tun
    BY PinIsBest DEF PinStands
  <1>2. r.dest \in MayRoute
    BY <1>1 DEF RoutesOK
  <1> QED BY <1>1, <1>2 DEF MayRoute

\* The gateway is reached outside its own tunnel once the tunnel is up, and before
\* that unless the helper refused or failed to pin it (plan, pin_add).
THEOREM TransportStaysOutside == NetSpec => []GatewayStaysOutside
  <1>1. ASSUME IInv PROVE GatewayStaysOutside
    <2> SUFFICES ASSUME Captured, ~lost
                 PROVE  /\ verdict # "up"
                        /\ \E i \in DOMAIN results :
                             ops[i].op = "pin_add" /\ results[i] \in {"rejected", "failed"}
      BY DEF GatewayStaysOutside
    <2> DEFINE g == policy.gateway
               r == Lookup(routes, g)
    <2>1. g # NoAddress /\ Reachable(routes, g) /\ r.dev = Tun
      BY DEF Captured, RoutedTo
    <2>2. \A x \in routes : IsRoute(x)
      BY <1>1 DEF IInv, RoutesOK
    <2>3. r \in routes /\ Within(r.dest, g)
      BY <2>1, <2>2, LookupIs
    <2> HIDE DEF r, g
    <2>4. /\ phase = "routes" /\ r.dest \in MayRoute
          /\ \A i \in DOMAIN ops : IsPin(i) => i \in DOMAIN results
      BY <1>1, <2>1, <2>3 DEF IInv, RoutesOK
    <2>5. NeedsPin(policy)
      BY <2>1, <2>3, <2>4 DEF MayRoute, g
    <2>6. PICK i \in DOMAIN ops : ops[i] \in Pins
      BY <1>1, <2>4, <2>5 DEF IInv, OpsOK, Planned
    <2>7. IsPin(i) /\ i \in DOMAIN results
      BY <2>4, <2>6, OpKinds DEF IsPin
    <2>8. results[i] \notin {"ok", "exists"}
      BY <1>1, <2>1, <2>4, <2>7, PinHolds DEF IInv, PinsOK, Captured, g
    <2>9. results[i] \in Results /\ results[i] # "gone"
      BY <1>1, <2>7 DEF IInv, ResultsOK, IsPin
    <2>10. verdict # "up"
      BY <1>1, <2>6, <2>7, <2>8 DEF IInv, VerdictOK
    <2>11. results[i] \in {"rejected", "failed"}
      BY <2>8, <2>9 DEF Results
    <2> QED BY <2>7, <2>10, <2>11 DEF IsPin
  <1> QED BY <1>1, InvariantHolds, PTL

\* A session whose device is replaced changes the new one by one command at most, and
\* never its DNS; it does not come up (execute, session_tun).
THEOREM ReplacementIsSpared == NetSpec => []OtherDeviceSpared
  <1>1. IInv => OtherDeviceSpared
    BY DEF IInv, StraysOK, DeviceOK, OtherDeviceSpared
  <1> QED BY <1>1, InvariantHolds, PTL

\* All traffic is sent through the tunnel only if the profile or the gateway's policy
\* says so: malformed policy never does (parse_split_routes, plan).
THEOREM FullTunnelOnlyIfMeant == NetSpec => []FullTunnelIsMeant
  <1>1. ASSUME IInv PROVE FullTunnelIsMeant
    <2> SUFFICES ASSUME \A h \in ToSet(Halves) :
                          \E r \in routes : r.dest = h /\ r.dev \in {Tun, "other"}
                 PROVE  \/ policy.half_internet \/ ~policy.advertised
                        \/ \E p \in ToSet(policy.split) : p.len <= 1
      BY DEF FullTunnelIsMeant
    <2>1. Halves[1] \in ToSet(Halves) /\ Halves[1].len = 1
      BY DEF ToSet, Halves, PrefixNew
    <2>2. PICK r \in routes : r.dest = Halves[1] /\ r.dev \in {Tun, "other"}
      BY <2>1
    <2>3. phase = "routes" /\ r.dest \in MayRoute /\ r.dest.len = 1
      BY <1>1, <2>1, <2>2 DEF IInv, RoutesOK
    <2>4. FullTunnel(policy) \/ \E p \in ToSet(policy.split) : p.len <= 1
      BY <2>3 DEF MayRoute
    <2>5. ~(policy.malformed /\ policy.want_routes)
      BY <1>1, <2>3 DEF IInv, PhaseOK
    <2>6. policy.malformed <=> policy.advertised /\ policy.split = <<>>
      BY <1>1 DEF IInv, PolicyOK
    <2>7. \A p \in ToSet(policy.split) : p.len = 0 => p.len <= 1
      OBVIOUS
    <2>8. CASE FullTunnel(policy)
      BY <2>5, <2>6, <2>7, <2>8 DEF FullTunnel
    <2> QED BY <2>4, <2>8
  <1> QED BY <1>1, InvariantHolds, PTL
-----------------------------------------------------------------------------
(* Each part of what set-up has done is kept by every step. *)

\* The plan is the only way to routes.
LEMMA RoutesPhase ==
  ASSUME IInv, [NetNext]_netVars, phase # "routes", phase' = "routes"
  PROVE  /\ Plans /\ ~PlanFails(policy, routes) /\ ops' = Plan(policy, routes)
         /\ UNCHANGED <<routes, device, link, results>> /\ results = <<>> /\ pc' \in {"apply", "done"}
  <1>1. Plans
    BY DEF NetNext, OnNetwork, Worker, Helper, Around, netVars, setupVars, RefusesPolicy, ByIoctl,
           ByHelper, NoPrivilege, HelperConfigured, NoPathRead, DoesNotApply, Dismissed, Applies, IInv, PhaseOK,
           StopsSuperseded, Validates, RejectsOp, Runs, RunFails, Rechecks, Judges, CannotVerify, Stops,
           DeviceGoes, OtherDevice, NewAttempt, PathChanges
  <1> QED BY <1>1 DEF Plans, Ends, IInv, PhaseOK

\* Before the plan is made, nothing leads into the tunnel.
LEMMA UsersRoutes ==
  ASSUME IInv, phase # "routes"
  PROVE  \A r \in routes : IsRoute(r) /\ r.dev \in PhysicalDevs
  BY DEF IInv, RoutesOK

\* Initially nothing is done.
LEMMA InitDone ==
  ASSUME NetInit
  PROVE  DoneInv
  <1>1. /\ phase = "address" /\ pc = "address" /\ verdict = "none"
    BY DEF NetInit
  <1>2. \A r \in routes : r.dev \in PhysicalDevs
    BY <1>1, InitInv, UsersRoutes
  <1>3. TunnelOK
    BY <1>2, NetSetupAssumption DEF TunnelOK
  <1> QED BY <1>1, <1>3 DEF DoneInv, CompleteOK, AddedOK, WarnedOK, ConfigOK, UpMeansRouted, Helping

\* The plan is complete when made, and stays.
LEMMA CompleteStep ==
  ASSUME IInv, DoneInv, [NetNext]_netVars
  PROVE  CompleteOK'
  <1>0. policy' = policy
    BY PolicyStays
  <1>1. CASE phase = "routes"
    <2>1. ops' = ops /\ Complete(ops)
      BY <1>1, ResultsGrow DEF DoneInv, CompleteOK
    <2> QED BY <1>0, <2>1 DEF CompleteOK, Complete, IsTheGateways
  <1>2. CASE phase # "routes" /\ phase' = "routes"
    <2>1. Complete(Plan(policy, routes)) /\ ops' = Plan(policy, routes)
      BY <1>2, RoutesPhase, UsersRoutes, PlanCompletes DEF IInv
    <2> HIDE DEF Plan
    <2> QED BY <1>0, <2>1 DEF CompleteOK, Complete, IsTheGateways
  <1>3. CASE phase' # "routes"
    BY <1>3 DEF CompleteOK
  <1> QED BY <1>1, <1>2, <1>3

\* The kernel adds a route unless there is one, and takes a device's along when it goes.
LEMMA TunnelStep ==
  ASSUME IInv, DoneInv, [NetNext]_netVars
  PROVE  TunnelOK'
  <1>0. TunnelOK /\ Tun \notin {"other", "none"} /\ device \in {Tun, "other", "none"}
    BY NetSetupAssumption DEF DoneInv, IInv, DeviceOK
  <1>1. CASE routes' \subseteq routes /\ device' = device
    BY <1>0, <1>1 DEF TunnelOK
  <1>2. CASE Runs /\ ~(routes' \subseteq routes)
    <2> DEFINE op == ops[at]
               dev == Named(Op)
               new == Route(op.dest, dev, 0)
    <2>1. /\ op.op \in {"route_add", "pin_add"} /\ SameRoute(op) = {} /\ dev # "none"
          /\ routes' = routes \cup {new} /\ device' = device
      <3>1. /\ dev # "none" /\ Outcome(Op) = "ok" /\ routes' = RoutesAfter(Op, dev)
            /\ device' = device
        BY <1>2 DEF Runs
      <3>2. op.op \in {"route_add", "pin_add"}
        BY <1>2, <3>1 DEF RoutesAfter, Op
      <3>3. SameRoute(op) = {}
        BY <3>1, <3>2 DEF Outcome, Op
      <3> QED BY <3>1, <3>2, <3>3 DEF RoutesAfter, Op
    <2>2. at \in DOMAIN ops /\ op \in ConfigOps \cup PinDels \cup Pins \cup TunOps
      <3>1. at \in DOMAIN ops
        BY <1>2 DEF IInv, ResultsOK, Runs
      <3> QED BY <3>1, OpIs DEF IInv
    <2>3. op.op = "pin_add" => dev \in PhysicalDevs
      BY <2>2, OpKinds DEF Named, Op
    <2>4. op.op = "route_add" => dev = device
      BY DEF Named, Op
    <2>5. new.dest = op.dest /\ new.dev = dev /\ new.metric = 0
      BY DEF Route
    <2>6. \A r \in routes : ~(r.dest = new.dest /\ r.metric = 0)
      BY <2>1, <2>5 DEF SameRoute
    <2>7. new.dev \in {Tun, "other"} => new.dev = device
      BY <2>1, <2>3, <2>4, <2>5, NetSetupAssumption
    <2> HIDE DEF new
    <2> QED BY <1>0, <2>1, <2>5, <2>6, <2>7 DEF TunnelOK
  <1>3. CASE DeviceGoes
    <2>1. device = Tun /\ routes' = {r \in routes : r.dev # Tun}
      BY <1>3 DEF DeviceGoes
    <2> QED BY <1>0, <2>1 DEF TunnelOK
  <1>4. CASE OtherDevice
    <2>1. device = "none" /\ device' = "other" /\ routes' = routes
      BY <1>4 DEF OtherDevice
    <2> QED BY <1>0, <2>1 DEF TunnelOK
  <1>5. CASE PathChanges
    <2>1. device' = device
      BY <1>5 DEF PathChanges
    <2>2. ASSUME NEW r \in routes', r \notin routes
          PROVE  r.dev \notin {Tun, "other"} /\ r.metric = 1
      <3>1. PICK p \in AnyPrefix : r = Route(p, "wlan", 1)
        BY <1>5, <2>2, Appears
      <3> QED BY <3>1, NetSetupAssumption DEF Route
    <2> QED BY <1>0, <2>1, <2>2 DEF TunnelOK
  <1>6. CASE UNCHANGED <<routes, device>>
    BY <1>1, <1>6
  <1>7. Runs => device' = device
    BY DEF Runs
  <1> QED
    BY <1>1, <1>2, <1>3, <1>4, <1>5, <1>6, <1>7
    DEF NetNext, OnNetwork, Worker, Helper, Around, netVars, systemVars, RefusesPolicy, ByIoctl, ByHelper,
        NoPrivilege, HelperConfigured, NoPathRead, Plans, DoesNotApply, Dismissed, Applies, StopsSuperseded,
        Validates, RejectsOp, RunFails, Rechecks, Judges, CannotVerify, Stops, NewAttempt

\* A result is "ok" only once the commands of the operation have run.
LEMMA NewOk ==
  ASSUME IInv, [NetNext]_netVars, results' # <<>>, NEW i \in DOMAIN results', results'[i] = "ok"
  PROVE  \/ i \in DOMAIN results /\ results[i] = "ok"
         \/ /\ Rechecks /\ pc = "recheck" /\ i = at /\ Len(results) = at - 1 /\ commands = <<>>
            /\ ~ChangedUnderneath(Op)
  <1>0. /\ ResultsOK /\ results \in Seq(Results) /\ at \in Nat
        /\ DOMAIN ops = 1 .. Len(ops) /\ Len(ops) \in Nat
    BY OpIs DEF IInv, ResultsOK
  <1>1. ASSUME NEW out, results' = Append(results, out), out # "ok"
        PROVE  i \in DOMAIN results /\ results[i] = "ok"
    BY <1>0, <1>1
  <1>2. CASE Validates \/ RejectsOp
    BY <1>1, <1>2 DEF Validates, RejectsOp, NextOp
  <1>3. CASE RunFails
    BY <1>1, <1>3 DEF RunFails
  <1>4. CASE Runs
    <2> DEFINE out == IF Named(Op) = "none" THEN "failed" ELSE Outcome(Op)
    <2>1. results' = results \/ (results' = Append(results, out) /\ out # "ok")
      BY <1>4 DEF Runs
    <2> HIDE DEF out
    <2> QED BY <1>1, <2>1
  <1>5. CASE Rechecks
    <2>0. pc = "recheck" /\ at \in DOMAIN ops /\ Len(results) \in {at - 1, at}
      BY <1>0, <1>5 DEF Rechecks, ResultsOK
    <2>1. CASE ChangedUnderneath(Op)
      <3> DEFINE old == SubSeq(results, 1, at - 1)
      <3>1. results' = Append(old, "failed")
        BY <1>5, <2>1 DEF Rechecks
      <3>2. /\ old \in Seq(Results) /\ Len(old) = at - 1
            /\ \A k \in 1 .. at - 1 : old[k] = results[k]
        <4>1. at - 1 \in 0 .. Len(results)
          BY <1>0, <2>0
        <4> QED BY <1>0, <4>1
      <3> HIDE DEF old
      <3>3. i \in 1 .. at - 1
        BY <1>0, <2>0, <3>1, <3>2
      <3> QED BY <1>0, <2>0, <3>1, <3>2, <3>3
    <2>2. CASE ~ChangedUnderneath(Op)
      <3>1. \/ results' = results
            \/ results' = Append(results, "ok") /\ Len(results) # at /\ commands = <<>>
        BY <1>5, <2>2 DEF Rechecks, NextOp
      <3>2. CASE results' = results
        BY <3>2
      <3>3. CASE results' = Append(results, "ok") /\ Len(results) # at /\ commands = <<>>
        BY <1>0, <1>5, <2>0, <2>2, <3>3
      <3> QED BY <3>1, <3>2, <3>3
    <2> QED BY <2>1, <2>2
  <1>6. CASE UNCHANGED results
    BY <1>6
  <1> QED
    BY <1>2, <1>3, <1>4, <1>5, <1>6
    DEF NetNext, OnNetwork, Worker, Helper, Around, netVars, setupVars, RefusesPolicy, ByIoctl,
        ByHelper, NoPrivilege, HelperConfigured, NoPathRead, Plans, DoesNotApply, Dismissed, Applies,
        StopsSuperseded, Judges, CannotVerify, Stops, DeviceGoes, OtherDevice, NewAttempt, PathChanges

\* A route into the tunnel stays as long as the device does.
LEMMA AddedStays ==
  ASSUME IInv, [NetNext]_netVars, phase = "routes", device' = Tun,
         NEW i \in DOMAIN ops, ops[i].op = "route_add", Added(i)
  PROVE  Route(ops[i].dest, Tun, 0) \in routes'
  <1> DEFINE r == Route(ops[i].dest, Tun, 0)
  <1>0. /\ ops' = ops /\ r \in routes /\ r.dev = Tun /\ r.metric = 0 /\ r.dest.len # 0
    <2>1. ops[i].dest \in MayRoute
      BY OpIs, OpKinds DEF IInv
    <2> QED BY <2>1, ResultsGrow DEF Added, Route, MayRoute
  <1> HIDE DEF r
  <1>1. r \in routes'
    <2>1. CASE Runs
      <3>1. \/ routes \subseteq routes'
            \/ Op.op = "pin_del" /\ routes' = routes \ {Route(Op.dest, Op.dev, 0)}
        BY <2>1 DEF Runs, RoutesAfter
      <3>2. Op.op = "pin_del" => Op.dev \in PhysicalDevs
        <4>1. at \in DOMAIN ops
          BY <2>1 DEF IInv, ResultsOK, Runs
        <4>2. Op \in PinDels \cup Pins \cup TunOps
          BY <4>1, OpIs DEF IInv, Op
        <4> QED BY <4>2, OpKinds
      <3>3. Op.op = "pin_del" => r # Route(Op.dest, Op.dev, 0)
        BY <1>0, <3>2, NetSetupAssumption DEF Route
      <3> QED BY <1>0, <3>1, <3>3
    <2>2. CASE PathChanges
      BY <1>0, <2>2, Vanishes, NetSetupAssumption
    <2>3. CASE DeviceGoes
      BY <2>3, NetSetupAssumption DEF DeviceGoes
    <2>4. CASE UNCHANGED routes
      BY <1>0, <2>4
    <2> QED
      BY <2>1, <2>2, <2>3, <2>4
      DEF NetNext, OnNetwork, Worker, Helper, Around, netVars, systemVars, RefusesPolicy, ByIoctl, ByHelper,
          NoPrivilege, HelperConfigured, NoPathRead, Plans, DoesNotApply, Dismissed, Applies, StopsSuperseded,
          Validates, RejectsOp, RunFails, Rechecks, Judges, CannotVerify, Stops, OtherDevice, NewAttempt
  <1> QED BY <1>1 DEF r

\* What the helper says it added is in the table.
LEMMA AddedStep ==
  ASSUME IInv, DoneInv, [NetNext]_netVars
  PROVE  AddedOK'
  <1>1. CASE phase' # "routes" \/ device' # Tun
    BY <1>1 DEF AddedOK
  <1>2. CASE phase # "routes" /\ phase' = "routes"
    BY <1>2, RoutesPhase DEF AddedOK
  <1>3. CASE phase = "routes" /\ device' = Tun
    <2>0. /\ ops' = ops /\ device = Tun /\ AddedOK
          /\ DOMAIN ops = 1 .. Len(ops) /\ Len(ops) \in Nat
          /\ results \in Seq(Results) /\ at \in Nat /\ ResultsOK
      <3>1. device = Tun
        BY <1>3, NetSetupAssumption
        DEF NetNext, OnNetwork, Worker, Helper, Around, netVars, systemVars, RefusesPolicy, ByIoctl,
            ByHelper, NoPrivilege, HelperConfigured, NoPathRead, Plans, DoesNotApply, Dismissed, Applies,
            StopsSuperseded, Validates, RejectsOp, Runs, RunFails, Rechecks, Judges, CannotVerify, Stops,
            DeviceGoes, OtherDevice, NewAttempt, PathChanges
      <3> QED BY <1>3, <3>1, ResultsGrow, OpIs DEF DoneInv, IInv, ResultsOK
    <2>1. DOMAIN results' \subseteq DOMAIN ops /\ (pc' = "recheck" => at' \in DOMAIN ops)
      BY <2>0, ResultsStep DEF ResultsOK
    <2>2. ASSUME NEW i \in DOMAIN results', ops[i].op = "route_add", results'[i] = "ok"
          PROVE  Route(ops[i].dest, Tun, 0) \in routes'
      <3>1. Added(i)
        <4>1. results' # <<>>
          OBVIOUS
        <4> QED BY <1>3, <2>0, <2>2, <4>1, NewOk DEF AddedOK
      <3> QED BY <1>3, <2>1, <2>2, <3>1, AddedStays
    <2>3. ASSUME pc' = "recheck", ops[at'].op = "route_add", Len(results') = at' - 1
          PROVE  Route(ops[at'].dest, Tun, 0) \in routes'
      <3>1. CASE Runs
        <4> DEFINE dev == Named(Op)
                   out == IF dev = "none" THEN "failed" ELSE Outcome(Op)
        <4>1. at' = at /\ Len(results) = at - 1
          BY <2>0, <3>1 DEF Runs, ResultsOK
        <4>2. out = "ok"
          <5>1. out # "ok" => results' = Append(results, out)
            BY <3>1 DEF Runs
          <5> HIDE DEF out
          <5> QED BY <2>0, <2>3, <4>1, <5>1
        <4>3. dev = Tun
          BY <2>0, <2>3, <4>1 DEF Named, Op
        <4>4. Route(Op.dest, dev, 0) \in routes'
          BY <2>3, <3>1, <4>1, <4>2 DEF Runs, RoutesAfter, Op
        <4> QED BY <4>1, <4>3, <4>4 DEF Op
      <3>2. CASE RunFails
        <4>1. /\ at' = at /\ Len(results) = at - 1 /\ results' = Append(results, "failed")
          BY <2>0, <3>2 DEF RunFails, ResultsOK
        <4> QED BY <2>0, <2>3, <4>1
      <3>3. CASE pc = "recheck" /\ at' = at /\ results' = results
        <4>1. Added(at) /\ at \in DOMAIN ops
          BY <1>3, <2>0, <2>1, <2>3, <3>3 DEF AddedOK
        <4>2. Route(ops[at].dest, Tun, 0) \in routes'
          BY <1>3, <2>3, <3>3, <4>1, AddedStays
        <4> QED BY <3>3, <4>2
      <3>4. Runs \/ RunFails \/ (pc = "recheck" /\ at' = at /\ results' = results)
        BY <1>3, <2>3
        DEF NetNext, OnNetwork, Worker, Helper, Around, netVars, setupVars, RefusesPolicy, ByIoctl,
            ByHelper, NoPrivilege, NotConfigured, HelperConfigured, NoPathRead, Plans, DoesNotApply, Dismissed,
            Applies, StopsSuperseded, Validates, RejectsOp, NextOp, Rechecks, Judges, CannotVerify, Stops, Ends,
            DeviceGoes, OtherDevice, NewAttempt, PathChanges, After
      <3> QED BY <3>1, <3>2, <3>3, <3>4
    <2> QED BY <2>0, <2>2, <2>3 DEF AddedOK, Added
  <1> QED BY <1>1, <1>2, <1>3

\* A physical route that appears is a default route, or the gateway's, or that of a local
\* network the host has come to be on.
LEMMA NewPhysical ==
  ASSUME IInv, [NetNext]_netVars, NEW r \in routes', r \notin routes, r.dev \in PhysicalDevs
  PROVE  \/ r.dest.len = 0
         \/ policy.gateway # NoAddress /\ r.dest = Host(policy.gateway)
         \/ phase = "routes" => r.dest \in late'
  <1>1. CASE PathChanges
    <2>1. PICK p \in AnyPrefix :
            r = Route(p, "wlan", 1) /\ (p = PrefixNew(0, 0) \/ (phase = "routes" => p \in late'))
      BY <1>1, Appears
    <2>2. r.dest = p /\ PrefixNew(0, 0).len = 0
      BY <2>1 DEF Route, PrefixNew
    <2> QED BY <2>1, <2>2
  <1>2. CASE Runs
    <2> DEFINE op == ops[at]
               dev == Named(Op)
    <2>1. op.op \in {"route_add", "pin_add"} /\ r = Route(op.dest, dev, 0) /\ dev # "none"
      BY <1>2 DEF Runs, RoutesAfter, Op
    <2>2. at \in DOMAIN ops
      BY <1>2 DEF IInv, ResultsOK, Runs
    <2>3. op.op # "route_add"
      <3>1. op.op = "route_add" => dev \in {Tun, "other"}
        BY <2>1 DEF Named, Op, IInv, DeviceOK
      <3> QED BY <2>1, <3>1, NetSetupAssumption DEF Route
    <2>4. phase = "routes"
      BY <2>1, <2>2, OpIs, OpKinds DEF IInv
    <2> QED BY <2>1, <2>2, <2>3, <2>4, PinOrder DEF IsPin, Route
  <1>3. CASE routes' \subseteq routes
    BY <1>3
  <1> QED
    BY <1>1, <1>2, <1>3
    DEF NetNext, OnNetwork, Worker, Helper, Around, netVars, systemVars, RefusesPolicy, ByIoctl, ByHelper,
        NoPrivilege, HelperConfigured, NoPathRead, Plans, DoesNotApply, Dismissed, Applies, StopsSuperseded,
        Validates, RejectsOp, RunFails, Rechecks, Judges, CannotVerify, Stops, DeviceGoes, OtherDevice,
        NewAttempt

\* The user is told, when the plan is made, of the local networks that hide a part of the
\* VPN's ranges, if the table can be read; what appears later is on record.
LEMMA WarnedStep ==
  ASSUME IInv, DoneInv, [NetNext]_netVars
  PROVE  WarnedOK'
  <1>0. policy' = policy
    BY PolicyStays
  <1> SUFFICES ASSUME phase' = "routes", policy.want_routes, ~FullTunnel(policy),
                      NEW r \in routes', r.dev \in PhysicalDevs
               PROVE  Known(r)'
    BY <1>0 DEF WarnedOK
  <1>1. CASE phase # "routes"
    <2>1. Plans /\ ~PlanFails(policy, routes) /\ routes' = routes
      BY <1>1, RoutesPhase
    <2>2. warned' \cup missed' = Shadowed(policy.split, routes)
      BY <2>1 DEF Plans, InTheTable
    <2>3. ASSUME NEW p \in ToSet(policy.split), Hides(p, r.dest)
          PROVE  r.dest \in warned' \cup missed'
      BY <2>1, <2>2, <2>3, NetSetupAssumption DEF Shadowed
    <2> QED BY <1>0, <2>3 DEF Known
  <1>2. CASE phase = "routes"
    <2>1. warned \cup missed \cup late \subseteq warned' \cup missed' \cup late'
      BY <1>2
      DEF NetNext, OnNetwork, Worker, Helper, Around, netVars, setupVars, unseenVars, RefusesPolicy, ByIoctl,
          ByHelper, NoPrivilege, HelperConfigured, NoPathRead, Plans, DoesNotApply, Dismissed, Applies,
          StopsSuperseded, Validates, RejectsOp, Runs, RunFails, Rechecks, Judges, CannotVerify, Stops,
          DeviceGoes, OtherDevice, NewAttempt, PathChanges, IInv, PhaseOK
    <2>2. CASE r \in routes
      <3>1. Known(r)
        BY <1>2, <2>2 DEF DoneInv, WarnedOK
      <3> QED BY <1>0, <2>1, <3>1 DEF Known
    <2>3. CASE r \notin routes
      BY <1>0, <1>2, <2>3, NewPhysical DEF Known
    <2> QED BY <2>2, <2>3
  <1> QED BY <1>1, <1>2

\* What a step does to the session's device.
LEMMA TunStep ==
  ASSUME IInv, [NetNext]_netVars
  PROVE  \/ link'[Tun] = link[Tun]
         \/ ByIoctl /\ link'[Tun] = Configured(pc, link[Tun])
         \/ /\ Runs /\ Named(Op) = Tun /\ Outcome(Op) = "ok"
            /\ link'[Tun] = LinkAfter(Op, Head(commands), link[Tun])
  <1>0. DOMAIN link = {Tun, "other"} /\ link \in [{Tun, "other"} -> {link[Tun], link["other"]}]
    <2>1. DOMAIN link = {Tun, "other"} /\ link = [d \in {Tun, "other"} |-> link[d]]
      BY DEF IInv, LinkOK
    <2> QED BY <2>1
  <1>1. CASE ByIoctl
    BY <1>0, <1>1 DEF ByIoctl
  <1>2. CASE Runs
    <2> DEFINE dev == Named(Op)
               new == LinkAfter(Op, Head(commands), link[dev])
    <2>1. \/ link' = link
          \/ link' = [link EXCEPT ![dev] = new] /\ dev # "none" /\ Outcome(Op) = "ok"
      BY <1>2 DEF Runs
    <2> HIDE DEF new
    <2>2. CASE link' = [link EXCEPT ![dev] = new] /\ dev = Tun
      <3>1. link'[Tun] = new
        BY <1>0, <2>2
      <3> QED BY <1>2, <2>1, <2>2, <3>1, NetSetupAssumption DEF new
    <2>3. CASE link' = [link EXCEPT ![dev] = new] /\ dev # Tun
      <3>1. link'[Tun] = link[Tun]
        BY <1>0, <2>3
      <3> QED BY <3>1
    <2> QED BY <2>1, <2>2, <2>3
  <1>3. CASE UNCHANGED link
    BY <1>3
  <1> QED
    BY <1>1, <1>2, <1>3
    DEF NetNext, OnNetwork, Worker, Helper, Around, netVars, systemVars, RefusesPolicy, ByHelper,
        NoPrivilege, HelperConfigured, NoPathRead, Plans, DoesNotApply, Dismissed, Applies, StopsSuperseded,
        Validates, RejectsOp, RunFails, Rechecks, Judges, CannotVerify, Stops, DeviceGoes, OtherDevice,
        NewAttempt, PathChanges

\* A command that names the session's device changes it.
LEMMA TunRuns ==
  ASSUME IInv, Runs, Named(Op) = Tun, Outcome(Op) = "ok"
  PROVE  link'[Tun] = LinkAfter(Op, Head(commands), link[Tun])
  <1> DEFINE new == LinkAfter(Op, Head(commands), link[Tun])
  <1>1. DOMAIN link = {Tun, "other"} /\ link = [d \in {Tun, "other"} |-> link[d]]
    BY DEF IInv, LinkOK
  <1>2. link' = [link EXCEPT ![Tun] = new]
    BY <1>1, NetSetupAssumption DEF Runs
  <1> HIDE DEF new
  <1>3. link'[Tun] = new
    BY <1>1, <1>2
  <1> QED BY <1>3 DEF new

\* Only before the address is set is one taken off.
LEMMA FlushesFirst ==
  ASSUME IInv, DoneInv, Runs, Head(commands) = "flush"
  PROVE  phase = "address" /\ pc = "run" /\ at = 1 /\ results = <<>>
  <1>1. /\ pc = "run" /\ at \in DOMAIN ops /\ Len(results) = at - 1 /\ at \in Nat
        /\ results \in Seq(Results)
        /\ commands \in {<<"flush", "addr">>, <<"addr">>, <<ops[at].op>>}
        /\ commands # <<ops[at].op>> => ops[at].op = "addr"
    BY DEF Runs, IInv, ResultsOK
  <1>2. ops[at].op \in {"addr", "link_up", "mtu", "pin_del", "pin_add", "route_add", "dns", "domain"}
    BY <1>1, OpIs, OpKinds DEF IInv
  <1>3. ops[at].op = "addr"
    BY <1>1, <1>2
  <1>4. phase # "routes"
    BY <1>1, <1>3, OpIs, OpKinds DEF IInv
  <1>5. phase # "mtu"
    BY <1>1, <1>3 DEF DoneInv, ConfigOK, Helping, LinkOp
  <1>6. phase = "address"
    BY <1>4, <1>5 DEF IInv, PhaseOK
  <1>7. ops = <<LinkOp("addr", <<>>), LinkOp("link_up", <<>>)>>
    BY <1>1, <1>6 DEF DoneInv, ConfigOK, Helping
  <1>8. at = 1
    BY <1>1, <1>3, <1>7 DEF LinkOp
  <1> QED BY <1>1, <1>6, <1>8

\* Otherwise what has been set stays.
LEMMA DoneStays ==
  ASSUME IInv, DoneInv, [NetNext]_netVars, ~(Runs /\ Head(commands) = "flush")
  PROVE  /\ link[Tun].address => link'[Tun].address
         /\ link[Tun].up => link'[Tun].up
         /\ link[Tun].mtu <= limit => link'[Tun].mtu <= limit
  <1> DEFINE l == link[Tun]
  <1>1. l \in [address : BOOLEAN, up : BOOLEAN, mtu : Nat \cup {LargestMtu}, dns : Seq(Addresses)]
    BY DEF IInv, LinkOK
  <1>2. limit \in Nat /\ limit <= limit
    BY DEF IInv, PolicyOK
  <1> HIDE DEF l
  <1>3. CASE link'[Tun] = l
    BY <1>3 DEF l
  <1>4. CASE link'[Tun] = Configured(pc, l)
    BY <1>1, <1>2, <1>4 DEF Configured, l
  <1>5. CASE Runs /\ link'[Tun] = LinkAfter(Op, Head(commands), l)
    BY <1>1, <1>2, <1>5 DEF LinkAfter, l
  <1> QED BY <1>3, <1>4, <1>5, TunStep DEF l

\* The address and the device are set up before the MTU, and that before the routes.
LEMMA ConfigStep ==
  ASSUME IInv, DoneInv, [NetNext]_netVars
  PROVE  ConfigOK'
  <1>0. /\ ConfigOK /\ PhaseOK /\ ResultsOK /\ DeviceOK /\ limit' = limit /\ limit \in Nat
        /\ results \in Seq(Results) /\ DOMAIN ops = 1 .. Len(ops) /\ Len(ops) \in Nat /\ at \in Nat
    BY OpIs, PolicyStays DEF IInv, DoneInv, ResultsOK, PolicyOK
  <1>a. link[Tun] \in [address : BOOLEAN, up : BOOLEAN, mtu : Nat \cup {LargestMtu}, dns : Seq(Addresses)]
    BY DEF IInv, LinkOK
  <1>b. link[Tun] = [address |-> link[Tun].address, up |-> link[Tun].up,
                     mtu |-> link[Tun].mtu, dns |-> link[Tun].dns]
    BY <1>a
  <1>1. CASE ByIoctl
    <2>1. link'[Tun] = Configured(pc, link[Tun])
      <3>1. DOMAIN link = {Tun, "other"} /\ link = [d \in {Tun, "other"} |-> link[d]]
        BY DEF IInv, LinkOK
      <3> DEFINE new == Configured(pc, link[Tun])
      <3>2. link' = [link EXCEPT ![Tun] = new]
        BY <1>1 DEF ByIoctl
      <3> HIDE DEF new
      <3>3. link'[Tun] = new
        BY <3>1, <3>2
      <3> QED BY <3>3 DEF new
    <2>2. /\ pc \in {"address", "mtu"} /\ pc' = After(pc) /\ phase' = phase /\ phase # "routes"
          /\ ~(Runs /\ Head(commands) = "flush")
      BY <1>0, <1>1 DEF ByIoctl, PhaseOK, Runs
    <2>3. CASE pc = "address"
      <3>1. link'[Tun].address /\ link'[Tun].up
        BY <1>a, <2>1, <2>3 DEF Configured
      <3>2. pc' = "mtu" /\ phase' = "address"
        BY <1>0, <2>2, <2>3 DEF After, PhaseOK
      <3> QED BY <3>1, <3>2 DEF ConfigOK, Helping
    <2>4. CASE pc = "mtu"
      <3>1. link'[Tun].mtu <= limit'
        BY <1>0, <1>a, <2>1, <2>4 DEF Configured
      <3>2. link'[Tun].address /\ link'[Tun].up
        BY <1>0, <2>2, <2>4, DoneStays DEF ConfigOK
      <3>3. pc' = "plan"
        BY <2>2, <2>4 DEF After
      <3> QED BY <3>1, <3>2, <3>3 DEF ConfigOK, Helping
    <2> QED BY <2>2, <2>3, <2>4
  <1>2. CASE ByHelper
    <2>1. /\ pc \in {"address", "mtu"} /\ phase' = pc /\ pc' = "check" /\ results' = <<>>
          /\ ops' = (IF pc = "address" THEN <<LinkOp("addr", <<>>), LinkOp("link_up", <<>>)>>
                     ELSE <<LinkOp("mtu", <<>>)>>)
          /\ link' = link
      BY <1>2 DEF ByHelper, systemVars
    <2>2. pc = "mtu" => link'[Tun].address /\ link'[Tun].up
      BY <1>0, <2>1 DEF ConfigOK
    <2> QED BY <2>1, <2>2 DEF ConfigOK, Helping
  <1>10. CASE NoPathRead
    <2>1. pc = "plan" /\ pc' = "done" /\ UNCHANGED <<phase, link>> /\ phase # "routes"
      BY <1>0, <1>10 DEF NoPathRead, Ends, PhaseOK
    <2>2. link'[Tun].address /\ link'[Tun].up
      BY <1>0, <2>1 DEF ConfigOK
    <2> QED BY <2>1, <2>2 DEF ConfigOK, Helping
  <1>3. CASE RefusesPolicy \/ NoPrivilege
    <2>1. /\ pc \in {"address", "mtu"} /\ UNCHANGED <<phase, link>> /\ phase # "routes"
          /\ \/ pc' = "done"
             \/ pc = "mtu" /\ pc' = "plan" /\ link[Tun].mtu <= limit
      BY <1>0, <1>3 DEF RefusesPolicy, Refused, NoPrivilege, NotConfigured, MtuWillDo, Ends, PhaseOK
    <2>2. CASE pc' = "done"
      <3>1. phase' = "mtu" => link'[Tun].address /\ link'[Tun].up
        BY <1>0, <2>1 DEF ConfigOK
      <3> QED BY <2>1, <2>2, <3>1 DEF ConfigOK, Helping
    <2>3. CASE pc = "mtu" /\ pc' = "plan" /\ link[Tun].mtu <= limit
      BY <1>0, <2>1, <2>3 DEF ConfigOK, Helping
    <2> QED BY <2>1, <2>2, <2>3
  <1>4. CASE HelperConfigured
    <2>1. /\ pc = "judge" /\ phase \in {"address", "mtu"} /\ UNCHANGED <<phase, link>>
          /\ \/ pc' = "done"
             \/ phase = "mtu" /\ pc' = "plan" /\ link[Tun].mtu <= limit
             \/ /\ Len(results) = Len(ops) /\ \A i \in DOMAIN results : results[i] = "ok"
                /\ pc' = After(phase)
      BY <1>0, <1>4 DEF HelperConfigured, NoPathRead, NotConfigured, MtuWillDo, Ends, PhaseOK
    <2>2. phase = "mtu" => link[Tun].address /\ link[Tun].up
      BY <1>0 DEF ConfigOK
    <2>3. CASE pc' = "done"
      BY <2>1, <2>2, <2>3 DEF ConfigOK, Helping
    <2>4. CASE phase = "mtu" /\ pc' = "plan" /\ link[Tun].mtu <= limit
      BY <1>0, <2>1, <2>2, <2>4 DEF ConfigOK, Helping
    <2>5. CASE /\ Len(results) = Len(ops) /\ \A i \in DOMAIN results : results[i] = "ok"
               /\ pc' = After(phase)
      <3>1. \A i \in DOMAIN ops : HasDone(ops[i].op)
        BY <1>0, <2>1, <2>5 DEF ConfigOK, Helping
      <3>2. CASE phase = "address"
        <4>1. ops = <<LinkOp("addr", <<>>), LinkOp("link_up", <<>>)>>
          BY <1>0, <2>1, <3>2 DEF ConfigOK, Helping
        <4>2. DOMAIN ops = 1 .. 2 /\ ops[1].op = "addr" /\ ops[2].op = "link_up"
          BY <4>1 DEF LinkOp
        <4>3. link[Tun].address /\ link[Tun].up
          BY <3>1, <4>2 DEF HasDone
        <4> QED BY <2>1, <2>5, <3>2, <4>3 DEF ConfigOK, Helping, After
      <3>3. CASE phase = "mtu"
        <4>1. ops = <<LinkOp("mtu", <<>>)>>
          BY <1>0, <2>1, <3>3 DEF ConfigOK, Helping
        <4>2. DOMAIN ops = 1 .. 1 /\ ops[1].op = "mtu"
          BY <4>1 DEF LinkOp
        <4>3. link[Tun].mtu <= limit
          BY <3>1, <4>2 DEF HasDone
        <4> QED BY <1>0, <2>1, <2>2, <2>5, <3>3, <4>3 DEF ConfigOK, Helping, After
      <3> QED BY <2>1, <3>2, <3>3
    <2> QED BY <2>1, <2>3, <2>4, <2>5
  <1>5. CASE Plans
    <2>1. /\ pc = "plan" /\ UNCHANGED link /\ pc' \in {"done", "apply"}
          /\ phase' \in {phase, "routes"}
      BY <1>5 DEF Plans, Ends
    <2>2. link[Tun].address /\ link[Tun].up /\ link[Tun].mtu <= limit
      BY <1>0, <2>1 DEF ConfigOK
    <2> QED BY <1>0, <2>1, <2>2 DEF ConfigOK, Helping
  <1>6. CASE phase = "routes"
    <2>1. ~(Runs /\ Head(commands) = "flush")
      BY <1>6, FlushesFirst
    <2>2. phase' = "routes"
      BY <1>6, ResultsGrow
    <2>3. link[Tun].address /\ link[Tun].up /\ link[Tun].mtu <= limit
      BY <1>0, <1>6 DEF ConfigOK
    <2>4. link'[Tun].address /\ link'[Tun].up /\ link'[Tun].mtu <= limit'
      BY <1>0, <2>1, <2>3, DoneStays
    <2> QED BY <2>2, <2>4 DEF ConfigOK
  <1>7. CASE Helper /\ phase # "routes"
    <2>1. Helping /\ UNCHANGED <<phase, ops>> /\ pc # "done" /\ Helping'
      BY <1>7
      DEF Helper, Helping, StopsSuperseded, Superseded, Validates, RejectsOp, NextOp, Runs,
          RunFails, Rechecks
    <2>2. phase = "mtu" => ~(Runs /\ Head(commands) = "flush")
      BY FlushesFirst
    <2>3. phase' = "mtu" => link'[Tun].address /\ link'[Tun].up
      BY <1>0, <2>1, <2>2, DoneStays DEF ConfigOK
    <2>4. ASSUME NEW i \in DOMAIN results', results'[i] = "ok"
          PROVE  HasDone(ops[i].op)'
      <3>0. results' # <<>>
        BY <2>4
      <3>1. CASE i \in DOMAIN results /\ results[i] = "ok"
        <4>1. HasDone(ops[i].op)
          BY <1>0, <1>7, <2>1, <3>1 DEF ConfigOK
        <4>2. ~(Runs /\ Head(commands) = "flush")
          BY <3>1, FlushesFirst
        <4> QED BY <1>0, <2>1, <4>1, <4>2, DoneStays DEF HasDone
      <3>2. CASE Rechecks /\ pc = "recheck" /\ i = at /\ Len(results) = at - 1 /\ commands = <<>>
        <4>1. HasDone(ops[i].op)
          BY <1>0, <1>7, <2>1, <3>2 DEF ConfigOK
        <4>2. link' = link
          BY <3>2 DEF Rechecks, systemVars
        <4> QED BY <1>0, <2>1, <4>1, <4>2 DEF HasDone
      <3> QED BY <2>4, <3>0, <3>1, <3>2, NewOk
    <2>5. ASSUME pc' = "recheck", commands' = <<>>, Len(results') = at' - 1
          PROVE  /\ ops[at].op = "addr" => link'[Tun].address
                 /\ ops[at].op = "link_up" => link'[Tun].up
                 /\ ops[at].op = "mtu" => link'[Tun].mtu <= limit
                 /\ at' = at
      <3>1. CASE Runs
        <4> DEFINE dev == Named(Op)
                   out == IF dev = "none" THEN "failed" ELSE Outcome(Op)
        <4>1. /\ at' = at /\ Len(results) = at - 1 /\ at \in DOMAIN ops
              /\ commands \in {<<"flush", "addr">>, <<"addr">>, <<ops[at].op>>}
              /\ commands # <<ops[at].op>> => ops[at].op = "addr"
          BY <1>0, <3>1 DEF Runs, ResultsOK
        <4>2. out = "ok"
          <5>1. out # "ok" => results' = Append(results, out)
            BY <3>1 DEF Runs
          <5> HIDE DEF out
          <5> QED BY <1>0, <2>5, <4>1, <5>1
        <4>3. commands' = Tail(commands)
          BY <3>1, <4>2 DEF Runs
        <4>4. Head(commands) = ops[at].op
          <5> DEFINE o == ops[at].op
          <5>1. /\ Head(<<o>>) = o /\ Head(<<"addr">>) = "addr"
                /\ Tail(<<"flush", "addr">>) = <<"addr">> /\ <<"addr">> # <<>>
            OBVIOUS
          <5>2. commands # <<"flush", "addr">>
            BY <2>5, <4>3, <5>1
          <5>3. CASE commands = <<o>>
            BY <5>1, <5>3
          <5>4. CASE commands # <<o>>
            BY <4>1, <5>1, <5>2, <5>4
          <5> QED BY <5>3, <5>4
        <4>5. device = Tun /\ Op.op \in {"addr", "link_up", "mtu"}
          BY <1>0, <1>7, <2>1, <4>1, OpIs, OpKinds DEF DeviceOK, Op, IInv
        <4>6. dev = Tun /\ Outcome(Op) = "ok"
          BY <4>2, <4>5, NetSetupAssumption DEF Named
        <4>7. link'[Tun] = LinkAfter(Op, ops[at].op, link[Tun])
          BY <3>1, <4>4, <4>6, TunRuns
        <4> QED BY <1>0, <1>a, <4>1, <4>7 DEF LinkAfter
      <3>2. CASE ~Runs
        <4>1. RunFails
          <5>1. ~StopsSuperseded /\ ~RejectsOp
            BY <2>5 DEF StopsSuperseded, RejectsOp, NextOp
          <5>2. ~Validates
            BY <2>5 DEF Validates, NextOp
          <5>3. ~Rechecks
            BY <2>5 DEF Rechecks, NextOp
          <5> QED BY <1>7, <3>2, <5>1, <5>2, <5>3 DEF Helper
        <4>2. /\ at' = at /\ Len(results) = at - 1 /\ results' = Append(results, "failed")
          BY <1>0, <4>1 DEF RunFails, ResultsOK
        <4> QED BY <1>0, <2>5, <4>2
      <3> QED BY <3>1, <3>2
    <2>6. /\ pc' \notin {"mtu", "plan", "apply"} /\ phase' # "routes"
          /\ phase' = "address" => ops' = <<LinkOp("addr", <<>>), LinkOp("link_up", <<>>)>>
          /\ phase' = "mtu" => ops' = <<LinkOp("mtu", <<>>)>>
      BY <1>0, <1>7, <2>1 DEF ConfigOK, Helping
    <2> QED BY <1>0, <2>1, <2>3, <2>4, <2>5, <2>6 DEF ConfigOK, HasDone
  <1>8. CASE UNCHANGED <<pc, phase, ops, results, commands, at, link>>
    BY <1>0, <1>8 DEF ConfigOK, Helping, HasDone
  <1>9. Worker => phase = "routes"
    BY <1>0 DEF Worker, DoesNotApply, Dismissed, Applies, Judges, CannotVerify, PhaseOK
  <1> QED
    BY <1>1, <1>2, <1>3, <1>4, <1>5, <1>6, <1>7, <1>8, <1>9, <1>10
    DEF NetNext, OnNetwork, Around, netVars, setupVars, systemVars, Stops, DeviceGoes, OtherDevice,
        NewAttempt, PathChanges

-----------------------------------------------------------------------------
(* A tunnel that is up. *)

\* p is routed into the tunnel.
Leads(p) == \E r \in routes : r.dest = p /\ r.dev = Tun /\ r.metric = 0

\* What apply takes for success has routed everything that was to be.
LEMMA AppliedLeads ==
  ASSUME IInv, DoneInv, phase = "routes", device = Tun, ~ApplyFails,
         NEW p, RouteAdd(p) \in ToSet(ops)
  PROVE  Leads(p)
  <1>0. /\ results \in Seq(Results) /\ ~(Len(results) < Len(ops)) /\ Len(results) <= Len(ops)
        /\ DOMAIN ops = 1 .. Len(ops) /\ Len(ops) \in Nat
    BY OpIs DEF IInv, ResultsOK, ApplyFails
  <1>1. PICK i \in DOMAIN ops : ops[i] = RouteAdd(p)
    BY DEF ToSet
  <1>2. ops[i].op = "route_add" /\ ops[i].dest = p /\ ops[i].dev = Tun /\ i \in DOMAIN results
    BY <1>0, <1>1 DEF RouteAdd
  <1>3. results[i] = "ok" \/ (results[i] = "exists" /\ Preexisting(ops[i]))
    BY <1>2 DEF ApplyFails, Fatal
  <1>4. CASE results[i] = "ok"
    <2>1. Route(p, Tun, 0) \in routes
      BY <1>2, <1>4 DEF DoneInv, AddedOK, Added
    <2> QED BY <2>1 DEF Leads, Route
  <1>5. CASE Preexisting(ops[i])
    <2>1. PICK r \in routes : r.dest = p /\ r.dev = Tun
      BY <1>2, <1>5 DEF Preexisting, Exists
    <2> QED BY <2>1 DEF Leads, DoneInv, TunnelOK
  <1> QED BY <1>3, <1>4, <1>5

\* An address that a range of the tunnel's holds leaves it only by a longer prefix of the
\* physical network.
LEMMA LongerOnly ==
  ASSUME IInv, DoneInv, device = Tun, NEW a \in Int, ~RoutedTo(routes, a, Tun),
         NEW p, Leads(p), Within(p, a)
  PROVE  /\ Lookup(routes, a) \in routes /\ Lookup(routes, a).dev \in PhysicalDevs
         /\ Within(Lookup(routes, a).dest, a) /\ Lookup(routes, a).dest.len \in Lengths
         /\ p.len \in Lengths /\ Lookup(routes, a).dest.len > p.len
  <1> DEFINE l == Lookup(routes, a)
  <1>1. PICK r \in routes : r.dest = p /\ r.dev = Tun /\ r.metric = 0
    BY DEF Leads
  <1>2. Reachable(routes, a)
    BY <1>1 DEF Reachable
  <1>3. \A x \in routes : IsRoute(x)
    BY DEF IInv, RoutesOK
  <1>4. l \in routes /\ Within(l.dest, a) /\ Preferred(l, r)
    BY <1>1, <1>2, <1>3, LookupIs
  <1>5. l.dev # Tun
    BY <1>2 DEF RoutedTo
  <1> HIDE DEF l
  <1>6. l.dev \in PhysicalDevs
    <2>1. l.dev \in PhysicalDevs \cup {Tun, "other"} /\ (l.dev = "other" => device = "other")
      BY <1>4 DEF IInv, RoutesOK, DoneInv, TunnelOK
    <2> QED BY <1>5, <2>1, NetSetupAssumption
  <1>7. /\ l.dest.len \in Lengths /\ p.len \in Lengths /\ l.metric \in Nat
        /\ l.dest = [net |-> l.dest.net, len |-> l.dest.len] /\ p = [net |-> p.net, len |-> p.len]
    BY <1>1, <1>3, <1>4 DEF IsRoute
  <1>8. CASE l.dest.len = p.len
    <2>1. l.metric = 0
      BY <1>1, <1>4, <1>7, <1>8 DEF Preferred, Lengths
    <2>2. l.dest.net = p.net
      BY <1>4, <1>8 DEF Within
    <2>3. l.dest = p
      BY <1>7, <1>8, <2>2
    <2> QED BY <1>1, <1>4, <1>5, <2>1, <2>3 DEF DoneInv, TunnelOK
  <1>9. CASE l.dest.len # p.len
    <2>1. l.dest.len > p.len
      BY <1>1, <1>4, <1>9 DEF Preferred
    <2> QED BY <1>4, <1>6, <1>7, <2>1 DEF l
  <1> QED BY <1>8, <1>9

\* Of the ranges, only the gateway's own address is not routed.
LEMMA RangeLeads ==
  ASSUME IInv, DoneInv, phase = "routes", device = Tun, ~ApplyFails, policy.want_routes,
         NEW p \in ToSet(policy.split), p.len # 0,
         NEW a \in Int, Within(p, a), a # policy.gateway
  PROVE  Leads(p)
  <1>1. ~IsTheGateways(p)
    BY HostIs DEF IsTheGateways, Within
  <1>2. RouteAdd(p) \in ToSet(ops)
    BY <1>1 DEF DoneInv, CompleteOK, Complete
  <1> QED BY <1>2, AppliedLeads

\* A full tunnel carries all but what a longer local prefix keeps.
LEMMA FullTunnelCarries ==
  ASSUME IInv, DoneInv, phase = "routes", device = Tun, ~ApplyFails,
         policy.want_routes, FullTunnel(policy),
         NEW a \in Addresses, a # policy.gateway, ~RoutedTo(routes, a, Tun)
  PROVE  KeptLocal(a)
  <1>0. a \in Int
    BY DEF Addresses
  <1> DEFINE l == Lookup(routes, a).dest.len
  <1>1. l > 1 /\ l \in Nat
    <2>1. PICK h \in ToSet(Halves) : Within(h, a) /\ h.len = 1
      BY HalvesCover
    <2>2. Leads(h)
      BY <2>1, AppliedLeads DEF DoneInv, CompleteOK, Complete
    <2> QED BY <1>0, <2>1, <2>2, LongerOnly DEF Lengths
  <1>2. ASSUME NEW p \in ToSet(policy.split), Within(p, a) PROVE l > p.len
    <2>1. CASE p.len = 0
      BY <1>1, <2>1
    <2>2. CASE p.len # 0
      <3>1. Leads(p)
        BY <1>0, <1>2, <2>2, RangeLeads
      <3> QED BY <1>0, <1>2, <3>1, LongerOnly
    <2> QED BY <2>1, <2>2
  <1> QED BY <1>1, <1>2 DEF KeptLocal

\* A split tunnel carries its ranges, but for what the user was warned of.
LEMMA SplitTunnelCarries ==
  ASSUME IInv, DoneInv, phase = "routes", device = Tun, ~ApplyFails,
         policy.want_routes, ~FullTunnel(policy), NEW p \in ToSet(policy.split),
         NEW a \in Addresses, Within(p, a), a # policy.gateway, ~RoutedTo(routes, a, Tun)
  PROVE  \E q \in warned \cup missed \cup late : Within(q, a)
  <1>0. a \in Int /\ p.len # 0
    BY DEF Addresses, FullTunnel
  <1> DEFINE l == Lookup(routes, a)
  <1>1. Leads(p)
    BY <1>0, RangeLeads
  <1>2. /\ l \in routes /\ l.dev \in PhysicalDevs /\ Within(l.dest, a)
        /\ l.dest.len \in Lengths /\ p.len \in Lengths /\ l.dest.len > p.len
    BY <1>0, <1>1, LongerOnly
  <1> HIDE DEF l
  <1>3. l.dest.len >= p.len /\ l.dest.len # 0
    BY <1>2 DEF Lengths
  <1>4. Hides(p, l.dest)
    <2> DEFINE d == l.dest
    <2>1. d.len \in Lengths /\ Within(d, a) /\ d.len >= p.len /\ d.len > p.len
      BY <1>2, <1>3
    <2> HIDE DEF d
    <2>2. Covers(p, d)
      BY <1>0, <1>2, <2>1, LongerIsCovered
    <2>3. Hides(p, d)
      BY <2>1, <2>2 DEF Hides
    <2> QED BY <2>3 DEF d
  <1>5. Known(l)
    BY <1>2 DEF DoneInv, WarnedOK
  <1>6. ~(policy.gateway # NoAddress /\ l.dest = Host(policy.gateway))
    <2> SUFFICES ASSUME policy.gateway # NoAddress, l.dest = Host(policy.gateway) PROVE FALSE
      OBVIOUS
    <2>1. l.dest.net = policy.gateway /\ l.dest.len = Width
      BY GatewayHost DEF IInv
    <2>2. a = policy.gateway
      BY <1>0, <1>2, <2>1, HostIs DEF Within
    <2> QED BY <2>2
  <1>7. l.dest \in warned \cup missed \cup late
    BY <1>3, <1>4, <1>5, <1>6 DEF Known
  <1> QED BY <1>2, <1>7

\* A split tunnel carries its DNS servers: what has no range of its own has a route.
LEMMA ServersCarried ==
  ASSUME IInv, DoneInv, phase = "routes", device = Tun, ~ApplyFails,
         policy.want_routes, policy.want_dns, ~FullTunnel(policy),
         NEW d \in ToSet(policy.dns), d \in Addresses, d # policy.gateway,
         \A p \in ToSet(policy.split) : ~Within(p, d)
  PROVE  RoutedTo(routes, d, Tun)
  <1> SUFFICES ASSUME ~RoutedTo(routes, d, Tun) PROVE FALSE
    OBVIOUS
  <1>0. d \in Int
    BY DEF Addresses
  <1>1. RouteAdd(Host(d)) \in ToSet(ops)
    BY DEF DoneInv, CompleteOK, Complete, NeedsDnsRoute
  <1>2. Leads(Host(d))
    BY <1>1, AppliedLeads
  <1>3. Host(d).len = Width /\ Within(Host(d), d)
    BY <1>0, HostIs DEF Within
  <1>4. Lookup(routes, d).dest.len \in Lengths /\ Lookup(routes, d).dest.len > Width
    BY <1>0, <1>2, <1>3, LongerOnly
  <1> QED BY <1>4, RoutePlanAssumption DEF Lengths

\* A plan with nothing in it is of a profile that wants no routes.
LEMMA NothingPlanned ==
  ASSUME PolicyOK, Planned(<<>>), Complete(<<>>)
  PROVE  ~policy.want_routes
  <1> SUFFICES ASSUME policy.want_routes PROVE FALSE
    OBVIOUS
  <1>1. ToSet(<<>>) = {} /\ ~NeedsPin(policy)
    BY DEF ToSet, Planned
  <1>2. ~FullTunnel(policy)
    <2>1. Halves[1] \in ToSet(Halves)
      BY DEF ToSet, Halves
    <2> QED BY <1>1, <2>1 DEF Complete
  <1>3. policy.split # <<>> /\ \A p \in ToSet(policy.split) : p.len # 0
    BY <1>2 DEF FullTunnel
  <1>4. policy.split \in Seq(AnyPrefix) /\ Len(policy.split) # 0
    BY <1>3 DEF PolicyOK
  <1> DEFINE p == policy.split[1]
  <1>5. p \in ToSet(policy.split) /\ p \in AnyPrefix
    BY <1>4 DEF ToSet
  <1> HIDE DEF p
  <1>6. IsTheGateways(p)
    BY <1>1, <1>3, <1>5 DEF Complete
  <1>7. policy.gateway # NoAddress
    <2>1. PICK a \in Addresses, len \in Lengths : p = PrefixNew(a, len)
      BY <1>5 DEF AnyPrefix
    <2>2. len = Width /\ p.net = Net(a, Width)
      BY <1>6, <2>1 DEF IsTheGateways, PrefixNew
    <2>3. a \in Nat
      BY DEF Addresses
    <2>4. p.net = a
      BY <2>2, <2>3, HostIs
    <2> QED BY <1>6, <2>3, <2>4 DEF IsTheGateways, NoAddress
  <1>8. Within(p, policy.gateway)
    BY <1>6, <1>7, GatewayHost DEF Within, IsTheGateways
  <1> QED BY <1>1, <1>5, <1>7, <1>8 DEF NeedsPin

\* The tunnel comes up when what it is to carry is routed into it, and stays that way as
\* long as its device does.
LEMMA UpStep ==
  ASSUME IInv, DoneInv, [NetNext]_netVars, ConfigOK', CompleteOK', OpsOK'
  PROVE  UpMeansRouted'
  <1>0. policy' = policy /\ limit' = limit
    BY PolicyStays
  <1> SUFFICES ASSUME verdict' = "up", device' = Tun
               PROVE  UpMeansRouted'
    BY DEF UpMeansRouted
  <1>1. CASE Judges /\ verdict # "up"
    <2>1. /\ phase = "routes" /\ ~ApplyFails /\ UNCHANGED <<phase, device, link, routes, missed, late>>
          /\ warned \subseteq warned'
      BY <1>1 DEF Judges, Ends, unseenVars
    <2>2. link'[Tun].address /\ link'[Tun].up /\ link'[Tun].mtu <= limit'
      BY <2>1 DEF ConfigOK
    <2>3. ASSUME NEW a \in Carried, a # policy.gateway
          PROVE  \/ RoutedTo(routes, a, Tun)
                 \/ \E p \in warned' \cup missed' \cup late' : Within(p, a)
                 \/ FullTunnel(policy) /\ KeptLocal(a)
      <3>1. a \in Addresses /\ policy.want_routes
        BY DEF Carried
      <3>2. CASE FullTunnel(policy)
        BY <2>1, <2>3, <3>1, <3>2, FullTunnelCarries
      <3>3. ASSUME ~FullTunnel(policy), NEW p \in ToSet(policy.split), Within(p, a)
            PROVE  RoutedTo(routes, a, Tun) \/ \E q \in warned' \cup missed' \cup late' : Within(q, a)
        <4>1. RoutedTo(routes, a, Tun) \/ \E q \in warned \cup missed \cup late : Within(q, a)
          BY <2>1, <2>3, <3>1, <3>3, SplitTunnelCarries
        <4> QED BY <2>1, <4>1
      <3>4. ASSUME ~FullTunnel(policy), a \in ToSet(policy.dns), policy.want_dns,
                   \A p \in ToSet(policy.split) : ~Within(p, a)
            PROVE  RoutedTo(routes, a, Tun)
        BY <2>1, <2>3, <3>1, <3>4, ServersCarried
      <3> QED BY <3>2, <3>3, <3>4 DEF Carried
    <2> QED BY <1>0, <2>1, <2>2, <2>3 DEF UpMeansRouted, Carried, KeptLocal
  <1>2. CASE Plans /\ verdict # "up"
    <2>1. phase' = "routes" /\ ops' = <<>>
      BY <1>2 DEF Plans, Ends
    <2>2. link'[Tun].address /\ link'[Tun].up /\ link'[Tun].mtu <= limit'
      BY <2>1 DEF ConfigOK
    <2>3. Planned(<<>>) /\ Complete(<<>>)
      <3>1. Planned(ops)' /\ Complete(ops)'
        BY <2>1 DEF OpsOK, CompleteOK
      <3>2. Planned(<<>>)
        BY <1>0, <2>1, <3>1 DEF Planned, MayRoute, Pins, TunOps
      <3>3. Complete(<<>>)
        BY <1>0, <2>1, <3>1 DEF Complete, IsTheGateways
      <3> QED BY <3>2, <3>3
    <2>4. ~policy.want_routes
      BY <2>3, NothingPlanned DEF IInv
    <2>5. Carried' = {}
      BY <1>0, <2>4 DEF Carried
    <2> QED BY <2>2, <2>5 DEF UpMeansRouted
  <1>3. CASE verdict = "up"
    <2>1. pc = "done" /\ phase = "routes"
      BY <1>3 DEF IInv, VerdictOK
    <2>2. UNCHANGED <<link, routes, warned, missed, late>> /\ device = device'
      BY <2>1, NetSetupAssumption
      DEF NetNext, OnNetwork, Worker, Helper, Around, netVars, setupVars, systemVars, unseenVars, RefusesPolicy,
          Refused, ByIoctl, ByHelper, NoPrivilege, HelperConfigured, NoPathRead, Plans, DoesNotApply, Dismissed,
          Applies, StopsSuperseded, Validates, RejectsOp, Runs, RunFails, Rechecks, Judges, CannotVerify, Stops,
          DeviceGoes, OtherDevice, NewAttempt, PathChanges
    <2>3. UpMeansRouted
      BY DEF DoneInv
    <2> QED BY <1>0, <1>3, <2>2, <2>3 DEF UpMeansRouted, Carried, KeptLocal
  <1>4. CASE verdict # "up" /\ ~Judges /\ ~Plans
    BY <1>4
    DEF NetNext, OnNetwork, Worker, Helper, Around, netVars, setupVars, systemVars, RefusesPolicy,
        ByIoctl, ByHelper, NoPrivilege, NotConfigured, HelperConfigured, NoPathRead, DoesNotApply, Dismissed,
        CannotVerify, Applies, Ends, StopsSuperseded, Validates, RejectsOp, Runs, RunFails, Rechecks, Stops,
        DeviceGoes, OtherDevice, NewAttempt, PathChanges
  <1> QED BY <1>1, <1>2, <1>3, <1>4

\* Set-up does what it says it has done, whatever interferes: the plan is complete, the
\* routes it added are there, the user knows of those in the way, the device is configured.
THEOREM DoneInvariantHolds == NetSpec => []DoneInv
  <1>1. NetInit => DoneInv
    BY InitDone
  <1>2. IInv /\ DoneInv /\ [NetNext]_netVars => DoneInv'
    <2> SUFFICES ASSUME IInv, DoneInv, [NetNext]_netVars PROVE DoneInv'
      OBVIOUS
    <2>1. CompleteOK' /\ TunnelOK' /\ AddedOK' /\ WarnedOK' /\ ConfigOK'
      BY CompleteStep, TunnelStep, AddedStep, WarnedStep, ConfigStep
    <2>2. UpMeansRouted'
      BY <2>1, OpsStep, UpStep
    <2> QED BY <2>1, <2>2 DEF DoneInv
  <1> QED BY <1>1, <1>2, InvariantHolds, PTL DEF NetSpec

\* "Connected" only appears when what the gateway advertised, and its DNS servers, are
\* routed into the tunnel, but for what the user was warned of or keeps to the local
\* network, and the device has its address and MTU (on_network, shadowed_ranges, apply).
THEOREM UpMeansAllIsRouted == NetSpec => []UpMeansRouted
  <1>1. DoneInv => UpMeansRouted
    BY DEF DoneInv
  <1> QED BY <1>1, DoneInvariantHolds, PTL

-----------------------------------------------------------------------------
(* Set-up that nothing interferes with. *)

\* It is over when it has a verdict; until then the session's device is there, and the
\* helper stops early only if asked for too much.
QuietOK ==
  calm /\ pc # "done" =>
    /\ ~stop /\ device = Tun /\ current /\ verdict = "none"
    /\ phase # "routes" => routes = policy.users
    /\ pc \in {"check", "run", "recheck"} => ~aborted
    /\ pc = "judge" =>
         IF aborted THEN Len(ops) > MaxOps /\ phase = "routes" ELSE Len(results) = Len(ops)

\* The pin comes right after the old ones, along the path there was.
Placed(q) ==
  \A i \in DOMAIN q :
    /\ q[i].op = "pin_add" =>
         /\ NeedsPin(policy) /\ i = Len(policy.stale) + 1
         /\ \A j \in DOMAIN policy.stale : q[j] = policy.stale[j]
         /\ q[i].dev = Lookup(policy.users, policy.gateway).dev
    /\ q[i].op = "dns" => Len(q[i].servers) \in 1 .. MaxDns

PlaceOK == calm /\ phase = "routes" => Placed(ops)

\* As long as the helper only deletes old pins, the user's other routes are left.
Deleted(k) == {Route(ops[j].dest, ops[j].dev, 0) : j \in 1 .. k}
Dels(k) == \A j \in 1 .. k : ops[j].op = "pin_del"
Left(k) == IF registered THEN policy.users \ Deleted(k) ELSE policy.users

PathOK ==
  /\ phase = "routes" /\ pc = "run" /\ ops[at].op = "pin_del" => registered
  /\ calm /\ phase = "routes" =>
       /\ pc \in {"apply", "check", "run"} /\ Dels(at - 1) => routes = Left(at - 1)
       /\ pc = "recheck" /\ Dels(at) => routes = Left(at)

\* What is in a route's place is the user's, the tunnel's or the gateway's.
FromUsersOK ==
  calm /\ phase = "routes" /\ pc # "done" =>
    \A r \in routes : r.metric = 0 =>
      \/ r \in policy.users \/ r.dev = Tun
      \/ policy.gateway # NoAddress /\ r.dest = Host(policy.gateway)

\* No result makes apply fail.
FineOK ==
  calm /\ phase = "routes" /\ Helping /\ ~InTheWay /\ ~PathIsOldPins =>
    \A i \in DOMAIN results : ~Fatal(i)

CalmInv == QuietOK /\ PlaceOK /\ PathOK /\ FromUsersOK /\ FineOK /\ CalmSetupSucceeds

\* What is added after the old pins and the gateway's leaves them where they are.
LEMMA PlacedGrows ==
  ASSUME NEW S, NEW q \in Seq(S), NEW c \in Seq(S), Placed(q), Len(policy.stale) \in Nat,
         DOMAIN policy.stale = 1 .. Len(policy.stale), Len(policy.stale) <= Len(q),
         \A i \in DOMAIN c : /\ c[i].op # "pin_add"
                             /\ c[i].op = "dns" => Len(c[i].servers) \in 1 .. MaxDns
  PROVE  Placed(q \o c) /\ Len(policy.stale) <= Len(q \o c) /\ q \o c \in Seq(S)
  <1> DEFINE t == q \o c
  <1>1. /\ t \in Seq(S) /\ Len(t) = Len(q) + Len(c) /\ Len(q) \in Nat /\ Len(c) \in Nat
        /\ DOMAIN t = 1 .. Len(t) /\ DOMAIN q = 1 .. Len(q) /\ DOMAIN c = 1 .. Len(c)
        /\ \A i \in 1 .. Len(q) : t[i] = q[i]
        /\ \A i \in Len(q) + 1 .. Len(t) : t[i] = c[i - Len(q)]
    OBVIOUS
  <1> HIDE DEF t
  <1>2. ASSUME NEW i \in DOMAIN t
        PROVE  /\ t[i].op = "pin_add" =>
                    /\ NeedsPin(policy) /\ i = Len(policy.stale) + 1
                    /\ \A j \in DOMAIN policy.stale : t[j] = policy.stale[j]
                    /\ t[i].dev = Lookup(policy.users, policy.gateway).dev
               /\ t[i].op = "dns" => Len(t[i].servers) \in 1 .. MaxDns
    <2>1. CASE i \in DOMAIN q
      <3>1. t[i] = q[i]
        BY <1>1, <2>1
      <3>2. \A j \in DOMAIN policy.stale : t[j] = q[j]
        BY <1>1
      <3> QED BY <2>1, <3>1, <3>2 DEF Placed
    <2>2. CASE i \notin DOMAIN q
      <3>1. i - Len(q) \in DOMAIN c /\ t[i] = c[i - Len(q)]
        BY <1>1, <2>2
      <3> QED BY <3>1
    <2> QED BY <2>1, <2>2
  <1> QED BY <1>1, <1>2 DEF Placed, t

\* plan takes the path to the gateway from the table as it is.
LEMMA PlanPlaces ==
  ASSUME PolicyOK, ~PlanFails(policy, policy.users),
         \A r \in policy.users : IsRoute(r) /\ r.dev \in PhysicalDevs
  PROVE  Placed(Plan(policy, policy.users))
  <1> DEFINE table == policy.users
             S == PinDels \cup Pins \cup TunOps
             q1 == policy.stale \o PinPart(table)
             q2 == q1 \o HalvesPart
             q3 == q2 \o RangesPart
             q4 == q3 \o ServersPart
             q5 == q4 \o DnsPart
             L == Len(policy.stale)
  <1>1. Plan(policy, table) = q5 /\ Planned(q1)
    BY PlanParts
  <1>2. q1 \in Seq(S)
    BY <1>1 DEF Planned
  <1>3. /\ HalvesPart \in Seq(S) /\ RangesPart \in Seq(S)
        /\ ServersPart \in Seq(S) /\ DnsPart \in Seq(S)
    <2>1. /\ HalvesPart \in Seq(TunOps) /\ RangesPart \in Seq(TunOps)
          /\ ServersPart \in Seq(TunOps) /\ DnsPart \in Seq(TunOps)
      BY PlanParts
    <2>2. TunOps \subseteq S
      OBVIOUS
    <2> HIDE DEF S
    <2> QED BY <2>1, <2>2
  <1>4. /\ policy.stale \in Seq(PinDels) /\ L \in Nat /\ DOMAIN policy.stale = 1 .. L
        /\ \A i \in 1 .. L : policy.stale[i].op = "pin_del"
    <2>1. policy.stale \in Seq(PinDels)
      BY DEF PolicyOK
    <2> QED BY <2>1, OpKinds
  <1>5. Placed(q1) /\ L <= Len(q1)
    <2> DEFINE pin == PinAdd(Host(policy.gateway), Lookup(table, policy.gateway).dev)
    <2>1. CASE ~NeedsPin(policy)
      <3>1. q1 = policy.stale
        BY <1>4, <2>1 DEF PinPart
      <3> QED BY <1>4, <3>1 DEF Placed
    <2>2. CASE NeedsPin(policy)
      <3>1. q1 = policy.stale \o <<pin>>
        BY <2>2 DEF PinPart
      <3>2. pin.op = "pin_add" /\ pin.dev = Lookup(policy.users, policy.gateway).dev
        BY DEF PinAdd
      <3> HIDE DEF pin
      <3>3. /\ Len(q1) = L + 1 /\ DOMAIN q1 = 1 .. L + 1 /\ q1[L + 1] = pin
            /\ \A i \in 1 .. L : q1[i] = policy.stale[i]
        BY <1>4, <3>1
      <3> HIDE DEF q1
      <3> QED BY <1>4, <2>2, <3>2, <3>3 DEF Placed
    <2> QED BY <2>1, <2>2
  <1>6. /\ \A i \in DOMAIN HalvesPart : HalvesPart[i].op = "route_add"
        /\ \A i \in DOMAIN RangesPart : RangesPart[i].op = "route_add"
        /\ \A i \in DOMAIN ServersPart : ServersPart[i].op = "route_add"
    BY DEF HalvesPart, RangesPart, ServersPart, RouteAdd
  <1>7. \A i \in DOMAIN DnsPart : /\ DnsPart[i].op # "pin_add"
                                  /\ DnsPart[i].op = "dns" => Len(DnsPart[i].servers) \in 1 .. MaxDns
    <2>1. UseDns => Len(policy.dns) \in 1 .. MaxDns
      BY RoutePlanAssumption DEF UseDns, PolicyOK
    <2> QED BY <2>1 DEF DnsPart, LinkOp
  <1> HIDE DEF S, q1
  <1>8. Placed(q2) /\ L <= Len(q2) /\ q2 \in Seq(S)
    BY <1>2, <1>3, <1>4, <1>5, <1>6, PlacedGrows
  <1> HIDE DEF q2
  <1>9. Placed(q3) /\ L <= Len(q3) /\ q3 \in Seq(S)
    BY <1>3, <1>4, <1>6, <1>8, PlacedGrows
  <1> HIDE DEF q3
  <1>10. Placed(q4) /\ L <= Len(q4) /\ q4 \in Seq(S)
    BY <1>3, <1>4, <1>6, <1>9, PlacedGrows
  <1> HIDE DEF q4
  <1>11. Placed(q5)
    BY <1>3, <1>4, <1>7, <1>10, PlacedGrows
  <1> QED BY <1>1, <1>11

\* Initially nothing has interfered.
LEMMA InitCalm ==
  ASSUME NetInit
  PROVE  CalmInv
  BY DEF NetInit, CalmInv, QuietOK, PlaceOK, PathOK, FromUsersOK, FineOK, CalmSetupSucceeds, Helping

\* What interferes is not forgotten.
LEMMA CalmBefore ==
  ASSUME [NetNext]_netVars, calm'
  PROVE  calm
  BY DEF NetNext, OnNetwork, Worker, Helper, Around, netVars, RefusesPolicy, ByIoctl, ByHelper,
         NoPrivilege, NotConfigured, HelperConfigured, NoPathRead, Plans, DoesNotApply, Dismissed, Applies,
         StopsSuperseded, Validates, RejectsOp, Runs, RunFails, Rechecks, Judges, CannotVerify, Stops,
         DeviceGoes, OtherDevice, NewAttempt, PathChanges

\* While nothing interferes, only apply, the helper and the worker's verdict are left once
\* the plan is made.
LEMMA CalmRoutes ==
  ASSUME IInv, QuietOK, [NetNext]_netVars, calm', phase = "routes", pc # "done"
  PROVE  /\ calm /\ device = Tun /\ UNCHANGED <<device, registered, policy, phase, ops>>
         /\ \/ Applies \/ Judges \/ Validates \/ Runs
            \/ Rechecks /\ ~ChangedUnderneath(Op)
            \/ UNCHANGED netVars
  <1>1. calm
    BY CalmBefore
  <1>2. ~stop /\ device = Tun /\ current
    BY <1>1 DEF QuietOK
  <1>3. ~OnNetwork
    BY DEF IInv, PhaseOK, OnNetwork, RefusesPolicy, Refused, ByIoctl, ByHelper, NoPrivilege,
           HelperConfigured, NoPathRead, Plans
  <1>4. ~(Stops \/ PathChanges \/ NewAttempt \/ Dismissed \/ RejectsOp \/ RunFails \/ CannotVerify)
    BY DEF Stops, PathChanges, NewAttempt, Dismissed, RejectsOp, RunFails, CannotVerify
  <1>5. ~(DeviceGoes \/ OtherDevice \/ DoesNotApply \/ StopsSuperseded)
    BY <1>2, NetSetupAssumption DEF DeviceGoes, OtherDevice, DoesNotApply, StopsSuperseded, Superseded
  <1>6. ~ChangedUnderneath(Op)
    BY <1>2 DEF ChangedUnderneath, SessionTun
  <1>7. Applies \/ Judges \/ Validates \/ Runs \/ Rechecks \/ UNCHANGED netVars
    BY <1>3, <1>4, <1>5 DEF NetNext, Worker, Helper, Around
  <1>8. UNCHANGED <<device, registered>>
    BY <1>7 DEF Applies, Judges, CannotVerify, Validates, Runs, Rechecks, netVars, systemVars
  <1> QED BY <1>1, <1>2, <1>6, <1>7, <1>8, PolicyStays, ResultsGrow

\* A set-up that is over stays as it was.
LEMMA OverStays ==
  ASSUME IInv, [NetNext]_netVars, pc = "done"
  PROVE  UNCHANGED <<pc, phase, ops, at, commands, results, aborted, verdict, policy, registered>>
  BY NetSetupAssumption
  DEF NetNext, OnNetwork, Worker, Helper, Around, netVars, setupVars, systemVars, RefusesPolicy, Refused,
      ByIoctl,
         ByHelper, NoPrivilege, HelperConfigured, NoPathRead, Plans, DoesNotApply, Dismissed, Applies,
         StopsSuperseded, Validates, RejectsOp, Runs, RunFails, Rechecks, Judges, CannotVerify, Stops,
         DeviceGoes, OtherDevice, NewAttempt, PathChanges

\* Nothing but a verdict ends it, and the helper comes to the end of the operations.
LEMMA QuietStep ==
  ASSUME IInv, CalmInv, [NetNext]_netVars
  PROVE  QuietOK'
  <1> SUFFICES ASSUME calm', pc' # "done" PROVE QuietOK'
    BY DEF QuietOK
  <1>0. /\ calm /\ pc # "done" /\ PhaseOK /\ ResultsOK /\ QuietOK
        /\ DOMAIN ops = 1 .. Len(ops) /\ Len(ops) \in Nat /\ at \in Nat /\ results \in Seq(Results)
    BY CalmBefore, OverStays, OpIs DEF CalmInv, IInv, ResultsOK
  <1>a. Len(ops) \in Nat /\ at \in Nat /\ results \in Seq(Results) /\ (at \in DOMAIN ops => at <= Len(ops))
    BY <1>0
  <1>1. /\ ~stop /\ device = Tun /\ current /\ verdict = "none"
        /\ phase # "routes" => routes = policy.users
    BY <1>0 DEF QuietOK
  <1>2. policy' = policy
    BY PolicyStays
  <1>3. CASE OnNetwork
    <2>1. /\ UNCHANGED <<stop, device, current, verdict, routes>>
          /\ pc' \notin {"run", "recheck", "judge"} /\ phase # "routes"
          /\ pc' = "check" => ~aborted'
      <3>1. CASE RefusesPolicy \/ ByIoctl \/ ByHelper \/ NoPrivilege
        BY <1>0, <3>1
        DEF RefusesPolicy, ByIoctl, ByHelper, NoPrivilege, NotConfigured, Ends, After, systemVars, PhaseOK
      <3>2. CASE HelperConfigured
        BY <3>2 DEF HelperConfigured, NotConfigured, Ends, After
      <3>3. CASE Plans
        BY <1>0, <3>3 DEF Plans, Ends, PhaseOK
      <3>4. ~NoPathRead
        BY DEF NoPathRead
      <3> QED BY <1>3, <3>1, <3>2, <3>3, <3>4 DEF OnNetwork
    <2> QED BY <1>1, <1>2, <2>1 DEF QuietOK
  <1>4. CASE Applies
    <2>1. /\ UNCHANGED <<stop, device, current, verdict, routes, phase, ops>> /\ phase = "routes"
          /\ IF aborted' THEN pc' = "judge" /\ Len(ops) > MaxOps ELSE pc' = "check"
      BY <1>0, <1>4 DEF Applies, systemVars, PhaseOK
    <2> QED BY <1>1, <2>1 DEF QuietOK
  <1>5. CASE Validates
    <2>0. pc = "check" /\ ~aborted /\ Len(results) = at - 1 /\ at \in DOMAIN ops
      BY <1>0, <1>5 DEF Validates, QuietOK, ResultsOK
    <2>1. /\ UNCHANGED <<stop, device, current, verdict, routes, phase, ops, aborted>>
          /\ pc' \in {"check", "run", "judge"}
          /\ pc' = "judge" => results' = Append(results, "rejected") /\ ~(at < Len(ops))
      BY <1>5 DEF Validates, NextOp, systemVars
    <2>2. ASSUME pc' = "judge" PROVE Len(results') = Len(ops)
      <3>1. at = Len(ops) /\ Len(results) = at - 1 /\ results' = Append(results, "rejected")
        <4>1. at <= Len(ops) /\ ~(at < Len(ops))
          BY <1>a, <2>0, <2>1, <2>2
        <4> QED BY <1>a, <2>0, <2>1, <2>2, <4>1
      <3> QED BY <1>a, <3>1
    <2> QED BY <1>1, <1>2, <2>0, <2>1, <2>2 DEF QuietOK
  <1>6. CASE Runs
    <2>0. pc = "run" /\ ~aborted /\ at \in DOMAIN ops
      BY <1>0, <1>6 DEF Runs, QuietOK, ResultsOK
    <2>1. /\ UNCHANGED <<stop, device, current, verdict, phase, ops, aborted>> /\ pc' = "recheck"
          /\ \/ routes' = routes
             \/ routes' = RoutesAfter(Op, Named(Op))
      BY <1>6 DEF Runs
    <2>2. phase # "routes" => routes' = routes
      <3>1. phase # "routes" => Op.op \in {"addr", "link_up", "mtu"}
        BY <2>0, OpIs, OpKinds DEF Op, IInv
      <3> QED BY <2>1, <3>1 DEF RoutesAfter
    <2> QED BY <1>1, <1>2, <2>0, <2>1, <2>2 DEF QuietOK
  <1>7. CASE Rechecks
    <2>0. /\ pc = "recheck" /\ ~aborted /\ ~ChangedUnderneath(Op) /\ at \in DOMAIN ops
          /\ Len(results) \in {at - 1, at}
      BY <1>0, <1>1, <1>7 DEF Rechecks, QuietOK, ChangedUnderneath, SessionTun, ResultsOK
    <2>1. /\ UNCHANGED <<stop, device, current, verdict, routes, phase, ops, aborted>>
          /\ pc' \in {"check", "run", "judge"}
          /\ pc' = "judge" =>
               /\ ~(at < Len(ops))
               /\ \/ Len(results) = at /\ results' = results
                  \/ Len(results) # at /\ results' = Append(results, "ok")
      <3>1. UNCHANGED <<stop, device, current, verdict, routes, phase, ops, aborted>>
        BY <1>7, <2>0 DEF Rechecks, systemVars
      <3>2. CASE Len(results) = at
        BY <1>7, <2>0, <3>1, <3>2 DEF Rechecks
      <3>3. CASE Len(results) # at
        BY <1>7, <2>0, <3>1, <3>3 DEF Rechecks, NextOp
      <3> QED BY <3>1, <3>2, <3>3
    <2>2. ASSUME pc' = "judge" PROVE Len(results') = Len(ops)
      <3>1. at = Len(ops)
        <4>1. at <= Len(ops) /\ ~(at < Len(ops))
          BY <1>a, <2>0, <2>1, <2>2
        <4> QED BY <1>a, <4>1
      <3>2. CASE Len(results) = at /\ results' = results
        BY <3>1, <3>2
      <3>3. CASE Len(results) = at - 1 /\ results' = Append(results, "ok")
        BY <1>a, <3>1, <3>3
      <3> QED BY <2>0, <2>1, <2>2, <3>2, <3>3
    <2> QED BY <1>1, <1>2, <2>0, <2>1, <2>2 DEF QuietOK
  <1>8. CASE UNCHANGED netVars
    BY <1>0, <1>8 DEF QuietOK, netVars, setupVars, systemVars
  <1>9. ~(\/ Judges \/ CannotVerify \/ Dismissed \/ DoesNotApply \/ RejectsOp \/ RunFails
          \/ Stops \/ PathChanges \/ NewAttempt)
    BY DEF Judges, CannotVerify, Dismissed, DoesNotApply, Ends, RejectsOp, RunFails, Stops, PathChanges,
           NewAttempt
  <1>10. ~(DeviceGoes \/ OtherDevice \/ StopsSuperseded)
    BY <1>1, NetSetupAssumption DEF DeviceGoes, OtherDevice, StopsSuperseded, Superseded
  <1> QED
    BY <1>3, <1>4, <1>5, <1>6, <1>7, <1>8, <1>9, <1>10 DEF NetNext, Worker, Helper, Around

\* The plan is made of the table as the user left it, and stays.
LEMMA PlaceStep ==
  ASSUME IInv, CalmInv, [NetNext]_netVars
  PROVE  PlaceOK'
  <1> SUFFICES ASSUME calm', phase' = "routes" PROVE Placed(ops)'
    BY DEF PlaceOK
  <1>0. calm /\ policy' = policy
    BY CalmBefore, PolicyStays
  <1>1. CASE phase = "routes"
    <2>1. ops' = ops /\ Placed(ops)
      BY <1>0, <1>1, ResultsGrow DEF CalmInv, PlaceOK
    <2> QED BY <1>0, <2>1 DEF Placed
  <1>2. CASE phase # "routes"
    <2>1. ~PlanFails(policy, routes) /\ ops' = Plan(policy, routes) /\ pc # "done"
      BY <1>2, RoutesPhase DEF Plans
    <2>2. routes = policy.users
      BY <1>0, <1>2, <2>1 DEF CalmInv, QuietOK
    <2> DEFINE new == Plan(policy, policy.users)
    <2>3. Placed(new)
      BY <1>2, <2>1, <2>2, UsersRoutes, PlanPlaces DEF IInv
    <2>4. ops' = new
      BY <2>1, <2>2
    <2> HIDE DEF new
    <2> QED BY <1>0, <2>3, <2>4 DEF Placed
  <1> QED BY <1>1, <1>2

\* Deleting an old pin leaves the others.
LEMMA PathStep ==
  ASSUME IInv, CalmInv, [NetNext]_netVars
  PROVE  PathOK'
  <1>0. /\ ResultsOK /\ PathOK /\ DOMAIN ops = 1 .. Len(ops) /\ Len(ops) \in Nat /\ at \in Nat
    BY OpIs DEF CalmInv, IInv, ResultsOK
  <1>1. ASSUME phase' = "routes", pc' = "run", ops'[at'].op = "pin_del"
        PROVE  registered'
    <2>1. phase = "routes" /\ ops' = ops
      BY <1>1, RoutesPhase, ResultsGrow
    <2>2. registered' = registered
      BY DEF NetNext, OnNetwork, Worker, Helper, Around, netVars, systemVars, RefusesPolicy, ByIoctl,
             ByHelper, NoPrivilege, HelperConfigured, NoPathRead, Plans, DoesNotApply, Dismissed, Applies,
             StopsSuperseded, Validates, RejectsOp, Runs, RunFails, Rechecks, Judges, CannotVerify, Stops,
             DeviceGoes, OtherDevice, NewAttempt, PathChanges
    <2>3. CASE Validates
      <3>1. Accepts(Op) /\ at' = at
        BY <1>1, <2>3 DEF Validates, NextOp
      <3> QED BY <1>1, <2>1, <2>2, <3>1 DEF Accepts, Op
    <2>4. CASE Rechecks
      <3>1. commands # <<>> /\ at' = at /\ pc = "recheck"
        BY <1>1, <2>4 DEF Rechecks, NextOp
      <3>2. ops[at].op = "addr"
        BY <1>0, <3>1 DEF ResultsOK
      <3> QED BY <1>1, <2>1, <3>1, <3>2
    <2>5. CASE pc = "run" /\ at' = at
      BY <1>0, <1>1, <2>1, <2>2, <2>5 DEF PathOK
    <2> QED
      BY <1>1, <2>1, <2>3, <2>4, <2>5
      DEF NetNext, OnNetwork, Worker, Helper, Around, netVars, setupVars, RefusesPolicy, ByIoctl, After,
          ByHelper, NoPrivilege, NotConfigured, HelperConfigured, NoPathRead, Plans, DoesNotApply,
          Dismissed, Applies, Ends,
          StopsSuperseded, RejectsOp, NextOp, Runs, RunFails, Judges, CannotVerify, Stops,
          DeviceGoes, OtherDevice, NewAttempt, PathChanges
  <1>2. ASSUME calm', phase' = "routes", phase # "routes"
        PROVE  pc' \in {"apply", "done"} /\ at' = 1 /\ routes' = policy'.users
    <2>1. Plans /\ ~PlanFails(policy, routes) /\ routes' = routes /\ pc' \in {"apply", "done"}
      BY <1>2, RoutesPhase
    <2>2. at' = 1 /\ pc = "plan"
      BY <2>1 DEF Plans
    <2>3. routes = policy.users
      BY <1>2, <2>2, CalmBefore DEF CalmInv, QuietOK
    <2> QED BY <2>1, <2>2, <2>3, PolicyStays
  <1>3. ASSUME calm', phase = "routes", pc # "done", NEW k \in Nat, Dels(k),
               \/ pc' \in {"apply", "check", "run"} /\ k = at' - 1
               \/ pc' = "recheck" /\ k = at'
        PROVE  routes' = Left(k)
    <2>0. /\ calm /\ device = Tun /\ UNCHANGED <<device, registered, policy, phase, ops>>
          /\ \/ Applies \/ Judges \/ Validates \/ Runs
             \/ Rechecks /\ ~ChangedUnderneath(Op)
             \/ UNCHANGED netVars
      BY <1>3, CalmRoutes DEF CalmInv
    <2>1. /\ pc \in {"apply", "check", "run"} /\ Dels(at - 1) => routes = Left(at - 1)
          /\ pc = "recheck" /\ Dels(at) => routes = Left(at)
      BY <1>0, <1>3, <2>0 DEF PathOK
    <2>2. CASE Applies
      <3>1. at' = at /\ pc = "apply" /\ routes' = routes /\ pc' \in {"check", "judge"}
        BY <2>2 DEF Applies, systemVars
      <3> QED BY <1>3, <2>1, <3>1
    <2>3. CASE Judges
      BY <1>3, <2>3 DEF Judges, CannotVerify, Ends
    <2>4. CASE Validates
      <3>1. pc = "check" /\ routes' = routes /\ at \in Nat \ {0} /\ at \in DOMAIN ops
        BY <1>0, <2>4 DEF Validates, systemVars, ResultsOK
      <3>2. CASE Accepts(Op)
        <4>1. at' = at /\ pc' = "run"
          BY <2>4, <3>2 DEF Validates
        <4> QED BY <1>3, <2>1, <3>1, <4>1
      <3>3. CASE ~Accepts(Op)
        <4>1. pc' \in {"check", "judge"} /\ (pc' = "check" => at' = at + 1)
          BY <2>4, <3>3 DEF Validates, NextOp
        <4>2. k = at
          BY <1>3, <3>1, <4>1
        <4>3. Dels(at - 1) /\ ops[at].op = "pin_del"
          BY <1>3, <3>1, <4>2 DEF Dels
        <4>4. ~registered
          BY <3>3, <4>3 DEF Accepts, Op
        <4>5. routes = Left(at - 1)
          BY <2>1, <3>1, <4>3
        <4> QED BY <3>1, <4>4, <4>5 DEF Left
      <3> QED BY <3>2, <3>3
    <2>5. CASE Runs
      <3>1. pc = "run" /\ pc' = "recheck" /\ at' = at /\ at \in Nat \ {0} /\ at \in DOMAIN ops
        BY <1>0, <2>5 DEF Runs, ResultsOK
      <3>2. k = at
        BY <1>3, <3>1
      <3>3. Dels(at - 1) /\ ops[at].op = "pin_del"
        BY <1>3, <3>1, <3>2 DEF Dels
      <3>4. registered /\ routes = policy.users \ Deleted(at - 1)
        <4>1. registered
          BY <1>0, <1>3, <3>1, <3>3 DEF PathOK
        <4> QED BY <2>1, <3>1, <3>3, <4>1 DEF Left
      <3> DEFINE r == Route(ops[at].dest, ops[at].dev, 0)
      <3>5. ops[at].dev \in PhysicalDevs
        BY <1>3, <3>1, <3>3, OpIs, OpKinds DEF IInv
      <3>6. Named(Op) # "none"
        BY <3>3, <3>5, NetSetupAssumption DEF Named, Op
      <3>7. routes' = routes \ {r}
        <4>1. CASE r \notin routes
          <5>1. Outcome(Op) = "gone"
            BY <3>3, <4>1 DEF Outcome, Op
          <5>2. routes' = routes
            BY <2>5, <5>1 DEF Runs
          <5> HIDE DEF r
          <5> QED BY <4>1, <5>2
        <4>2. CASE r \in routes
          <5>1. Outcome(Op) = "ok"
            BY <3>3, <4>2 DEF Outcome, Op
          <5>2. routes' = RoutesAfter(Op, Named(Op))
            BY <2>5, <3>6, <5>1 DEF Runs
          <5> QED BY <3>3, <5>2 DEF RoutesAfter, Op
        <4> QED BY <4>1, <4>2
      <3>8. Deleted(at) = Deleted(at - 1) \cup {r}
        <4>1. 1 .. at = (1 .. at - 1) \cup {at}
          BY <3>1
        <4> QED BY <4>1 DEF Deleted
      <3> HIDE DEF r
      <3> QED BY <3>2, <3>4, <3>7, <3>8 DEF Left
    <2>6. CASE Rechecks /\ ~ChangedUnderneath(Op)
      <3>1. pc = "recheck" /\ routes' = routes /\ at \in Nat
        BY <1>0, <2>6 DEF Rechecks, systemVars
      <3>2. \/ pc' = "judge"
            \/ pc' = "check" /\ at' = at + 1
            \/ pc' = "run" /\ at' = at /\ commands # <<>>
        BY <2>6 DEF Rechecks, NextOp
      <3>3. CASE pc' = "judge"
        BY <1>3, <3>3
      <3>4. CASE pc' = "check" /\ at' = at + 1
        BY <1>3, <2>1, <3>1, <3>4
      <3>5. CASE pc' = "run" /\ at' = at /\ commands # <<>>
        <4>1. ops[at].op = "addr" /\ at \in DOMAIN ops
          BY <1>0, <3>1, <3>5 DEF ResultsOK
        <4> QED BY <1>3, <4>1, OpIs, OpKinds DEF IInv
      <3> QED BY <3>2, <3>3, <3>4, <3>5
    <2>7. CASE UNCHANGED netVars
      <3>1. UNCHANGED <<pc, at, routes>>
        BY <2>7 DEF netVars, setupVars, systemVars
      <3> QED BY <1>3, <2>1, <3>1
    <2> QED BY <2>0, <2>2, <2>3, <2>4, <2>5, <2>6, <2>7
  <1>4. ASSUME calm', phase = "routes", pc # "done"
        PROVE  /\ pc' \in {"apply", "check", "run"} /\ (\A j \in 1 .. at' - 1 : ops'[j].op = "pin_del") =>
                    routes' = IF registered' THEN policy'.users \ {Route(ops'[j].dest, ops'[j].dev,
                    0) : j \in 1 .. at' - 1}
                              ELSE policy'.users
               /\ pc' = "recheck" /\ (\A j \in 1 .. at' : ops'[j].op = "pin_del") =>
                    routes' = IF registered' THEN policy'.users \ {Route(ops'[j].dest, ops'[j].dev,
                    0) : j \in 1 .. at'}
                              ELSE policy'.users
    <2>0. UNCHANGED <<registered, policy, ops>>
      BY <1>4, CalmRoutes DEF CalmInv
    <2>1. /\ at' \in Nat
          /\ pc' \in {"apply", "check", "run"} => at' - 1 \in Nat
      <3>1. ResultsOK' /\ PhaseOK'
        BY ResultsStep, PhaseStep
      <3>2. at' \in Nat /\ (pc' = "apply" => at' = 1)
        BY <3>1 DEF ResultsOK, PhaseOK
      <3>3. \A n \in DOMAIN ops : n >= 1
        BY <1>0
      <3>4. pc' \in {"check", "run"} => at' \in DOMAIN ops
        BY <2>0, <3>1 DEF ResultsOK
      <3>5. pc' \in {"check", "run"} => at' >= 1
        BY <3>3, <3>4
      <3>6. \A n \in Nat : n >= 1 => n - 1 \in Nat
        OBVIOUS
      <3>7. pc' \in {"apply", "check", "run"} => at' >= 1
        BY <3>2, <3>5
      <3> QED BY ONLY <3>2, <3>6, <3>7
    <2>2. ASSUME pc' \in {"apply", "check", "run"}, \A j \in 1 .. at' - 1 : ops'[j].op = "pin_del"
          PROVE  routes' = IF registered' THEN policy'.users \ {Route(ops'[j].dest, ops'[j].dev,
          0) : j \in 1 .. at' - 1}
                           ELSE policy'.users
      <3> DEFINE k == at' - 1
      <3>1. k \in Nat /\ Dels(k)
        BY <2>0, <2>1, <2>2 DEF Dels
      <3>2. routes' = Left(k)
        BY <1>3, <1>4, <2>2, <3>1
      <3> QED BY <2>0, <3>2 DEF Left, Deleted
    <2>3. ASSUME pc' = "recheck", \A j \in 1 .. at' : ops'[j].op = "pin_del"
          PROVE  routes' = IF registered' THEN policy'.users \ {Route(ops'[j].dest, ops'[j].dev,
          0) : j \in 1 .. at'}
                           ELSE policy'.users
      <3> DEFINE k == at'
      <3>1. k \in Nat /\ Dels(k)
        BY <2>0, <2>1, <2>3 DEF Dels
      <3>2. routes' = Left(k)
        BY <1>3, <1>4, <2>3, <3>1
      <3> QED BY <2>0, <3>2 DEF Left, Deleted
    <2> QED BY <2>2, <2>3
  <1>5. pc = "done" => pc' = "done"
    BY OverStays
  <1>6. ASSUME calm', phase' = "routes", phase # "routes"
        PROVE  pc' \notin {"check", "run", "recheck"} /\ (pc' = "apply" => routes' = Left(at - 1)')
    <2>1. 1 .. at' - 1 = {}
      BY <1>2, <1>6
    <2>2. {Route(ops'[j].dest, ops'[j].dev, 0) : j \in 1 .. at' - 1} = {}
      BY <2>1
    <2> QED BY <1>2, <1>6, <2>2 DEF Left, Deleted
  <1>7. ASSUME calm', phase' = "routes"
        PROVE  /\ pc' \in {"apply", "check", "run"} /\ Dels(at - 1)' => routes' = Left(at - 1)'
               /\ pc' = "recheck" /\ Dels(at)' => routes' = Left(at)'
    <2>1. CASE phase = "routes" /\ pc # "done"
      BY <1>4, <1>7, <2>1 DEF Left, Deleted, Dels
    <2>2. CASE phase # "routes"
      BY <1>6, <1>7, <2>2
    <2>3. CASE pc = "done"
      BY <1>5, <2>3
    <2> QED BY <2>1, <2>2, <2>3
  <1> QED BY <1>1, <1>7 DEF PathOK

\* The helper adds what leads into the tunnel, and the pin.
LEMMA FromUsersStep ==
  ASSUME IInv, CalmInv, [NetNext]_netVars
  PROVE  FromUsersOK'
  <1> SUFFICES ASSUME calm', phase' = "routes", pc' # "done", NEW r \in routes', r.metric = 0
               PROVE  \/ r \in policy'.users \/ r.dev = Tun
                      \/ policy'.gateway # NoAddress /\ r.dest = Host(policy'.gateway)
    BY DEF FromUsersOK
  <1>0. calm /\ policy' = policy /\ pc # "done"
    BY CalmBefore, PolicyStays, OverStays
  <1>1. CASE phase # "routes"
    BY <1>0, <1>1, RoutesPhase DEF CalmInv, QuietOK
  <1>2. CASE phase = "routes" /\ r \in routes
    BY <1>0, <1>2 DEF CalmInv, FromUsersOK
  <1>3. CASE phase = "routes" /\ r \notin routes
    <2>1. Runs /\ device = Tun
      BY <1>0, <1>3, CalmRoutes DEF CalmInv, Applies, Judges, CannotVerify, Validates, Rechecks, netVars,
             systemVars
    <2>2. /\ Op.op \in {"route_add", "pin_add"} /\ r = Route(Op.dest, Named(Op), 0)
          /\ at \in DOMAIN ops
      BY <1>3, <2>1 DEF Runs, RoutesAfter, IInv, ResultsOK
    <2>3. CASE Op.op = "route_add"
      BY <2>1, <2>2, <2>3 DEF Named, Route
    <2>4. CASE Op.op = "pin_add"
      BY <1>0, <1>3, <2>2, <2>4, PinOrder DEF IsPin, Op, Route
    <2> QED BY <2>2, <2>3, <2>4
  <1> QED BY <1>1, <1>2, <1>3

\* When the pin's turn comes, the path to the gateway is the one the plan found, unless that
\* was an old pin's.
LEMMA PinPath ==
  ASSUME IInv, CalmInv, calm, phase = "routes", pc \in {"check", "run"}, at \in DOMAIN ops,
         ops[at].op = "pin_add", ~PathIsOldPins
  PROVE  RoutedTo(routes, policy.gateway, ops[at].dev)
  <1> DEFINE stale == policy.stale
             old == {Route(stale[j].dest, stale[j].dev, 0) : j \in DOMAIN stale}
             left == IF registered THEN policy.users \ old ELSE policy.users
  <1>1. /\ NeedsPin(policy) /\ at = Len(stale) + 1
        /\ \A j \in DOMAIN stale : ops[j] = stale[j]
        /\ ops[at].dev = Lookup(policy.users, policy.gateway).dev
    BY DEF CalmInv, PlaceOK, Placed
  <1>2. stale \in Seq(PinDels)
    BY DEF IInv, PolicyOK
  <1>3. Len(stale) \in Nat /\ DOMAIN stale = 1 .. Len(stale) /\ \A j \in DOMAIN stale : stale[j].op = "pin_del"
    BY <1>2, OpKinds
  <1>4. RoutedTo(left, policy.gateway, ops[at].dev)
    BY <1>1 DEF PathIsOldPins
  <1> HIDE DEF stale
  <1>5. 1 .. at - 1 = DOMAIN stale
    BY <1>1, <1>3
  <1>6. Dels(at - 1) /\ Deleted(at - 1) = old
    BY <1>1, <1>3, <1>5 DEF Dels, Deleted
  <1>7. routes = Left(at - 1)
    BY <1>6 DEF CalmInv, PathOK
  <1> HIDE DEF old
  <1>8. Left(at - 1) = left
    BY <1>6 DEF Left
  <1> QED BY <1>4, <1>7, <1>8

\* What is there already stays there.
LEMMA ExistsStays ==
  ASSUME IInv, QuietOK, [NetNext]_netVars, calm', phase = "routes", pc # "done",
         NEW i \in DOMAIN results, ops[i].op # "pin_del", Exists(ops[i])
  PROVE  \E r \in routes' : r.dest = ops[i].dest /\ r.dev = (IF ops[i].dev = Tun THEN device' ELSE ops[i].dev)
  <1>0. /\ device = Tun /\ device' = device
        /\ Applies \/ Judges \/ Validates \/ Runs \/ Rechecks \/ UNCHANGED netVars
    BY CalmRoutes
  <1>1. PICK r \in routes : r.dest = ops[i].dest /\ r.dev = (IF ops[i].dev = Tun THEN device ELSE ops[i].dev)
    BY DEF Exists
  <1>2. CASE UNCHANGED routes
    BY <1>0, <1>1, <1>2
  <1>3. CASE Runs /\ ~(routes \subseteq routes')
    <2>1. Op.op = "pin_del" /\ routes' = routes \ {Route(Op.dest, Op.dev, 0)}
      BY <1>3 DEF Runs, RoutesAfter
    <2>2. /\ at \in DOMAIN ops /\ Len(results) = at - 1 /\ results \in Seq(Results) /\ at \in Nat
          /\ Len(results) <= Len(ops)
      BY <1>3 DEF Runs, IInv, ResultsOK
    <2>3. i < at /\ i \in DOMAIN ops
      <3>1. DOMAIN ops = 1 .. Len(ops) /\ Len(ops) \in Nat
        BY OpIs DEF IInv
      <3> QED BY <2>2, <3>1
    <2>4. ops[i] \notin Pins
      <3>1. ops[i].op # "pin_add"
        <4>1. IsPin(i) => at < i
          BY <2>1, <2>2, <2>3, PinOrder DEF Op
        <4>2. i \in Nat
          BY <2>2
        <4> QED BY <2>2, <2>3, <4>1, <4>2 DEF IsPin
      <3> QED BY <3>1, OpKinds
    <2>5. ops[i] \in TunOps
      BY <2>3, <2>4, OpIs, OpKinds DEF IInv
    <2>6. ops[i].dev = Tun
      BY <2>5 DEF TunOps
    <2>7. Op.dev \in PhysicalDevs
      BY <2>1, <2>2, OpIs, OpKinds DEF IInv, Op
    <2>8. r # Route(Op.dest, Op.dev, 0)
      BY <1>0, <1>1, <2>6, <2>7, NetSetupAssumption DEF Route
    <2> QED BY <1>0, <1>1, <2>1, <2>8
  <1>4. CASE routes \subseteq routes'
    BY <1>0, <1>1, <1>4
  <1> QED
    BY <1>0, <1>2, <1>3, <1>4 DEF Applies, Judges, CannotVerify, Validates, Rechecks, netVars, systemVars

\* What the helper finds in the place of a route is the route, or the user's; of the pin, the
\* path to the gateway.
LEMMA FoundIsOurs ==
  ASSUME IInv, CalmInv, calm, phase = "routes", pc = "run", ~InTheWay, ~PathIsOldPins,
         Op.op \in {"route_add", "pin_add"}, SameRoute(Op) # {}
  PROVE  Exists(Op)
  <1>0. at \in DOMAIN ops /\ device = Tun /\ Op \in PinDels \cup Pins \cup TunOps
    <2>1. at \in DOMAIN ops
      BY DEF IInv, ResultsOK
    <2> QED BY <2>1, OpIs DEF CalmInv, QuietOK, IInv, Op
  <1>1. PICK r \in routes : r.dest = Op.dest /\ r.metric = 0
    BY DEF SameRoute
  <1>2. CASE Op.op = "route_add"
    <2>1. Op \in TunOps /\ Op.dest \in MayRoute
      BY <1>0, <1>2, OpKinds
    <2>2. Op.dev = Tun
      BY <2>1 DEF TunOps
    <2>3. r \notin policy.users
      BY <1>0, <1>1, <1>2 DEF InTheWay, Op
    <2>4. ~(policy.gateway # NoAddress /\ r.dest = Host(policy.gateway))
      BY <1>1, <2>1 DEF MayRoute
    <2>5. r.dev = Tun
      BY <1>1, <2>3, <2>4 DEF CalmInv, FromUsersOK
    <2> QED BY <1>0, <1>1, <2>2, <2>5 DEF Exists
  <1>3. CASE Op.op = "pin_add"
    <2>1. policy.gateway # NoAddress /\ Op.dest = Host(policy.gateway)
      BY <1>0, <1>3, PinOrder DEF IsPin, Op
    <2>2. Op.dev \in PhysicalDevs
      BY <1>0, <1>3, OpKinds
    <2>3. RoutedTo(routes, policy.gateway, Op.dev)
      BY <1>0, <1>3, PinPath DEF Op
    <2>4. \E x \in routes : x.dest = Host(policy.gateway) /\ x.dev = Op.dev
      BY <1>1, <2>1, <2>3, PinIsBest DEF IInv
    <2> QED BY <2>1, <2>2, <2>4, NetSetupAssumption DEF Exists
  <1> QED BY <1>2, <1>3

\* The helper takes all of the plan.
LEMMA AcceptsAll ==
  ASSUME IInv, CalmInv, calm, phase = "routes", pc = "check", ~PathIsOldPins,
         Op.op # "pin_del"
  PROVE  Accepts(Op)
  <1>0. at \in DOMAIN ops /\ device = Tun
    BY DEF IInv, ResultsOK, CalmInv, QuietOK
  <1>1. CASE Op.op = "pin_add"
    <2>1. RoutedTo(routes, policy.gateway, Op.dev)
      BY <1>0, <1>1, PinPath DEF Op
    <2>2. Op.dest.net = policy.gateway
      <3>1. policy.gateway # NoAddress /\ Op.dest = Host(policy.gateway)
        BY <1>0, <1>1, PinOrder DEF IsPin, Op
      <3> QED BY <3>1, GatewayHost DEF IInv
    <2> QED BY <1>0, <1>1, <2>1, <2>2 DEF Accepts, SessionTun, CurrentPath
  <1>2. CASE Op.op = "dns"
    <2>1. Len(Op.servers) \in 1 .. MaxDns
      BY <1>0, <1>2 DEF CalmInv, PlaceOK, Placed, Op
    <2> QED BY <1>0, <1>2, <2>1 DEF Accepts, SessionTun
  <1>3. CASE Op.op \notin {"pin_add", "dns"}
    BY <1>0, <1>3 DEF Accepts, SessionTun
  <1> QED BY <1>1, <1>2, <1>3

\* A result is fatal only if a route of the user's is in the way, or the path was an old pin's.
LEMMA FineStep ==
  ASSUME IInv, CalmInv, [NetNext]_netVars
  PROVE  FineOK'
  <1> SUFFICES ASSUME calm', phase' = "routes", Helping', ~InTheWay', ~PathIsOldPins',
                      NEW i \in DOMAIN results'
               PROVE  ~Fatal(i)'
    BY DEF FineOK
  <1>1. phase = "routes" /\ pc # "done"
    BY RoutesPhase, OverStays DEF Helping
  <1>2. /\ calm /\ device = Tun /\ UNCHANGED <<device, registered, policy, phase, ops>>
        /\ \/ Applies \/ Judges \/ Validates \/ Runs
           \/ Rechecks /\ ~ChangedUnderneath(Op)
           \/ UNCHANGED netVars
    BY <1>1, CalmRoutes DEF CalmInv
  <1>3. ~InTheWay /\ ~PathIsOldPins
    BY <1>2 DEF InTheWay, PathIsOldPins
  <1>4. results \in Seq(Results) /\ at \in Nat /\ (pc \in {"check", "run"} => Len(results) = at - 1)
    BY DEF IInv, ResultsOK
  <1>5. \A k \in DOMAIN results : ~Fatal(k)
    <2>1. CASE pc = "apply"
      BY <2>1 DEF IInv, PhaseOK
    <2>2. CASE pc # "apply"
      BY <1>1, <1>2, <1>3, <2>2 DEF CalmInv, FineOK, Helping, IInv, PhaseOK
    <2> QED BY <2>1, <2>2
  <1>6. ASSUME i \in DOMAIN results, results'[i] = results[i]
        PROVE  ~Fatal(i)'
    <2>1. ops[i].op = "pin_del" \/ results[i] = "ok" \/ (results[i] = "exists" /\ Exists(ops[i]))
      BY <1>5, <1>6 DEF Fatal, Preexisting
    <2>2. CASE ops[i].op = "pin_del" \/ results[i] = "ok"
      BY <1>2, <1>6, <2>2 DEF Fatal
    <2>3. CASE ops[i].op # "pin_del" /\ results[i] = "exists" /\ Exists(ops[i])
      <3>1. \E r \in routes' : r.dest = ops[i].dest /\ r.dev = (IF ops[i].dev = Tun THEN device' ELSE ops[i].dev)
        BY <1>1, <1>6, <2>3, ExistsStays DEF CalmInv
      <3> QED BY <1>2, <1>6, <2>3, <3>1 DEF Fatal, Preexisting, Exists
    <2> QED BY <2>1, <2>2, <2>3
  <1>7. ASSUME NEW out, results' = Append(results, out),
               i = Len(results) + 1 => ~Fatal(i)'
        PROVE  ~Fatal(i)'
    <2>1. (i \in DOMAIN results /\ results'[i] = results[i]) \/ i = Len(results) + 1
      BY <1>4, <1>7
    <2> QED BY <1>6, <1>7, <2>1
  <1>8. CASE UNCHANGED results
    BY <1>6, <1>8
  <1>9. CASE Validates
    <2>1. CASE Accepts(Op)
      BY <1>8, <1>9, <2>1 DEF Validates
    <2>2. CASE ~Accepts(Op)
      <3>1. pc = "check" /\ results' = Append(results, "rejected")
        BY <1>9, <2>2 DEF Validates, NextOp
      <3>2. Op.op = "pin_del"
        BY <1>1, <1>2, <1>3, <2>2, <3>1, AcceptsAll
      <3>3. i = Len(results) + 1 => ~Fatal(i)'
        <4>1. Len(results) + 1 = at
          BY <1>4, <3>1
        <4> QED BY <1>2, <3>2, <4>1 DEF Fatal, Op
      <3> QED BY <1>7, <3>1, <3>3
    <2> QED BY <2>1, <2>2
  <1>10. CASE Runs
    <2> DEFINE out == IF Named(Op) = "none" THEN "failed" ELSE Outcome(Op)
    <2>1. pc = "run" /\ at \in DOMAIN ops
      BY <1>10 DEF Runs, IInv, ResultsOK
    <2>2. Named(Op) # "none"
      <3>1. Op.op \in {"pin_add", "pin_del"} => Op.dev \in PhysicalDevs
        BY <1>1, <2>1, OpIs, OpKinds DEF IInv, Op
      <3> QED BY <1>2, <3>1, NetSetupAssumption DEF Named
    <2>3. CASE out = "ok"
      BY <1>8, <1>10, <2>3 DEF Runs
    <2>4. CASE out # "ok"
      <3>1. results' = Append(results, out) /\ routes' = routes
        BY <1>10, <2>4 DEF Runs
      <3>2. /\ out \in {"exists", "gone"} /\ (out = "gone" => Op.op = "pin_del")
            /\ out = "exists" => Op.op \in {"route_add", "pin_add"} /\ SameRoute(Op) # {}
        BY <2>2, <2>4 DEF Outcome
      <3> HIDE DEF out
      <3>3. out = "exists" => Exists(Op)
        BY <1>1, <1>2, <1>3, <2>1, <3>2, FoundIsOurs
      <3>4. Len(results) + 1 = at /\ results'[at] = out
        BY <1>4, <2>1, <3>1
      <3>5. i = Len(results) + 1 => ~Fatal(i)'
        BY <1>2, <3>1, <3>2, <3>3, <3>4 DEF Fatal, Preexisting, Exists, Op
      <3> QED BY <1>7, <3>1, <3>5
    <2> QED BY <2>3, <2>4
  <1>11. CASE Rechecks /\ ~ChangedUnderneath(Op)
    <2>1. results' = results \/ results' = Append(results, "ok")
      BY <1>11 DEF Rechecks, NextOp
    <2>2. CASE results' = Append(results, "ok")
      <3>1. results'[Len(results) + 1] = "ok"
        BY <1>4, <2>2
      <3>2. i = Len(results) + 1 => ~Fatal(i)'
        BY <3>1 DEF Fatal
      <3> QED BY <1>7, <2>2, <3>2
    <2> QED BY <1>8, <2>1, <2>2
  <1> QED
    BY <1>2, <1>8, <1>9, <1>10, <1>11 DEF Applies, Judges, CannotVerify, netVars, setupVars

\* The plan fails only for want of a path that is not an old pin's.
LEMMA FailsForAPath ==
  ASSUME IInv, PlanFails(policy, policy.users)
  PROVE  PathIsOldPins
  <1> DEFINE users == policy.users
             old == {Route(policy.stale[i].dest, policy.stale[i].dev, 0) : i \in DOMAIN policy.stale}
             left == IF registered THEN users \ old ELSE users
  <1>1. NeedsPin(policy) /\ (~Reachable(users, policy.gateway) \/ RoutedTo(users, policy.gateway, Tun))
    BY DEF PlanFails
  <1> HIDE DEF old
  <1>2. left \subseteq users
    OBVIOUS
  <1>3. \A r \in users : IsRoute(r) /\ r.dev \in PhysicalDevs
    <2>1. users \subseteq [dest : AnyPrefix, dev : PhysicalDevs, metric : Nat]
      BY DEF IInv, PolicyOK
    <2> QED BY <2>1, PrefixIs DEF IsRoute
  <1> HIDE DEF users, left
  <1>4. ~RoutedTo(users, policy.gateway, Tun)
    <2> SUFFICES ASSUME Reachable(users, policy.gateway)
                 PROVE  Lookup(users, policy.gateway).dev # Tun
      BY DEF RoutedTo
    <2>1. Lookup(users, policy.gateway) \in users
      BY <1>3, LookupIs
    <2> QED BY <1>3, <2>1, NetSetupAssumption
  <1>5. ~Reachable(left, policy.gateway)
    BY <1>1, <1>2, <1>4 DEF Reachable
  <1> QED BY <1>1, <1>5 DEF PathIsOldPins, RoutedTo, left, users, old

\* An error that nothing interferes with is of the user's making, or of the old pins'.
LEMMA CalmStep ==
  ASSUME IInv, CalmInv, [NetNext]_netVars
  PROVE  CalmSetupSucceeds'
  <1> SUFFICES ASSUME verdict' = "error", calm'
               PROVE  \/ ~policy'.usable \/ policy'.malformed \/ Len(ops') > MaxOps
                      \/ InTheWay' \/ PathIsOldPins'
    BY DEF CalmSetupSucceeds
  <1>1. calm /\ policy' = policy
    BY CalmBefore, PolicyStays
  <1>2. CASE pc = "done"
    <2>1. UNCHANGED <<ops, verdict, registered>>
      BY <1>2, OverStays
    <2>2. \/ ~policy.usable \/ policy.malformed \/ Len(ops) > MaxOps \/ InTheWay \/ PathIsOldPins
      BY <1>1, <2>1 DEF CalmInv, CalmSetupSucceeds
    <2> QED BY <1>1, <2>1, <2>2 DEF InTheWay, PathIsOldPins
  <1>3. CASE pc # "done"
    <2>1. ~stop /\ device = Tun /\ verdict = "none" /\ (phase # "routes" => routes = policy.users)
      BY <1>1, <1>3 DEF CalmInv, QuietOK
    <2>2. RefusesPolicy \/ Plans \/ Judges
      <3>1. verdict' # verdict
        BY <2>1
      <3>2. ~(NoPrivilege \/ HelperConfigured \/ NoPathRead \/ DoesNotApply \/ Dismissed \/ CannotVerify)
        BY <2>1
        DEF NoPrivilege, HelperConfigured, NoPathRead, NotConfigured, DoesNotApply, Dismissed, CannotVerify,
            Ends
      <3> QED BY <3>1, <3>2
        DEF NetNext, OnNetwork, Worker, Helper, Around, netVars, setupVars, ByIoctl, ByHelper, Applies,
            StopsSuperseded, Validates, RejectsOp, NextOp, Runs, RunFails, Rechecks, Stops,
            DeviceGoes, OtherDevice, NewAttempt, PathChanges
    <2>3. CASE RefusesPolicy
      BY <1>1, <2>3 DEF RefusesPolicy, Refused
    <2>4. CASE Plans
      <3>1. PlanFails(policy, routes) /\ registered' = registered /\ pc = "plan"
        BY <2>1, <2>4 DEF Plans, Ends
      <3>2. PathIsOldPins
        BY <2>1, <3>1, FailsForAPath DEF IInv, PhaseOK
      <3> QED BY <1>1, <3>1, <3>2 DEF PathIsOldPins
    <2>5. CASE Judges
      <3>1. /\ ApplyFails /\ pc = "judge" /\ phase = "routes"
            /\ UNCHANGED <<ops, registered>>
        BY <2>1, <2>5 DEF Judges, CannotVerify, Ends
      <3>2. Len(ops) > MaxOps \/ InTheWay \/ PathIsOldPins
        <4>1. CASE aborted
          BY <1>1, <3>1, <4>1 DEF CalmInv, QuietOK
        <4>2. CASE ~aborted
          <5>1. Len(results) = Len(ops) /\ Len(ops) \in Nat
            BY <1>1, <3>1, <4>2, OpIs DEF CalmInv, QuietOK, IInv
          <5>2. \E i \in DOMAIN results : Fatal(i)
            BY <3>1, <4>2, <5>1 DEF ApplyFails
          <5> QED BY <1>1, <3>1, <5>2 DEF CalmInv, FineOK, Helping
        <4> QED BY <4>1, <4>2
      <3> QED BY <1>1, <3>1, <3>2 DEF InTheWay, PathIsOldPins
    <2> QED BY <2>2, <2>3, <2>4, <2>5
  <1> QED BY <1>2, <1>3

\* A set-up nothing interferes with: until it has its verdict the table has what the user left
\* there, less the old pins, and what is planned; the helper takes each operation of the
\* plan, and what it finds in the place of one is that route itself or the user's.
THEOREM CalmInvariantHolds == NetSpec => []CalmInv
  <1>1. NetInit => CalmInv
    BY InitCalm
  <1>2. IInv /\ CalmInv /\ [NetNext]_netVars => CalmInv'
    <2> SUFFICES ASSUME IInv, CalmInv, [NetNext]_netVars PROVE CalmInv'
      OBVIOUS
    <2>1. QuietOK' /\ PlaceOK' /\ PathOK'
      BY QuietStep, PlaceStep, PathStep
    <2>2. FromUsersOK' /\ FineOK' /\ CalmSetupSucceeds'
      BY FromUsersStep, FineStep, CalmStep
    <2> QED BY <2>1, <2>2 DEF CalmInv
  <1> QED BY <1>1, <1>2, InvariantHolds, PTL DEF NetSpec

\* The helper takes what plan makes of any policy (plan_op, and apply's judgement of the
\* results): a set-up nothing interferes with fails only for an unusable address, malformed
\* policy, too many operations, a user's route in the way, or a path to the gateway that was
\* an old pin's.
THEOREM PlansAreCarriedOut == NetSpec => []CalmSetupSucceeds
  <1>1. CalmInv => CalmSetupSucceeds
    BY DEF CalmInv
  <1> QED BY <1>1, CalmInvariantHolds, PTL

=============================================================================
