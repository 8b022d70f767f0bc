------------------------------ MODULE RoutePlan ------------------------------
(***************************************************************************)
(* What network setup is made of (engine/netcfg.rs, and the parsing in     *)
(* engine/backend.rs): prefixes, the gateway's policy, and the list of     *)
(* operations plan() makes of it.  Addresses are numbers of Width bits, 32 *)
(* in the code.  A routing table is a set of records; the kernel's lookup  *)
(* takes the longest prefix, then the lowest metric.                       *)
(***************************************************************************)
EXTENDS Integers, FiniteSetsExt, SequencesExt

CONSTANTS
  Width,
  MaxDns,     \* MAX_DNS_SERVERS, which the helper accepts too
  Tun         \* the session's interface, as routing table entries name it

ASSUME RoutePlanAssumption == Width \in Nat \ {0, 1} /\ MaxDns \in Nat \ {0}

Addresses == 0 .. 2^Width - 1
NoAddress == -1                 \* an IPv6 gateway, no address
Lengths == 0 .. Width

Net(a, len) == a - (a % 2^(Width - len))

PrefixNew(a, len) == [net |-> Net(a, len), len |-> len]
Host(a) == PrefixNew(a, Width)
AnyPrefix == {PrefixNew(a, len) : a \in Addresses, len \in Lengths}

Within(p, a) == Net(a, p.len) = p.net
Covers(p, q) == q.len >= p.len /\ Within(p, q.net)

\* mask_to_len, of a contiguous mask.
MaskOf(len) == 2^Width - 2^(Width - len)
Contiguous(mask) == \E len \in Lengths : mask = MaskOf(len)
MaskToLen(mask) == CHOOSE len \in Lengths : mask = MaskOf(len)

-----------------------------------------------------------------------------
(* The gateway's policy: the <addr> entries of its XML, each an address and a *)
(* mask or unreadable.                                                        *)

\* A loop that pushes some of the elements of s, those at the positions in which.
Pushed(s, which) ==
  LET out[n \in 0 .. Len(s)] ==
        IF n = 0 THEN <<>> ELSE IF n \in which THEN Append(out[n - 1], s[n]) ELSE out[n - 1]
  IN  out[Len(s)]

\* Those not pushed before; those in a set.
Distinct(s) == Pushed(s, {n \in DOMAIN s : \A i \in 1 .. n - 1 : s[i] # s[n]})
Only(s, keep) == Pushed(s, {n \in DOMAIN s : s[n] \in keep})

Readable(entry) == entry.ip \in Addresses /\ Contiguous(entry.mask)

SplitRoutes(entries) ==
  LET good == Only(entries, {e \in ToSet(entries) : Readable(e)})
  IN Distinct([i \in DOMAIN good |-> PrefixNew(good[i].ip, MaskToLen(good[i].mask))])

\* Mutant: entries that cannot be read are passed over in silence.
NeverMalformed(entries) == FALSE
\* Malformed policy must not look like "no routes".
AllMalformed(entries) == entries # <<>> /\ SplitRoutes(entries) = <<>>

\* Mutant: every server is kept.
AllDns(xml, ipcp) == Distinct(Only(xml \o ipcp, Addresses))
EffectiveDns(xml, ipcp) ==
  LET all == Distinct(Only(xml \o ipcp, Addresses))
  IN SubSeq(all, 1, Min({MaxDns, Len(all)}))

-----------------------------------------------------------------------------
(* Routing tables. *)

Route(dest, dev, metric) == [dest |-> dest, dev |-> dev, metric |-> metric]

Preferred(r, q) == r.dest.len > q.dest.len \/ (r.dest.len = q.dest.len /\ r.metric <= q.metric)

Reachable(table, a) == \E r \in table : Within(r.dest, a)

\* ip route get.
Lookup(table, a) ==
  LET found == {r \in table : Within(r.dest, a)}
  IN CHOOSE r \in found : \A q \in found : Preferred(r, q)

RoutedTo(table, a, dev) == Reachable(table, a) /\ Lookup(table, a).dev = dev

\* Mutant: only a local range that holds a whole VPN range counts.
HidesWhole(v, local) == local.len > v.len /\ Covers(local, v)
Hides(v, local) == local.len > v.len /\ Covers(v, local)

Shadowed(split, table) ==
  {r.dest : r \in {q \in table : q.dev # Tun /\ \E v \in ToSet(split) : Hides(v, q.dest)}}

-----------------------------------------------------------------------------
(***************************************************************************)
(* plan.  An input is a record of what the profile wants (want_routes,     *)
(* want_dns, half_internet), the gateway's address, split routes and dns,  *)
(* stale pins, and whether resolved is in use.                             *)
(***************************************************************************)
RouteAdd(p) == [op |-> "route_add", dest |-> p, dev |-> Tun, servers |-> <<>>]
PinAdd(p, dev) == [op |-> "pin_add", dest |-> p, dev |-> dev, servers |-> <<>>]
PinDel(p, dev) == [op |-> "pin_del", dest |-> p, dev |-> dev, servers |-> <<>>]
LinkOp(op, servers) == [op |-> op, dest |-> PrefixNew(0, 0), dev |-> Tun, servers |-> servers]

FullTunnel(in) ==
  /\ in.want_routes
  /\ in.half_internet \/ in.split = <<>> \/ \E p \in ToSet(in.split) : p.len = 0

\* Mutant: only a full tunnel can capture the gateway.
PinsFullTunnel(in) == in.want_routes /\ in.gateway # NoAddress /\ FullTunnel(in)
\* "The TLS transport must never be routed into its own tunnel."
NeedsPin(in) ==
  /\ in.want_routes /\ in.gateway # NoAddress
  /\ FullTunnel(in) \/ \E p \in ToSet(in.split) : Within(p, in.gateway)

\* No physical route, or the gateway is already routed into the tunnel.
PlanFails(in, table) ==
  NeedsPin(in) /\ (~Reachable(table, in.gateway) \/ RoutedTo(table, in.gateway, Tun))

Halves == <<PrefixNew(0, 1), PrefixNew(2^(Width - 1), 1)>>

Explicit(in) ==
  Only(in.split, {p \in ToSet(in.split) : p.len # 0 /\ ~(p.len = Width /\ p.net = in.gateway)})

NeedsDnsRoute(in, d) == d # in.gateway /\ ~\E p \in ToSet(in.split) : Within(p, d)

Plan(in, table) ==
  LET Each(s, Op(_)) == [i \in DOMAIN s |-> Op(s[i])]
      If(b, s) == IF b THEN s ELSE <<>>
      use_dns == in.want_dns /\ in.dns # <<>>
  IN in.stale
     \o If(NeedsPin(in), <<PinAdd(Host(in.gateway), Lookup(table, in.gateway).dev)>>)
     \o If(FullTunnel(in), Each(Halves, RouteAdd))
     \o If(in.want_routes, Each(Explicit(in), RouteAdd))
     \o If(in.want_routes /\ ~FullTunnel(in) /\ use_dns,
           Each(Only(in.dns, {d \in ToSet(in.dns) : NeedsDnsRoute(in, d)}),
                LAMBDA d : RouteAdd(Host(d))))
     \o If(use_dns /\ in.resolved, <<LinkOp("dns", in.dns), LinkOp("domain", <<>>)>>)
=============================================================================
