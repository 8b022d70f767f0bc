------------------------------- MODULE NetSetup -------------------------------
(***************************************************************************)
(* Network setup, from the end of the PPP negotiation to "Tunnel UP!":     *)
(* on_network (engine/backend.rs) sets the device's address and MTU, makes *)
(* the plan of RoutePlan and starts the setup worker, which has the        *)
(* privileged helper carry it out (apply in engine/netcfg.rs, execute in   *)
(* engine/nethelper.rs) and judges the results.  Meanwhile the session may *)
(* end and its device go away, another device take its name, a newer       *)
(* attempt start, and the physical path change.                            *)
(*                                                                         *)
(* The registry and the lock of pin operations are in PinHelper, the       *)
(* ownership of the pin in GatewayPin.                                     *)
(***************************************************************************)
EXTENDS RoutePlan

CONSTANTS
  Scenarios,   \* policies, profiles and user's routes to set up with
  Mtus,        \* MTUs; a new device has the largest
  MaxOps,      \* MAX_OPS
  PhysicalDevs, \* names of the user's devices
  Locals,      \* networks that "wlan" may come to be on (bound)
  MaxChanges   \* changes of the physical network (bound)

\* The session's device is named like no other, and is new: no route leads into it.
\* "none" stands for no device.
ASSUME NetSetupAssumption ==
  /\ Mtus # {} /\ Mtus \subseteq Nat \ {0} /\ {MaxOps, MaxChanges} \subseteq Nat
  /\ Tun \notin {"other", "none"} /\ "wlan" \in PhysicalDevs
  /\ PhysicalDevs \cap {Tun, "other", "none"} = {} /\ Locals \subseteq AnyPrefix
  /\ \A s \in Scenarios :
       /\ s.gateway \in Addresses \cup {NoAddress}
       /\ s.routes \subseteq [dest : AnyPrefix, dev : PhysicalDevs, metric : Nat]
       /\ s.stale \in Seq([dest : AnyPrefix, dev : PhysicalDevs])
       /\ s.entries \in Seq([ip : Int, mask : Int])
       /\ {s.xml_dns, s.ipcp_dns} \subseteq Seq(Addresses \cup {NoAddress})
       /\ s.mtu \in Nat

VARIABLES
  policy,     \* the input of plan, and what it is made from
  limit,      \* tun_mtu of the negotiated link
  pc,         \* "address", "mtu", "plan", "apply", the helper's "check", "run", "recheck", "judge", or "done"
  phase,      \* what the helper runs for: "address", "mtu", "routes"
  ops, at,    \* operations of the request, and the one being run
  commands,   \* of that operation, not run yet
  results,    \* one per operation: "ok", "exists", "gone", "failed", "rejected"
  aborted,    \* the helper stopped early
  warned,     \* ranges and servers the user was told are not in the tunnel
  verdict,    \* "none", "up", "error", "cancelled"
  \* the system
  device,     \* the device named ifname: Tun, the session's; "other"; or "none"
  link,       \* [address, up, mtu, dns] of the two
  routes,     \* the main routing table
  current,    \* the attempt is the newest
  registered, \* the stale pins are in the helper's registry
  stop,
  \* history
  calm,       \* nothing adverse happened
  strays,     \* commands that changed the other device
  missed,     \* ranges the user would have been told of, had the query not failed
  changes,    \* of the physical network
  late,       \* local networks that appeared after the plan
  lost        \* a route to the gateway went with its device, after the plan

setupVars == <<pc, phase, ops, at, commands, results, aborted, warned, verdict>>
systemVars == <<device, link, routes, current, registered, stop>>
unseenVars == <<missed, changes, late, lost>>
netVars == <<policy, limit, setupVars, systemVars, calm, strays, unseenVars>>

LargestMtu == Max(Mtus)
Fresh == [address |-> FALSE, up |-> FALSE, mtu |-> LargestMtu, dns |-> <<>>]

\* What connect_inner_impl makes of the gateway's XML and the profile.
PolicyOf(s) ==
  [want_routes |-> s.want_routes, want_dns |-> s.want_dns, half_internet |-> s.half_internet,
   gateway |-> s.gateway, split |-> SplitRoutes(s.entries), dns |-> EffectiveDns(s.xml_dns, s.ipcp_dns),
   resolved |-> s.resolved, stale |-> [i \in DOMAIN s.stale |-> PinDel(s.stale[i].dest, s.stale[i].dev)],
   advertised |-> s.entries # <<>>, malformed |-> AllMalformed(s.entries),
   usable |-> s.usable, mtu |-> s.mtu, users |-> s.routes]

NetInit ==
  /\ policy \in {PolicyOf(s) : s \in Scenarios} /\ limit = policy.mtu
  /\ pc = "address" /\ phase = "address" /\ ops = <<>> /\ at = 1 /\ commands = <<>>
  /\ results = <<>> /\ aborted = FALSE /\ warned = {} /\ verdict = "none"
  /\ device = Tun /\ link = [d \in {Tun, "other"} |-> Fresh]
  /\ routes = policy.users /\ current = TRUE
  /\ registered \in BOOLEAN /\ (policy.stale = <<>> => registered) /\ stop = FALSE
  /\ calm = TRUE /\ strays = 0 /\ missed = {} /\ changes = 0 /\ late = {} /\ lost = FALSE

Ends(how) == pc' = "done" /\ verdict' = how

RaisesStop(how) == stop' = (stop \/ how = "error")

-----------------------------------------------------------------------------
(* on_network. *)

\* The address is unusable; or, before the tunnel starts, no split route was readable.
Refused ==
  pc = "address" /\ (~policy.usable \/ (policy.malformed /\ policy.want_routes))

RefusesPolicy ==
  /\ Refused
  /\ Ends("error") /\ RaisesStop("error")
  /\ UNCHANGED <<policy, limit, phase, ops, at, commands, results, aborted, warned,
                 device, link, routes, current, registered, calm, strays, unseenVars>>

After(p) == IF p = "address" THEN "mtu" ELSE "plan"

\* configure and set_mtu by ioctl.
Configured(p, l) ==
  IF p = "address" THEN [l EXCEPT !.address = TRUE, !.up = TRUE] ELSE [l EXCEPT !.mtu = limit]

ByIoctl ==
  /\ pc \in {"address", "mtu"} /\ ~Refused
  /\ link' = [link EXCEPT ![Tun] = Configured(pc, @)]
  /\ pc' = After(pc)
  /\ UNCHANGED <<policy, limit, phase, ops, at, commands, results, aborted, warned, verdict,
                 device, routes, current, registered, stop, calm, strays, unseenVars>>

\* tun_ops_noninteractive, when the ioctl fails.
ByHelper ==
  /\ pc \in {"address", "mtu"} /\ ~Refused
  /\ phase' = pc /\ pc' = "check" /\ at' = 1 /\ results' = <<>> /\ aborted' = FALSE
  /\ ops' = IF pc = "address" THEN <<LinkOp("addr", <<>>), LinkOp("link_up", <<>>)>>
            ELSE <<LinkOp("mtu", <<>>)>>
  /\ UNCHANGED <<policy, limit, commands, warned, verdict, systemVars, calm, strays, unseenVars>>

MtuWillDo(actual) == actual <= limit

\* Neither worked.  The MTU may do as it is.
NotConfigured(p) ==
  /\ calm' = FALSE
  /\ IF p = "mtu" /\ MtuWillDo(link[Tun].mtu)
     THEN pc' = "plan" /\ UNCHANGED <<verdict, stop>>
     ELSE Ends("error") /\ RaisesStop("error")

NoPrivilege ==
  /\ pc \in {"address", "mtu"} /\ ~Refused
  /\ NotConfigured(pc)
  /\ UNCHANGED <<policy, limit, phase, ops, at, commands, results, aborted, warned,
                 device, link, routes, current, registered, strays, unseenVars>>

HelperConfigured ==
  /\ pc = "judge" /\ phase # "routes"
  /\ ops' = <<>> /\ at' = 1 /\ results' = <<>> /\ aborted' = FALSE
  /\ IF ~aborted /\ Len(results) = Len(ops) /\ \A i \in DOMAIN results : results[i] = "ok"
     THEN pc' = After(phase) /\ UNCHANGED <<verdict, stop, calm>>
     ELSE NotConfigured(phase)
  /\ UNCHANGED <<policy, limit, phase, commands, warned, device, link, routes, current, registered,
                   strays, unseenVars>>

\* What there is to warn of when the plan is made.
InTheTable ==
  IF policy.want_routes /\ ~FullTunnel(policy) THEN Shadowed(policy.split, routes) ELSE {}

\* plan, and the warnings that go with it: none if the table cannot be read
\* (read_route_table then gives an empty one).
Plans ==
  /\ pc = "plan"
  /\ IF PlanFails(policy, routes)
     THEN Ends("error") /\ RaisesStop("error") /\ UNCHANGED <<phase, ops, at, warned, missed>>
     ELSE /\ ops' = Plan(policy, routes) /\ phase' = "routes" /\ at' = 1
          /\ \/ warned' = InTheTable /\ missed' = {}
             \/ warned' = {} /\ missed' = InTheTable
          /\ IF ops' = <<>> THEN Ends("up") ELSE pc' = "apply" /\ UNCHANGED verdict
          /\ UNCHANGED stop
  /\ UNCHANGED <<policy, limit, commands, results, aborted, device, link, routes, current,
                 registered, calm, strays, changes, late, lost>>

\* The path to the gateway cannot be read.
NoPathRead ==
  /\ pc = "plan" /\ NeedsPin(policy)
  /\ Ends("error") /\ RaisesStop("error") /\ calm' = FALSE
  /\ UNCHANGED <<policy, limit, phase, ops, at, commands, results, aborted, warned,
                 device, link, routes, current, registered, strays, unseenVars>>

-----------------------------------------------------------------------------
(* apply and the helper. *)

\* Disconnected, or the device is not the session's.
DoesNotApply ==
  /\ pc = "apply" /\ (stop \/ device # Tun)
  /\ IF stop THEN Ends("cancelled") ELSE Ends("error")
  /\ RaisesStop(verdict')
  /\ UNCHANGED <<policy, limit, phase, ops, at, commands, results, aborted, warned,
                 device, link, routes, current, registered, calm, strays, unseenVars>>

\* The prompt is dismissed, there is no helper, or the device's index cannot be read.
Dismissed ==
  /\ pc = "apply" /\ ~stop /\ device = Tun
  /\ Ends("error") /\ RaisesStop("error") /\ calm' = FALSE
  /\ UNCHANGED <<policy, limit, phase, ops, at, commands, results, aborted, warned,
                 device, link, routes, current, registered, strays, unseenVars>>

\* The helper starts once the prompt, if any, is approved.
Applies ==
  /\ pc = "apply" /\ ~stop /\ device = Tun
  /\ aborted' = (Len(ops) > MaxOps)
  /\ pc' = IF aborted' THEN "judge" ELSE "check"
  /\ UNCHANGED <<policy, limit, phase, ops, at, commands, results, warned, verdict,
                 systemVars, calm, strays, unseenVars>>

Op == ops[at]
OnTun(op) == op.op \notin {"pin_add", "pin_del"}

\* Mutant: any device of that name will do.
NamedTun == device # "none"
\* session_tun: a TUN of the caller's, with the index it had.
SessionTun == device = Tun

\* "Only replicate the current physical path — never redirect."
CurrentPath(op) == RoutedTo(routes, op.dest.net, op.dev)

\* plan_op, when what it reads of the system can be read.
Accepts(op) ==
  CASE op.op = "pin_del" -> registered
    [] op.op = "pin_add" -> SessionTun /\ CurrentPath(op)
    [] op.op = "dns"     -> SessionTun /\ Len(op.servers) \in 1 .. MaxDns
    [] OTHER             -> SessionTun

Commands(op) == IF op.op = "addr" THEN <<"flush", "addr">> ELSE <<op.op>>

NextOp(result) ==
  /\ results' = Append(results, result) /\ commands' = <<>>
  /\ IF at < Len(ops) THEN at' = at + 1 /\ pc' = "check" ELSE at' = at /\ pc' = "judge"

\* The requests that set the device up carry no attempt.
Superseded == phase = "routes" /\ ~current

StopsSuperseded ==
  /\ pc = "check" /\ Superseded
  /\ aborted' = TRUE /\ pc' = "judge"
  /\ UNCHANGED <<policy, limit, phase, ops, at, commands, results, warned, verdict,
                 systemVars, calm, strays, unseenVars>>

Validates ==
  /\ pc = "check" /\ ~Superseded
  /\ IF Accepts(Op)
     THEN /\ pc' = "run" /\ commands' = Commands(Op)
          /\ UNCHANGED <<at, results>>
     ELSE NextOp("rejected")
  /\ UNCHANGED <<policy, limit, phase, ops, aborted, warned, verdict, systemVars, calm, strays, unseenVars>>

\* The domain is malformed, or the path to the gateway cannot be read.
RejectsOp ==
  /\ pc = "check" /\ ~Superseded /\ Op.op \in {"domain", "pin_add"}
  /\ NextOp("rejected") /\ calm' = FALSE
  /\ UNCHANGED <<policy, limit, phase, ops, aborted, warned, verdict, systemVars, strays, unseenVars>>

-----------------------------------------------------------------------------
(* The kernel: `ip` takes the device by name, resolvectl by index. *)

SameRoute(op) == {r \in routes : r.dest = op.dest /\ r.metric = 0}

\* What a command says of itself.
Outcome(op) ==
  CASE op.op \in {"route_add", "pin_add"} /\ SameRoute(op) # {} -> "exists"
    [] op.op = "pin_del" /\ Route(op.dest, op.dev, 0) \notin routes -> "gone"
    [] OTHER -> "ok"

\* Device a command names, when it runs.
Named(op) ==
  IF op.op \in {"pin_add", "pin_del"} THEN op.dev
  ELSE IF op.op \in {"dns", "domain"} THEN IF device = Tun THEN Tun ELSE "none"
  ELSE device

RoutesAfter(op, dev) ==
  CASE op.op \in {"route_add", "pin_add"} -> routes \cup {Route(op.dest, dev, 0)}
    [] op.op = "pin_del" -> routes \ {Route(op.dest, op.dev, 0)}
    [] OTHER -> routes

LinkAfter(op, command, l) ==
  CASE command = "flush"   -> [l EXCEPT !.address = FALSE]
    [] command = "addr"    -> [l EXCEPT !.address = TRUE]
    [] command = "link_up" -> [l EXCEPT !.up = TRUE]
    [] command = "mtu"     -> [l EXCEPT !.mtu = limit]
    [] command = "dns"     -> [l EXCEPT !.dns = op.servers]
    [] OTHER               -> l

Runs ==
  /\ pc = "run"
  /\ LET dev == Named(Op)
         out == IF dev = "none" THEN "failed" ELSE Outcome(Op) IN
     /\ routes' = IF out = "ok" THEN RoutesAfter(Op, dev) ELSE routes
     /\ link' = IF out = "ok" /\ dev \in DOMAIN link
                THEN [link EXCEPT ![dev] = LinkAfter(Op, Head(commands), @)] ELSE link
     /\ strays' = IF out = "ok" /\ dev = "other" THEN strays + 1 ELSE strays
     /\ IF out = "ok"
        THEN commands' = Tail(commands) /\ UNCHANGED results
        ELSE commands' = <<>> /\ results' = Append(results, out)
  /\ pc' = "recheck"
  /\ UNCHANGED <<policy, limit, phase, ops, at, aborted, warned, verdict, device, current,
                 registered, stop, calm, unseenVars>>

\* The kernel may refuse for reasons of its own (bound: once).
RunFails ==
  /\ pc = "run" /\ "failed" \notin ToSet(results)
  /\ results' = Append(results, "failed") /\ commands' = <<>>
  /\ pc' = "recheck" /\ calm' = FALSE
  /\ UNCHANGED <<policy, limit, phase, ops, at, aborted, warned, verdict, systemVars, strays, unseenVars>>

ChangedUnderneath(op) == OnTun(op) /\ ~SessionTun

\* The result of the operation, unless a command of it is left.
Rechecks ==
  /\ pc = "recheck"
  /\ IF ChangedUnderneath(Op)
     THEN /\ results' = Append(SubSeq(results, 1, at - 1), "failed")
          /\ aborted' = TRUE /\ pc' = "judge" /\ commands' = <<>>
          /\ UNCHANGED at
     ELSE /\ UNCHANGED aborted
          /\ IF Len(results) = at
             THEN /\ UNCHANGED <<results, commands>>
                  /\ IF at < Len(ops) THEN at' = at + 1 /\ pc' = "check"
                     ELSE at' = at /\ pc' = "judge"
             ELSE IF commands = <<>> THEN NextOp("ok")
             ELSE pc' = "run" /\ UNCHANGED <<at, results, commands>>
  /\ UNCHANGED <<policy, limit, phase, ops, warned, verdict, systemVars, calm, strays, unseenVars>>

-----------------------------------------------------------------------------
(* The end of apply, and the worker. *)

\* route_exists; the device of a route into the tunnel goes by its name.
Exists(op) ==
  \E r \in routes : r.dest = op.dest /\ r.dev = (IF op.dev = Tun THEN device ELSE op.dev)

\* classify_failure, of EEXIST.
Preexisting(op) == Exists(op)

Fatal(i) ==
  /\ ops[i].op # "pin_del" /\ results[i] # "ok"
  /\ ~(results[i] = "exists" /\ Preexisting(ops[i]))

ApplyFails ==
  aborted \/ Len(results) < Len(ops) \/ \E i \in DOMAIN results : Fatal(i)

\* route_exists fails: what was there already counts as a conflict.
CannotVerify ==
  /\ pc = "judge" /\ phase = "routes"
  /\ \E i \in DOMAIN results : results[i] = "exists"
  /\ Ends("error") /\ RaisesStop("error") /\ calm' = FALSE
  /\ UNCHANGED <<policy, limit, phase, ops, at, commands, results, aborted, warned,
                 device, link, routes, current, registered, strays, unseenVars>>

\* route_get names a device, and it is not the tunnel's.
Misrouted(d) ==
  d # policy.gateway /\ Reachable(routes, d) /\ Lookup(routes, d).dev \in PhysicalDevs
MisroutedDns == IF policy.want_routes THEN {d \in ToSet(policy.dns) : Misrouted(d)} ELSE {}

Judges ==
  /\ pc = "judge" /\ phase = "routes"
  /\ IF ApplyFails THEN Ends("error") /\ RaisesStop("error") /\ UNCHANGED warned
     ELSE /\ UNCHANGED stop
          /\ IF stop THEN Ends("cancelled") /\ UNCHANGED warned
             ELSE /\ Ends("up")   \* each query may fail, and nothing is said then
                  /\ \E answered \in SUBSET MisroutedDns : warned' = warned \cup {Host(d) : d \in answered}
  /\ UNCHANGED <<policy, limit, phase, ops, at, commands, results, aborted, device, link, routes,
                 current, registered, calm, strays, unseenVars>>

-----------------------------------------------------------------------------
(* What happens around it. *)

\* The relay ends: Disconnect, the gateway, an error.
Stops ==
  /\ ~stop
  /\ stop' = TRUE /\ calm' = FALSE
  /\ UNCHANGED <<policy, limit, setupVars, device, link, routes, current, registered, strays, unseenVars>>

\* The session's thread drops the TUN, five seconds after the worker at the
\* latest; on_network runs in that thread.
DeviceGoes ==
  /\ stop /\ device = Tun /\ (pc = "done" \/ phase = "routes")
  /\ device' = "none" /\ routes' = {r \in routes : r.dev # Tun}
  /\ UNCHANGED <<policy, limit, setupVars, link, current, registered, stop, calm, strays, unseenVars>>

\* Of the same user's newer session, or of another user's.
OtherDevice ==
  /\ device = "none"
  /\ device' = "other"
  /\ UNCHANGED <<policy, limit, setupVars, link, routes, current, registered, stop, calm, strays, unseenVars>>

\* An auto-connect of another window does not stop this session.
NewAttempt ==
  /\ current
  /\ current' = FALSE /\ calm' = FALSE
  /\ UNCHANGED <<policy, limit, setupVars, device, link, routes, registered, stop, strays, unseenVars>>

\* Another network is preferred from now on, or there is none; the host comes to be on
\* a local network; a physical device goes, and the routes through it with it.  (Bound:
\* while the plan is made and carried out.)
Adds(r) == routes' = routes \cup {r}
Drops(which) ==
  /\ which # {} /\ routes' = routes \ which
  /\ lost' = (lost \/ (phase = "routes" /\ \E r \in which : r.dest = Host(policy.gateway)))

PathChanges ==
  /\ changes < MaxChanges /\ changes' = changes + 1
  /\ pc = "plan" \/ (pc \in {"apply", "check", "judge"} /\ phase = "routes")
  /\ \/ Adds(Route(PrefixNew(0, 0), "wlan", 1)) /\ UNCHANGED <<late, lost>>
     \/ \E p \in Locals :
          /\ Adds(Route(p, "wlan", 1)) /\ UNCHANGED lost
          /\ late' = IF phase = "routes" THEN late \cup {p} ELSE late
     \/ Drops({r \in routes : r.dest.len = 0}) /\ UNCHANGED late
     \/ \E d \in PhysicalDevs : Drops({r \in routes : r.dev = d}) /\ UNCHANGED late
  /\ calm' = FALSE
  /\ UNCHANGED <<policy, limit, setupVars, device, link, current, registered, stop, strays, missed>>

OnNetwork ==
  \/ RefusesPolicy \/ ByIoctl \/ ByHelper \/ NoPrivilege \/ HelperConfigured \/ Plans
  \/ NoPathRead
Worker == DoesNotApply \/ Dismissed \/ Applies \/ CannotVerify \/ Judges
Helper == StopsSuperseded \/ Validates \/ RejectsOp \/ Runs \/ RunFails \/ Rechecks
Around == Stops \/ DeviceGoes \/ OtherDevice \/ NewAttempt \/ PathChanges

NetNext == OnNetwork \/ Worker \/ Helper \/ Around

NetSpec ==
  NetInit /\ [][NetNext]_netVars /\ WF_netVars(OnNetwork \/ Worker \/ Helper) /\ WF_netVars(DeviceGoes)

-----------------------------------------------------------------------------
(* Properties. *)

\* What the tunnel is to carry.
Carried ==
  {a \in Addresses :
     /\ policy.want_routes
     /\ \/ FullTunnel(policy)
        \/ \E p \in ToSet(policy.split) : Within(p, a)
        \/ policy.want_dns /\ a \in ToSet(policy.dns)}

\* A local route more specific than anything the VPN has for a.
KeptLocal(a) ==
  LET local == Lookup(routes, a).dest.len
  IN local > 1 /\ \A p \in ToSet(policy.split) : Within(p, a) => local > p.len

\* "Connected" only appears when what the gateway advertised, and its DNS servers,
\* are routed into the tunnel (netcfg.rs, its header), but for the gateway itself and,
\* of a split tunnel, ranges the user was warned of, or was not because the routing
\* table could not be read or the local network appeared later; a full tunnel leaves
\* more specific local networks alone.  That a DNS server's route cannot be read makes
\* no difference.  The device is up then, with an address and an MTU the gateway accepts.
UpMeansRouted ==
  verdict = "up" /\ device = Tun =>
    /\ link[Tun].address /\ link[Tun].up /\ link[Tun].mtu <= limit
    /\ \A a \in Carried \ {policy.gateway} :
         \/ RoutedTo(routes, a, Tun)
         \/ \E p \in warned \cup missed \cup late : Within(p, a)
         \/ FullTunnel(policy) /\ KeptLocal(a)

\* The gateway is reached outside its own tunnel (plan) once the tunnel is up, and
\* before that unless the helper refused or failed to pin it; but for a pin that went
\* with its device.
Captured == policy.gateway # NoAddress /\ RoutedTo(routes, policy.gateway, Tun)

GatewayStaysOutside ==
  Captured /\ ~lost =>
    /\ verdict # "up"
    /\ \E i \in DOMAIN results : ops[i].op = "pin_add" /\ results[i] \in {"rejected", "failed"}

\* A session whose device is replaced changes the new one by one command at most,
\* the one under way, and never its DNS; it does not come up (apply, execute).
OtherDeviceSpared ==
  /\ strays <= 1 /\ link["other"].dns = <<>>
  /\ strays > 0 => verdict # "up"

\* All traffic is sent through the tunnel only if the profile or the gateway's
\* policy says so: malformed policy never does (parse_split_routes).
FullTunnelIsMeant ==
  (\A h \in ToSet(Halves) : \E r \in routes : r.dest = h /\ r.dev \in {Tun, "other"}) =>
    \/ policy.half_internet \/ ~policy.advertised
    \/ \E p \in ToSet(policy.split) : p.len <= 1

\* The helper takes what plan makes of any policy: with a usable address, privileges,
\* no more operations than it allows, no user's route in the way, a path to the gateway
\* that is not an old pin's, and nothing that interferes, setup succeeds.
InTheWay ==
  \E i \in DOMAIN ops : \E r \in policy.users :
    ops[i].op = "route_add" /\ r.dest = ops[i].dest /\ r.metric = 0

\* The pin is planned along the path there is, but added once the old pins are deleted:
\* it is refused if the best path of the others leads elsewhere.
PathIsOldPins ==
  LET old == {Route(policy.stale[i].dest, policy.stale[i].dev, 0) : i \in DOMAIN policy.stale}
      left == IF registered THEN policy.users \ old ELSE policy.users
  IN  /\ NeedsPin(policy)
      /\ ~RoutedTo(left, policy.gateway, Lookup(policy.users, policy.gateway).dev)

CalmSetupSucceeds ==
  verdict = "error" =>
    \/ ~calm \/ ~policy.usable \/ policy.malformed
    \/ Len(ops) > MaxOps \/ InTheWay \/ PathIsOldPins
=============================================================================
