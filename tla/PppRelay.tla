------------------------------ MODULE PppRelay ------------------------------
(***************************************************************************)
(* The PPP state machine in the hands of the relay loop (run_relay in      *)
(* engine/tunnel.rs) and of on_network (engine/backend.rs): the loop hands *)
(* the machine every frame of a batch of received bytes, and looks at the  *)
(* phase only when the batch is done.  It configures the TUN device when   *)
(* it first finds the network up, and ends when it finds the link dead.    *)
(*                                                                         *)
(* Framing, queues and timers are left out: the loop ends at any time for  *)
(* the reasons that do not depend on the machine.  What the gateway said   *)
(* is kept as it went over the wire, whatever the machine made of it.      *)
(***************************************************************************)
EXTENDS PppState

VARIABLES
  relay,      \* "start", "idle" between batches, "batch" within one, "ended"
  tun_addr,   \* address of the TUN device, Unspecified until it is configured
  tun_mtu,    \* its MTU; the kernel creates it with MaxMtu
  \* History: what the gateway said.
  consent,    \* to the latest Configure-Request of each layer: "given" or not yet, "open";
              \* "unasked" once it answered one it never got, or one it had acked
  lease,      \* the address it granted with that, Unspecified if it did not
  terminated  \* it asked to terminate the link or a layer

saidVars == <<consent, lease, terminated>>
relayVars == <<vars, relay, tun_addr, tun_mtu, saidVars>>

RelayInit ==
  /\ Init
  /\ consent = [l \in {"LCP", "IPCP"} |-> "open"] /\ lease = Unspecified /\ terminated = FALSE
  /\ relay = "start" /\ tun_addr = Unspecified /\ tun_mtu = MaxMtu

-----------------------------------------------------------------------------
\* An answer the client takes for one to its request.
Answer(f) ==
  /\ f.code \in {"ConfAck", "ConfNak", "ConfRej"}
  /\ f.id = IF f.proto = "LCP" THEN lcp_req_id ELSE ipcp_req_id
Unasked(f) == consent[f.proto] = "given" \/ (f.proto = "IPCP" /\ ipcp_reqs = 0)
Acks(f) == Answer(f) /\ f.code = "ConfAck"

\* A new request of ours goes out.
Asks(layer) == IF layer = "LCP" THEN lcp_reqs' # lcp_reqs ELSE ipcp_reqs' # ipcp_reqs

Consent(layer, f) ==
  IF consent[layer] = "unasked" \/ (layer = f.proto /\ Answer(f) /\ Unasked(f)) THEN "unasked"
  ELSE IF Asks(layer) THEN "open"
  ELSE IF layer = f.proto /\ Acks(f) THEN "given" ELSE consent[layer]

\* An ack without an address grants the one in the request.
Granted(f) == IF f.opts.addr = NoOpt THEN ipcp_req_opts.addr ELSE f.opts.addr

GatewaySaid(f) ==
  /\ consent' = [layer \in {"LCP", "IPCP"} |-> Consent(layer, f)]
  /\ lease' = IF consent'["IPCP"] # "given" THEN Unspecified
              ELSE IF f.proto = "IPCP" /\ Acks(f) THEN Granted(f) ELSE lease
  /\ terminated' = (terminated \/ f.code = "TermReq")

\* One frame of the bytes recv returned.
HandsOver(f) ==
  /\ relay \in {"idle", "batch"} /\ Len(outbox) < MaxOutbox
  /\ Handle(f)
  /\ GatewaySaid(f)
  /\ relay' = "batch"
  /\ UNCHANGED <<tun_addr, tun_mtu>>

\* queue_outbox after the last frame of the batch.
QueuesOutbox ==
  /\ outbox' = <<>>
  /\ UNCHANGED <<phase, ident, lcpVars, ipcpVars, echoVars, saidVars>>

\* The request ppp.start() left is queued before the loop is entered.
KicksOff ==
  /\ relay = "start"
  /\ QueuesOutbox
  /\ relay' = "idle"
  /\ UNCHANGED <<tun_addr, tun_mtu>>

LinkDied == phase = "Dead"

\* network_since.is_none(): on_network was not called yet.
NeedsNetwork == phase = "Network" /\ tun_addr = Unspecified

BatchFindsDeath ==
  /\ relay = "batch" /\ LinkDied
  /\ QueuesOutbox
  /\ relay' = "ended"
  /\ UNCHANGED <<tun_addr, tun_mtu>>

BatchEnds ==
  /\ relay = "batch" /\ ~LinkDied /\ ~NeedsNetwork
  /\ QueuesOutbox
  /\ relay' = "idle"
  /\ UNCHANGED <<tun_addr, tun_mtu>>

\* on_network: address, which has to be one, then MTU.  An MTU that cannot be set
\* is tolerated if the device is within the limit already.
OnNetwork ==
  /\ relay = "batch" /\ ~LinkDied /\ NeedsNetwork /\ local_ip # Unspecified
  /\ QueuesOutbox
  /\ relay' = "idle"
  /\ tun_addr' = local_ip
  /\ \/ tun_mtu' = TunMtu
     \/ tun_mtu <= TunMtu /\ UNCHANGED tun_mtu

\* on_network refuses the unspecified address, or the kernel what it was asked.
OnNetworkFails ==
  /\ relay = "batch" /\ ~LinkDied /\ NeedsNetwork
  /\ QueuesOutbox
  /\ relay' = "ended"
  /\ \/ UNCHANGED <<tun_addr, tun_mtu>>
     \/ tun_addr' = local_ip /\ tun_addr' # Unspecified /\ UNCHANGED tun_mtu

\* The stop flag, a timeout, an error of either stream: what is queued is lost.
Ends ==
  /\ relay \in {"idle", "batch"}
  /\ QueuesOutbox
  /\ relay' = "ended"
  /\ UNCHANGED <<tun_addr, tun_mtu>>

\* The keepalive timer, between batches once the network is up; its request is
\* queued at once.
KeepsAlive ==
  /\ relay = "idle"
  /\ \/ /\ phase = "Network" /\ echo_outstanding < MaxEchoOutstanding
        /\ echo_outstanding' = echo_outstanding + 1
        /\ ident' = NextId(ident)
        /\ UNCHANGED <<phase, outbox, echo_supported, lcpVars, ipcpVars, relay>>
     \/ EchoTimeout /\ relay' = "ended"
  /\ UNCHANGED <<tun_addr, tun_mtu, saidVars>>

RelayNext ==
  \/ KicksOff
  \/ \E f \in GatewayFrames : HandsOver(f)
  \/ BatchFindsDeath \/ BatchEnds \/ OnNetwork \/ OnNetworkFails \/ Ends \/ KeepsAlive

RelaySpec == RelayInit /\ [][RelayNext]_relayVars

-----------------------------------------------------------------------------
(* Properties. *)

\* A layer opens only when the gateway accepted what we ask for, not what we asked for
\* once: outside phase Lcp it acked our latest LCP request, and in phase Network our
\* latest IPCP request, although the ack flags are never cleared (handle_lcp,
\* handle_ipcp).  That takes a gateway which answers each request once and none it
\* never got: an IPCP ack with identifier 0 in phase Lcp, or a NAK after an ack, leaves
\* a flag set while the latest request is open.
LayersConsented ==
  /\ phase \in {"Ipcp", "Network"} => ipcp_reqs > 0 /\ consent["LCP"] # "open"
  /\ phase = "Network" => consent["IPCP"] # "open"

\* The loop looks at the phase once per batch, after all its frames.  The device gets the
\* address the gateway granted, whatever else the batch held, and none if the gateway
\* took the link down again (run_relay; on_network, ppp.local_ip).
DeviceGetsLease ==
  [][tun_addr' # tun_addr =>
       /\ ~terminated
       /\ tun_addr' = lease \/ consent["IPCP"] = "unasked"]_relayVars

\* The interface has "the *negotiated* address and MTU" (backend.rs, on_network), the
\* address the gateway routes to us (handle_ipcp) and an MTU that "must not exceed
\* what the gateway accepts", as long as the tunnel is in use.
DeviceIsAsNegotiated ==
  relay = "idle" /\ tun_addr # Unspecified =>
    /\ tun_addr = local_ip
    /\ peer_mru # NoOpt => tun_mtu <= TunMtu
=============================================================================
