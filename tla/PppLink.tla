------------------------------- MODULE PppLink -------------------------------
(***************************************************************************)
(* The client's PPP state machine (PppState) facing a gateway that         *)
(* negotiates as RFC 1661 and 1332 ask, over the TLS stream: two FIFO      *)
(* queues that lose and reorder nothing.  The client has no restart timer: *)
(* it sends a Configure-Request only to start a layer or in answer to a    *)
(* NAK or a REJ, so one frame dropped by either automaton would leave both *)
(* waiting until the relay's negotiation timeout.                          *)
(*                                                                         *)
(* outbox is the queue to the gateway, wire the queue to the client.  The  *)
(* gateway is not part of this program; it is modelled from what           *)
(* pppstate.rs expects of it and from the behaviours its comments name.    *)
(*                                                                         *)
(* Or the link is looped back, and every frame the client sends comes back *)
(* to it, in order: its magic number is there to notice this (handle_lcp   *)
(* NAKs its own number, and picks another when NAK'd).                     *)
(***************************************************************************)
EXTENDS PppState

CONSTANTS
  Assigned, GwDns,    \* address and DNS server the gateway hands out
  Objections,         \* bound: NAKs and REJs the gateway may send, both layers
  Retransmits         \* bound: times it repeats a request that is unanswered yet

ASSUME GatewayAssumption ==
  /\ {Assigned, GwDns} \subseteq Addrs \ {Unspecified}
  /\ Objections \in Nat /\ Retransmits \in Nat
  /\ IdSpace > 2      \* u8: the three requests one layer may need have identifiers of their own

VARIABLES
  looped,       \* there is no gateway: the link is looped back
  wire,         \* frames on their way to the client
  gw_req,       \* per layer: the gateway's outstanding request, with its id
  gw_agreed,    \* layers whose request of the client's it acked
  gw_granted,   \* layers whose request of its own the client acked
  gw_lease,     \* address and DNS it acked for the client
  objections, retransmits

gwVars == <<gw_req, gw_agreed, gw_granted, gw_lease, objections, retransmits>>
linkVars == <<vars, looped, wire, gwVars>>

\* What the gateway may ask for at first: an LCP option the client refuses or a
\* too small MRU among them, an IPCP option the client rejects.
GwLcpFirst == {[mru |-> m, magic |-> NoOpt, odd |-> o] : m \in Mrus, o \in {{}, {"unknown"}}}
GwIpcpFirst == {[addr |-> GwDns, dns |-> NoOpt, odd |-> o] : o \in {{}, {"unknown"}}}

\* LCP is open at the gateway; before that it drops IPCP packets (RFC 1661, 3.4).
GwLcpOpen == "LCP" \in gw_agreed \cap gw_granted
GwUp == GwLcpOpen /\ "IPCP" \in gw_agreed \cap gw_granted

LinkInit ==
  /\ Init
  /\ \E o \in GwLcpFirst, p \in GwIpcpFirst :
       /\ gw_req = [LCP |-> Pkt("LCP", "ConfReq", 0, o), IPCP |-> Pkt("IPCP", "ConfReq", 0, p)]
       /\ \/ looped = FALSE /\ wire = <<Pkt("LCP", "ConfReq", 0, o)>>
          \/ looped = TRUE /\ wire = <<>>
  /\ gw_agreed = {} /\ gw_granted = {}
  /\ gw_lease = [addr |-> Unspecified, dns |-> Unspecified]
  /\ objections = 0 /\ retransmits = 0

-----------------------------------------------------------------------------
(* The client's side of the wire: the relay hands over the next frame. *)
ClientHandles ==
  /\ wire # <<>>
  /\ Handle(Head(wire))
  /\ wire' = Tail(wire)
  /\ UNCHANGED <<looped, gwVars>>

\* queue_outbox and a looped wire: the oldest queued frame turns round.
TurnsRound ==
  /\ looped /\ outbox # <<>>
  /\ wire' = Append(wire, Head(outbox))
  /\ outbox' = Tail(outbox)
  /\ UNCHANGED <<phase, ident, lcpVars, ipcpVars, echoVars, looped, gwVars>>

\* The gateway takes the next frame of the client's and answers with "answers".
Takes(f, answers) ==
  /\ outbox # <<>> /\ f = Head(outbox)
  /\ outbox' = Tail(outbox)
  /\ wire' = wire \o answers
  /\ UNCHANGED <<phase, ident, lcpVars, ipcpVars, echoVars, looped>>

Reply(f, code, opts) == <<Pkt(f.proto, code, f.id, opts)>>

\* Its first IPCP request follows the frame that opens LCP.
IpcpStart(agreed, granted) ==
  IF "LCP" \in (agreed \cap granted) /\ ~GwLcpOpen THEN <<gw_req.IPCP>> ELSE <<>>

-----------------------------------------------------------------------------
(* The gateway's answers to the client's Configure-Requests. *)

GwAcksLcp ==
  \E f \in {Head(outbox)} :
    /\ f.proto = "LCP" /\ f.code = "ConfReq"
    /\ gw_agreed' = gw_agreed \cup {"LCP"}
    /\ Takes(f, Reply(f, "ConfAck", f.opts) \o IpcpStart(gw_agreed', gw_granted))
    /\ UNCHANGED <<gw_req, gw_granted, gw_lease, objections, retransmits>>

GwObjectsLcp ==
  \E f \in {Head(outbox)} :
    /\ f.proto = "LCP" /\ f.code = "ConfReq"
    /\ objections < Objections
    /\ objections' = objections + 1
    /\ \/ f.opts.mru # NoOpt /\ \E m \in Mrus \ {f.opts.mru} :
            Takes(f, Reply(f, "ConfNak", [NoLcpOpts EXCEPT !.mru = m]))
       \/ f.opts.mru # NoOpt /\ Takes(f, Reply(f, "ConfRej", [f.opts EXCEPT !.magic = NoOpt]))
       \/ f.opts.magic # NoOpt /\ \E code \in {"ConfNak", "ConfRej"} :
            Takes(f, Reply(f, code, [f.opts EXCEPT !.mru = NoOpt]))
    /\ UNCHANGED <<gw_req, gw_agreed, gw_granted, gw_lease, retransmits>>

\* An address other than the assigned one is NAK'd; some firmware acks the
\* assigned address instead of the one it was asked for.
GwAcksIpcp ==
  \E f \in {Head(outbox)} :
    /\ f.proto = "IPCP" /\ f.code = "ConfReq" /\ GwLcpOpen
    /\ Takes(f, Reply(f, "ConfAck", [f.opts EXCEPT !.addr = Assigned]))
    /\ gw_agreed' = gw_agreed \cup {"IPCP"}
    /\ gw_lease' = [addr |-> Assigned, dns |-> IF f.opts.dns = NoOpt THEN Unspecified ELSE f.opts.dns]
    /\ UNCHANGED <<gw_req, gw_granted, objections, retransmits>>

GwObjectsIpcp ==
  \E f \in {Head(outbox)} :
    /\ f.proto = "IPCP" /\ f.code = "ConfReq" /\ GwLcpOpen
    /\ objections < Objections
    /\ objections' = objections + 1
    /\ \/ f.opts.addr # Assigned /\
            Takes(f, Reply(f, "ConfNak", [NoIpcpOpts EXCEPT !.addr = Assigned]))
       \/ f.opts.dns \notin {NoOpt, GwDns} /\
            Takes(f, Reply(f, "ConfNak", [addr |-> IF f.opts.addr = Assigned THEN NoOpt ELSE Assigned,
                                          dns |-> GwDns, odd |-> {}]))
       \/ f.opts.dns # NoOpt /\
            Takes(f, Reply(f, "ConfRej", [NoIpcpOpts EXCEPT !.dns = f.opts.dns]))
    /\ UNCHANGED <<gw_req, gw_agreed, gw_granted, gw_lease, retransmits>>

-----------------------------------------------------------------------------
(* The client's answers to the gateway's requests. *)

GwGranted ==
  \E f \in {Head(outbox)} :
    /\ f.code = "ConfAck" /\ f.id = gw_req[f.proto].id
    /\ f.proto = "IPCP" => GwLcpOpen
    /\ gw_granted' = gw_granted \cup {f.proto}
    /\ Takes(f, IpcpStart(gw_agreed, gw_granted'))
    /\ UNCHANGED <<gw_req, gw_agreed, gw_lease, objections, retransmits>>

\* It asks again without what was refused, and with an acceptable MRU.
GwAsksAgain ==
  \E f \in {Head(outbox)} :
    /\ f.code \in {"ConfNak", "ConfRej"} /\ f.id = gw_req[f.proto].id
    /\ f.proto = "IPCP" => GwLcpOpen
    /\ LET old == gw_req[f.proto].opts
           new == IF f.code = "ConfRej" THEN [old EXCEPT !.odd = {}]
                  ELSE [old EXCEPT !.mru = f.opts.mru]
           req == Pkt(f.proto, "ConfReq", NextId(f.id), new)
       IN  /\ gw_req' = [gw_req EXCEPT ![f.proto] = req]
           /\ Takes(f, <<req>>)
    /\ UNCHANGED <<gw_agreed, gw_granted, gw_lease, objections, retransmits>>

\* An answer to a request that was repeated in the meantime.
GwStaleAnswer ==
  \E f \in {Head(outbox)} :
    /\ f.code \in {"ConfAck", "ConfNak", "ConfRej"} /\ f.id # gw_req[f.proto].id
    /\ Takes(f, <<>>)
    /\ UNCHANGED gwVars

\* The restart timer of its own request.
GwRetransmits ==
  \E layer \in {"LCP", "IPCP"} :
    /\ ~looped
    /\ layer \notin gw_granted /\ (layer = "IPCP" => GwLcpOpen)
    /\ retransmits < Retransmits
    /\ retransmits' = retransmits + 1
    /\ wire' = Append(wire, gw_req[layer])
    /\ UNCHANGED <<vars, looped, gw_req, gw_agreed, gw_granted, gw_lease, objections>>

GatewayTakes ==
  /\ ~looped /\ outbox # <<>>
  /\ \/ GwAcksLcp \/ GwObjectsLcp \/ GwAcksIpcp \/ GwObjectsIpcp \/ GwGranted
     \/ GwAsksAgain \/ GwStaleAnswer

LinkNext == ClientHandles \/ TurnsRound \/ GatewayTakes \/ GwRetransmits

\* The relay handles what arrives and both ends keep reading; whether the gateway
\* objects or repeats itself is its own affair.
LinkSpec ==
  /\ LinkInit /\ [][LinkNext]_linkVars
  /\ WF_linkVars(ClientHandles) /\ WF_linkVars(TurnsRound) /\ WF_linkVars(GatewayTakes)

-----------------------------------------------------------------------------
(* Properties. *)

\* When the client lets IP traffic flow, the gateway has opened LCP and acked the
\* client's IPCP request, and both name the same address and DNS server: the
\* values on_network configures are the ones the gateway will route to us.
LeaseAgreed ==
  phase = "Network" =>
    /\ GwLcpOpen /\ "IPCP" \in gw_agreed
    /\ local_ip = gw_lease.addr
    /\ dns = gw_lease.dns

\* From the moment LCP is open, the MRU the client believes the gateway advertised
\* is the one in the gateway's current request, not one it NAK'd or that was
\* repeated from an earlier request.
MruAgreed ==
  phase \in {"Ipcp", "Network"} => peer_mru = gw_req["LCP"].opts.mru

\* Without a restart timer on the client's side the negotiation still completes:
\* no order of the two ends' requests, objections and repetitions leaves both
\* waiting for the other.
NegotiationCompletes == ~looped => <>[](phase = "Network" /\ GwUp)

\* A client that talks to itself never believes LCP is open, let alone configures the
\* TUN device, and the exchange of NAKs with itself ends (MAX_CONF_REQ) instead of
\* running until the negotiation timeout.
LoopIsGivenUp ==
  looped => [](phase \in {"Lcp", "Dead"} /\ ipcp_reqs = 0) /\ <>(phase = "Dead")
=============================================================================
