------------------------------ MODULE PppState ------------------------------
(***************************************************************************)
(* The client's PPP state machine, src/src/engine/pppstate.rs: LCP (MRU,   *)
(* magic number) and then IPCP (address, DNS) negotiated over the tunnel.  *)
(*                                                                         *)
(* The relay thread owns the machine: it calls handle() with one frame     *)
(* after the other, send_echo_request() on its keepalive timer, and moves  *)
(* the frames the machine left in outbox to the wire (queue_outbox).  The  *)
(* gateway may send any frame of GatewayFrames at any time.                *)
(*                                                                         *)
(* One action stands for one arm of handle_lcp or handle_ipcp, with the    *)
(* phase promotion that follows it.  Option lists are records: an option   *)
(* that is absent has the value NoOpt, options the client has no case for  *)
(* (or whose length is wrong) are members of "odd".  DNS1 and DNS2 are     *)
(* treated alike by the code and are one option here.  Warnings and        *)
(* dead_reason are wording and left out.                                   *)
(***************************************************************************)
EXTENDS Naturals, Sequences

CONSTANTS
  MaxConfReq,           \* MAX_CONF_REQ: Configure-Requests per protocol (10)
  MaxEchoOutstanding,   \* MAX_ECHO_OUTSTANDING: unanswered echoes tolerated (4)
  IdSpace,              \* number of packet identifiers (u8: 256)
  MagicCount,           \* number of non-zero magic numbers
  MinMru, MaxMtu,       \* 576 and 1500: the least acceptable MRU, the one suggested
                        \* instead, and the bounds of the TUN MTU
  DefaultMru,           \* DEFAULT_MRU (1354)
  Mrus,                 \* MRU values the gateway may name
  Addrs, Unspecified,   \* IPv4 addresses, and 0.0.0.0 among them
  ConfiguredAddrs,      \* addresses the relay may be started with
  NoOpt,                \* an option that is not in the list
  MaxOutbox,            \* bound of the model: frames queued before they are drained
  GatewayFrames         \* frames the gateway may send

ASSUME BoundsAssumption ==
  /\ MaxConfReq \in Nat \ {0} /\ MaxEchoOutstanding \in Nat \ {0}
  /\ IdSpace \in Nat \ {0, 1} /\ MagicCount \in Nat \ {0, 1}
  /\ MinMru \in Nat /\ MaxMtu \in Nat /\ MinMru <= DefaultMru /\ DefaultMru <= MaxMtu

ASSUME DataAssumption ==
  /\ Mrus \subseteq Nat /\ {DefaultMru, MaxMtu} \subseteq Mrus
  /\ Unspecified \in Addrs /\ ConfiguredAddrs \subseteq Addrs
  /\ NoOpt \notin Addrs /\ NoOpt \notin Nat

Ids == 0 .. IdSpace - 1
Magics == 1 .. MagicCount
Phases == {"Lcp", "Ipcp", "Network", "Dead"}

\* Configure options of either protocol; magic 0 is what RFC 1661 forbids.
LcpOpts == [mru : Mrus \cup {NoOpt}, magic : {0} \cup Magics \cup {NoOpt},
            odd : SUBSET {"badlen", "unknown"}]
IpcpOpts == [addr : Addrs \cup {NoOpt}, dns : Addrs \cup {NoOpt},
             odd : SUBSET {"unknown"}]
NoLcpOpts == [mru |-> NoOpt, magic |-> NoOpt, odd |-> {}]
NoIpcpOpts == [addr |-> NoOpt, dns |-> NoOpt, odd |-> {}]

LcpCodes == {"ConfReq", "ConfAck", "ConfNak", "ConfRej",
             "EchoReq", "EchoRep", "TermReq", "TermAck", "ProtoRej"}
IpcpCodes == {"ConfReq", "ConfAck", "ConfNak", "ConfRej", "TermReq", "TermAck"}

\* A frame after hdlc framing and parse_ctrl: protocol, code, identifier, options.
Frame == [proto : {"LCP"}, code : LcpCodes, id : Ids, opts : LcpOpts]
         \cup [proto : {"IPCP"}, code : IpcpCodes, id : Ids, opts : IpcpOpts]
         \cup [proto : {"Other"}, code : {"Data"}, id : {0}, opts : {NoLcpOpts}]

ASSUME FramesAssumption == GatewayFrames \subseteq Frame

VARIABLES
  phase, magic, ident,
  lcp_acked_local,      \* the gateway acked our LCP Configure-Request
  lcp_acked_remote,     \* we acked the gateway's
  ipcp_acked_local, ipcp_acked_remote,
  local_ip, dns,
  outbox,               \* frames queued by the machine, not yet on the wire
  lcp_reqs, ipcp_reqs, lcp_req_id, ipcp_req_id,
  our_mru, send_magic, request_dns,
  peer_mru,             \* MRU the gateway advertised, NoOpt if it did not
  echo_outstanding, echo_supported,
  ipcp_req_opts         \* options of our last IPCP Configure-Request

lcpVars == <<magic, lcp_acked_local, lcp_acked_remote, lcp_reqs, lcp_req_id,
             our_mru, send_magic, peer_mru>>
ipcpVars == <<ipcp_acked_local, ipcp_acked_remote, local_ip, dns, ipcp_reqs,
              ipcp_req_id, request_dns, ipcp_req_opts>>
echoVars == <<echo_outstanding, echo_supported>>
ipcpSend == <<ipcp_reqs, ipcp_req_id, ipcp_req_opts>>
vars == <<phase, ident, outbox, lcpVars, ipcpVars, echoVars>>

-----------------------------------------------------------------------------
(* Identifiers, counters and the frames the machine builds. *)

NextIdUnwrapped(i) == i + 1   \* mutant: no wrap-around

\* next_id: wrapping_add on a u8.
NextId(i) == (i + 1) % IdSpace

\* The request counters are only compared with MaxConfReq; they stop one above it.
Bump(n) == IF n > MaxConfReq THEN n ELSE n + 1

\* rotate_left and xor, kept non-zero: another magic number.
NextMagic(m) == (m % MagicCount) + 1

Pkt(proto, code, id, opts) == [proto |-> proto, code |-> code, id |-> id, opts |-> opts]

\* tun_mtu(): the MRU the gateway advertised, clamped, else the default.
TunMtu ==
  LET mru == IF peer_mru = NoOpt THEN DefaultMru ELSE peer_mru
  IN  IF mru < MinMru THEN MinMru ELSE IF mru > MaxMtu THEN MaxMtu ELSE mru

\* The options our next Configure-Request carries.
LcpOffer == [mru |-> our_mru, magic |-> IF send_magic THEN magic ELSE NoOpt, odd |-> {}]
IpcpOffer == [addr |-> local_ip, dns |-> IF request_dns THEN dns ELSE NoOpt, odd |-> {}]

\* Mutant: no lower bound on the MRU.
LcpNakkedAnyMru(opts) == opts.magic \in {0, magic} \/ "badlen" \in opts.odd

\* A value of the gateway's LCP request that is recognized but unacceptable.
LcpNakked(opts) ==
  \/ opts.mru # NoOpt /\ opts.mru < MinMru
  \/ opts.magic \in {0, magic}
  \/ "badlen" \in opts.odd

\* The answer to an LCP Configure-Request: reject before nak before ack.
LcpVerdict(opts) ==
  IF "unknown" \in opts.odd THEN "ConfRej"
  ELSE IF LcpNakked(opts) THEN "ConfNak" ELSE "ConfAck"

LcpAnswer(opts) ==
  IF LcpVerdict(opts) = "ConfAck" THEN opts
  ELSE IF LcpVerdict(opts) = "ConfRej" THEN [mru |-> NoOpt, magic |-> NoOpt, odd |-> {"unknown"}]
  ELSE [mru |-> IF opts.mru # NoOpt /\ opts.mru < MinMru THEN MaxMtu ELSE NoOpt,
        magic |-> IF opts.magic \in {0, magic} THEN NextMagic(magic) ELSE NoOpt,
        odd |-> opts.odd]

\* The answer to an IPCP Configure-Request: only an IP-Address option is acked.
IpcpRejected(opts) == [opts EXCEPT !.addr = NoOpt]
IpcpVerdict(opts) == IF IpcpRejected(opts) = NoIpcpOpts THEN "ConfAck" ELSE "ConfRej"

-----------------------------------------------------------------------------
(* send_lcp_conf_req and send_ipcp_conf_req: the request goes out after the *)
(* frames queued before it, unless the counter is exhausted and the link    *)
(* dies.                                                                    *)

RequestsLeft(n) == n < MaxConfReq

SendLcpConfReq ==
  /\ lcp_reqs' = Bump(lcp_reqs)
  /\ IF RequestsLeft(lcp_reqs)
       THEN /\ ident' = NextId(ident)
            /\ lcp_req_id' = ident
            /\ outbox' = Append(outbox, Pkt("LCP", "ConfReq", ident, LcpOffer'))
       ELSE UNCHANGED <<ident, lcp_req_id, outbox>>

SendIpcpConfReq(queued) ==
  /\ ipcp_reqs' = Bump(ipcp_reqs)
  /\ IF RequestsLeft(ipcp_reqs)
       THEN /\ ident' = NextId(ident)
            /\ ipcp_req_id' = ident
            /\ ipcp_req_opts' = IpcpOffer'
            /\ outbox' = Append(queued, Pkt("IPCP", "ConfReq", ident, IpcpOffer'))
       ELSE /\ UNCHANGED <<ident, ipcp_req_id, ipcp_req_opts>>
            /\ outbox' = queued

\* The phase a send leaves the link in, having had it in phase p.
SendPhaseAlive(reqs, p) == p   \* mutant: giving up without dying
SendPhase(reqs, p) == IF RequestsLeft(reqs) THEN p ELSE "Dead"

LcpBothAcked == lcp_acked_local /\ lcp_acked_remote

MayOpenIpcp == LcpBothAcked' /\ phase = "Lcp"

\* The end of handle_lcp: both directions acked in phase Lcp opens IPCP.  Only
\* the arms that set a flag can meet the condition.
OpenIpcp(queued) ==
  IF MayOpenIpcp
    THEN /\ SendIpcpConfReq(queued)
         /\ phase' = SendPhase(ipcp_reqs, "Ipcp")
    ELSE /\ outbox' = queued
         /\ UNCHANGED <<phase, ident, ipcpSend>>

IpcpBothAcked == ipcp_acked_local /\ ipcp_acked_remote

MayReviveLink(p) == IpcpBothAcked' /\ p # "Lcp"   \* mutant: a dead link too
MayComeUp(p) == IpcpBothAcked' /\ p = "Ipcp"

\* The end of handle_ipcp: both directions acked in phase Ipcp brings the
\* network up, if there is an address; p is the phase the arm left.
OpenNetwork(p) ==
  phase' = IF MayComeUp(p) THEN IF local_ip' = Unspecified THEN "Dead" ELSE "Network"
           ELSE p

-----------------------------------------------------------------------------
(* PppState::new, followed by the start() run_relay calls at once. *)
Init ==
  /\ phase = "Lcp"
  /\ magic \in Magics
  /\ ident = NextId(1)
  /\ lcp_acked_local = FALSE /\ lcp_acked_remote = FALSE
  /\ ipcp_acked_local = FALSE /\ ipcp_acked_remote = FALSE
  /\ local_ip \in ConfiguredAddrs
  /\ dns = Unspecified
  /\ lcp_reqs = 1 /\ ipcp_reqs = 0
  /\ lcp_req_id = 1 /\ ipcp_req_id = 0
  /\ our_mru = DefaultMru /\ send_magic = TRUE /\ request_dns = TRUE
  /\ peer_mru = NoOpt
  /\ echo_outstanding = 0 /\ echo_supported = FALSE
  /\ ipcp_req_opts = NoIpcpOpts
  /\ outbox = <<Pkt("LCP", "ConfReq", 1, LcpOffer)>>

-----------------------------------------------------------------------------
(* handle_lcp, one action per arm. *)

MruForgotten(opts) == peer_mru   \* mutant: the acked MRU is not stored

\* The MRU an ack of the gateway's request settles: none if it names none.
AckedMru(opts) == opts.mru

LcpConfReq(f) ==
  /\ f.proto = "LCP" /\ f.code = "ConfReq"
  /\ lcp_acked_remote' = (LcpVerdict(f.opts) = "ConfAck")
  /\ peer_mru' = IF LcpVerdict(f.opts) = "ConfAck" THEN AckedMru(f.opts) ELSE peer_mru
  /\ UNCHANGED <<magic, lcp_acked_local, lcp_reqs, lcp_req_id, our_mru, send_magic,
                 ipcp_acked_local, ipcp_acked_remote, local_ip, dns, request_dns, echo_supported>>
  /\ OpenIpcp(Append(outbox, Pkt("LCP", LcpVerdict(f.opts), f.id, LcpAnswer(f.opts))))

\* Options that differ from our request only cause a warning.
LcpConfAck(f) ==
  /\ f.proto = "LCP" /\ f.code = "ConfAck" /\ f.id = lcp_req_id
  /\ lcp_acked_local' = TRUE
  /\ UNCHANGED <<magic, lcp_acked_remote, lcp_reqs, lcp_req_id, our_mru, send_magic, peer_mru,
                 ipcp_acked_local, ipcp_acked_remote, local_ip, dns, request_dns, echo_supported>>
  /\ OpenIpcp(outbox)

LcpConfNak(f) ==
  /\ f.proto = "LCP" /\ f.code = "ConfNak" /\ f.id = lcp_req_id
  /\ our_mru' = IF f.opts.mru = NoOpt THEN our_mru ELSE f.opts.mru
  /\ magic' = IF f.opts.magic = NoOpt THEN magic ELSE NextMagic(magic)
  /\ UNCHANGED send_magic
  /\ SendLcpConfReq
  /\ phase' = SendPhase(lcp_reqs, phase)
  /\ UNCHANGED <<lcp_acked_local, lcp_acked_remote, peer_mru, ipcpVars, echo_supported>>

LcpConfRej(f) ==
  /\ f.proto = "LCP" /\ f.code = "ConfRej" /\ f.id = lcp_req_id
  /\ our_mru' = IF f.opts.mru = NoOpt THEN our_mru ELSE NoOpt
  /\ send_magic' = (send_magic /\ f.opts.magic = NoOpt)
  /\ UNCHANGED magic
  /\ SendLcpConfReq
  /\ phase' = SendPhase(lcp_reqs, phase)
  /\ UNCHANGED <<lcp_acked_local, lcp_acked_remote, peer_mru, ipcpVars, echo_supported>>

\* Answered only once LCP is open; the reply carries our magic if it was negotiated.
LcpEchoReq(f) ==
  /\ f.proto = "LCP" /\ f.code = "EchoReq"
  /\ phase \in {"Ipcp", "Network"}
  /\ outbox' = Append(outbox, Pkt("LCP", "EchoRep", f.id,
                 [NoLcpOpts EXCEPT !.magic = IF send_magic THEN magic ELSE 0]))
  /\ UNCHANGED <<phase, ident, lcpVars, ipcpVars, echo_supported>>

LcpEchoRep(f) ==
  /\ f.proto = "LCP" /\ f.code = "EchoRep"
  /\ echo_supported' = TRUE
  /\ UNCHANGED <<phase, ident, outbox, lcpVars, ipcpVars>>

LcpTermReq(f) ==
  /\ f.proto = "LCP" /\ f.code = "TermReq"
  /\ outbox' = Append(outbox, Pkt("LCP", "TermAck", f.id, NoLcpOpts))
  /\ phase' = "Dead"
  /\ UNCHANGED <<ident, lcpVars, ipcpVars, echo_supported>>

-----------------------------------------------------------------------------
(* handle_ipcp, one action per arm.  Nothing looks at the phase first: the *)
(* arms run in phase Lcp as well, and after death.                         *)

IpcpConfReq(f) ==
  /\ f.proto = "IPCP" /\ f.code = "ConfReq"
  /\ ipcp_acked_remote' = (IpcpVerdict(f.opts) = "ConfAck")
  /\ outbox' = Append(outbox, Pkt("IPCP", IpcpVerdict(f.opts), f.id,
                 IF IpcpVerdict(f.opts) = "ConfAck" THEN f.opts ELSE IpcpRejected(f.opts)))
  /\ UNCHANGED <<ident, ipcp_acked_local, local_ip, dns, request_dns, ipcpSend, lcpVars, echo_supported>>
  /\ OpenNetwork(phase)

AckedAddrIgnored(opts) == local_ip   \* mutant: the address stays the one asked for

\* An ack whose options differ from the request is accepted, and its address adopted.
AckedAddr(opts) ==
  IF opts # ipcp_req_opts /\ opts.addr # NoOpt THEN opts.addr ELSE local_ip

IpcpConfAckAny(f) ==   \* mutant: an ack of any request
  /\ f.proto = "IPCP" /\ f.code = "ConfAck"
  /\ local_ip' = AckedAddr(f.opts)
  /\ ipcp_acked_local' = TRUE
  /\ UNCHANGED <<ident, outbox, ipcp_acked_remote, dns, request_dns, ipcpSend, lcpVars, echo_supported>>
  /\ OpenNetwork(phase)

IpcpConfAck(f) ==
  /\ f.proto = "IPCP" /\ f.code = "ConfAck" /\ f.id = ipcp_req_id
  /\ local_ip' = AckedAddr(f.opts)
  /\ ipcp_acked_local' = TRUE
  /\ UNCHANGED <<ident, outbox, ipcp_acked_remote, dns, request_dns, ipcpSend, lcpVars, echo_supported>>
  /\ OpenNetwork(phase)

IpcpConfNakSilent(f) ==   \* mutant: adopts the values without asking again
  /\ f.proto = "IPCP" /\ f.code = "ConfNak" /\ f.id = ipcp_req_id
  /\ local_ip' = IF f.opts.addr = NoOpt THEN local_ip ELSE f.opts.addr
  /\ dns' = IF f.opts.dns = NoOpt THEN dns ELSE f.opts.dns
  /\ UNCHANGED <<ident, outbox, request_dns, ipcp_acked_local, ipcp_acked_remote, ipcpSend,
                 lcpVars, echo_supported>>
  /\ OpenNetwork(phase)

IpcpConfNak(f) ==
  /\ f.proto = "IPCP" /\ f.code = "ConfNak" /\ f.id = ipcp_req_id
  /\ local_ip' = IF f.opts.addr = NoOpt THEN local_ip ELSE f.opts.addr
  /\ dns' = IF f.opts.dns = NoOpt THEN dns ELSE f.opts.dns
  /\ UNCHANGED <<request_dns, ipcp_acked_local, ipcp_acked_remote, lcpVars, echo_supported>>
  /\ SendIpcpConfReq(outbox)
  /\ OpenNetwork(SendPhase(ipcp_reqs, phase))

\* Refused DNS is not asked for again; a refused address is fatal, and returns
\* before a new request is sent.  DNS counts if it comes before the address.
IpcpConfRej(f) ==
  /\ f.proto = "IPCP" /\ f.code = "ConfRej" /\ f.id = ipcp_req_id
  /\ f.opts.addr = NoOpt
  /\ request_dns' = (request_dns /\ f.opts.dns = NoOpt)
  /\ dns' = IF f.opts.dns = NoOpt THEN dns ELSE Unspecified
  /\ UNCHANGED <<local_ip, ipcp_acked_local, ipcp_acked_remote, lcpVars, echo_supported>>
  /\ SendIpcpConfReq(outbox)
  /\ OpenNetwork(SendPhase(ipcp_reqs, phase))

IpcpConfRejAddr(f) ==
  /\ f.proto = "IPCP" /\ f.code = "ConfRej" /\ f.id = ipcp_req_id
  /\ f.opts.addr # NoOpt
  /\ \E dnsFirst \in {FALSE, f.opts.dns # NoOpt} :
       /\ request_dns' = (request_dns /\ ~dnsFirst)
       /\ dns' = IF dnsFirst THEN Unspecified ELSE dns
  /\ phase' = "Dead"
  /\ UNCHANGED <<ident, outbox, ipcp_acked_local, ipcp_acked_remote, local_ip, ipcpSend,
                 lcpVars, echo_supported>>

IpcpTermReq(f) ==
  /\ f.proto = "IPCP" /\ f.code = "TermReq"
  /\ outbox' = Append(outbox, Pkt("IPCP", "TermAck", f.id, NoIpcpOpts))
  /\ phase' = "Dead"
  /\ UNCHANGED <<ident, lcpVars, ipcpVars, echo_supported>>

\* Any other IPCP packet (a code without a case, an answer to another request)
\* only reaches the promotion at the end.
IpcpOther(f) ==
  /\ f.proto = "IPCP"
  /\ \/ f.code = "TermAck"
     \/ f.code \in {"ConfAck", "ConfNak", "ConfRej"} /\ f.id # ipcp_req_id
  /\ UNCHANGED <<ident, outbox, lcpVars, ipcpVars, echo_supported>>
  /\ OpenNetwork(phase)

-----------------------------------------------------------------------------
\* handle() on a protocol the client does not speak: Protocol-Reject once LCP is open.
UnknownProtocol(f) ==
  /\ f.proto = "Other"
  /\ phase \in {"Ipcp", "Network"}
  /\ ident' = NextId(ident)
  /\ outbox' = Append(outbox, Pkt("LCP", "ProtoRej", ident, NoLcpOpts))
  /\ UNCHANGED <<phase, lcpVars, ipcpVars, echo_supported>>

\* send_echo_request, called by the relay in phase Network: the link dies when
\* too many went unanswered and the gateway is known to answer; otherwise the
\* request is sent, or withheld once the bound is reached.
SendEchoRequest ==
  /\ phase = "Network"
  /\ echo_outstanding < MaxEchoOutstanding
  /\ echo_outstanding' = echo_outstanding + 1
  /\ ident' = NextId(ident)
  /\ outbox' = Append(outbox, Pkt("LCP", "EchoReq", ident,
                 [NoLcpOpts EXCEPT !.magic = IF send_magic THEN magic ELSE 0]))
  /\ UNCHANGED <<phase, echo_supported, lcpVars, ipcpVars>>

EchoTimeout ==
  /\ phase = "Network"
  /\ echo_outstanding >= MaxEchoOutstanding
  /\ echo_supported
  /\ phase' = "Dead"
  /\ UNCHANGED <<ident, outbox, lcpVars, ipcpVars, echoVars>>

\* queue_outbox: the relay takes what the machine queued.
DrainOutbox ==
  /\ outbox # <<>>
  /\ outbox' = <<>>
  /\ UNCHANGED <<phase, ident, lcpVars, ipcpVars, echoVars>>

\* Frames no arm changes anything for: malformed, an answer to another request,
\* an echo or an unknown protocol before LCP is open.
Ignored(f) ==
  /\ \/ f.proto = "LCP" /\ f.code \in {"TermAck", "ProtoRej"}
     \/ f.proto = "LCP" /\ f.code \in {"ConfAck", "ConfNak", "ConfRej"} /\ f.id # lcp_req_id
     \/ f.proto = "LCP" /\ f.code = "EchoReq" /\ phase \in {"Lcp", "Dead"}
     \/ f.proto = "Other" /\ phase \in {"Lcp", "Dead"}
  /\ UNCHANGED <<phase, ident, outbox, lcpVars, ipcpVars, echo_supported>>

\* handle(): the arm that matches the frame.  The relay clears the echo counter
\* first: any frame proves the link alive.
Handle(f) ==
  /\ echo_outstanding' = 0
  /\ \/ LcpConfReq(f) \/ LcpConfAck(f) \/ LcpConfNak(f) \/ LcpConfRej(f)
     \/ LcpEchoReq(f) \/ LcpEchoRep(f) \/ LcpTermReq(f)
     \/ IpcpConfReq(f) \/ IpcpConfAck(f) \/ IpcpConfNak(f)
     \/ IpcpConfRej(f) \/ IpcpConfRejAddr(f) \/ IpcpTermReq(f) \/ IpcpOther(f)
     \/ UnknownProtocol(f) \/ Ignored(f)

Next ==
  \/ \E f \in GatewayFrames : Len(outbox) < MaxOutbox /\ Handle(f)
  \/ Len(outbox) < MaxOutbox /\ SendEchoRequest
  \/ EchoTimeout
  \/ DrainOutbox

Spec == Init /\ [][Next]_vars

-----------------------------------------------------------------------------
(* Properties. *)

TypeOK ==
  /\ phase \in Phases /\ magic \in Magics /\ ident \in Ids
  /\ lcp_acked_local \in BOOLEAN /\ lcp_acked_remote \in BOOLEAN
  /\ ipcp_acked_local \in BOOLEAN /\ ipcp_acked_remote \in BOOLEAN
  /\ local_ip \in Addrs /\ dns \in Addrs
  /\ lcp_reqs \in 0 .. MaxConfReq + 1 /\ ipcp_reqs \in 0 .. MaxConfReq + 1
  /\ lcp_req_id \in Ids /\ ipcp_req_id \in Ids
  /\ our_mru \in Mrus \cup {NoOpt}
  /\ send_magic \in BOOLEAN /\ request_dns \in BOOLEAN
  /\ peer_mru \in Mrus \cup {NoOpt}
  /\ echo_outstanding \in 0 .. MaxEchoOutstanding /\ echo_supported \in BOOLEAN
  /\ ipcp_req_opts \in IpcpOpts
  /\ outbox \in Seq(Frame)

\* No NAK or REJ storm outlives MAX_CONF_REQ: once either counter is past the
\* bound the link is dead, however the answers of the two protocols interleave
\* and whatever arrives afterwards (send_lcp_conf_req, send_ipcp_conf_req).
GivingUpIsDeath ==
  lcp_reqs > MaxConfReq \/ ipcp_reqs > MaxConfReq => phase = "Dead"

\* The MTU put on the TUN device is one IPv4 can use and never above what the
\* gateway said it accepts (tun_mtu, with the MRU handle_lcp acked).
MtuFitsPeer ==
  /\ TunMtu \in MinMru .. MaxMtu
  /\ peer_mru # NoOpt => TunMtu <= peer_mru

\* Phase, flags and address, read as the life of a link.
Lifecycle == INSTANCE LinkLifecycle WITH
  Addresses <- Addrs,
  NoAddress <- Unspecified,
  stage <- phase,
  ours <- {l \in {"LCP", "IPCP"} : IF l = "LCP" THEN lcp_acked_local ELSE ipcp_acked_local},
  theirs <- {l \in {"LCP", "IPCP"} : IF l = "LCP" THEN lcp_acked_remote ELSE ipcp_acked_remote},
  address <- local_ip

\* The state machine implements the lifecycle: phases in order, each with both
\* ends' consent, an address by the time the network is up, death final.
LifecycleSpec == Lifecycle!Spec
=============================================================================
