------------------------------ MODULE PppProofs ------------------------------
(***************************************************************************)
(* Theorems about PppState, for every number of identifiers, requests and  *)
(* echoes, every set of addresses and MRUs, and a gateway that may send    *)
(* any frame at any time; and about PppRelay.  The relay loop hands the    *)
(* machine frames, moves its outbox to the wire and counts its echoes: the *)
(* invariant of the machine carries over, since it says nothing about      *)
(* frames that are queued, and so does the life of the link.  Last, about  *)
(* PppLink: what the frames under way between the machine and a gateway    *)
(* that negotiates may still lead to, so that both ends agree.             *)
(***************************************************************************)
EXTENDS PppRelay, PppLink, TLAPS

USE BoundsAssumption, DataAssumption, FramesAssumption

-----------------------------------------------------------------------------
(* Lemmas about the operators of the machine. *)

\* wrapping_add stays among the identifiers.
LEMMA NextIdType == ASSUME NEW i \in Ids PROVE NextId(i) \in Ids
  BY SMT DEF Ids, NextId

\* A replaced magic number is a non-zero magic number.
LEMMA NextMagicType == ASSUME NEW m \in Magics PROVE NextMagic(m) \in Magics
  BY SMT DEF Magics, NextMagic

\* Empty option lists are option lists.
LEMMA NoOptsType == NoLcpOpts \in LcpOpts /\ NoIpcpOpts \in IpcpOpts
  BY DEF NoLcpOpts, NoIpcpOpts, LcpOpts, IpcpOpts

\* A frame built from typed parts is a frame.
LEMMA PktType ==
  /\ \A c \in LcpCodes, i \in Ids, o \in LcpOpts : Pkt("LCP", c, i, o) \in Frame
  /\ \A c \in IpcpCodes, i \in Ids, o \in IpcpOpts : Pkt("IPCP", c, i, o) \in Frame
  BY DEF Pkt, Frame

\* The parts of a frame that the arms read.
LEMMA FrameParts ==
  ASSUME NEW f \in Frame
  PROVE  /\ f.proto = "LCP" => f.id \in Ids /\ f.opts \in LcpOpts
         /\ f.proto = "IPCP" => f.id \in Ids /\ f.opts \in IpcpOpts
  BY DEF Frame

\* Whatever the gateway asks for in LCP, the answer is well formed.
LEMMA LcpAnswerType ==
  ASSUME NEW o \in LcpOpts, magic \in Magics
  PROVE  LcpVerdict(o) \in {"ConfAck", "ConfNak", "ConfRej"} /\ LcpAnswer(o) \in LcpOpts
  <1>1. LcpVerdict(o) \in {"ConfAck", "ConfNak", "ConfRej"}
    BY DEF LcpVerdict
  <1>2. CASE LcpVerdict(o) = "ConfRej"
    BY <1>2, NoOptsType DEF LcpAnswer, LcpOpts, NoLcpOpts
  <1>3. CASE LcpVerdict(o) = "ConfNak"
    BY <1>3, NextMagicType DEF LcpAnswer, LcpOpts
  <1>4. CASE LcpVerdict(o) = "ConfAck"
    BY <1>4 DEF LcpAnswer
  <1> QED BY <1>1, <1>2, <1>3, <1>4

\* The options the machine offers are option lists.
LEMMA OfferType ==
  ASSUME TypeOK
  PROVE  LcpOffer \in LcpOpts /\ IpcpOffer \in IpcpOpts
  BY DEF TypeOK, LcpOffer, IpcpOffer, LcpOpts, IpcpOpts

\* Appending a frame keeps the outbox well formed.
LEMMA AppendType == \A s \in Seq(Frame), f \in Frame : Append(s, f) \in Seq(Frame)
  OBVIOUS

-----------------------------------------------------------------------------
(* Type correctness. *)

\* The initial state is well typed.
LEMMA InitType == ASSUME Init PROVE TypeOK
  <1>1. NextId(1) \in Ids /\ 0 \in Ids /\ 1 \in Ids
    BY SMT DEF NextId, Ids
  <1>2. LcpOffer \in LcpOpts
    BY DEF Init, LcpOffer, LcpOpts
  <1>3. Pkt("LCP", "ConfReq", 1, LcpOffer) \in Frame
    BY <1>1, <1>2, PktType DEF LcpCodes
  <1>4. outbox \in Seq(Frame)
    BY <1>3 DEF Init
  <1>5. ipcp_req_opts \in IpcpOpts
    BY NoOptsType DEF Init
  <1>6. /\ lcp_acked_local \in BOOLEAN /\ lcp_acked_remote \in BOOLEAN
        /\ ipcp_acked_local \in BOOLEAN /\ ipcp_acked_remote \in BOOLEAN
        /\ send_magic \in BOOLEAN /\ request_dns \in BOOLEAN /\ echo_supported \in BOOLEAN
    BY Zenon DEF Init
  <1>7. /\ lcp_reqs \in 0 .. MaxConfReq + 1 /\ ipcp_reqs \in 0 .. MaxConfReq + 1
        /\ echo_outstanding \in 0 .. MaxEchoOutstanding
        /\ ident \in Ids /\ lcp_req_id \in Ids /\ ipcp_req_id \in Ids
    BY <1>1 DEF Init
  <1>8. /\ phase \in Phases /\ magic \in Magics /\ local_ip \in Addrs /\ dns \in Addrs
        /\ our_mru \in Mrus \cup {NoOpt} /\ peer_mru \in Mrus \cup {NoOpt}
    BY DEF Init, Phases
  <1> QED BY Zenon, <1>4, <1>5, <1>6, <1>7, <1>8 DEF TypeOK

\* A new LCP request keeps its counter, identifier and the outbox typed.
LEMMA SendLcpType ==
  ASSUME TypeOK, SendLcpConfReq, LcpOffer' \in LcpOpts
  PROVE  /\ lcp_reqs' \in 0 .. MaxConfReq + 1 /\ ident' \in Ids
         /\ lcp_req_id' \in Ids /\ outbox' \in Seq(Frame)
  <1>1. lcp_reqs' \in 0 .. MaxConfReq + 1
    BY DEF TypeOK, SendLcpConfReq, Bump
  <1>2. Pkt("LCP", "ConfReq", ident, LcpOffer') \in Frame
    BY PktType DEF TypeOK, LcpCodes
  <1> QED BY <1>1, <1>2, NextIdType, AppendType DEF TypeOK, SendLcpConfReq

\* The same for IPCP, after the frames queued before it.
LEMMA SendIpcpType ==
  ASSUME TypeOK, NEW q \in Seq(Frame), SendIpcpConfReq(q), IpcpOffer' \in IpcpOpts
  PROVE  /\ ipcp_reqs' \in 0 .. MaxConfReq + 1 /\ ident' \in Ids
         /\ ipcp_req_id' \in Ids /\ ipcp_req_opts' \in IpcpOpts /\ outbox' \in Seq(Frame)
  <1>1. ipcp_reqs' \in 0 .. MaxConfReq + 1
    BY DEF TypeOK, SendIpcpConfReq, Bump
  <1>2. Pkt("IPCP", "ConfReq", ident, IpcpOffer') \in Frame
    BY PktType DEF TypeOK, IpcpCodes
  <1> QED BY <1>1, <1>2, NextIdType, AppendType DEF TypeOK, SendIpcpConfReq

\* Both ends of the promotion out of phase Lcp are typed.
LEMMA OpenIpcpType ==
  ASSUME TypeOK, NEW q \in Seq(Frame), OpenIpcp(q), IpcpOffer' \in IpcpOpts
  PROVE  /\ phase' \in Phases /\ ipcp_reqs' \in 0 .. MaxConfReq + 1 /\ ident' \in Ids
         /\ ipcp_req_id' \in Ids /\ ipcp_req_opts' \in IpcpOpts /\ outbox' \in Seq(Frame)
  <1>1. CASE MayOpenIpcp
    BY <1>1, SendIpcpType DEF OpenIpcp, SendPhase, Phases
  <1>2. CASE ~MayOpenIpcp
    BY <1>2 DEF OpenIpcp, TypeOK, ipcpSend
  <1> QED BY <1>1, <1>2

\* Handling any frame keeps the state well typed.
LEMMA HandleType ==
  ASSUME TypeOK, NEW f \in Frame, Handle(f)
  PROVE  TypeOK'
  <1> USE FrameParts
  <1>f. NoLcpOpts \in LcpOpts /\ NoIpcpOpts \in IpcpOpts
    BY NoOptsType
  <1>e. echo_outstanding' \in 0 .. MaxEchoOutstanding
    BY DEF Handle
  <1>1. CASE LcpConfReq(f)
    <2>1. Pkt("LCP", LcpVerdict(f.opts), f.id, LcpAnswer(f.opts)) \in Frame
      BY <1>1, <1>f, LcpAnswerType, PktType DEF LcpConfReq, TypeOK, LcpCodes
    <2>2. Append(outbox, Pkt("LCP", LcpVerdict(f.opts), f.id, LcpAnswer(f.opts))) \in Seq(Frame)
      BY <2>1, AppendType DEF TypeOK
    <2>3. IpcpOffer' \in IpcpOpts
      BY <1>1, OfferType DEF LcpConfReq, IpcpOffer
    <2>4. peer_mru' \in Mrus \cup {NoOpt} /\ lcp_acked_remote' \in BOOLEAN
      BY <1>1, <1>f DEF LcpConfReq, TypeOK, AckedMru, LcpOpts
    <2> QED BY <1>1, <1>e, <2>2, <2>3, <2>4, OpenIpcpType DEF LcpConfReq, TypeOK
  <1>2. CASE LcpConfAck(f)
    <2>1. IpcpOffer' \in IpcpOpts
      BY <1>2, OfferType DEF LcpConfAck, IpcpOffer
    <2> QED BY <1>2, <1>e, <2>1, OpenIpcpType DEF LcpConfAck, TypeOK
  <1>3. CASE LcpConfNak(f)
    <2>1. our_mru' \in Mrus \cup {NoOpt} /\ magic' \in Magics /\ send_magic' = send_magic
      BY <1>3, <1>f, NextMagicType DEF LcpConfNak, TypeOK, LcpOpts
    <2>2. LcpOffer' \in LcpOpts
      BY <2>1 DEF LcpOffer, LcpOpts, TypeOK
    <2>3. phase' \in Phases
      BY <1>3 DEF LcpConfNak, SendPhase, TypeOK, Phases
    <2> QED BY <1>3, <1>e, <2>1, <2>2, <2>3, SendLcpType DEF LcpConfNak, TypeOK, ipcpVars
  <1>4. CASE LcpConfRej(f)
    <2>1. our_mru' \in Mrus \cup {NoOpt} /\ magic' = magic /\ send_magic' \in BOOLEAN
      BY <1>4, <1>f DEF LcpConfRej, TypeOK
    <2>2. LcpOffer' \in LcpOpts
      BY <2>1 DEF LcpOffer, LcpOpts, TypeOK
    <2>3. phase' \in Phases
      BY <1>4 DEF LcpConfRej, SendPhase, TypeOK, Phases
    <2> QED BY <1>4, <1>e, <2>1, <2>2, <2>3, SendLcpType DEF LcpConfRej, TypeOK, ipcpVars
  <1>5. CASE LcpEchoReq(f)
    <2>1. [NoLcpOpts EXCEPT !.magic = IF send_magic THEN magic ELSE 0] \in LcpOpts
      BY DEF NoLcpOpts, LcpOpts, TypeOK
    <2>2. outbox' \in Seq(Frame)
      BY <1>5, <1>f, <2>1, PktType, AppendType DEF LcpEchoReq, TypeOK, LcpCodes
    <2> QED BY <1>5, <1>e, <2>2 DEF LcpEchoReq, TypeOK, lcpVars, ipcpVars
  <1>6. CASE LcpEchoRep(f)
    BY <1>6, <1>e DEF LcpEchoRep, TypeOK, lcpVars, ipcpVars
  <1>7. CASE LcpTermReq(f)
    <2>1. outbox' \in Seq(Frame)
      BY <1>7, <1>f, PktType, AppendType DEF LcpTermReq, TypeOK, LcpCodes
    <2> QED BY <1>7, <1>e, <2>1 DEF LcpTermReq, TypeOK, lcpVars, ipcpVars, Phases
  <1>8. CASE IpcpConfReq(f)
    <2>1. IpcpRejected(f.opts) \in IpcpOpts
      BY <1>8, <1>f DEF IpcpConfReq, IpcpRejected, IpcpOpts
    <2>2. IpcpVerdict(f.opts) \in IpcpCodes
      BY DEF IpcpVerdict, IpcpCodes
    <2>3. outbox' \in Seq(Frame)
      BY <1>8, <1>f, <2>1, <2>2, PktType, AppendType DEF IpcpConfReq, TypeOK
    <2>4. phase' \in Phases
      BY <1>8 DEF IpcpConfReq, OpenNetwork, TypeOK, Phases
    <2> QED BY <1>8, <1>e, <2>3, <2>4 DEF IpcpConfReq, TypeOK, lcpVars, ipcpSend
  <1>9. CASE IpcpConfAck(f)
    <2>1. local_ip' \in Addrs
      BY <1>9, <1>f DEF IpcpConfAck, AckedAddr, IpcpOpts, TypeOK
    <2>2. phase' \in Phases
      BY <1>9 DEF IpcpConfAck, OpenNetwork, TypeOK, Phases
    <2> QED BY <1>9, <1>e, <2>1, <2>2 DEF IpcpConfAck, TypeOK, lcpVars, ipcpSend
  <1>10. CASE IpcpConfNak(f)
    <2>1. local_ip' \in Addrs /\ dns' \in Addrs /\ request_dns' = request_dns
      BY <1>10, <1>f DEF IpcpConfNak, IpcpOpts, TypeOK
    <2>2. IpcpOffer' \in IpcpOpts
      BY <2>1 DEF IpcpOffer, IpcpOpts, TypeOK
    <2>3. phase' \in Phases
      BY <1>10 DEF IpcpConfNak, OpenNetwork, SendPhase, TypeOK, Phases
    <2>4. SendIpcpConfReq(outbox) /\ outbox \in Seq(Frame)
      BY <1>10 DEF IpcpConfNak, TypeOK
    <2> QED BY <1>10, <1>e, <2>1, <2>2, <2>3, <2>4, SendIpcpType DEF IpcpConfNak, TypeOK, lcpVars
  <1>11. CASE IpcpConfRej(f)
    <2>1. local_ip' \in Addrs /\ dns' \in Addrs /\ request_dns' \in BOOLEAN
      BY <1>11, <1>f DEF IpcpConfRej, IpcpOpts, TypeOK
    <2>2. IpcpOffer' \in IpcpOpts
      BY <2>1 DEF IpcpOffer, IpcpOpts, TypeOK
    <2>3. phase' \in Phases
      BY <1>11 DEF IpcpConfRej, OpenNetwork, SendPhase, TypeOK, Phases
    <2>4. SendIpcpConfReq(outbox) /\ outbox \in Seq(Frame)
      BY <1>11 DEF IpcpConfRej, TypeOK
    <2> QED BY <1>11, <1>e, <2>1, <2>2, <2>3, <2>4, SendIpcpType DEF IpcpConfRej, TypeOK, lcpVars
  <1>12. CASE IpcpConfRejAddr(f)
    BY <1>12, <1>e DEF IpcpConfRejAddr, TypeOK, lcpVars, ipcpSend, Phases
  <1>13. CASE IpcpTermReq(f)
    <2>1. outbox' \in Seq(Frame)
      BY <1>13, <1>f, PktType, AppendType DEF IpcpTermReq, TypeOK, IpcpCodes
    <2> QED BY <1>13, <1>e, <2>1 DEF IpcpTermReq, TypeOK, lcpVars, ipcpVars, Phases
  <1>14. CASE IpcpOther(f)
    <2>1. phase' \in Phases
      BY <1>14 DEF IpcpOther, OpenNetwork, TypeOK, Phases
    <2> QED BY <1>14, <1>e, <2>1 DEF IpcpOther, TypeOK, lcpVars, ipcpVars
  <1>15. CASE UnknownProtocol(f)
    <2>1. outbox' \in Seq(Frame) /\ ident' \in Ids
      BY <1>15, <1>f, PktType, AppendType, NextIdType DEF UnknownProtocol, TypeOK, LcpCodes
    <2> QED BY <1>15, <1>e, <2>1 DEF UnknownProtocol, TypeOK, lcpVars, ipcpVars
  <1>16. CASE Ignored(f)
    BY <1>16, <1>e DEF Ignored, TypeOK, lcpVars, ipcpVars
  <1> QED BY <1>1, <1>2, <1>3, <1>4, <1>5, <1>6, <1>7, <1>8, <1>9, <1>10, <1>11, <1>12,
             <1>13, <1>14, <1>15, <1>16 DEF Handle

\* The timer and the relay's drain keep the state well typed too.
LEMMA NextType == ASSUME TypeOK, [Next]_vars PROVE TypeOK'
  <1>1. CASE \E f \in GatewayFrames : Len(outbox) < MaxOutbox /\ Handle(f)
    BY <1>1, HandleType
  <1>2. CASE SendEchoRequest
    <2>1. [NoLcpOpts EXCEPT !.magic = IF send_magic THEN magic ELSE 0] \in LcpOpts
      BY DEF NoLcpOpts, LcpOpts, TypeOK
    <2>2. outbox' \in Seq(Frame) /\ ident' \in Ids
      BY <1>2, <2>1, PktType, AppendType, NextIdType DEF SendEchoRequest, TypeOK, LcpCodes
    <2>3. echo_outstanding' \in 0 .. MaxEchoOutstanding
      BY <1>2 DEF SendEchoRequest, TypeOK
    <2> QED BY <1>2, <2>2, <2>3 DEF SendEchoRequest, TypeOK, lcpVars, ipcpVars
  <1>3. CASE EchoTimeout
    BY <1>3 DEF EchoTimeout, TypeOK, lcpVars, ipcpVars, echoVars, Phases
  <1>4. CASE DrainOutbox
    BY <1>4 DEF DrainOutbox, TypeOK, lcpVars, ipcpVars, echoVars
  <1>5. CASE UNCHANGED vars
    BY <1>5 DEF vars, TypeOK, lcpVars, ipcpVars, echoVars
  <1> QED BY <1>1, <1>2, <1>3, <1>4, <1>5 DEF Next

\* Every reachable state is well typed.
THEOREM TypeCorrect == Spec => []TypeOK
  <1>1. Init => TypeOK
    BY InitType
  <1>2. TypeOK /\ [Next]_vars => TypeOK'
    BY NextType
  <1> QED BY <1>1, <1>2, PTL DEF Spec

-----------------------------------------------------------------------------
(* The safety invariant.  GivingUpIsDeath alone is not inductive: a request *)
(* that exceeds the bound kills the link, but nothing in the counters says  *)
(* that a dead link stays dead; that the promotions only leave Lcp and Ipcp *)
(* says it.  What the ack flags are in each phase and the bound on the      *)
(* acked MRU are inductive.                                                 *)

FlagsInOrder ==
  /\ phase \in {"Ipcp", "Network"} => lcp_acked_local /\ ipcp_reqs > 0
  /\ phase = "Network" => ipcp_acked_local
  /\ phase = "Lcp" => ~(lcp_acked_local /\ lcp_acked_remote)

MruAcceptable == peer_mru # NoOpt => peer_mru >= MinMru

IInv == TypeOK /\ GivingUpIsDeath /\ FlagsInOrder /\ MruAcceptable

\* The promotion at the end of handle_lcp keeps the invariant's parts.
LEMMA OpenIpcpInv ==
  ASSUME IInv, NEW q, OpenIpcp(q), lcp_reqs' = lcp_reqs,
         lcp_acked_local => lcp_acked_local', ipcp_acked_local' = ipcp_acked_local
  PROVE  (GivingUpIsDeath /\ FlagsInOrder)'
  <1> USE DEF IInv, GivingUpIsDeath, FlagsInOrder
  <1>1. CASE MayOpenIpcp
    <2>1. CASE RequestsLeft(ipcp_reqs)
      BY <1>1, <2>1 DEF OpenIpcp, MayOpenIpcp, LcpBothAcked, SendIpcpConfReq, SendPhase,
         RequestsLeft, Bump, TypeOK
    <2>2. CASE ~RequestsLeft(ipcp_reqs)
      BY <1>1, <2>2 DEF OpenIpcp, SendPhase
    <2> QED BY <2>1, <2>2
  <1>2. CASE ~MayOpenIpcp
    BY <1>2 DEF OpenIpcp, MayOpenIpcp, LcpBothAcked, ipcpSend
  <1> QED BY <1>1, <1>2

\* A death, whatever else changes, satisfies the invariant's parts.
LEMMA DeathInv == ASSUME phase' = "Dead" PROVE (GivingUpIsDeath /\ FlagsInOrder)'
  BY DEF GivingUpIsDeath, FlagsInOrder

\* Handling any frame preserves the invariant.
LEMMA HandleInv ==
  ASSUME IInv, NEW f \in Frame, Handle(f)
  PROVE  (GivingUpIsDeath /\ FlagsInOrder /\ MruAcceptable)'
  <1> USE DEF IInv
  <1>1. CASE LcpConfReq(f)
    <2>a. f.opts.mru \in Mrus \cup {NoOpt}
      BY <1>1, FrameParts DEF LcpConfReq, LcpOpts
    <2>b. ASSUME LcpVerdict(f.opts) = "ConfAck", f.opts.mru # NoOpt
          PROVE  f.opts.mru >= MinMru
      <3>1. ~LcpNakked(f.opts)
        BY <2>b DEF LcpVerdict
      <3>2. ~(f.opts.mru < MinMru)
        BY <2>b, <3>1 DEF LcpNakked
      <3>3. f.opts.mru \in Nat /\ MinMru \in Nat
        BY <2>a, <2>b
      <3> HIDE DEF IInv
      <3> QED BY SMT, <3>2, <3>3
    <2>c. peer_mru' = IF LcpVerdict(f.opts) = "ConfAck" THEN f.opts.mru ELSE peer_mru
      BY <1>1 DEF LcpConfReq, AckedMru
    <2>1. MruAcceptable'
      BY <2>b, <2>c DEF MruAcceptable
    <2> QED BY <1>1, <2>1, OpenIpcpInv DEF LcpConfReq
  <1>2. CASE LcpConfAck(f)
    BY <1>2, OpenIpcpInv DEF LcpConfAck, MruAcceptable
  <1>3. CASE LcpConfNak(f)
    BY <1>3 DEF LcpConfNak, SendLcpConfReq, SendPhase, RequestsLeft, Bump, ipcpVars,
       GivingUpIsDeath, FlagsInOrder, MruAcceptable, TypeOK
  <1>4. CASE LcpConfRej(f)
    BY <1>4 DEF LcpConfRej, SendLcpConfReq, SendPhase, RequestsLeft, Bump, ipcpVars,
       GivingUpIsDeath, FlagsInOrder, MruAcceptable, TypeOK
  <1>5. CASE LcpEchoReq(f) \/ LcpEchoRep(f) \/ UnknownProtocol(f) \/ Ignored(f)
    BY <1>5 DEF LcpEchoReq, LcpEchoRep, UnknownProtocol, Ignored, lcpVars, ipcpVars,
       GivingUpIsDeath, FlagsInOrder, MruAcceptable
  <1>6. CASE LcpTermReq(f) \/ IpcpTermReq(f) \/ IpcpConfRejAddr(f)
    BY <1>6, DeathInv DEF LcpTermReq, IpcpTermReq, IpcpConfRejAddr, lcpVars, MruAcceptable
  <1>7. CASE IpcpConfReq(f) \/ IpcpConfAck(f) \/ IpcpOther(f)
    BY <1>7 DEF IpcpConfReq, IpcpConfAck, IpcpOther, OpenNetwork, MayComeUp, IpcpBothAcked,
       lcpVars, ipcpVars, ipcpSend, GivingUpIsDeath, FlagsInOrder, MruAcceptable
  <1>8. CASE IpcpConfNak(f) \/ IpcpConfRej(f)
    BY <1>8 DEF IpcpConfNak, IpcpConfRej, OpenNetwork, MayComeUp, IpcpBothAcked,
       SendIpcpConfReq, SendPhase, RequestsLeft, Bump, lcpVars,
       GivingUpIsDeath, FlagsInOrder, MruAcceptable, TypeOK
  <1> QED BY <1>1, <1>2, <1>3, <1>4, <1>5, <1>6, <1>7, <1>8 DEF Handle

\* Every step preserves the invariant.
LEMMA NextInv == ASSUME IInv, [Next]_vars PROVE IInv'
  <1>1. TypeOK'
    BY NextType DEF IInv
  <1>2. CASE \E f \in GatewayFrames : Len(outbox) < MaxOutbox /\ Handle(f)
    BY <1>1, <1>2, HandleInv DEF IInv
  <1>3. CASE SendEchoRequest \/ EchoTimeout \/ DrainOutbox \/ UNCHANGED vars
    BY <1>1, <1>3 DEF SendEchoRequest, EchoTimeout, DrainOutbox, vars, lcpVars, ipcpVars,
       IInv, GivingUpIsDeath, FlagsInOrder, MruAcceptable
  <1> QED BY <1>2, <1>3 DEF Next

\* The initial state satisfies the invariant.
LEMMA InitInv == ASSUME Init PROVE IInv
  <1>1. GivingUpIsDeath
    BY DEF Init, GivingUpIsDeath
  <1>2. FlagsInOrder /\ MruAcceptable
    BY Zenon DEF Init, FlagsInOrder, MruAcceptable
  <1> QED BY <1>1, <1>2, InitType DEF IInv

\* The inductive invariant holds in every reachable state.
THEOREM InvariantHolds == Spec => []IInv
  <1>1. Init => IInv
    BY InitInv
  <1>2. IInv /\ [Next]_vars => IInv'
    BY NextInv
  <1> QED BY <1>1, <1>2, PTL DEF Spec

\* However NAKs and REJs of the two protocols interleave, a link whose request
\* counter passed MAX_CONF_REQ is dead.
THEOREM GivesUpForGood == Spec => []GivingUpIsDeath
  <1>1. IInv => GivingUpIsDeath
    BY DEF IInv
  <1> QED BY <1>1, InvariantHolds, PTL

\* The invariant bounds the MTU by what the gateway advertised.
LEMMA InvFitsPeer == ASSUME IInv PROVE MtuFitsPeer
  <1>1. MinMru \in Nat /\ MaxMtu \in Nat /\ DefaultMru \in Nat
    OBVIOUS
  <1>2. CASE peer_mru = NoOpt
    BY <1>1, <1>2 DEF MtuFitsPeer, TunMtu
  <1>3. CASE peer_mru # NoOpt
    <2>1. peer_mru \in Nat /\ MinMru <= peer_mru
      BY <1>3 DEF IInv, MruAcceptable, TypeOK
    <2> QED BY <1>1, <1>3, <2>1 DEF MtuFitsPeer, TunMtu
  <1> QED BY <1>2, <1>3

\* The MTU of the TUN device never exceeds the MRU the gateway advertised.
THEOREM MtuAlwaysFits == Spec => []MtuFitsPeer
  <1>1. IInv => MtuFitsPeer
    BY InvFitsPeer
  <1> QED BY <1>1, InvariantHolds, PTL

-----------------------------------------------------------------------------
(* The machine implements LinkLifecycle. *)

\* What a step may do to the phase, with the consent and the address it needs.
StepShape ==
  /\ lcp_acked_local => lcp_acked_local'
  /\ ipcp_acked_local => ipcp_acked_local'
  /\ \/ phase' = phase
     \/ phase = "Lcp" /\ phase' = "Ipcp" /\ lcp_acked_local' /\ lcp_acked_remote'
                      /\ local_ip' = local_ip
     \/ phase = "Ipcp" /\ phase' = "Network" /\ ipcp_acked_local' /\ ipcp_acked_remote'
                       /\ local_ip' # Unspecified
     \/ phase' = "Dead"

\* The promotion after an IPCP arm has that shape, from any phase the arm leaves.
LEMMA OpenNetworkShape ==
  ASSUME NEW p, OpenNetwork(p), p = phase \/ p = "Dead"
  PROVE  \/ phase' = phase
         \/ phase = "Ipcp" /\ phase' = "Network" /\ ipcp_acked_local' /\ ipcp_acked_remote'
                           /\ local_ip' # Unspecified
         \/ phase' = "Dead"
  BY DEF OpenNetwork, MayComeUp, IpcpBothAcked

\* So has the promotion after an LCP arm.
LEMMA OpenIpcpShape ==
  ASSUME NEW q, OpenIpcp(q)
  PROVE  \/ phase' = phase
         \/ phase = "Lcp" /\ phase' = "Ipcp" /\ lcp_acked_local' /\ lcp_acked_remote'
         \/ phase' = "Dead"
  BY DEF OpenIpcp, MayOpenIpcp, LcpBothAcked, SendPhase

\* Every frame handled has it.
LEMMA HandleShape == ASSUME NEW f, Handle(f) PROVE StepShape
  <1>1. CASE LcpConfReq(f)
    BY <1>1, OpenIpcpShape DEF LcpConfReq, StepShape
  <1>2. CASE LcpConfAck(f)
    BY <1>2, OpenIpcpShape DEF LcpConfAck, StepShape
  <1>3. CASE LcpConfNak(f) \/ LcpConfRej(f)
    BY <1>3 DEF LcpConfNak, LcpConfRej, SendPhase, ipcpVars, StepShape
  <1>4. CASE LcpEchoReq(f) \/ LcpEchoRep(f) \/ LcpTermReq(f) \/ IpcpTermReq(f)
             \/ UnknownProtocol(f) \/ Ignored(f)
    BY <1>4 DEF LcpEchoReq, LcpEchoRep, LcpTermReq, IpcpTermReq, UnknownProtocol, Ignored,
       lcpVars, ipcpVars, StepShape
  <1>5. CASE IpcpConfReq(f)
    BY <1>5, OpenNetworkShape DEF IpcpConfReq, lcpVars, StepShape
  <1>6. CASE IpcpConfAck(f)
    BY <1>6, OpenNetworkShape DEF IpcpConfAck, lcpVars, StepShape
  <1>7. CASE IpcpConfNak(f) \/ IpcpConfRej(f)
    <2>1. SendPhase(ipcp_reqs, phase) = phase \/ SendPhase(ipcp_reqs, phase) = "Dead"
      BY DEF SendPhase
    <2>2. OpenNetwork(SendPhase(ipcp_reqs, phase))
      BY <1>7 DEF IpcpConfNak, IpcpConfRej
    <2> QED BY <1>7, <2>1, <2>2, OpenNetworkShape DEF IpcpConfNak, IpcpConfRej, lcpVars, StepShape
  <1>8. CASE IpcpConfRejAddr(f)
    BY <1>8 DEF IpcpConfRejAddr, lcpVars, StepShape
  <1>9. CASE IpcpOther(f)
    BY <1>9, OpenNetworkShape DEF IpcpOther, lcpVars, ipcpVars, StepShape
  <1> QED BY <1>1, <1>2, <1>3, <1>4, <1>5, <1>6, <1>7, <1>8, <1>9 DEF Handle

\* Every step has it.
LEMMA NextShape == ASSUME [Next]_vars PROVE StepShape
  <1>1. CASE \E f \in GatewayFrames : Len(outbox) < MaxOutbox /\ Handle(f)
    BY <1>1, HandleShape
  <1>2. CASE SendEchoRequest \/ EchoTimeout \/ DrainOutbox \/ UNCHANGED vars
    BY <1>2 DEF SendEchoRequest, EchoTimeout, DrainOutbox, vars, lcpVars, ipcpVars, StepShape
  <1> QED BY <1>1, <1>2 DEF Next

Ours == {l \in {"LCP", "IPCP"} : IF l = "LCP" THEN lcp_acked_local ELSE ipcp_acked_local}
Theirs == {l \in {"LCP", "IPCP"} : IF l = "LCP" THEN lcp_acked_remote ELSE ipcp_acked_remote}

\* A step of that shape between typed states is a step in the life of a link.
LEMMA ShapeIsLifeStep ==
  ASSUME TypeOK, TypeOK', StepShape
  PROVE  Lifecycle!Next
  <1> USE DEF Lifecycle!Layers
  <1>1. Ours' \in SUBSET {"LCP", "IPCP"} /\ Ours \subseteq Ours'
    BY DEF StepShape, Ours
  <1>2. Theirs' \in SUBSET {"LCP", "IPCP"}
    BY DEF Theirs
  <1>3. local_ip' \in Addrs
    BY DEF TypeOK
  <1>4. CASE phase' = phase
    BY <1>1, <1>2, <1>3, <1>4 DEF Ours, Theirs, Lifecycle!Next, Lifecycle!Negotiate
  <1>5. CASE phase = "Lcp" /\ phase' = "Ipcp" /\ lcp_acked_local' /\ lcp_acked_remote'
             /\ local_ip' = local_ip
    <2>1. "LCP" \in Ours' \cap Theirs'
      BY <1>5 DEF Ours, Theirs
    <2> QED BY <1>1, <1>2, <1>5, <2>1 DEF Ours, Theirs, Lifecycle!Next, Lifecycle!OpenLayer
  <1>6. CASE phase = "Ipcp" /\ phase' = "Network" /\ ipcp_acked_local' /\ ipcp_acked_remote'
             /\ local_ip' # Unspecified
    <2>1. "IPCP" \in Ours' \cap Theirs'
      BY <1>6 DEF Ours, Theirs
    <2> QED BY <1>1, <1>2, <1>3, <1>6, <2>1 DEF Ours, Theirs, Lifecycle!Next, Lifecycle!ComeUp
  <1>7. CASE phase' = "Dead"
    BY <1>1, <1>2, <1>3, <1>7 DEF Ours, Theirs, Lifecycle!Next, Lifecycle!Die
  <1> QED BY <1>4, <1>5, <1>6, <1>7 DEF StepShape

\* Every initial state of the machine is one of a link.
LEMMA InitIsLifeInit == ASSUME Init PROVE Lifecycle!Init
  BY DEF Init, Lifecycle!Init, Lifecycle!Layers

\* Every behaviour of the machine is the life of a link: the phases come in order,
\* each with both ends' consent, the network with an address, and death is final.
THEOREM ImplementsLifecycle == Spec => LifecycleSpec
  <1>1. Init => Lifecycle!Init
    BY InitIsLifeInit
  <1>2. TypeOK /\ TypeOK' /\ [Next]_vars => [Lifecycle!Next]_(Lifecycle!lifecycleVars)
    BY NextShape, ShapeIsLifeStep
  <1> QED BY <1>1, <1>2, TypeCorrect, PTL DEF Spec, LifecycleSpec, Lifecycle!Spec

-----------------------------------------------------------------------------
(* The steps of the loop, seen from the machine. *)

\* Emptying the outbox is a step of the machine.
LEMMA QueuesIsDrain == ASSUME QueuesOutbox PROVE [Next]_vars
  <1>1. CASE outbox = <<>>
    BY <1>1 DEF QueuesOutbox, vars
  <1>2. CASE outbox # <<>>
    BY <1>2 DEF QueuesOutbox, DrainOutbox, Next
  <1> QED BY <1>1, <1>2

\* An echo request that is queued at once only counts.
EchoCounts ==
  /\ phase = "Network" /\ echo_outstanding < MaxEchoOutstanding
  /\ echo_outstanding' = echo_outstanding + 1
  /\ ident' = NextId(ident)
  /\ UNCHANGED <<phase, outbox, echo_supported, lcpVars, ipcpVars>>

\* Every step of the loop is one of the machine, or counts an echo.
LEMMA RelayStepIsMachineStep ==
  ASSUME [RelayNext]_relayVars
  PROVE  [Next]_vars \/ EchoCounts
  <1>1. CASE \E f \in GatewayFrames : HandsOver(f)
    BY <1>1 DEF HandsOver, Next
  <1>2. CASE KicksOff \/ BatchFindsDeath \/ BatchEnds \/ OnNetwork \/ OnNetworkFails \/ Ends
    BY <1>2, QueuesIsDrain DEF KicksOff, BatchFindsDeath, BatchEnds, OnNetwork, OnNetworkFails, Ends
  <1>3. CASE KeepsAlive
    BY <1>3 DEF KeepsAlive, EchoCounts, Next
  <1>4. CASE UNCHANGED relayVars
    BY <1>4 DEF relayVars
  <1> QED BY <1>1, <1>2, <1>3, <1>4 DEF RelayNext

\* Counting an echo changes nothing the invariant is about but two typed numbers.
LEMMA EchoCountsInv == ASSUME IInv, EchoCounts PROVE IInv' /\ StepShape
  <1>1. ident \in Ids /\ echo_outstanding \in 0 .. MaxEchoOutstanding
    BY DEF IInv, TypeOK
  <1>a. ident' \in Ids
    BY <1>1, NextIdType DEF EchoCounts
  <1>b. echo_outstanding' \in 0 .. MaxEchoOutstanding
    <2>1. MaxEchoOutstanding \in Nat
      BY BoundsAssumption
    <2>2. echo_outstanding < MaxEchoOutstanding /\ echo_outstanding' = echo_outstanding + 1
      BY DEF EchoCounts
    <2> QED BY <1>1, <2>1, <2>2
  <1>2. TypeOK'
    BY <1>a, <1>b DEF IInv, TypeOK, EchoCounts, lcpVars, ipcpVars
  <1>3. (GivingUpIsDeath /\ FlagsInOrder /\ MruAcceptable)'
    BY DEF IInv, EchoCounts, lcpVars, ipcpVars, GivingUpIsDeath, FlagsInOrder, MruAcceptable
  <1>4. StepShape
    BY DEF StepShape, EchoCounts, lcpVars, ipcpVars
  <1> QED BY <1>2, <1>3, <1>4 DEF IInv

\* The machine's invariant is one of the loop, and its steps keep their shape.
LEMMA RelayStepInv == ASSUME IInv, [RelayNext]_relayVars PROVE IInv' /\ StepShape
  BY RelayStepIsMachineStep, NextInv, NextShape, EchoCountsInv

-----------------------------------------------------------------------------
(* The machine in the hands of the loop. *)

\* The machine's invariant holds at every step of the relay loop, whatever the
\* batches are and wherever the loop ends.
THEOREM RelayKeepsInvariant == RelaySpec => []IInv
  <1>1. RelayInit => IInv
    BY InitInv DEF RelayInit
  <1>2. IInv /\ [RelayNext]_relayVars => IInv'
    BY RelayStepInv
  <1> QED BY <1>1, <1>2, PTL DEF RelaySpec

\* What the ppp_relay run checks of the machine holds in the hands of the loop for
\* every number of requests, echoes and frames: it gives up for good, and the MTU fits
\* the gateway.
THEOREM RelayedMachineIsSafe == RelaySpec => [](TypeOK /\ GivingUpIsDeath /\ MtuFitsPeer)
  <1>1. IInv => TypeOK /\ GivingUpIsDeath /\ MtuFitsPeer
    BY InvFitsPeer DEF IInv
  <1> QED BY <1>1, RelayKeepsInvariant, PTL

\* The relay loop, too, takes the link through its life only: phases in order, each
\* with both ends' consent, the network with an address, death final.
THEOREM RelayImplementsLifecycle == RelaySpec => LifecycleSpec
  <1>1. RelayInit => Lifecycle!Init
    BY InitIsLifeInit DEF RelayInit
  <1>2. IInv /\ [RelayNext]_relayVars => [Lifecycle!Next]_(Lifecycle!lifecycleVars)
    BY RelayStepInv, ShapeIsLifeStep DEF IInv
  <1> QED BY <1>1, <1>2, RelayKeepsInvariant, PTL DEF RelaySpec, LifecycleSpec, Lifecycle!Spec

-----------------------------------------------------------------------------
(* What the gateway said, against what the machine made of it.  The flags   *)
(* alone do not tell: they stay set when a request is repeated.  A set flag  *)
(* means the latest request was acked, or an answer came that nobody had     *)
(* asked for; and until it is acked, the latest IPCP request holds the       *)
(* address the machine has.                                                  *)

Layers == {"LCP", "IPCP"}
Consents == [Layers -> {"open", "given", "unasked"}]

LcpConsent == lcp_acked_local => consent["LCP"] # "open"

IpcpConsent ==
  /\ ipcp_acked_local => consent["IPCP"] # "open"
  /\ phase = "Lcp" => \/ consent["IPCP"] = "unasked"
                      \/ consent["IPCP"] = "open" /\ ipcp_reqs = 0
  /\ phase # "Dead" =>
       /\ consent["IPCP"] = "given" => local_ip = lease
       /\ consent["IPCP"] = "open" /\ ipcp_reqs > 0 => ipcp_req_opts.addr = local_ip

ConsentInv ==
  /\ consent \in Consents
  /\ LcpConsent /\ IpcpConsent
  /\ terminated => phase = "Dead"

\* What a frame changes in it, layer by layer.
LEMMA SaidType ==
  ASSUME NEW f, GatewaySaid(f), consent \in Consents
  PROVE  /\ consent' \in Consents
         /\ consent'["LCP"] = Consent("LCP", f) /\ consent'["IPCP"] = Consent("IPCP", f)
  <1>1. consent' = [l \in Layers |-> Consent(l, f)]
    BY DEF GatewaySaid, Layers
  <1>2. \A l \in Layers : Consent(l, f) \in {"open", "given", "unasked"}
    BY DEF Consent, Consents
  <1> QED BY <1>1, <1>2 DEF Consents, Layers

\* What is neither an answer in a layer nor makes it ask again leaves its consent.
LEMMA LcpQuiet ==
  ASSUME ConsentInv, NEW f, GatewaySaid(f), UNCHANGED <<lcp_acked_local, lcp_reqs>>,
         ~(f.proto = "LCP" /\ Answer(f))
  PROVE  LcpConsent'
  <1>1. consent'["LCP"] = consent["LCP"]
    BY SaidType DEF ConsentInv, Consent, Acks, Asks
  <1> QED BY <1>1 DEF ConsentInv, LcpConsent

LEMMA IpcpQuiet ==
  ASSUME ConsentInv, NEW f, GatewaySaid(f),
         UNCHANGED <<ipcp_acked_local, ipcp_reqs, local_ip, ipcp_req_opts>>,
         ~(f.proto = "IPCP" /\ Answer(f)),
         (phase' = "Lcp" => phase = "Lcp") /\ (phase = "Dead" => phase' = "Dead")
  PROVE  IpcpConsent'
  <1>1. consent'["IPCP"] = consent["IPCP"]
    BY SaidType DEF ConsentInv, Consent, Acks, Asks
  <1>2. consent'["IPCP"] = "given" => lease' = lease
    BY DEF GatewaySaid, Acks
  <1> QED BY <1>1, <1>2 DEF ConsentInv, IpcpConsent

\* Opening IPCP asks for the address the machine has, and for nothing an answer that
\* came before could be taken for.
LEMMA IpcpOpened ==
  ASSUME IInv, ConsentInv, NEW f, GatewaySaid(f), NEW q, OpenIpcp(q), f.proto = "LCP",
         UNCHANGED <<ipcp_acked_local, local_ip, request_dns, dns>>
  PROVE  IpcpConsent'
  <1>1. CASE MayOpenIpcp /\ RequestsLeft(ipcp_reqs)
    <2>1. phase = "Lcp" /\ ipcp_reqs \in Nat /\ ipcp_reqs' = ipcp_reqs + 1 /\ phase' = "Ipcp"
      BY <1>1, BoundsAssumption DEF MayOpenIpcp, OpenIpcp, SendIpcpConfReq, Bump, RequestsLeft, SendPhase,
         IInv, TypeOK
    <2>2. ipcp_req_opts'.addr = local_ip'
      BY <1>1 DEF OpenIpcp, SendIpcpConfReq, IpcpOffer
    <2>3. consent'["IPCP"] = IF consent["IPCP"] = "unasked" THEN "unasked" ELSE "open"
      BY <2>1, SaidType DEF ConsentInv, Consent, Asks
    <2>4. ipcp_acked_local => consent["IPCP"] = "unasked"
      BY <2>1 DEF ConsentInv, IpcpConsent
    <2> QED BY <2>1, <2>2, <2>3, <2>4 DEF IpcpConsent
  <1>2. CASE MayOpenIpcp /\ ~RequestsLeft(ipcp_reqs)
    <2>1. phase = "Lcp" /\ phase' = "Dead"
      BY <1>2 DEF MayOpenIpcp, OpenIpcp, SendPhase
    <2>2. ipcp_acked_local => consent["IPCP"] = "unasked"
      BY <2>1 DEF ConsentInv, IpcpConsent
    <2>3. consent["IPCP"] = "unasked" => consent'["IPCP"] = "unasked"
      BY SaidType DEF ConsentInv, Consent
    <2> QED BY <2>1, <2>2, <2>3 DEF IpcpConsent
  <1>3. CASE ~MayOpenIpcp
    BY <1>3, IpcpQuiet DEF OpenIpcp, ipcpSend
  <1> QED BY <1>1, <1>2, <1>3

\* An ack of the latest request grants the address the machine then has.
LEMMA IpcpAcked ==
  ASSUME IInv, ConsentInv, NEW f \in Frame, GatewaySaid(f), IpcpConfAck(f)
  PROVE  IpcpConsent'
  <1>1. /\ f.proto = "IPCP" /\ Acks(f) /\ Answer(f)
        /\ UNCHANGED <<ipcp_reqs, ipcp_req_opts>> /\ local_ip' = AckedAddr(f.opts)
    BY DEF IpcpConfAck, Acks, Answer, ipcpSend
  <1>2. (phase' = "Lcp" => phase = "Lcp") /\ (phase = "Dead" => phase' = "Dead")
    BY DEF IpcpConfAck, OpenNetwork, MayComeUp
  <1>3. consent'["IPCP"] = IF consent["IPCP"] # "open" \/ ipcp_reqs = 0 THEN "unasked" ELSE "given"
    BY <1>1, SaidType DEF ConsentInv, Consents, Layers, Consent, Unasked, Asks
  <1>4. CASE consent'["IPCP"] = "unasked"
    BY <1>4 DEF IpcpConsent
  <1>5. CASE consent["IPCP"] = "open" /\ ipcp_reqs # 0
    <2>1. consent'["IPCP"] = "given" /\ lease' = Granted(f)
      BY <1>1, <1>3, <1>5 DEF GatewaySaid
    <2>2. phase # "Lcp"
      BY <1>5 DEF ConsentInv, IpcpConsent
    <2>a. ipcp_reqs > 0
      BY <1>5 DEF IInv, TypeOK
    <2>3. phase # "Dead" => ipcp_req_opts.addr = local_ip
      BY <1>5, <2>a DEF ConsentInv, IpcpConsent
    <2>4. phase # "Dead" => local_ip' = lease'
      BY <1>1, <2>1, <2>3 DEF Granted, AckedAddr
    <2> QED BY <1>2, <2>1, <2>2, <2>4 DEF IpcpConsent
  <1> QED BY <1>3, <1>4, <1>5

\* A refusal makes it ask again; after an ack it is one that nobody asked for.
LEMMA IpcpRefused ==
  ASSUME IInv, ConsentInv, NEW f \in Frame, GatewaySaid(f), IpcpConfNak(f) \/ IpcpConfRej(f)
  PROVE  IpcpConsent'
  <1>1. /\ f.proto = "IPCP" /\ Answer(f) /\ ~Acks(f)
        /\ SendIpcpConfReq(outbox) /\ OpenNetwork(SendPhase(ipcp_reqs, phase))
        /\ UNCHANGED ipcp_acked_local
    BY DEF IpcpConfNak, IpcpConfRej, Acks, Answer
  <1>2. ipcp_reqs \in Nat
    BY DEF IInv, TypeOK
  <1>3. CASE consent["IPCP"] # "open" \/ ipcp_reqs = 0
    <2>1. consent'["IPCP"] = "unasked"
      BY <1>1, <1>3, SaidType DEF ConsentInv, Consents, Layers, Consent, Unasked
    <2> QED BY <2>1 DEF IpcpConsent
  <1>4. CASE consent["IPCP"] = "open" /\ ipcp_reqs # 0
    <2>1. phase # "Lcp" /\ ~ipcp_acked_local
      BY <1>4 DEF ConsentInv, IpcpConsent
    <2>2. CASE RequestsLeft(ipcp_reqs)
      <3>1. ipcp_reqs' = ipcp_reqs + 1
        BY <1>1, <1>2, <2>2, BoundsAssumption DEF SendIpcpConfReq, Bump, RequestsLeft
      <3>2. ipcp_req_opts'.addr = local_ip'
        BY <1>1, <2>2 DEF SendIpcpConfReq, IpcpOffer
      <3>3. consent'["IPCP"] \in {"unasked", "open"}
        BY <1>1, <1>2, <3>1, SaidType DEF ConsentInv, Consent, Asks
      <3>4. phase' # "Lcp"
        BY <1>1, <2>1, <2>2 DEF OpenNetwork, SendPhase, MayComeUp
      <3> QED BY <1>1, <2>1, <3>2, <3>3, <3>4 DEF IpcpConsent
    <2>3. CASE ~RequestsLeft(ipcp_reqs)
      <3>1. phase' = "Dead"
        BY <1>1, <2>3 DEF OpenNetwork, SendPhase, MayComeUp
      <3> QED BY <1>1, <2>1, <3>1 DEF IpcpConsent
    <2> QED BY <2>2, <2>3
  <1> QED BY <1>3, <1>4

\* Only a Terminate-Request terminates, and death is final.
LEMMA TerminatedIsDead ==
  ASSUME ConsentInv, NEW f \in Frame, Handle(f), GatewaySaid(f)
  PROVE  terminated' => phase' = "Dead"
  <1>1. phase = "Dead" => phase' = "Dead"
    BY HandleShape DEF StepShape
  <1>2. CASE f.code # "TermReq"
    BY <1>1, <1>2 DEF GatewaySaid, ConsentInv
  <1>3. CASE f.code = "TermReq"
    <2>1. f.proto \in {"LCP", "IPCP"}
      BY <1>3 DEF Frame
    <2>2. LcpTermReq(f) \/ IpcpTermReq(f)
      BY <1>3, <2>1 DEF Handle, LcpConfReq, LcpConfAck, LcpConfNak, LcpConfRej, LcpEchoReq, LcpEchoRep,
         IpcpConfReq, IpcpConfAck, IpcpConfNak, IpcpConfRej, IpcpConfRejAddr, IpcpOther,
         UnknownProtocol, Ignored
    <2> QED BY <2>2 DEF LcpTermReq, IpcpTermReq
  <1> QED BY <1>2, <1>3

\* A frame handed over keeps what the gateway said and what the machine made of it together.
LEMMA HandsOverConsent ==
  ASSUME IInv, ConsentInv, NEW f \in Frame, Handle(f), GatewaySaid(f)
  PROVE  ConsentInv'
  <1>1. consent' \in Consents /\ (terminated' => phase' = "Dead")
    BY SaidType, TerminatedIsDead DEF ConsentInv
  <1>2. (phase' = "Lcp" => phase = "Lcp") /\ (phase = "Dead" => phase' = "Dead")
    BY HandleShape DEF StepShape
  <1>3. LcpConsent' /\ IpcpConsent'
    <2>1. CASE LcpConfReq(f)
      <3>1. LcpConsent'
        BY <2>1, LcpQuiet DEF LcpConfReq, Answer
      <3>2. IpcpConsent'
        BY <2>1, IpcpOpened DEF LcpConfReq
      <3> QED BY <3>1, <3>2
    <2>2. CASE LcpConfAck(f)
      <3>1. consent'["LCP"] # "open"
        BY <2>2, SaidType DEF ConsentInv, LcpConfAck, Consent, Acks, Answer, Asks
      <3>2. IpcpConsent'
        BY <2>2, IpcpOpened DEF LcpConfAck
      <3> QED BY <3>1, <3>2 DEF LcpConsent
    <2>3. CASE LcpConfNak(f) \/ LcpConfRej(f)
      <3>1. /\ f.proto = "LCP" /\ Answer(f) /\ UNCHANGED lcp_acked_local
            /\ UNCHANGED <<ipcp_acked_local, ipcp_reqs, local_ip, ipcp_req_opts>>
        BY <2>3 DEF LcpConfNak, LcpConfRej, Answer, ipcpVars
      <3>2. consent["LCP"] # "open" => consent'["LCP"] = "unasked"
        BY <3>1, SaidType DEF ConsentInv, Consents, Layers, Consent, Unasked
      <3>3. LcpConsent'
        BY <3>1, <3>2 DEF ConsentInv, LcpConsent
      <3> QED BY <1>2, <3>1, <3>3, IpcpQuiet
    <2>4. CASE LcpEchoReq(f) \/ LcpEchoRep(f) \/ LcpTermReq(f) \/ IpcpConfReq(f) \/ IpcpTermReq(f)
               \/ IpcpOther(f) \/ UnknownProtocol(f) \/ Ignored(f)
      <3>1. /\ UNCHANGED <<lcp_acked_local, lcp_reqs>>
            /\ UNCHANGED <<ipcp_acked_local, ipcp_reqs, local_ip, ipcp_req_opts>>
        BY <2>4 DEF LcpEchoReq, LcpEchoRep, LcpTermReq, IpcpConfReq, IpcpTermReq, IpcpOther,
           UnknownProtocol, Ignored, lcpVars, ipcpVars, ipcpSend
      <3>2. ~(f.proto = "LCP" /\ Answer(f)) /\ ~(f.proto = "IPCP" /\ Answer(f))
        BY <2>4 DEF Answer, LcpEchoReq, LcpEchoRep, LcpTermReq, IpcpConfReq, IpcpTermReq, IpcpOther,
           UnknownProtocol, Ignored
      <3> QED BY <1>2, <3>1, <3>2, LcpQuiet, IpcpQuiet
    <2>5. CASE IpcpConfAck(f) \/ IpcpConfNak(f) \/ IpcpConfRej(f) \/ IpcpConfRejAddr(f)
      <3>1. f.proto = "IPCP" /\ UNCHANGED <<lcp_acked_local, lcp_reqs>>
        BY <2>5 DEF IpcpConfAck, IpcpConfNak, IpcpConfRej, IpcpConfRejAddr, lcpVars
      <3>2. LcpConsent'
        BY <3>1, LcpQuiet
      <3>3. CASE IpcpConfRejAddr(f)
        <4>1. phase' = "Dead" /\ UNCHANGED <<ipcp_acked_local, ipcp_reqs>>
          BY <3>3 DEF IpcpConfRejAddr, ipcpSend
        <4>2. consent["IPCP"] # "open" => consent'["IPCP"] # "open"
          BY <4>1, SaidType DEF ConsentInv, Consent, Asks
        <4>3. ipcp_acked_local' => consent'["IPCP"] # "open"
          BY <4>1, <4>2 DEF ConsentInv, IpcpConsent
        <4> QED BY <3>2, <4>1, <4>3 DEF IpcpConsent
      <3> QED BY <2>5, <3>2, <3>3, IpcpAcked, IpcpRefused
    <2> QED BY <2>1, <2>2, <2>3, <2>4, <2>5 DEF Handle
  <1> QED BY <1>1, <1>3 DEF ConsentInv

\* So does every step of the loop.
LEMMA ConsentStep == ASSUME IInv, ConsentInv, [RelayNext]_relayVars PROVE ConsentInv'
  <1>1. CASE \E f \in GatewayFrames : HandsOver(f)
    BY <1>1, HandsOverConsent DEF HandsOver
  <1>2. CASE UNCHANGED <<saidVars, lcpVars, ipcpVars>> /\ (phase' = phase \/ phase' = "Dead")
    BY <1>2 DEF saidVars, lcpVars, ipcpVars, ConsentInv, LcpConsent, IpcpConsent
  <1>3. CASE KicksOff \/ BatchFindsDeath \/ BatchEnds \/ OnNetwork \/ OnNetworkFails \/ Ends
    BY <1>2, <1>3 DEF KicksOff, BatchFindsDeath, BatchEnds, OnNetwork, OnNetworkFails, Ends,
       QueuesOutbox
  <1>4. CASE KeepsAlive
    BY <1>2, <1>4 DEF KeepsAlive, EchoTimeout
  <1>5. CASE UNCHANGED relayVars
    BY <1>2, <1>5 DEF relayVars, vars
  <1> QED BY <1>1, <1>3, <1>4, <1>5 DEF RelayNext

\* What the flags say is what the gateway said, at every step of the loop.
THEOREM ConsentHolds == RelaySpec => []ConsentInv
  <1>1. RelayInit => ConsentInv
    BY DEF RelayInit, Init, ConsentInv, Consents, Layers, LcpConsent, IpcpConsent
  <1>2. IInv /\ ConsentInv /\ [RelayNext]_relayVars => ConsentInv'
    BY ConsentStep
  <1> QED BY <1>1, <1>2, RelayKeepsInvariant, PTL DEF RelaySpec

\* However answers, repetitions and refusals of the two layers are mixed, a layer is open
\* only with the gateway's ack of the latest request, or after an answer it gave to a
\* request it never got or had acked.
THEOREM LayersAreConsented == RelaySpec => []LayersConsented
  <1>1. IInv /\ ConsentInv => LayersConsented
    BY DEF IInv, FlagsInOrder, ConsentInv, LcpConsent, IpcpConsent, LayersConsented
  <1> QED BY <1>1, RelayKeepsInvariant, ConsentHolds, PTL

\* The address put on the device is the one the gateway granted, for batches of any
\* length, and none is put there once it terminated the link.
THEOREM DeviceGetsItsLease == RelaySpec => DeviceGetsLease
  <1>1. ASSUME IInv, ConsentInv, [RelayNext]_relayVars, tun_addr' # tun_addr
        PROVE  ~terminated /\ (tun_addr' = lease \/ consent["IPCP"] = "unasked")
    <2>1. phase = "Network" /\ tun_addr' = local_ip
      BY <1>1 DEF RelayNext, HandsOver, KicksOff, BatchFindsDeath, BatchEnds, OnNetwork, OnNetworkFails,
         Ends, KeepsAlive, NeedsNetwork, relayVars
    <2>2. consent["IPCP"] # "open" /\ consent["IPCP"] \in {"open", "given", "unasked"}
      BY <1>1, <2>1 DEF IInv, FlagsInOrder, ConsentInv, IpcpConsent, Consents, Layers
    <2>3. ~terminated /\ (consent["IPCP"] = "given" => local_ip = lease)
      BY <1>1, <2>1 DEF ConsentInv, IpcpConsent
    <2> QED BY <2>1, <2>2, <2>3
  <1>2. IInv /\ ConsentInv /\ [RelayNext]_relayVars
          => [tun_addr' # tun_addr =>
                /\ ~terminated
                /\ tun_addr' = lease \/ consent["IPCP"] = "unasked"]_relayVars
    BY <1>1
  <1> QED BY <1>2, RelayKeepsInvariant, ConsentHolds, PTL DEF RelaySpec, DeviceGetsLease

-----------------------------------------------------------------------------
(* The link: the machine facing a negotiating gateway, or itself (PppLink). *)
(* Neither MruAgreed nor LeaseAgreed is inductive: a refusal, a repeated    *)
(* request or an ack that is still in a queue could break them.  The        *)
(* invariant says what the frames in outbox and wire may still lead to.     *)

USE GatewayAssumption

\* The frames in a queue.
FramesOf(s) == {s[i] : i \in 1 .. Len(s)}

\* A flaw in the gateway's LCP request: an option the client has no case for, an
\* MRU it does not accept.
UnknownOption(o) == o.odd # {}
LowMru(o) == o.mru # NoOpt /\ o.mru < MinMru
Flawed(o) == UnknownOption(o) \/ LowMru(o)

\* The gateway's requests: each refusal removes one flaw, so the identifiers never
\* come round to one that is still in use.
RequestsFit ==
  /\ gw_req \in [{"LCP", "IPCP"} -> Frame]
  /\ \A l \in {"LCP", "IPCP"} : gw_req[l].proto = l /\ gw_req[l].code = "ConfReq"
  /\ gw_req["LCP"].opts.magic = NoOpt /\ gw_req["LCP"].opts.odd \subseteq {"unknown"}
  /\ gw_req["LCP"].id \in 0 .. 2
  /\ gw_req["LCP"].id = 1 =>
       ~(UnknownOption(gw_req["LCP"].opts) /\ LowMru(gw_req["LCP"].opts))
  /\ gw_req["LCP"].id = 2 => ~Flawed(gw_req["LCP"].opts)

\* An LCP request on its way to the client is the current one, or an earlier one,
\* which the client will refuse again.
RequestFits(f) ==
  f.proto = "LCP" /\ f.code = "ConfReq" =>
    \/ f = gw_req["LCP"]
    \/ /\ f.id < gw_req["LCP"].id /\ Flawed(f.opts)
       /\ f.opts.magic = NoOpt /\ f.opts.odd \subseteq {"unknown"}

\* A refusal on its way to the gateway answers the current request, and names what
\* is wrong with it, or it answers an earlier one.
RefusalFits(f) ==
  /\ f.proto = "LCP" /\ f.code \in {"ConfNak", "ConfRej"} =>
       /\ f.id <= gw_req["LCP"].id
       /\ f.id = gw_req["LCP"].id =>
            \/ f.code = "ConfRej" /\ UnknownOption(gw_req["LCP"].opts)
            \/ /\ f.code = "ConfNak" /\ ~UnknownOption(gw_req["LCP"].opts)
               /\ LowMru(gw_req["LCP"].opts) /\ f.opts.mru = MaxMtu
  /\ ~(f.proto = "IPCP" /\ f.code = "ConfNak")

\* Once the client acked the gateway's request there is nothing left to refuse.
MruSettled ==
  lcp_acked_remote \/ phase \in {"Ipcp", "Network"} =>
    /\ ~Flawed(gw_req["LCP"].opts)
    /\ peer_mru = gw_req["LCP"].opts.mru

\* What the two queues may say about the MRU.
MruWires ==
  /\ \A f \in FramesOf(wire) : RequestFits(f)
  /\ \A f \in FramesOf(outbox) : RefusalFits(f)
  /\ MruSettled

\* What a looped wire carries: the client's request, or its refusal of it.
LoopFrames == {Pkt("LCP", "ConfReq", lcp_req_id, LcpOffer),
               Pkt("LCP", "ConfNak", lcp_req_id,
                   [mru |-> NoOpt, magic |-> NextMagic(magic), odd |-> {}])}

\* The whole exchange on a looped wire: one frame, and a client that got nowhere.
LoopedInv ==
  looped =>
    /\ phase \in {"Lcp", "Dead"} /\ ipcp_reqs = 0
    /\ ~lcp_acked_local /\ ~lcp_acked_remote /\ send_magic /\ our_mru = DefaultMru
    /\ Len(wire) + Len(outbox) <= 1
    /\ \A f \in FramesOf(wire) : f \in LoopFrames
    /\ \A f \in FramesOf(outbox) : f \in LoopFrames

\* The client's IPCP requests, and what a gateway answers them with.
IpcpRequests == {f \in Frame : f.proto = "IPCP" /\ f.code = "ConfReq"}
IpcpAnswers == {f \in Frame : f.proto = "IPCP" /\ f.code \in {"ConfAck", "ConfNak", "ConfRej"}}

\* A queue holds no frame of a kind, or at most one.
Absent(s, S) == FramesOf(s) \cap S = {}
Single(s, S) == \A i, j \in 1 .. Len(s) : s[i] \in S /\ s[j] \in S => i = j

\* Of a request and its answer, none is under way, or at most one.
NoneInFlight == Absent(outbox, IpcpRequests) /\ Absent(wire, IpcpAnswers)
OneInFlight ==
  /\ Single(outbox, IpcpRequests) /\ Single(wire, IpcpAnswers)
  /\ Absent(outbox, IpcpRequests) \/ Absent(wire, IpcpAnswers)

\* The lease the gateway grants with an ack of these options.
Lease(o) == [addr |-> Assigned, dns |-> IF o.dns = NoOpt THEN Unspecified ELSE o.dns]

\* An answer on its way to the client is about the request the client made last: an
\* ack carries the lease the gateway recorded, a NAK names DNS only if it was asked for.
AnswerFits(f) ==
  f \in IpcpAnswers =>
    /\ f.code = "ConfAck" =>
         /\ "IPCP" \in gw_agreed
         /\ f.opts = [ipcp_req_opts EXCEPT !.addr = Assigned]
         /\ gw_lease = Lease(ipcp_req_opts)
    /\ f.code = "ConfNak" /\ f.opts.dns # NoOpt => ipcp_req_opts.dns # NoOpt

\* The client is waiting for an answer to the request it made last.
Asking ==
  /\ OneInFlight
  /\ ipcp_req_opts = IpcpOffer
  /\ \A f \in FramesOf(outbox) : f \in IpcpRequests => f.opts = ipcp_req_opts
  /\ \A f \in FramesOf(wire) : AnswerFits(f)

\* The client has its lease, and nothing under way can change it.
Leased ==
  /\ NoneInFlight
  /\ "IPCP" \in gw_agreed
  /\ gw_lease = [addr |-> local_ip, dns |-> dns]

\* What the client knows of its lease, and what may still be under way about it.
LeaseWires ==
  /\ phase \in {"Lcp", "Ipcp"} /\ ~request_dns => dns = Unspecified
  /\ phase = "Lcp" => ~ipcp_acked_local /\ NoneInFlight
  /\ phase = "Ipcp" /\ ~ipcp_acked_local => Asking
  /\ phase \in {"Ipcp", "Network"} /\ ipcp_acked_local => Leased

\* The machine's own invariant, and well-formed frames and requests.
LinkType == IInv /\ wire \in Seq(Frame) /\ RequestsFit

\* The inductive invariant of the link.
LinkInv ==
  /\ LinkType
  /\ LoopedInv
  /\ ~looped => MruWires /\ LeaseWires
  /\ "IPCP" \in gw_agreed => GwLcpOpen

-----------------------------------------------------------------------------
(* Queues of frames: what is in them after a step. *)

\* Taking the head, appending and joining change the frames in a queue as expected.
LEMMA QueueFrames ==
  /\ \A s \in Seq(Frame) : FramesOf(s) \subseteq Frame
  /\ \A s \in Seq(Frame) : \A f : FramesOf(Append(s, f)) = FramesOf(s) \cup {f}
  /\ \A s \in Seq(Frame) : s # <<>> =>
       Head(s) \in FramesOf(s) /\ FramesOf(Tail(s)) \subseteq FramesOf(s) /\ Tail(s) \in Seq(Frame)
  /\ \A s, t \in Seq(Frame) : FramesOf(s \o t) = FramesOf(s) \cup FramesOf(t)
  /\ FramesOf(<<>>) = {} /\ \A f : FramesOf(<<f>>) = {f}
  <1>1. ASSUME NEW s \in Seq(Frame) PROVE FramesOf(s) \subseteq Frame
    BY DEF FramesOf
  <1>2. ASSUME NEW s \in Seq(Frame), NEW f
        PROVE  FramesOf(Append(s, f)) = FramesOf(s) \cup {f}
    <2>a. s \in Seq(Frame \cup {f}) /\ f \in Frame \cup {f}
      OBVIOUS
    <2>1. Len(Append(s, f)) = Len(s) + 1 /\ Len(s) \in Nat
      BY <2>a
    <2>2. Append(s, f)[Len(s) + 1] = f /\ \A i \in 1 .. Len(s) : Append(s, f)[i] = s[i]
      BY <2>a
    <2>3. 1 .. Len(Append(s, f)) = 1 .. Len(s) \cup {Len(s) + 1}
      BY <2>1
    <2> QED BY <2>2, <2>3 DEF FramesOf
  <1>3. ASSUME NEW s \in Seq(Frame), s # <<>>
        PROVE  Head(s) \in FramesOf(s) /\ FramesOf(Tail(s)) \subseteq FramesOf(s) /\ Tail(s) \in Seq(Frame)
    <2>1. Len(s) \in Nat \ {0} /\ Head(s) = s[1] /\ Len(Tail(s)) = Len(s) - 1 /\ Tail(s) \in Seq(Frame)
      BY <1>3
    <2>2. \A i \in 1 .. Len(Tail(s)) : Tail(s)[i] = s[i + 1] /\ i + 1 \in 1 .. Len(s)
      BY <1>3, <2>1
    <2> QED BY <2>1, <2>2 DEF FramesOf
  <1>4. ASSUME NEW s \in Seq(Frame), NEW t \in Seq(Frame)
        PROVE  FramesOf(s \o t) = FramesOf(s) \cup FramesOf(t)
    <2>1. Len(s \o t) = Len(s) + Len(t) /\ Len(s) \in Nat /\ Len(t) \in Nat
      OBVIOUS
    <2>2. \A i \in 1 .. Len(s) : (s \o t)[i] = s[i] /\ i \in 1 .. Len(s \o t)
      BY <2>1
    <2>3. \A i \in 1 .. Len(t) : (s \o t)[Len(s) + i] = t[i] /\ Len(s) + i \in 1 .. Len(s \o t)
      BY <2>1
    <2>4. \A i \in 1 .. Len(s \o t) :
            i \in 1 .. Len(s) \/ (i - Len(s) \in 1 .. Len(t) /\ (s \o t)[i] = t[i - Len(s)])
      BY <2>1
    <2>5. FramesOf(s \o t) \subseteq FramesOf(s) \cup FramesOf(t)
      BY <2>2, <2>4 DEF FramesOf
    <2>6. FramesOf(s) \subseteq FramesOf(s \o t)
      BY <2>2 DEF FramesOf
    <2>7. FramesOf(t) \subseteq FramesOf(s \o t)
      BY <2>3 DEF FramesOf
    <2> QED BY <2>5, <2>6, <2>7
  <1>5. FramesOf(<<>>) = {} /\ \A f : FramesOf(<<f>>) = {f}
    BY DEF FramesOf
  <1> QED BY <1>1, <1>2, <1>3, <1>4, <1>5

\* One frame of a kind stays one when a queue loses its head or gains frames of
\* another kind, and leaves none behind when it is taken.
LEMMA SingleFrames ==
  ASSUME NEW s \in Seq(Frame), NEW S
  PROVE  /\ \A f : Single(s, S) /\ f \notin S => Single(Append(s, f), S)
         /\ \A f : Absent(s, S) => Single(Append(s, f), S)
         /\ s # <<>> /\ Single(s, S) => Single(Tail(s), S)
         /\ s # <<>> /\ Single(s, S) /\ Head(s) \in S => Absent(Tail(s), S)
         /\ \A t \in Seq(Frame) : Single(s, S) /\ Absent(t, S) => Single(s \o t, S)
         /\ \A f : Absent(s, S) => Single(s \o <<f>>, S)
  <1>1. ASSUME NEW f
        PROVE  /\ Single(s, S) /\ f \notin S => Single(Append(s, f), S)
               /\ Absent(s, S) => Single(Append(s, f), S)
               /\ Absent(s, S) => Single(s \o <<f>>, S)
    <2>a. s \in Seq(Frame \cup {f}) /\ f \in Frame \cup {f}
      OBVIOUS
    <2>1. Len(Append(s, f)) = Len(s) + 1 /\ Len(s) \in Nat
      BY <2>a
    <2>2. Append(s, f)[Len(s) + 1] = f /\ \A i \in 1 .. Len(s) : Append(s, f)[i] = s[i]
      BY <2>a
    <2>3. s \o <<f>> = Append(s, f)
      BY <2>a
    <2>4. \A i \in 1 .. Len(Append(s, f)) : i \in 1 .. Len(s) \/ i = Len(s) + 1
      BY <2>1
    <2> QED BY <2>2, <2>3, <2>4 DEF Single, Absent, FramesOf
  <1>2. ASSUME s # <<>>, Single(s, S)
        PROVE  Single(Tail(s), S) /\ (Head(s) \in S => Absent(Tail(s), S))
    <2>1. Len(s) \in Nat \ {0} /\ Head(s) = s[1] /\ Len(Tail(s)) = Len(s) - 1
      BY <1>2
    <2>2. \A i \in 1 .. Len(Tail(s)) : Tail(s)[i] = s[i + 1] /\ i + 1 \in 1 .. Len(s) /\ i + 1 # 1
      BY <1>2, <2>1
    <2>3. 1 \in 1 .. Len(s)
      BY <2>1
    <2>4. Single(Tail(s), S)
      BY <1>2, <2>2 DEF Single
    <2>5. ASSUME Head(s) \in S PROVE Absent(Tail(s), S)
      BY <1>2, <2>1, <2>2, <2>3, <2>5 DEF Single, Absent, FramesOf
    <2> QED BY <2>4, <2>5
  <1>3. ASSUME NEW t \in Seq(Frame), Single(s, S), Absent(t, S)
        PROVE  Single(s \o t, S)
    <2>1. Len(s \o t) = Len(s) + Len(t) /\ Len(s) \in Nat /\ Len(t) \in Nat
      OBVIOUS
    <2>2. \A i \in 1 .. Len(s \o t) :
            \/ i \in 1 .. Len(s) /\ (s \o t)[i] = s[i]
            \/ i - Len(s) \in 1 .. Len(t) /\ (s \o t)[i] = t[i - Len(s)]
      BY <2>1
    <2>3. \A i \in 1 .. Len(t) : t[i] \notin S
      BY <1>3 DEF Absent, FramesOf
    <2> QED BY <1>3, <2>2, <2>3 DEF Single
  <1> QED BY <1>1, <1>2, <1>3

-----------------------------------------------------------------------------
(* What the client queues. *)

Refusal(f) == f.proto = "LCP" /\ f.code \in {"ConfNak", "ConfRej"}
IpcpNak(f) == f.proto = "IPCP" /\ f.code = "ConfNak"

LcpReply(f) == Pkt("LCP", LcpVerdict(f.opts), f.id, LcpAnswer(f.opts))

\* A refusal of an LCP request is queued only in answer to one, and IPCP is never
\* NAK'd.
LEMMA HandleQueues ==
  ASSUME TypeOK, NEW f \in Frame, Handle(f)
  PROVE  \A g \in FramesOf(outbox') :
           \/ g \in FramesOf(outbox)
           \/ LcpConfReq(f) /\ g = LcpReply(f)
           \/ ~Refusal(g) /\ ~IpcpNak(g)
  <1> USE QueueFrames DEF Refusal, IpcpNak
  <1>q. outbox \in Seq(Frame) /\ outbox' \in Seq(Frame)
    BY HandleType DEF TypeOK
  <1>r. LcpReply(f).proto = "LCP"
    BY DEF LcpReply, Pkt
  <1>1. CASE LcpConfReq(f)
    <2>1. OpenIpcp(Append(outbox, LcpReply(f)))
      BY <1>1 DEF LcpConfReq, LcpReply
    <2>2. PICK q : q = Append(outbox, LcpReply(f))
      OBVIOUS
    <2>3. FramesOf(q) = FramesOf(outbox) \cup {LcpReply(f)}
      BY <1>q, <2>2
    <2>4. q \in Seq(Frame)
      <3>1. LcpReply(f) \in Frame
        BY <1>1, FrameParts, LcpAnswerType, PktType DEF LcpConfReq, TypeOK, LcpCodes, LcpReply
      <3> QED BY <1>q, <2>2, <3>1
    <2>5. CASE outbox' = q
      BY <1>1, <2>3, <2>5
    <2>6. CASE outbox' = Append(q, Pkt("IPCP", "ConfReq", ident, IpcpOffer'))
      BY <1>1, <2>3, <2>4, <2>6 DEF Pkt
    <2> QED BY <2>1, <2>2, <2>5, <2>6 DEF OpenIpcp, SendIpcpConfReq
  <1>a. \A p, c, i, o : /\ FramesOf(Append(outbox, Pkt(p, c, i, o))) = FramesOf(outbox) \cup {Pkt(p, c, i, o)}
                        /\ Pkt(p, c, i, o).proto = p /\ Pkt(p, c, i, o).code = c
    BY <1>q DEF Pkt
  <1>2. CASE LcpConfAck(f)
    <2>1. outbox' = outbox \/ \E p, i, o : \E c \in {"ConfReq"} : outbox' = Append(outbox, Pkt(p, c, i, o))
      BY <1>2 DEF LcpConfAck, OpenIpcp, SendIpcpConfReq
    <2>2. CASE outbox' = outbox
      BY <2>2
    <2>3. CASE \E p, i, o : \E c \in {"ConfReq"} : outbox' = Append(outbox, Pkt(p, c, i, o))
      BY <1>a, <2>3
    <2> QED BY <2>1, <2>2, <2>3
  <1>3. CASE LcpConfNak(f) \/ LcpConfRej(f)
    <2>1. outbox' = outbox \/ \E p, i, o : \E c \in {"ConfReq"} : outbox' = Append(outbox, Pkt(p, c, i, o))
      BY <1>3 DEF LcpConfNak, LcpConfRej, SendLcpConfReq
    <2>2. CASE outbox' = outbox
      BY <2>2
    <2>3. CASE \E p, i, o : \E c \in {"ConfReq"} : outbox' = Append(outbox, Pkt(p, c, i, o))
      BY <1>a, <2>3
    <2> QED BY <2>1, <2>2, <2>3
  <1>4. CASE LcpEchoReq(f) \/ LcpTermReq(f) \/ IpcpTermReq(f) \/ UnknownProtocol(f)
    <2>1. \E p, i, o : \E c \in {"EchoRep", "TermAck", "ProtoRej"} : outbox' = Append(outbox, Pkt(p, c, i, o))
      BY <1>4 DEF LcpEchoReq, LcpTermReq, IpcpTermReq, UnknownProtocol
    <2> QED BY <1>a, <2>1
  <1>5. CASE IpcpConfReq(f)
    <2>1. \E i, o : \E c \in {"ConfAck", "ConfRej"} : outbox' = Append(outbox, Pkt("IPCP", c, i, o))
      BY <1>5 DEF IpcpConfReq, IpcpVerdict
    <2> QED BY <1>a, <2>1
  <1>6. CASE LcpEchoRep(f) \/ Ignored(f) \/ IpcpConfAck(f) \/ IpcpConfRejAddr(f) \/ IpcpOther(f)
    BY <1>6 DEF LcpEchoRep, Ignored, IpcpConfAck, IpcpConfRejAddr, IpcpOther
  <1>7. CASE IpcpConfNak(f) \/ IpcpConfRej(f)
    <2>1. outbox' = outbox \/ \E p, i, o : \E c \in {"ConfReq"} : outbox' = Append(outbox, Pkt(p, c, i, o))
      BY <1>7 DEF IpcpConfNak, IpcpConfRej, SendIpcpConfReq
    <2>2. CASE outbox' = outbox
      BY <2>2
    <2>3. CASE \E p, i, o : \E c \in {"ConfReq"} : outbox' = Append(outbox, Pkt(p, c, i, o))
      BY <1>a, <2>3
    <2> QED BY <2>1, <2>2, <2>3
  <1> QED BY <1>1, <1>2, <1>3, <1>4, <1>5, <1>6, <1>7 DEF Handle

-----------------------------------------------------------------------------
(* The MRU. *)

\* The verdict on a request of the gateway's: it depends on the request alone, so
\* a request that was refused is refused again.
LEMMA GatewayVerdict ==
  ASSUME NEW o \in LcpOpts, magic \in Magics, o.magic = NoOpt, o.odd \subseteq {"unknown"}
  PROVE  /\ LcpVerdict(o) = "ConfAck" <=> ~Flawed(o)
         /\ LcpVerdict(o) = "ConfRej" <=> UnknownOption(o)
         /\ LcpVerdict(o) = "ConfNak" => ~UnknownOption(o) /\ LowMru(o) /\ LcpAnswer(o).mru = MaxMtu
  <1>1. o.magic # 0 /\ o.magic # magic
    BY DEF Magics
  <1>2. "badlen" \notin o.odd /\ ("unknown" \in o.odd <=> o.odd # {})
    OBVIOUS
  <1>3. LcpNakked(o) <=> LowMru(o)
    BY <1>1, <1>2 DEF LcpNakked, LowMru
  <1> QED BY <1>2, <1>3 DEF LcpVerdict, LcpAnswer, Flawed, UnknownOption, LowMru

\* Handling a frame settles the MRU only with an ack of the current request.
LEMMA HandleMru ==
  ASSUME IInv, RequestsFit, MruWires, wire \in Seq(Frame), wire # <<>>,
         Handle(Head(wire)), wire' = Tail(wire), UNCHANGED gw_req
  PROVE  MruWires'
  <1> DEFINE f == Head(wire)
  <1> USE DEF IInv, MruWires
  <1>f. f \in Frame /\ RequestFits(f) /\ FramesOf(wire') \subseteq FramesOf(wire)
    BY QueueFrames
  <1>1. \A g \in FramesOf(wire') : RequestFits(g)'
    BY <1>f DEF RequestFits
  <1>v. ASSUME LcpConfReq(f)
        PROVE  /\ LcpVerdict(f.opts) = "ConfAck" => f = gw_req["LCP"] /\ ~Flawed(f.opts)
               /\ RefusalFits(LcpReply(f))
    <2>1. f.proto = "LCP" /\ f.code = "ConfReq" /\ f.opts \in LcpOpts /\ magic \in Magics
      BY <1>v, <1>f, FrameParts DEF LcpConfReq, TypeOK
    <2>2. f.opts.magic = NoOpt /\ f.opts.odd \subseteq {"unknown"}
      BY <1>f, <2>1 DEF RequestFits, RequestsFit
    <2>3. \/ f = gw_req["LCP"]
          \/ f.id < gw_req["LCP"].id /\ Flawed(f.opts)
      BY <1>f, <2>1 DEF RequestFits
    <2>4. f.id \in Nat /\ gw_req["LCP"].id \in Nat
      BY <1>f, <2>1, FrameParts DEF RequestsFit, Ids
    <2>5. /\ LcpReply(f).proto = "LCP" /\ LcpReply(f).code = LcpVerdict(f.opts)
          /\ LcpReply(f).id = f.id /\ LcpReply(f).opts = LcpAnswer(f.opts)
      BY DEF LcpReply, Pkt
    <2> QED BY <2>1, <2>2, <2>3, <2>4, <2>5, GatewayVerdict DEF RefusalFits, Flawed
  <1>2. \A g \in FramesOf(outbox') : RefusalFits(g)'
    <2>1. \A g : ~Refusal(g) /\ ~IpcpNak(g) => RefusalFits(g)
      BY DEF Refusal, IpcpNak, RefusalFits
    <2>2. \A g \in FramesOf(outbox') : RefusalFits(g)
      BY <1>f, <1>v, <2>1, HandleQueues
    <2> QED BY <2>2 DEF RefusalFits
  <1>3. MruSettled'
    <2>1. CASE LcpConfReq(f)
      <3>1. CASE LcpVerdict(f.opts) = "ConfAck"
        BY <1>v, <2>1, <3>1 DEF MruSettled, LcpConfReq, AckedMru
      <3>2. CASE LcpVerdict(f.opts) # "ConfAck"
        <4>1. ~lcp_acked_remote' /\ peer_mru' = peer_mru
          BY <2>1, <3>2 DEF LcpConfReq
        <4>2. phase' \in {"Ipcp", "Network"} => phase \in {"Ipcp", "Network"}
          BY <2>1, <4>1 DEF LcpConfReq, OpenIpcp, MayOpenIpcp, LcpBothAcked
        <4> QED BY <4>1, <4>2 DEF MruSettled
      <3> QED BY <3>1, <3>2
    <2>2. CASE ~LcpConfReq(f)
      <3>1. peer_mru' = peer_mru /\ lcp_acked_remote' = lcp_acked_remote
        BY <2>2 DEF Handle, LcpConfAck, LcpConfNak, LcpConfRej, LcpEchoReq, LcpEchoRep,
           LcpTermReq, IpcpConfReq, IpcpConfAck, IpcpConfNak, IpcpConfRej, IpcpConfRejAddr,
           IpcpTermReq, IpcpOther, UnknownProtocol, Ignored, lcpVars
      <3>2. StepShape
        BY HandleShape
      <3> QED BY <3>1, <3>2 DEF MruSettled, StepShape
    <2> QED BY <2>1, <2>2
  <1> QED BY <1>1, <1>2, <1>3

-----------------------------------------------------------------------------
(* The gateway's steps: what they take and what they send. *)

\* Frames that neither ask for anything in LCP nor answer an IPCP request.
Quiet(a) == \A g \in FramesOf(a) : ~(g.proto = "LCP" /\ g.code = "ConfReq") /\ g \notin IpcpAnswers

\* A step of the gateway's takes the head of the outbox and queues its answers.
LEMMA TakesFrames ==
  ASSUME LinkType, NEW f, NEW a \in Seq(Frame), Takes(f, a)
  PROVE  /\ f \in Frame /\ f \in FramesOf(outbox) /\ outbox \in Seq(Frame) /\ outbox # <<>>
         /\ f = Head(outbox) /\ outbox' = Tail(outbox) /\ wire' = wire \o a
         /\ FramesOf(outbox') \subseteq FramesOf(outbox)
         /\ FramesOf(wire') = FramesOf(wire) \cup FramesOf(a)
         /\ IInv' /\ wire' \in Seq(Frame)
  <1> USE DEF LinkType
  <1>1. outbox \in Seq(Frame) /\ outbox # <<>> /\ f = Head(outbox) /\ outbox' = Tail(outbox)
    BY DEF IInv, TypeOK, Takes
  <1>2. outbox' \in Seq(Frame) /\ wire' \in Seq(Frame)
    BY <1>1, QueueFrames DEF Takes
  <1>3. IInv'
    BY <1>2 DEF Takes, IInv, TypeOK, GivingUpIsDeath, FlagsInOrder, MruAcceptable,
       lcpVars, ipcpVars, echoVars
  <1> QED BY <1>1, <1>2, <1>3, QueueFrames DEF Takes

\* The gateway's first IPCP request goes out at most once LCP opens.
LEMMA StartFrames ==
  ASSUME LinkType, NEW A, NEW G
  PROVE  IpcpStart(A, G) \in Seq(Frame) /\ Quiet(IpcpStart(A, G))
  <1>1. gw_req.IPCP \in Frame /\ gw_req.IPCP.proto = "IPCP" /\ gw_req.IPCP.code = "ConfReq"
    BY DEF LinkType, RequestsFit
  <1>2. gw_req.IPCP \notin IpcpAnswers
    BY <1>1 DEF IpcpAnswers
  <1> QED BY <1>1, <1>2, QueueFrames DEF IpcpStart, Quiet

\* A reply of the gateway's is one frame of the protocol it answers.
LEMMA ReplyFrames ==
  ASSUME NEW f \in Frame, NEW c \in {"ConfAck", "ConfNak", "ConfRej"}, NEW o,
         \/ f.proto = "LCP" /\ o \in LcpOpts
         \/ f.proto = "IPCP" /\ o \in IpcpOpts
  PROVE  /\ Reply(f, c, o) \in Seq(Frame)
         /\ \E g \in Frame : /\ Reply(f, c, o) = <<g>> /\ FramesOf(Reply(f, c, o)) = {g}
                             /\ g.proto = f.proto /\ g.code = c /\ g.opts = o
         /\ f.proto = "LCP" => Quiet(Reply(f, c, o))
  <1> DEFINE g == Pkt(f.proto, c, f.id, o)
  <1>1. g \in Frame
    BY PktType, FrameParts DEF LcpCodes, IpcpCodes
  <1>2. g.proto = f.proto /\ g.code = c /\ g.opts = o
    BY DEF Pkt
  <1>3. Reply(f, c, o) = <<g>>
    BY DEF Reply
  <1>4. FramesOf(<<g>>) = {g}
    BY QueueFrames
  <1>5. f.proto = "LCP" => Quiet(<<g>>)
    BY <1>2, <1>4 DEF Quiet, IpcpAnswers
  <1> HIDE DEF g
  <1> QED BY <1>1, <1>2, <1>3, <1>4, <1>5

\* Steps of the gateway's that ask for nothing new and leave the lease alone.
LEMMA QuietStep ==
  ASSUME LinkType, ~looped, GwAcksLcp \/ GwObjectsLcp \/ GwGranted \/ GwStaleAnswer
  PROVE  /\ \E a \in Seq(Frame) : Takes(Head(outbox), a) /\ Quiet(a)
         /\ UNCHANGED <<gw_req, gw_lease>>
         /\ gw_agreed \subseteq gw_agreed' /\ gw_granted \subseteq gw_granted'
         /\ "IPCP" \in gw_agreed' => "IPCP" \in gw_agreed
  <1> DEFINE f == Head(outbox)
  <1>f. outbox # <<>> /\ f \in Frame
    BY QueueFrames DEF LinkType, IInv, TypeOK, GwAcksLcp, GwObjectsLcp, GwGranted, GwStaleAnswer, Takes
  <1>1. CASE GwAcksLcp
    <2>1. f.proto = "LCP" /\ f.opts \in LcpOpts
      BY <1>1, <1>f, FrameParts DEF GwAcksLcp
    <2> DEFINE r == Reply(f, "ConfAck", f.opts)
               s == IpcpStart(gw_agreed', gw_granted)
    <2>2. Takes(f, r \o s)
      BY <1>1 DEF GwAcksLcp
    <2>3. r \in Seq(Frame) /\ s \in Seq(Frame) /\ Quiet(r) /\ Quiet(s)
      BY <1>f, <2>1, ReplyFrames, StartFrames
    <2> HIDE DEF r, s
    <2>4. r \o s \in Seq(Frame) /\ Quiet(r \o s)
      BY <2>3, QueueFrames DEF Quiet
    <2> QED BY <1>1, <2>2, <2>4 DEF GwAcksLcp
  <1>2. CASE GwObjectsLcp
    <2>1. f.proto = "LCP" /\ f.opts \in LcpOpts
      BY <1>2, <1>f, FrameParts DEF GwObjectsLcp
    <2>2. /\ \A m \in Mrus : [NoLcpOpts EXCEPT !.mru = m] \in LcpOpts
          /\ [f.opts EXCEPT !.magic = NoOpt] \in LcpOpts /\ [f.opts EXCEPT !.mru = NoOpt] \in LcpOpts
      BY <2>1 DEF LcpOpts, NoLcpOpts
    <2>3. \E c \in {"ConfNak", "ConfRej"} : \E o \in LcpOpts : Takes(f, Reply(f, c, o))
      BY <1>2, <2>2 DEF GwObjectsLcp
    <2> QED BY <1>2, <1>f, <2>1, <2>3, ReplyFrames DEF GwObjectsLcp
  <1>3. CASE GwGranted
    BY <1>3, StartFrames DEF GwGranted
  <1>4. CASE GwStaleAnswer
    <2>1. <<>> \in Seq(Frame) /\ Quiet(<<>>)
      BY QueueFrames DEF Quiet
    <2> QED BY <1>4, <2>1 DEF GwStaleAnswer, gwVars
  <1> QED BY <1>1, <1>2, <1>3, <1>4

\* The gateway's answer to an IPCP request: one frame, with the lease if it acks.
LEMMA IpcpStep ==
  ASSUME LinkType, ~looped, GwAcksIpcp \/ GwObjectsIpcp
  PROVE  \E g \in IpcpAnswers :
           /\ Takes(Head(outbox), <<g>>) /\ Head(outbox) \in IpcpRequests
           /\ GwLcpOpen /\ UNCHANGED <<gw_req, gw_granted>>
           /\ \/ /\ g.code = "ConfAck" /\ g.opts = [Head(outbox).opts EXCEPT !.addr = Assigned]
                 /\ gw_agreed' = gw_agreed \cup {"IPCP"} /\ gw_lease' = Lease(Head(outbox).opts)
              \/ /\ g.code # "ConfAck" /\ UNCHANGED <<gw_agreed, gw_lease>>
                 /\ g.code = "ConfNak" /\ g.opts.dns # NoOpt => Head(outbox).opts.dns # NoOpt
  <1> DEFINE f == Head(outbox)
  <1>f. f \in Frame /\ f.proto = "IPCP" /\ f.code = "ConfReq" /\ f.opts \in IpcpOpts
    BY QueueFrames, FrameParts DEF LinkType, IInv, TypeOK, GwAcksIpcp, GwObjectsIpcp, Takes
  <1>r. f \in IpcpRequests
    BY <1>f DEF IpcpRequests
  <1>1. CASE GwAcksIpcp
    <2>1. [f.opts EXCEPT !.addr = Assigned] \in IpcpOpts
      BY <1>f DEF IpcpOpts
    <2>2. PICK g \in Frame : /\ Reply(f, "ConfAck", [f.opts EXCEPT !.addr = Assigned]) = <<g>>
                             /\ g.proto = "IPCP" /\ g.code = "ConfAck"
                             /\ g.opts = [f.opts EXCEPT !.addr = Assigned]
      BY <1>f, <2>1, ReplyFrames
    <2>3. g \in IpcpAnswers
      BY <2>2 DEF IpcpAnswers
    <2> QED BY <1>1, <1>r, <2>2, <2>3 DEF GwAcksIpcp, Lease
  <1>2. CASE GwObjectsIpcp
    <2>1. PICK c \in {"ConfNak", "ConfRej"}, o \in IpcpOpts :
            Takes(f, Reply(f, c, o)) /\ (c = "ConfNak" /\ o.dns # NoOpt => f.opts.dns # NoOpt)
      <3>1. /\ [NoIpcpOpts EXCEPT !.addr = Assigned] \in IpcpOpts
            /\ [addr |-> IF f.opts.addr = Assigned THEN NoOpt ELSE Assigned, dns |-> GwDns, odd |-> {}] \in IpcpOpts
            /\ [NoIpcpOpts EXCEPT !.dns = f.opts.dns] \in IpcpOpts
            /\ [NoIpcpOpts EXCEPT !.addr = Assigned].dns = NoOpt
        BY <1>f DEF IpcpOpts, NoIpcpOpts
      <3>2. \/ Takes(f, Reply(f, "ConfNak", [NoIpcpOpts EXCEPT !.addr = Assigned]))
            \/ /\ f.opts.dns \notin {NoOpt, GwDns}
               /\ Takes(f, Reply(f, "ConfNak", [addr |-> IF f.opts.addr = Assigned THEN NoOpt ELSE Assigned,
                                                dns |-> GwDns, odd |-> {}]))
            \/ Takes(f, Reply(f, "ConfRej", [NoIpcpOpts EXCEPT !.dns = f.opts.dns]))
        BY <1>2 DEF GwObjectsIpcp
      <3> QED BY <3>1, <3>2
    <2>2. PICK g \in Frame : Reply(f, c, o) = <<g>> /\ g.proto = "IPCP" /\ g.code = c /\ g.opts = o
      BY <1>f, ReplyFrames
    <2>3. g \in IpcpAnswers
      BY <2>2 DEF IpcpAnswers
    <2> QED BY <1>2, <1>r, <2>1, <2>2, <2>3 DEF GwObjectsIpcp
  <1> QED BY <1>1, <1>2

\* A refusal of the current request: the next one has one flaw less and an
\* identifier of its own; what is left of the old one will be refused again.
LEMMA AsksAgainStep ==
  ASSUME LinkType, MruWires, ~looped, GwAsksAgain
  PROVE  /\ LinkType' /\ MruWires'
         /\ \E a \in Seq(Frame) : Takes(Head(outbox), a) /\ Absent(a, IpcpAnswers)
         /\ UNCHANGED <<gw_agreed, gw_granted, gw_lease>>
  <1> DEFINE f == Head(outbox)
             old == gw_req[f.proto].opts
             new == IF f.code = "ConfRej" THEN [old EXCEPT !.odd = {}]
                    ELSE [old EXCEPT !.mru = f.opts.mru]
             req == Pkt(f.proto, "ConfReq", NextId(f.id), new)
  <1>1. /\ f.code \in {"ConfNak", "ConfRej"} /\ f.id = gw_req[f.proto].id
        /\ gw_req' = [gw_req EXCEPT ![f.proto] = req]
        /\ Takes(f, <<req>>)
        /\ UNCHANGED <<gw_agreed, gw_granted, gw_lease>>
    BY DEF GwAsksAgain
  <1>2. f \in Frame /\ f \in FramesOf(outbox)
    BY <1>1, QueueFrames DEF LinkType, IInv, TypeOK, Takes
  <1>3. f.proto \in {"LCP", "IPCP"}
    BY <1>1, <1>2 DEF Frame
  <1>4. RefusalFits(f)
    BY <1>2 DEF MruWires
  <1>5. /\ req.proto = f.proto /\ req.code = "ConfReq" /\ req.id = NextId(f.id) /\ req.opts = new
    BY DEF Pkt
  <1>t. gw_req["LCP"].opts \in LcpOpts /\ gw_req["IPCP"].opts \in IpcpOpts
    BY FrameParts DEF LinkType, RequestsFit
  <1> HIDE DEF req
  <1>6. CASE f.proto = "IPCP"
    <2>1. f.code = "ConfRej" /\ new = [gw_req["IPCP"].opts EXCEPT !.odd = {}]
      BY <1>1, <1>4, <1>6 DEF RefusalFits
    <2>2. new \in IpcpOpts
      BY <1>t, <2>1 DEF IpcpOpts
    <2> HIDE DEF new
    <2>3. req \in Frame
      BY <1>2, <1>6, <2>2, FrameParts, NextIdType, PktType DEF req, IpcpCodes
    <2>4. <<req>> \in Seq(Frame) /\ Absent(<<req>>, IpcpAnswers)
      BY <1>5, <2>3, QueueFrames DEF Absent, IpcpAnswers
    <2>5. gw_req'["LCP"] = gw_req["LCP"] /\ RequestsFit'
      BY <1>1, <1>5, <1>6, <2>3 DEF LinkType, RequestsFit
    <2>6. LinkType'
      BY <1>1, <2>4, <2>5, TakesFrames DEF LinkType
    <2>7. MruWires'
      <3>1. /\ FramesOf(outbox') \subseteq FramesOf(outbox)
            /\ FramesOf(wire') = FramesOf(wire) \cup {req}
        <4>1. FramesOf(<<req>>) = {req}
          BY QueueFrames
        <4> QED BY <1>1, <2>4, <4>1, TakesFrames
      <3>2. \A g \in FramesOf(wire') : RequestFits(g)'
        BY <1>5, <1>6, <2>5, <3>1 DEF MruWires, RequestFits
      <3>3. \A g \in FramesOf(outbox') : RefusalFits(g)'
        BY <2>5, <3>1 DEF MruWires, RefusalFits
      <3>4. MruSettled'
        BY <1>1, <2>5 DEF Takes, MruWires, MruSettled, lcpVars
      <3> QED BY <3>2, <3>3, <3>4 DEF MruWires
    <2> QED BY <1>1, <2>4, <2>6, <2>7
  <1>7. CASE f.proto = "LCP"
    <2> DEFINE q == gw_req["LCP"]
    <2>1. q.id \in 0 .. 2 /\ q.opts \in LcpOpts /\ q.opts.magic = NoOpt /\ q.opts.odd \subseteq {"unknown"}
      BY <1>t DEF LinkType, RequestsFit
    <2>2. \/ f.code = "ConfRej" /\ UnknownOption(q.opts) /\ new = [q.opts EXCEPT !.odd = {}]
          \/ /\ f.code = "ConfNak" /\ ~UnknownOption(q.opts) /\ LowMru(q.opts)
             /\ new = [q.opts EXCEPT !.mru = MaxMtu]
      BY <1>1, <1>4, <1>7 DEF RefusalFits
    <2>3. /\ new \in LcpOpts /\ new.magic = NoOpt /\ new.odd = {}
          /\ LowMru(new) => UnknownOption(q.opts) /\ LowMru(q.opts)
      BY <2>1, <2>2 DEF LcpOpts, LowMru, UnknownOption
    <2>4. Flawed(q.opts) /\ ~UnknownOption(new) /\ q.id # 2
      BY <2>2, <2>3 DEF Flawed, LinkType, RequestsFit, UnknownOption
    <2>5. NextId(f.id) = q.id + 1
      <3>1. q.id \in {0, 1} /\ IdSpace \in Nat /\ IdSpace > 2 /\ f.id = q.id
        BY <1>1, <1>7, <2>1, <2>4
      <3> QED BY SMT, <3>1 DEF NextId
    <2>6. (q.id = 1) => ~LowMru(new)
      BY <2>3 DEF LinkType, RequestsFit
    <2> HIDE DEF new
    <2>7. req \in Frame
      BY <1>2, <1>7, <2>3, FrameParts, NextIdType, PktType DEF req, LcpCodes
    <2>8. <<req>> \in Seq(Frame) /\ Absent(<<req>>, IpcpAnswers)
      BY <1>5, <1>7, <2>7, QueueFrames DEF Absent, IpcpAnswers
    <2>9. gw_req'["LCP"] = req /\ gw_req'["IPCP"] = gw_req["IPCP"] /\ gw_req' \in [{"LCP", "IPCP"} -> Frame]
      BY <1>1, <1>7, <2>7 DEF LinkType, RequestsFit
    <2>10. RequestsFit'
      <3>1. req.id \in 0 .. 2 /\ (req.id = 2 => q.id = 1) /\ req.id > q.id
        BY <1>5, <2>1, <2>4, <2>5
      <3>2. req.opts.magic = NoOpt /\ req.opts.odd \subseteq {"unknown"} /\ ~UnknownOption(req.opts)
        BY <1>5, <2>3, <2>4
      <3>3. req.id = 2 => ~Flawed(req.opts)
        BY <1>5, <2>4, <2>6, <3>1 DEF Flawed
      <3>4. req.proto = "LCP" /\ gw_req["IPCP"].proto = "IPCP" /\ gw_req["IPCP"].code = "ConfReq"
        BY <1>5, <1>7 DEF LinkType, RequestsFit
      <3> QED BY <1>5, <2>9, <3>1, <3>2, <3>3, <3>4 DEF RequestsFit
    <2>11. LinkType'
      BY <1>1, <2>8, <2>10, TakesFrames DEF LinkType
    <2>12. MruWires'
      <3>0. req.id = q.id + 1
        BY <1>5, <2>5
      <3>1. /\ FramesOf(outbox') \subseteq FramesOf(outbox)
            /\ FramesOf(wire') = FramesOf(wire) \cup {req}
            /\ FramesOf(outbox) \subseteq Frame /\ FramesOf(wire) \subseteq Frame
        <4>1. FramesOf(<<req>>) = {req}
          BY QueueFrames
        <4>2. FramesOf(outbox) \subseteq Frame /\ FramesOf(wire) \subseteq Frame
          BY QueueFrames DEF LinkType, IInv, TypeOK
        <4> QED BY <1>1, <2>8, <4>1, <4>2, TakesFrames
      <3>2. ASSUME NEW g \in FramesOf(wire) PROVE RequestFits(g)'
        <4>1. g \in Frame /\ RequestFits(g)
          BY <3>1 DEF MruWires
        <4>2. CASE ~(g.proto = "LCP" /\ g.code = "ConfReq")
          BY <4>2 DEF RequestFits
        <4>3. CASE g.proto = "LCP" /\ g.code = "ConfReq"
          <5>1. g.id \in Nat
            BY <4>1, <4>3, FrameParts DEF Ids
          <5>2. g.id < q.id + 1 /\ Flawed(g.opts) /\ g.opts.magic = NoOpt /\ g.opts.odd \subseteq {"unknown"}
            BY <2>1, <2>4, <4>1, <4>3, <5>1 DEF RequestFits
          <5> QED BY <2>9, <3>0, <5>2 DEF RequestFits
        <4> QED BY <4>2, <4>3
      <3>3. ASSUME NEW g \in {req} PROVE RequestFits(g)'
        BY <2>9 DEF RequestFits
      <3>4. ASSUME NEW g \in FramesOf(outbox) PROVE RefusalFits(g)'
        <4>1. g \in Frame /\ RefusalFits(g)
          BY <3>1 DEF MruWires
        <4>2. CASE ~Refusal(g)
          BY <4>1, <4>2 DEF Refusal, RefusalFits
        <4>3. CASE Refusal(g)
          <5>1. g.id \in Nat /\ q.id \in Nat /\ g.id <= q.id
            BY <2>1, <4>1, <4>3, FrameParts DEF Refusal, Ids, RefusalFits
          <5>2. g.id <= req.id /\ g.id # req.id
            BY <3>0, <5>1
          <5> QED BY <2>9, <4>3, <5>2 DEF RefusalFits, Refusal
        <4> QED BY <4>2, <4>3
      <3>5. MruSettled'
        BY <1>1, <2>4 DEF Takes, MruWires, MruSettled, lcpVars
      <3> QED BY <3>1, <3>2, <3>3, <3>4, <3>5 DEF MruWires
    <2> QED BY <1>1, <2>8, <2>11, <2>12
  <1> QED BY <1>3, <1>6, <1>7

\* Any other step of the gateway's leaves the MRU settled.
LEMMA TakesMru ==
  ASSUME LinkType, MruWires, NEW f, NEW a \in Seq(Frame), Takes(f, a),
         UNCHANGED gw_req, \A g \in FramesOf(a) : ~(g.proto = "LCP" /\ g.code = "ConfReq")
  PROVE  LinkType' /\ MruWires'
  <1>1. LinkType'
    BY TakesFrames DEF LinkType, RequestsFit
  <1>2. \A g \in FramesOf(wire') : RequestFits(g)'
    BY TakesFrames DEF MruWires, RequestFits
  <1>3. \A g \in FramesOf(outbox') : RefusalFits(g)'
    BY TakesFrames DEF MruWires, RefusalFits
  <1>4. MruSettled'
    BY DEF MruWires, MruSettled, Takes, lcpVars
  <1> QED BY <1>1, <1>2, <1>3, <1>4 DEF MruWires

-----------------------------------------------------------------------------
(* The looped wire. *)

\* The client NAKs its own request, and a NAK it takes for the gateway's makes it
\* ask with another number: there is never a second frame on the way.
LEMMA LoopHandles ==
  ASSUME LinkType, LoopedInv, looped, ClientHandles
  PROVE  LoopedInv'
  <1> DEFINE f == Head(wire)
  <1> USE DEF LoopedInv
  <1>1. /\ wire # <<>> /\ Handle(f) /\ wire' = Tail(wire) /\ looped' = looped
        /\ wire \in Seq(Frame) /\ outbox \in Seq(Frame)
    BY DEF ClientHandles, LinkType, IInv, TypeOK
  <1>2. Len(wire) = 1 /\ Len(outbox) = 0 /\ Len(wire') = 0
    <2>1. Len(wire) \in Nat /\ Len(outbox) \in Nat /\ Len(wire) # 0 /\ Len(wire') = Len(wire) - 1
      BY <1>1
    <2>2. Len(wire) + Len(outbox) <= 1
      BY <1>1
    <2> HIDE DEF LoopedInv
    <2> QED BY <2>1, <2>2
  <1>3. f \in LoopFrames /\ FramesOf(outbox) = {} /\ FramesOf(wire') = {}
    BY <1>1, <1>2, QueueFrames DEF FramesOf
  <1>m. magic \in Magics /\ 0 \notin Magics /\ NoOpt \notin Magics /\ NextMagic(magic) \in Magics
    BY NextMagicType DEF LinkType, IInv, TypeOK, Magics
  <1>4. CASE f = Pkt("LCP", "ConfReq", lcp_req_id, LcpOffer)
    <2>1. f.proto = "LCP" /\ f.code = "ConfReq" /\ f.id = lcp_req_id /\ f.opts = LcpOffer
      BY <1>4 DEF Pkt
    <2>2. LcpOffer = [mru |-> DefaultMru, magic |-> magic, odd |-> {}]
      BY <1>1 DEF LcpOffer
    <2>3. LcpVerdict(f.opts) = "ConfNak"
      BY <2>1, <2>2 DEF LcpVerdict, LcpNakked
    <2>4. LcpAnswer(f.opts) = [mru |-> NoOpt, magic |-> NextMagic(magic), odd |-> {}]
      <3>1. ~(DefaultMru < MinMru)
        <4>1. DefaultMru \in Nat /\ MinMru \in Nat /\ MinMru <= DefaultMru
          OBVIOUS
        <4> QED BY SMT, <4>1
      <3>2. f.opts.mru = DefaultMru /\ f.opts.magic = magic /\ f.opts.odd = {}
        BY <2>1, <2>2
      <3> QED BY <2>3, <3>1, <3>2 DEF LcpAnswer
    <2>5. LcpConfReq(f)
      BY <1>1, <2>1 DEF Handle, LcpConfReq, LcpConfAck, LcpConfNak, LcpConfRej, LcpEchoReq,
         LcpEchoRep, LcpTermReq, IpcpConfReq, IpcpConfAck, IpcpConfNak, IpcpConfRej,
         IpcpConfRejAddr, IpcpTermReq, IpcpOther, UnknownProtocol, Ignored
    <2>6. /\ ~lcp_acked_remote' /\ UNCHANGED <<magic, lcp_acked_local, lcp_req_id, our_mru, send_magic>>
          /\ OpenIpcp(Append(outbox, LcpReply(f)))
      BY <2>3, <2>5 DEF LcpConfReq, LcpReply
    <2>7. outbox' = Append(outbox, LcpReply(f)) /\ phase' = phase /\ ipcp_reqs' = ipcp_reqs
      BY <2>6 DEF OpenIpcp, MayOpenIpcp, LcpBothAcked, ipcpSend
    <2>8. LcpReply(f) = Pkt("LCP", "ConfNak", lcp_req_id, [mru |-> NoOpt, magic |-> NextMagic(magic), odd |-> {}])
      BY <2>1, <2>3, <2>4 DEF LcpReply
    <2>9. FramesOf(outbox') = {LcpReply(f)} /\ Len(outbox') = 1
      <3>1. outbox' \in Seq(Frame \cup {LcpReply(f)}) /\ Len(outbox') = Len(outbox) + 1
        BY <1>1, <2>7
      <3> QED BY <1>1, <1>2, <1>3, <2>7, <3>1, QueueFrames
    <2>10. LcpReply(f) \in LoopFrames'
      BY <2>6, <2>8 DEF LoopFrames
    <2> QED BY <1>1, <1>2, <1>3, <2>6, <2>7, <2>9, <2>10
  <1>5. CASE f = Pkt("LCP", "ConfNak", lcp_req_id, [mru |-> NoOpt, magic |-> NextMagic(magic), odd |-> {}])
    <2>1. /\ f.proto = "LCP" /\ f.code = "ConfNak" /\ f.id = lcp_req_id
          /\ f.opts.mru = NoOpt /\ f.opts.magic # NoOpt
      BY <1>5, <1>m DEF Pkt
    <2>2. LcpConfNak(f)
      BY <1>1, <2>1 DEF Handle, LcpConfReq, LcpConfAck, LcpConfNak, LcpConfRej, LcpEchoReq,
         LcpEchoRep, LcpTermReq, IpcpConfReq, IpcpConfAck, IpcpConfNak, IpcpConfRej,
         IpcpConfRejAddr, IpcpTermReq, IpcpOther, UnknownProtocol, Ignored
    <2>3. /\ our_mru' = DefaultMru /\ send_magic' /\ ~lcp_acked_local' /\ ~lcp_acked_remote'
          /\ ipcp_reqs' = 0 /\ phase' \in {"Lcp", "Dead"} /\ SendLcpConfReq
      BY <1>1, <2>1, <2>2 DEF LcpConfNak, SendPhase, ipcpVars
    <2>4. CASE RequestsLeft(lcp_reqs)
      <3> DEFINE g == Pkt("LCP", "ConfReq", ident, LcpOffer')
      <3>1. lcp_req_id' = ident /\ outbox' = Append(outbox, g)
        BY <2>3, <2>4 DEF SendLcpConfReq
      <3>2. g \in LoopFrames'
        BY <3>1 DEF LoopFrames
      <3> HIDE DEF g
      <3>3. FramesOf(outbox') = {g} /\ Len(outbox') = 1
        <4>1. outbox' \in Seq(Frame \cup {g}) /\ Len(outbox') = Len(outbox) + 1
          BY <1>1, <3>1
        <4> QED BY <1>1, <1>2, <1>3, <3>1, <4>1, QueueFrames
      <3> QED BY <1>1, <1>2, <1>3, <2>3, <3>2, <3>3
    <2>5. CASE ~RequestsLeft(lcp_reqs)
      <3>1. outbox' = outbox
        BY <2>3, <2>5 DEF SendLcpConfReq
      <3> QED BY <1>1, <1>2, <1>3, <2>3, <3>1
    <2> QED BY <2>4, <2>5
  <1> QED BY <1>3, <1>4, <1>5 DEF LoopFrames

\* A frame that turns round is the same frame.
LEMMA LoopTurns ==
  ASSUME LinkType, LoopedInv, TurnsRound
  PROVE  LoopedInv' /\ LinkType'
  <1>1. outbox \in Seq(Frame) /\ wire \in Seq(Frame) /\ outbox # <<>> /\ Head(outbox) \in Frame
    BY DEF LinkType, IInv, TypeOK, TurnsRound
  <1>2. wire' = Append(wire, Head(outbox)) /\ outbox' = Tail(outbox)
    BY DEF TurnsRound
  <1>3. /\ FramesOf(wire') = FramesOf(wire) \cup {Head(outbox)} /\ Head(outbox) \in FramesOf(outbox)
        /\ FramesOf(outbox') \subseteq FramesOf(outbox)
        /\ outbox' \in Seq(Frame) /\ wire' \in Seq(Frame)
    BY <1>1, <1>2, QueueFrames
  <1>4. Len(wire') + Len(outbox') = Len(wire) + Len(outbox)
    BY <1>1, <1>2
  <1>5. LinkType'
    BY <1>3 DEF LinkType, TurnsRound, IInv, TypeOK, GivingUpIsDeath, FlagsInOrder, MruAcceptable,
       lcpVars, ipcpVars, echoVars, gwVars, RequestsFit
  <1>6. LoopFrames' = LoopFrames
    BY DEF TurnsRound, lcpVars, LoopFrames, LcpOffer
  <1>7. LoopedInv'
    BY <1>3, <1>4, <1>6 DEF LoopedInv, TurnsRound, lcpVars, ipcpVars
  <1> QED BY <1>5, <1>7

-----------------------------------------------------------------------------
(* The lease. *)

\* A queue without frames of a kind stays without them when it loses its head.
LEMMA HandedOver ==
  ASSUME wire \in Seq(Frame), wire # <<>>, wire' = Tail(wire)
  PROVE  /\ Head(wire) \in Frame /\ Head(wire) \in FramesOf(wire)
         /\ FramesOf(wire') \subseteq FramesOf(wire)
         /\ \A S : Absent(wire, S) => Absent(wire', S) /\ Head(wire) \notin S
         /\ \A S : Single(wire, S) => Single(wire', S)
         /\ \A S : Single(wire, S) /\ Head(wire) \in S => Absent(wire', S)
  BY QueueFrames, SingleFrames DEF Absent

\* A frame that leaves the client's IPCP values alone, and does not make it ask.
LEMMA LeaseUntouched ==
  ASSUME LinkType, LeaseWires, wire # <<>>, wire' = Tail(wire),
         UNCHANGED <<gw_agreed, gw_lease, ipcp_acked_local, local_ip, dns, request_dns, ipcp_req_opts>>,
         outbox' = outbox \/ \E g : g \notin IpcpRequests /\ outbox' = Append(outbox, g),
         StepShape, ~(phase = "Lcp" /\ phase' = "Ipcp")
  PROVE  LeaseWires'
  <1>1. outbox \in Seq(Frame) /\ wire \in Seq(Frame)
    BY DEF LinkType, IInv, TypeOK
  <1>2. /\ FramesOf(outbox') \cap IpcpRequests = FramesOf(outbox) \cap IpcpRequests
        /\ Single(outbox, IpcpRequests) => Single(outbox', IpcpRequests)
    <2>1. CASE outbox' = outbox
      BY <2>1
    <2>2. CASE \E g : g \notin IpcpRequests /\ outbox' = Append(outbox, g)
      <3>1. PICK g : g \notin IpcpRequests /\ outbox' = Append(outbox, g)
        BY <2>2
      <3> QED BY <1>1, <3>1, QueueFrames, SingleFrames
    <2> QED BY <2>1, <2>2
  <1>3. NoneInFlight => NoneInFlight'
    BY <1>1, <1>2, HandedOver DEF NoneInFlight, Absent
  <1>4. OneInFlight => OneInFlight'
    BY <1>1, <1>2, HandedOver DEF OneInFlight, Absent
  <1>5. Asking => Asking'
    <2>1. \A g : AnswerFits(g) => AnswerFits(g)'
      BY DEF AnswerFits
    <2>2. IpcpOffer' = IpcpOffer
      BY DEF IpcpOffer
    <2> QED BY <1>1, <1>2, <1>4, <2>1, <2>2, HandedOver DEF Asking
  <1>6. Leased => Leased'
    BY <1>3 DEF Leased
  <1>7. phase' = phase \/ phase' = "Dead" \/ (phase = "Ipcp" /\ phase' = "Network" /\ ipcp_acked_local)
    BY DEF StepShape
  <1> QED BY <1>3, <1>5, <1>6, <1>7 DEF LeaseWires

\* A new IPCP request, when none is under way, is the one the client asks with.
LEMMA AsksAnew ==
  ASSUME NEW q \in Seq(Frame), Absent(q, IpcpRequests), SendIpcpConfReq(q), RequestsLeft(ipcp_reqs),
         Absent(wire', IpcpAnswers)
  PROVE  Asking'
  <1> DEFINE g == Pkt("IPCP", "ConfReq", ident, IpcpOffer')
  <1>1. outbox' = Append(q, g) /\ ipcp_req_opts' = IpcpOffer'
    BY DEF SendIpcpConfReq
  <1>2. g.opts = ipcp_req_opts'
    BY <1>1 DEF Pkt
  <1> HIDE DEF g
  <1>3. FramesOf(outbox') = FramesOf(q) \cup {g} /\ Single(outbox', IpcpRequests)
    BY <1>1, QueueFrames, SingleFrames
  <1>4. Single(wire', IpcpAnswers) /\ OneInFlight'
    <2>1. \A i \in 1 .. Len(wire') : wire'[i] \notin IpcpAnswers
      BY DEF Absent, FramesOf
    <2> QED BY <1>3, <2>1 DEF Single, OneInFlight
  <1>5. \A h \in FramesOf(outbox') : h \in IpcpRequests => h.opts = ipcp_req_opts'
    BY <1>2, <1>3 DEF Absent
  <1>6. \A h \in FramesOf(wire') : AnswerFits(h)'
    BY DEF Absent, AnswerFits
  <1> QED BY <1>1, <1>4, <1>5, <1>6 DEF Asking

\* The promotion at the end of handle_lcp starts the exchange.
LEMMA LeaseOpens ==
  ASSUME LinkType, LeaseWires, wire # <<>>, wire' = Tail(wire),
         UNCHANGED <<ipcp_acked_local, local_ip, dns, request_dns>>,
         NEW q \in Seq(Frame), Absent(outbox, IpcpRequests) => Absent(q, IpcpRequests),
         OpenIpcp(q), MayOpenIpcp
  PROVE  LeaseWires'
  <1>1. phase = "Lcp" /\ phase' \in {"Ipcp", "Dead"} /\ SendIpcpConfReq(q)
        /\ (phase' = "Ipcp" => RequestsLeft(ipcp_reqs))
    BY DEF OpenIpcp, MayOpenIpcp, SendPhase
  <1>2. ~ipcp_acked_local' /\ NoneInFlight
    BY <1>1 DEF LeaseWires
  <1>3. phase' = "Ipcp" => Asking'
    BY <1>1, <1>2, HandedOver, AsksAnew DEF NoneInFlight, LinkType
  <1>4. ~request_dns' => dns' = Unspecified
    BY <1>1 DEF LeaseWires
  <1> QED BY <1>1, <1>2, <1>3, <1>4 DEF LeaseWires

\* An answer to an IPCP request finds the client asking, or dead.
LEMMA AnswerWhileAsking ==
  ASSUME LinkType, LeaseWires, wire # <<>>, wire' = Tail(wire), Head(wire) \in IpcpAnswers
  PROVE  phase = "Dead" \/ (/\ phase = "Ipcp" /\ ~ipcp_acked_local /\ Asking
                            /\ AnswerFits(Head(wire))
                            /\ Absent(outbox, IpcpRequests) /\ Absent(wire', IpcpAnswers))
  <1>1. Head(wire) \in FramesOf(wire) /\ ~Absent(wire, IpcpAnswers)
    BY HandedOver DEF LinkType
  <1>2. ~NoneInFlight /\ ~Leased
    BY <1>1 DEF NoneInFlight, Leased
  <1>3. phase \in Phases /\ ipcp_acked_local \in BOOLEAN /\ (phase = "Network" => ipcp_acked_local)
    BY DEF LinkType, IInv, TypeOK, FlagsInOrder
  <1>4. phase = "Dead" \/ (phase = "Ipcp" /\ ~ipcp_acked_local /\ Asking)
    BY <1>2, <1>3 DEF LeaseWires, Phases
  <1>5. Asking => /\ AnswerFits(Head(wire)) /\ Absent(outbox, IpcpRequests)
                  /\ Absent(wire', IpcpAnswers)
    BY <1>1, HandedOver DEF Asking, OneInFlight, LinkType
  <1> QED BY <1>4, <1>5

\* An acked request settles the lease the gateway acked.
LEMMA LeaseAcked ==
  ASSUME LinkType, LeaseWires, wire # <<>>, wire' = Tail(wire), UNCHANGED <<gw_agreed, gw_lease>>,
         IpcpConfAck(Head(wire))
  PROVE  LeaseWires'
  <1> DEFINE f == Head(wire)
  <1>1. f \in IpcpAnswers /\ f.code = "ConfAck"
    BY HandedOver DEF IpcpConfAck, IpcpAnswers, LinkType
  <1>2. /\ ipcp_acked_local' /\ local_ip' = AckedAddr(f.opts) /\ OpenNetwork(phase)
        /\ UNCHANGED <<outbox, dns, request_dns>>
    BY DEF IpcpConfAck
  <1>3. CASE phase = "Dead"
    <2>1. phase' = "Dead"
      BY <1>2, <1>3 DEF OpenNetwork, MayComeUp
    <2> QED BY <2>1 DEF LeaseWires
  <1>4. CASE phase # "Dead"
    <2>1. /\ phase = "Ipcp" /\ Asking /\ AnswerFits(f)
          /\ Absent(outbox, IpcpRequests) /\ Absent(wire', IpcpAnswers)
      BY <1>1, <1>4, AnswerWhileAsking
    <2>2. /\ "IPCP" \in gw_agreed /\ f.opts = [ipcp_req_opts EXCEPT !.addr = Assigned]
          /\ gw_lease = Lease(ipcp_req_opts) /\ ipcp_req_opts = IpcpOffer
      BY <1>1, <2>1 DEF AnswerFits, Asking
    <2>3. Assigned # NoOpt /\ dns \in Addrs /\ NoOpt \notin Addrs /\ request_dns \in BOOLEAN
      BY DEF LinkType, IInv, TypeOK
    <2>4. ~request_dns => dns = Unspecified
      BY <2>1 DEF LeaseWires
    <2>5. IpcpOffer = [addr |-> local_ip, dns |-> IF request_dns THEN dns ELSE NoOpt, odd |-> {}]
      BY DEF IpcpOffer
    <2>6. gw_lease = [addr |-> Assigned, dns |-> dns]
      BY <2>2, <2>3, <2>4, <2>5 DEF Lease
    <2>7. f.opts = [addr |-> Assigned, dns |-> IF request_dns THEN dns ELSE NoOpt, odd |-> {}]
      BY <2>2, <2>5
    <2>8. local_ip' = Assigned
      BY <1>2, <2>2, <2>3, <2>5, <2>7 DEF AckedAddr
    <2>9. NoneInFlight'
      BY <1>2, <2>1 DEF NoneInFlight
    <2>10. Leased'
      BY <1>2, <2>2, <2>6, <2>8, <2>9 DEF Leased
    <2>11. phase' \in {"Ipcp", "Network", "Dead"}
      BY <1>2, <2>1 DEF OpenNetwork
    <2> QED BY <1>2, <2>4, <2>10, <2>11 DEF LeaseWires
  <1> QED BY <1>3, <1>4

\* A refused request is followed by another one, or by the end of the link.
LEMMA LeaseRefused ==
  ASSUME LinkType, LeaseWires, wire # <<>>, wire' = Tail(wire), UNCHANGED <<gw_agreed, gw_lease>>,
         IpcpConfNak(Head(wire)) \/ IpcpConfRej(Head(wire))
  PROVE  LeaseWires'
  <1> DEFINE f == Head(wire)
  <1>1. f \in IpcpAnswers
    BY HandedOver DEF IpcpConfNak, IpcpConfRej, IpcpAnswers, LinkType
  <1>2. /\ UNCHANGED ipcp_acked_local
        /\ SendIpcpConfReq(outbox) /\ OpenNetwork(SendPhase(ipcp_reqs, phase))
    BY DEF IpcpConfNak, IpcpConfRej
  <1>3. CASE phase = "Dead" \/ ~RequestsLeft(ipcp_reqs)
    <2>1. phase' = "Dead"
      BY <1>2, <1>3 DEF OpenNetwork, MayComeUp, SendPhase
    <2> QED BY <2>1 DEF LeaseWires
  <1>4. CASE phase # "Dead" /\ RequestsLeft(ipcp_reqs)
    <2>1. /\ phase = "Ipcp" /\ ~ipcp_acked_local /\ Asking /\ AnswerFits(f)
          /\ Absent(outbox, IpcpRequests) /\ Absent(wire', IpcpAnswers)
      BY <1>1, <1>4, AnswerWhileAsking
    <2>2. phase' = "Ipcp" /\ ~ipcp_acked_local'
      BY <1>2, <1>4, <2>1 DEF OpenNetwork, MayComeUp, IpcpBothAcked, SendPhase
    <2>3. Asking'
      BY <1>2, <1>4, <2>1, AsksAnew DEF LinkType, IInv, TypeOK
    <2>4. ~request_dns => dns = Unspecified
      BY <2>1 DEF LeaseWires
    <2>5. ~request_dns' => dns' = Unspecified
      <3>1. CASE IpcpConfNak(f)
        <4>1. ipcp_req_opts = IpcpOffer /\ (f.opts.dns # NoOpt => ipcp_req_opts.dns # NoOpt)
          BY <1>1, <2>1, <3>1 DEF Asking, AnswerFits, IpcpConfNak
        <4>2. ~request_dns => f.opts.dns = NoOpt
          BY <4>1 DEF IpcpOffer
        <4> QED BY <2>4, <3>1, <4>2 DEF IpcpConfNak
      <3>2. CASE IpcpConfRej(f)
        BY <2>4, <3>2 DEF IpcpConfRej
      <3> QED BY <3>1, <3>2
    <2> QED BY <2>2, <2>3, <2>5 DEF LeaseWires
  <1> QED BY <1>3, <1>4

\* Every frame the gateway sends leaves the client knowing its lease.
LEMMA LeaseHandles ==
  ASSUME LinkType, LeaseWires, ClientHandles
  PROVE  LeaseWires'
  <1> DEFINE f == Head(wire)
  <1>1. /\ wire # <<>> /\ wire' = Tail(wire) /\ Handle(f) /\ UNCHANGED <<gw_agreed, gw_lease>>
        /\ outbox \in Seq(Frame) /\ f \in Frame
    BY HandedOver DEF ClientHandles, gwVars, LinkType, IInv, TypeOK
  <1>2. StepShape
    BY <1>1, HandleShape
  <1>p. \A p, c, i, o : ~(p = "IPCP" /\ c = "ConfReq") => Pkt(p, c, i, o) \notin IpcpRequests
    BY DEF Pkt, IpcpRequests
  <1>3. CASE LcpConfReq(f)
    <2> DEFINE q == Append(outbox, LcpReply(f))
    <2>1. OpenIpcp(q) /\ UNCHANGED <<ipcp_acked_local, local_ip, dns, request_dns>>
      BY <1>3 DEF LcpConfReq, LcpReply
    <2>2. LcpReply(f) \notin IpcpRequests
      BY <1>p DEF LcpReply
    <2>3. LcpReply(f) \in Frame
      BY <1>1, <1>3, FrameParts, LcpAnswerType, PktType
         DEF LcpConfReq, LinkType, IInv, TypeOK, LcpCodes, LcpReply
    <2>4. q \in Seq(Frame) /\ (Absent(outbox, IpcpRequests) => Absent(q, IpcpRequests))
      BY <1>1, <2>2, <2>3, QueueFrames DEF Absent
    <2>5. CASE MayOpenIpcp
      <3> HIDE DEF q
      <3> QED BY <1>1, <2>1, <2>4, <2>5, LeaseOpens
    <2>6. CASE ~MayOpenIpcp
      <3>1. outbox' = q /\ phase' = phase /\ ipcp_req_opts' = ipcp_req_opts
        BY <2>1, <2>6 DEF OpenIpcp, ipcpSend
      <3> QED BY <1>1, <1>2, <2>1, <2>2, <3>1, LeaseUntouched
    <2> QED BY <2>5, <2>6
  <1>4. CASE LcpConfAck(f)
    <2>1. OpenIpcp(outbox) /\ UNCHANGED <<ipcp_acked_local, local_ip, dns, request_dns>>
      BY <1>4 DEF LcpConfAck
    <2>2. CASE MayOpenIpcp
      BY <1>1, <2>1, <2>2, LeaseOpens
    <2>3. CASE ~MayOpenIpcp
      <3>1. outbox' = outbox /\ phase' = phase /\ ipcp_req_opts' = ipcp_req_opts
        BY <2>1, <2>3 DEF OpenIpcp, ipcpSend
      <3> QED BY <1>1, <1>2, <2>1, <3>1, LeaseUntouched
    <2> QED BY <2>2, <2>3
  <1>5. CASE LcpConfNak(f) \/ LcpConfRej(f)
    <2>1. outbox' = outbox \/ outbox' = Append(outbox, Pkt("LCP", "ConfReq", ident, LcpOffer'))
      BY <1>5 DEF LcpConfNak, LcpConfRej, SendLcpConfReq
    <2>2. Pkt("LCP", "ConfReq", ident, LcpOffer') \notin IpcpRequests
      BY <1>p
    <2>3. /\ UNCHANGED <<ipcp_acked_local, local_ip, dns, request_dns, ipcp_req_opts>>
          /\ phase' = phase \/ phase' = "Dead"
      BY <1>5 DEF LcpConfNak, LcpConfRej, ipcpVars, SendPhase
    <2> QED BY <1>1, <1>2, <2>1, <2>2, <2>3, LeaseUntouched
  <1>6. CASE LcpEchoReq(f) \/ LcpTermReq(f) \/ IpcpTermReq(f) \/ UnknownProtocol(f)
    <2>1. \E p, i, o : \E c \in {"EchoRep", "TermAck", "ProtoRej"} : outbox' = Append(outbox, Pkt(p, c, i, o))
      BY <1>6 DEF LcpEchoReq, LcpTermReq, IpcpTermReq, UnknownProtocol
    <2>2. \E g : g \notin IpcpRequests /\ outbox' = Append(outbox, g)
      BY <1>p, <2>1
    <2>3. /\ UNCHANGED <<ipcp_acked_local, local_ip, dns, request_dns, ipcp_req_opts>>
          /\ phase' = phase \/ phase' = "Dead"
      BY <1>6 DEF LcpEchoReq, LcpTermReq, IpcpTermReq, UnknownProtocol, ipcpVars
    <2> QED BY <1>1, <1>2, <2>2, <2>3, LeaseUntouched
  <1>7. CASE IpcpConfReq(f)
    <2>1. \E i, o : \E c \in {"ConfAck", "ConfRej"} : outbox' = Append(outbox, Pkt("IPCP", c, i, o))
      BY <1>7 DEF IpcpConfReq, IpcpVerdict
    <2>2. \E g : g \notin IpcpRequests /\ outbox' = Append(outbox, g)
      BY <1>p, <2>1
    <2>3. /\ UNCHANGED <<ipcp_acked_local, local_ip, dns, request_dns, ipcp_req_opts>>
          /\ ~(phase = "Lcp" /\ phase' = "Ipcp")
      BY <1>7 DEF IpcpConfReq, OpenNetwork, ipcpSend
    <2> QED BY <1>1, <1>2, <2>2, <2>3, LeaseUntouched
  <1>8. CASE LcpEchoRep(f) \/ Ignored(f) \/ IpcpOther(f)
    <2>1. /\ UNCHANGED <<outbox, ipcp_acked_local, local_ip, dns, request_dns, ipcp_req_opts>>
          /\ ~(phase = "Lcp" /\ phase' = "Ipcp")
      BY <1>8 DEF LcpEchoRep, Ignored, IpcpOther, OpenNetwork, ipcpVars
    <2> QED BY <1>1, <1>2, <2>1, LeaseUntouched
  <1>9. CASE IpcpConfRejAddr(f)
    BY <1>9 DEF IpcpConfRejAddr, LeaseWires
  <1>10. CASE IpcpConfAck(f)
    BY <1>1, <1>10, LeaseAcked
  <1>11. CASE IpcpConfNak(f) \/ IpcpConfRej(f)
    BY <1>1, <1>11, LeaseRefused
  <1> QED BY <1>1, <1>3, <1>4, <1>5, <1>6, <1>7, <1>8, <1>9, <1>10, <1>11 DEF Handle

\* A step of the gateway's that answers no IPCP request leaves the lease as it is.
LEMMA TakesLease ==
  ASSUME LinkType, LeaseWires, NEW f, NEW a \in Seq(Frame), Takes(f, a), Absent(a, IpcpAnswers),
         UNCHANGED gw_lease, gw_agreed \subseteq gw_agreed'
  PROVE  LeaseWires'
  <1>1. UNCHANGED <<phase, ipcp_acked_local, local_ip, dns, request_dns, ipcp_req_opts>>
    BY DEF Takes, ipcpVars
  <1>2. /\ FramesOf(outbox') \subseteq FramesOf(outbox) /\ outbox \in Seq(Frame) /\ outbox # <<>>
        /\ outbox' = Tail(outbox) /\ wire' = wire \o a /\ wire \in Seq(Frame)
        /\ FramesOf(wire') = FramesOf(wire) \cup FramesOf(a)
    BY TakesFrames DEF LinkType
  <1>3. NoneInFlight => NoneInFlight'
    BY <1>2 DEF NoneInFlight, Absent
  <1>4. OneInFlight => OneInFlight'
    BY <1>2, SingleFrames DEF OneInFlight, Absent
  <1>5. Asking => Asking'
    <2>1. \A g : AnswerFits(g) => AnswerFits(g)'
      BY <1>1 DEF AnswerFits
    <2>2. \A g \in FramesOf(a) : AnswerFits(g)'
      BY DEF AnswerFits, Absent
    <2>3. IpcpOffer' = IpcpOffer
      BY <1>1 DEF IpcpOffer
    <2> QED BY <1>1, <1>2, <1>4, <2>1, <2>2, <2>3 DEF Asking
  <1>6. Leased => Leased'
    BY <1>1, <1>3 DEF Leased
  <1> QED BY <1>1, <1>3, <1>5, <1>6 DEF LeaseWires

\* An answer of the gateway's takes the place of the request.
LEMMA AnswersLease ==
  ASSUME LinkType, LeaseWires, ~looped, GwAcksIpcp \/ GwObjectsIpcp
  PROVE  LeaseWires'
  <1> DEFINE f == Head(outbox)
  <1>1. PICK g \in IpcpAnswers :
          /\ Takes(f, <<g>>) /\ f \in IpcpRequests
          /\ \/ /\ g.code = "ConfAck" /\ g.opts = [f.opts EXCEPT !.addr = Assigned]
                /\ gw_agreed' = gw_agreed \cup {"IPCP"} /\ gw_lease' = Lease(f.opts)
             \/ /\ g.code # "ConfAck" /\ UNCHANGED <<gw_agreed, gw_lease>>
                /\ g.code = "ConfNak" /\ g.opts.dns # NoOpt => f.opts.dns # NoOpt
    BY IpcpStep
  <1>2. UNCHANGED <<phase, ipcp_acked_local, local_ip, dns, request_dns, ipcp_req_opts>>
    BY <1>1 DEF Takes, ipcpVars
  <1>3. g \in Frame /\ <<g>> \in Seq(Frame)
    BY DEF IpcpAnswers
  <1>4. /\ f \in FramesOf(outbox) /\ outbox \in Seq(Frame) /\ outbox # <<>> /\ wire \in Seq(Frame)
        /\ outbox' = Tail(outbox) /\ wire' = wire \o <<g>>
        /\ FramesOf(outbox') \subseteq FramesOf(outbox)
        /\ FramesOf(wire') = FramesOf(wire) \cup {g}
    BY <1>1, <1>3, TakesFrames, QueueFrames DEF LinkType
  <1>5. ~Absent(outbox, IpcpRequests) /\ ~NoneInFlight /\ ~Leased
    BY <1>1, <1>4 DEF Absent, NoneInFlight, Leased
  <1>6. ASSUME Asking PROVE Asking'
    <2>1. Absent(wire, IpcpAnswers) /\ f.opts = ipcp_req_opts /\ ipcp_req_opts = IpcpOffer
      BY <1>1, <1>4, <1>5, <1>6 DEF Asking, OneInFlight
    <2>2. Absent(outbox', IpcpRequests) /\ Single(outbox', IpcpRequests)
      BY <1>1, <1>4, <1>6, SingleFrames DEF Asking, OneInFlight
    <2>3. Single(wire', IpcpAnswers)
      BY <1>4, <2>1, SingleFrames
    <2>4. \A h \in FramesOf(wire) : AnswerFits(h)'
      BY <2>1 DEF Absent, AnswerFits
    <2>5. \A h \in {g} : AnswerFits(h)'
      BY <1>1, <1>2, <2>1 DEF AnswerFits
    <2>6. IpcpOffer' = IpcpOffer
      BY <1>2 DEF IpcpOffer
    <2> QED BY <1>2, <1>4, <2>1, <2>2, <2>3, <2>4, <2>5, <2>6 DEF Asking, OneInFlight, Absent
  <1> QED BY <1>2, <1>5, <1>6 DEF LeaseWires

\* A repeated request changes nothing but the wire.
LEMMA RetransmitKeeps ==
  ASSUME LinkType, MruWires, LeaseWires, GwRetransmits
  PROVE  LinkType' /\ MruWires' /\ LeaseWires'
  <1>1. PICK layer \in {"LCP", "IPCP"} : wire' = Append(wire, gw_req[layer])
    BY DEF GwRetransmits
  <1> DEFINE r == gw_req[layer]
  <1>2. UNCHANGED <<vars, looped, gw_req, gw_agreed, gw_granted, gw_lease>>
    BY DEF GwRetransmits
  <1>3. r \in Frame /\ r.proto = layer /\ r.code = "ConfReq" /\ wire \in Seq(Frame)
    BY DEF LinkType, RequestsFit
  <1>4. /\ FramesOf(wire') = FramesOf(wire) \cup {r} /\ wire' \in Seq(Frame)
        /\ r \notin IpcpAnswers /\ (Single(wire, IpcpAnswers) => Single(wire', IpcpAnswers))
    BY <1>1, <1>3, QueueFrames, SingleFrames DEF IpcpAnswers
  <1>5. LinkType'
    BY <1>2, <1>4 DEF LinkType, IInv, TypeOK, GivingUpIsDeath, FlagsInOrder, MruAcceptable,
       vars, lcpVars, ipcpVars, echoVars, RequestsFit
  <1>6. RequestFits(r)
    BY <1>3 DEF RequestFits
  <1>7. MruWires'
    <2>1. \A g \in FramesOf(wire') : RequestFits(g)'
      BY <1>2, <1>4, <1>6 DEF MruWires, RequestFits
    <2>2. \A g \in FramesOf(outbox') : RefusalFits(g)'
      BY <1>2 DEF MruWires, RefusalFits, vars
    <2>3. MruSettled'
      BY <1>2 DEF MruWires, MruSettled, vars, lcpVars
    <2> QED BY <2>1, <2>2, <2>3 DEF MruWires
  <1>8. LeaseWires'
    <2>1. UNCHANGED <<phase, outbox, ipcp_acked_local, local_ip, dns, request_dns, ipcp_req_opts>>
      BY <1>2 DEF vars, ipcpVars
    <2>2. (NoneInFlight => NoneInFlight') /\ (OneInFlight => OneInFlight')
      BY <1>4, <2>1 DEF NoneInFlight, OneInFlight, Absent
    <2>3. Asking => Asking'
      <3>1. \A g \in FramesOf(wire) : AnswerFits(g) => AnswerFits(g)'
        BY <1>2, <2>1 DEF AnswerFits
      <3>2. \A g \in {r} : AnswerFits(g)'
        BY <1>4 DEF AnswerFits
      <3>3. IpcpOffer' = IpcpOffer
        BY <2>1 DEF IpcpOffer
      <3> QED BY <1>4, <2>1, <2>2, <3>1, <3>2, <3>3 DEF Asking
    <2>4. Leased => Leased'
      BY <1>2, <2>1, <2>2 DEF Leased
    <2> QED BY <2>1, <2>2, <2>3, <2>4 DEF LeaseWires
  <1> QED BY <1>5, <1>7, <1>8

-----------------------------------------------------------------------------
(* The invariant of the link. *)

\* The initial states satisfy it.
LEMMA LinkInitInv == ASSUME LinkInit PROVE LinkInv
  <1>1. PICK o \in GwLcpFirst, p \in GwIpcpFirst :
          /\ gw_req = [LCP |-> Pkt("LCP", "ConfReq", 0, o), IPCP |-> Pkt("IPCP", "ConfReq", 0, p)]
          /\ \/ looped = FALSE /\ wire = <<Pkt("LCP", "ConfReq", 0, o)>>
             \/ looped = TRUE /\ wire = <<>>
    BY DEF LinkInit
  <1> DEFINE q == Pkt("LCP", "ConfReq", 0, o)
             r == Pkt("IPCP", "ConfReq", 0, p)
             s == Pkt("LCP", "ConfReq", 1, LcpOffer)
  <1>2. o \in LcpOpts /\ o.magic = NoOpt /\ o.odd \subseteq {"unknown"} /\ p \in IpcpOpts
    BY DEF GwLcpFirst, GwIpcpFirst, LcpOpts, IpcpOpts
  <1>3. 0 \in Ids
    BY DEF Ids
  <1>4. q \in Frame /\ r \in Frame
    BY <1>2, <1>3, PktType DEF LcpCodes, IpcpCodes
  <1>5. /\ q.proto = "LCP" /\ q.code = "ConfReq" /\ q.id = 0 /\ q.opts = o
        /\ r.proto = "IPCP" /\ r.code = "ConfReq"
        /\ s.proto = "LCP" /\ s.code = "ConfReq"
    BY DEF Pkt
  <1>6. Init /\ outbox = <<s>>
    BY DEF LinkInit, Init
  <1>7. /\ phase = "Lcp" /\ ~lcp_acked_local /\ ~lcp_acked_remote /\ ~ipcp_acked_local
        /\ ipcp_reqs = 0 /\ send_magic /\ our_mru = DefaultMru /\ dns = Unspecified /\ lcp_req_id = 1
    BY <1>6 DEF Init
  <1>8. gw_req["LCP"] = q /\ gw_req["IPCP"] = r /\ gw_req \in [{"LCP", "IPCP"} -> Frame]
    BY <1>1, <1>4
  <1> HIDE DEF q, r, s
  <1>9. /\ FramesOf(outbox) = {s} /\ FramesOf(wire) \subseteq {q} /\ wire \in Seq(Frame)
        /\ looped => wire = <<>> /\ FramesOf(wire) = {}
    <2>1. <<q>> \in Seq(Frame) /\ <<>> \in Seq(Frame)
      BY <1>4
    <2>2. FramesOf(<<q>>) = {q} /\ FramesOf(<<s>>) = {s} /\ FramesOf(<<>>) = {}
      BY QueueFrames
    <2>3. (looped = FALSE /\ wire = <<q>>) \/ (looped = TRUE /\ wire = <<>>)
      BY <1>1 DEF q
    <2> QED BY <1>6, <2>1, <2>2, <2>3
  <1>10. LinkType
    <2>1. RequestsFit
      BY <1>2, <1>5, <1>8 DEF RequestsFit
    <2> QED BY <1>6, <1>9, <2>1, InitInv DEF LinkType
  <1>11. LoopedInv
    <2>1. s \in LoopFrames
      BY <1>7 DEF s, LoopFrames
    <2>2. looped => Len(wire) + Len(outbox) <= 1
      BY <1>6, <1>9
    <2> QED BY <1>7, <1>9, <2>1, <2>2 DEF LoopedInv
  <1>12. MruWires
    BY <1>5, <1>7, <1>8, <1>9 DEF MruWires, RequestFits, RefusalFits, MruSettled
  <1>13. LeaseWires
    BY <1>5, <1>7, <1>9 DEF LeaseWires, NoneInFlight, Absent, IpcpRequests, IpcpAnswers
  <1>14. "IPCP" \notin gw_agreed
    BY DEF LinkInit
  <1> QED BY <1>10, <1>11, <1>12, <1>13, <1>14 DEF LinkInv

\* So does every step of either end.
LEMMA LinkStep == ASSUME LinkInv, [LinkNext]_linkVars PROVE LinkInv'
  <1> USE DEF LinkInv
  <1>1. CASE ClientHandles
    <2> DEFINE f == Head(wire)
    <2>1. /\ wire # <<>> /\ wire' = Tail(wire) /\ Handle(f)
          /\ UNCHANGED <<looped, gw_req, gw_agreed, gw_granted, gw_lease>>
      BY <1>1 DEF ClientHandles, gwVars
    <2>2. f \in Frame /\ wire' \in Seq(Frame)
      BY <2>1 DEF LinkType
    <2>3. LinkType'
      BY <2>1, <2>2, HandleType, HandleInv DEF LinkType, IInv, RequestsFit
    <2>4. LoopedInv'
      <3>1. CASE looped
        BY <1>1, <3>1, LoopHandles
      <3>2. CASE ~looped
        BY <2>1, <3>2 DEF LoopedInv
      <3> QED BY <3>1, <3>2
    <2>5. ~looped => MruWires' /\ LeaseWires'
      BY <1>1, <2>1, HandleMru, LeaseHandles DEF LinkType
    <2> QED BY <2>1, <2>3, <2>4, <2>5 DEF GwLcpOpen
  <1>2. CASE TurnsRound
    <2>1. looped /\ UNCHANGED <<looped, gw_agreed, gw_granted>>
      BY <1>2 DEF TurnsRound, gwVars
    <2> QED BY <1>2, <2>1, LoopTurns DEF GwLcpOpen
  <1>3. CASE ~looped /\ (GwAcksLcp \/ GwObjectsLcp \/ GwGranted \/ GwStaleAnswer)
    <2>1. /\ UNCHANGED <<gw_req, gw_lease>>
          /\ gw_agreed \subseteq gw_agreed' /\ gw_granted \subseteq gw_granted'
          /\ "IPCP" \in gw_agreed' => "IPCP" \in gw_agreed
      BY <1>3, QuietStep
    <2>2. PICK a \in Seq(Frame) : Takes(Head(outbox), a) /\ Quiet(a)
      BY <1>3, QuietStep
    <2>3. Absent(a, IpcpAnswers) /\ looped' = looped
      BY <2>2 DEF Quiet, Absent, Takes
    <2>4. LinkType' /\ MruWires'
      BY <1>3, <2>1, <2>2, TakesMru DEF Quiet
    <2>5. LeaseWires'
      BY <1>3, <2>1, <2>2, <2>3, TakesLease
    <2> QED BY <1>3, <2>1, <2>3, <2>4, <2>5 DEF LoopedInv, GwLcpOpen
  <1>4. CASE ~looped /\ GwAsksAgain
    <2>1. /\ LinkType' /\ MruWires' /\ UNCHANGED <<gw_agreed, gw_granted, gw_lease>>
      BY <1>4, AsksAgainStep
    <2>2. PICK a \in Seq(Frame) : Takes(Head(outbox), a) /\ Absent(a, IpcpAnswers)
      BY <1>4, AsksAgainStep
    <2>3. LeaseWires' /\ looped' = looped
      BY <1>4, <2>1, <2>2, TakesLease DEF Takes
    <2> QED BY <1>4, <2>1, <2>3 DEF LoopedInv, GwLcpOpen
  <1>5. CASE ~looped /\ (GwAcksIpcp \/ GwObjectsIpcp)
    <2>1. PICK g \in IpcpAnswers : /\ Takes(Head(outbox), <<g>>) /\ GwLcpOpen
                                   /\ UNCHANGED <<gw_req, gw_granted>>
                                   /\ gw_agreed \subseteq gw_agreed'
      BY <1>5, IpcpStep
    <2>2. g \in Frame /\ <<g>> \in Seq(Frame) /\ FramesOf(<<g>>) = {g} /\ g.proto = "IPCP"
      BY QueueFrames DEF IpcpAnswers
    <2>3. LinkType' /\ MruWires' /\ looped' = looped
      BY <1>5, <2>1, <2>2, TakesMru DEF Takes
    <2>4. LeaseWires'
      BY <1>5, AnswersLease
    <2> QED BY <1>5, <2>1, <2>3, <2>4 DEF LoopedInv, GwLcpOpen
  <1>6. CASE GwRetransmits
    <2>1. ~looped /\ UNCHANGED <<looped, gw_agreed, gw_granted>>
      BY <1>6 DEF GwRetransmits
    <2> QED BY <1>6, <2>1, RetransmitKeeps DEF LoopedInv, GwLcpOpen
  <1>7. CASE UNCHANGED linkVars
    <2>1. UNCHANGED <<vars, lcpVars, ipcpVars, echoVars, looped, wire, gw_req, gw_agreed, gw_granted, gw_lease>>
      BY <1>7 DEF linkVars, vars, gwVars
    <2>2. LinkType'
      BY <2>1 DEF LinkType, IInv, TypeOK, GivingUpIsDeath, FlagsInOrder, MruAcceptable,
         vars, lcpVars, ipcpVars, echoVars, RequestsFit
    <2>3. LoopedInv'
      <3>1. UNCHANGED <<phase, outbox, magic, our_mru, send_magic, lcp_req_id, lcp_acked_local,
                        lcp_acked_remote, ipcp_reqs>>
        BY <2>1 DEF vars, lcpVars, ipcpVars
      <3>2. LoopFrames' = LoopFrames
        BY <3>1 DEF LoopFrames, LcpOffer
      <3> QED BY <2>1, <3>1, <3>2 DEF LoopedInv
    <2>4. MruWires => MruWires'
      BY <2>1 DEF MruWires, RequestFits, RefusalFits, MruSettled, vars, lcpVars
    <2>5. LeaseWires => LeaseWires'
      BY <2>1 DEF LeaseWires, NoneInFlight, OneInFlight, Asking, Leased, AnswerFits, IpcpOffer,
         vars, ipcpVars
    <2> QED BY <2>1, <2>2, <2>3, <2>4, <2>5 DEF GwLcpOpen
  <1> QED BY <1>1, <1>2, <1>3, <1>4, <1>5, <1>6, <1>7 DEF LinkNext, GatewayTakes

\* What the two queues may hold, at every step of every negotiation: one IPCP request
\* or its answer at most, and no refusal of a request that was granted.
THEOREM LinkInvariantHolds == LinkSpec => []LinkInv
  <1>1. LinkInit => LinkInv
    BY LinkInitInv
  <1>2. LinkInv /\ [LinkNext]_linkVars => LinkInv'
    BY LinkStep
  <1> QED BY <1>1, <1>2, PTL DEF LinkSpec

\* Whatever the gateway repeats, objects to and is refused, once LCP is open the MRU
\* the client believes it advertised is the one in its current request.
THEOREM MruIsAgreed == LinkSpec => []MruAgreed
  <1>1. LinkInv => MruAgreed
    BY DEF LinkInv, LoopedInv, MruWires, MruSettled, MruAgreed
  <1> QED BY <1>1, LinkInvariantHolds, PTL

\* When IP traffic flows, both ends have opened LCP and name the same address and
\* DNS server for the client.
THEOREM LeaseIsAgreed == LinkSpec => []LeaseAgreed
  <1>1. LinkInv => LeaseAgreed
    BY DEF LinkInv, LoopedInv, LinkType, IInv, FlagsInOrder, LeaseWires, Leased, LeaseAgreed
  <1> QED BY <1>1, LinkInvariantHolds, PTL

\* A client on a looped wire never believes LCP is open and never asks for an
\* address: the safety half of LoopIsGivenUp, for every number of magic numbers.
THEOREM LoopNeverOpens == LinkSpec => [](looped => phase \in {"Lcp", "Dead"} /\ ipcp_reqs = 0)
  <1>1. LinkInv => (looped => phase \in {"Lcp", "Dead"} /\ ipcp_reqs = 0)
    BY DEF LinkInv, LoopedInv
  <1> QED BY <1>1, LinkInvariantHolds, PTL

\* The MTU put on the device is none the gateway refuses to receive: tun_mtu() of an
\* open link is at most the MRU in the gateway's current request.
THEOREM MtuFitsGateway ==
  LinkSpec => [](phase = "Network" /\ gw_req["LCP"].opts.mru # NoOpt
                   => TunMtu <= gw_req["LCP"].opts.mru)
  <1>1. LinkInv => MruAgreed
    BY DEF LinkInv, LoopedInv, MruWires, MruSettled, MruAgreed
  <1>2. LinkInv => MtuFitsPeer
    BY InvFitsPeer DEF LinkInv, LinkType
  <1>3. LinkInv => (phase = "Network" /\ gw_req["LCP"].opts.mru # NoOpt
                      => TunMtu <= gw_req["LCP"].opts.mru)
    BY <1>1, <1>2 DEF MruAgreed, MtuFitsPeer
  <1> QED BY <1>3, LinkInvariantHolds, PTL
=============================================================================
