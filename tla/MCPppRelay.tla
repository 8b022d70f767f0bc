----------------------------- MODULE MCPppRelay -----------------------------
(***************************************************************************)
(* An instance of PppRelay for TLC: every kind of LCP and IPCP frame in    *)
(* every order.  A batch is any number of frames that call for no answer,  *)
(* and MaxOutbox answered ones.                                            *)
(***************************************************************************)
EXTENDS PppRelay

CONSTANTS
  ReqMrus,   \* MRUs the gateway advertises
  MrusTold,  \* MRUs it names in a NAK or a REJ
  LcpIds,    \* identifiers of its answers to LCP requests
  IpcpIds    \* and to IPCP requests

OtherLcp ==
  [proto : {"LCP"}, code : {"EchoReq", "EchoRep", "TermReq", "TermAck", "ProtoRej"}, id : {0}, opts : {NoLcpOpts}]

LcpBatch ==
  {Pkt("LCP", "ConfReq", 0, [NoLcpOpts EXCEPT !.mru = m]) : m \in ReqMrus}
  \cup [proto : {"LCP"}, code : {"ConfReq"}, id : {0},
        opts : {[NoLcpOpts EXCEPT !.magic = 1], [NoLcpOpts EXCEPT !.odd = {"badlen", "unknown"}]}]
  \cup [proto : {"LCP"}, code : {"ConfAck"}, id : LcpIds, opts : {NoLcpOpts}]
  \cup [proto : {"LCP"}, code : {"ConfNak"}, id : LcpIds, opts : {[NoLcpOpts EXCEPT !.mru = m] : m \in MrusTold}]
  \cup [proto : {"LCP"}, code : {"ConfRej"}, id : LcpIds, opts : {NoLcpOpts}]
  \cup OtherLcp

RelayIpcpOpts == {[NoIpcpOpts EXCEPT !.addr = a] : a \in Addrs \cup {NoOpt}}

IpcpBatch ==
  [proto : {"IPCP"}, code : {"ConfAck", "ConfNak"}, id : IpcpIds, opts : RelayIpcpOpts]
  \cup {Pkt("IPCP", "ConfReq", 0, o) :
          o \in {NoIpcpOpts, [NoIpcpOpts EXCEPT !.odd = {"unknown"}]}}
  \cup {Pkt("IPCP", "ConfRej", i, [addr |-> a, dns |-> Unspecified, odd |-> {}]) :
          i \in IpcpIds, a \in {NoOpt, Unspecified}}
  \cup {Pkt("IPCP", c, 0, NoIpcpOpts) : c \in {"TermReq", "TermAck"}}

BatchFrames == LcpBatch \cup IpcpBatch \cup {Pkt("Other", "Data", 0, NoLcpOpts)}
=============================================================================
