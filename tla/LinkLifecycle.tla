---------------------------- MODULE LinkLifecycle ----------------------------
(***************************************************************************)
(* What the relay is promised by the PPP state machine (Phase and the pub  *)
(* fields of PppState in src/src/engine/pppstate.rs): a link that is       *)
(* established layer by layer, each layer only when both ends agreed to    *)
(* it, that has an address by the time IP traffic may flow, and that never *)
(* comes back once it is dead.  How agreement is reached is not said.      *)
(***************************************************************************)
CONSTANTS Addresses, NoAddress

VARIABLES
  stage,      \* "Lcp", "Ipcp", "Network" or "Dead"
  ours,       \* layers whose request of ours the gateway has accepted
  theirs,     \* layers whose request of the gateway's we last accepted
  address     \* the tunnel's address

lifecycleVars == <<stage, ours, theirs, address>>

Layers == {"LCP", "IPCP"}

Init ==
  /\ stage = "Lcp"
  /\ ours = {} /\ theirs = {}
  /\ address \in Addresses

\* The link keeps its stage while requests and answers are exchanged.  A layer
\* the gateway agreed to is never asked for anew from scratch.
Negotiate ==
  /\ stage' = stage
  /\ ours' \in SUBSET Layers /\ ours \subseteq ours'
  /\ theirs' \in SUBSET Layers
  /\ address' \in Addresses

OpenLayer ==
  /\ stage = "Lcp" /\ stage' = "Ipcp"
  /\ ours' \in SUBSET Layers /\ ours \subseteq ours'
  /\ theirs' \in SUBSET Layers
  /\ "LCP" \in ours' \cap theirs'
  /\ UNCHANGED address

ComeUp ==
  /\ stage = "Ipcp" /\ stage' = "Network"
  /\ ours' \in SUBSET Layers /\ ours \subseteq ours'
  /\ theirs' \in SUBSET Layers
  /\ "IPCP" \in ours' \cap theirs'
  /\ address' \in Addresses \ {NoAddress}

Die ==
  /\ stage' = "Dead"
  /\ ours' \in SUBSET Layers /\ ours \subseteq ours'
  /\ theirs' \in SUBSET Layers
  /\ address' \in Addresses

Next == Negotiate \/ OpenLayer \/ ComeUp \/ Die

Spec == Init /\ [][Next]_lifecycleVars
=============================================================================
