-------------------------------- MODULE Relay --------------------------------
(***************************************************************************)
(* The relay loop (run_relay in engine/tunnel.rs) with its output queue,   *)
(* its clocks, and the gateway at the other end of the TLS connection.     *)
(*                                                                         *)
(* A pass of the loop has two steps: it takes what the gateway sent; then  *)
(* it reads the TUN device, sends a keepalive when one is due and pumps    *)
(* queued output through TLS into the socket.  Passes are short: at least  *)
(* one fits between two ticks of the clock.  The PPP machine is the one    *)
(* LinkLifecycle promises: it negotiates, comes up once and may die.       *)
(* Bytes are counted in frames; a frame is named for what it asks of the   *)
(* one who gets it.                                                        *)
(***************************************************************************)
EXTENDS Naturals, Sequences, FiniteSets

CONSTANTS
  NegotiationTimeout, EchoInterval, WriteStallTimeout,   \* in ticks
  MaxEchoOutstanding,
  MaxQueued, MaxOut, EchoMaxBacklog, TunBatch,           \* in frames
  TlsBuffer,      \* what rustls holds back for the socket
  SockBuffer,     \* what the network and the gateway's socket hold
  DownBuffer      \* what the gateway can send ahead of us

ASSUME RelayAssumption ==
  /\ {NegotiationTimeout, EchoInterval, WriteStallTimeout, MaxEchoOutstanding,
      EchoMaxBacklog, TunBatch, TlsBuffer, SockBuffer, DownBuffer} \subseteq Nat \ {0}
  /\ MaxQueued \in Nat /\ MaxOut \in Nat
  /\ EchoMaxBacklog <= MaxQueued /\ MaxQueued <= MaxOut

\* The gateway takes a frame of ours every tick: the keepalives that may go unanswered
\* leave it the time to get through what can be ahead of the first.  And negotiating may
\* not take longer than silence may last.
NoticeTicks == (MaxEchoOutstanding + 1) * (EchoInterval + WriteStallTimeout + 1)
ASSUME RateAssumption ==
  /\ EchoMaxBacklog + TlsBuffer + SockBuffer < MaxEchoOutstanding * EchoInterval
  /\ NegotiationTimeout < NoticeTicks

VARIABLES
  pc,                 \* "top" after a tick, "out", "wait", "ended"
  why,                \* the reason of the end
  phase,              \* "Negotiating", "Network" or "Dead"
  echo_outstanding, echo_supported,
  buf, tls, sock,     \* our frames: OutQueue, rustls, on their way to the gateway
  last_echo, last_progress, started,      \* ticks since
  stop,               \* the stop flag
  down,               \* the gateway's frames on their way to us
  gateway,            \* "alive", "silent": it never sends again, or "closed"
  answers_echo,       \* the gateway implements LCP echoes
  reads,              \* it took a frame of ours since the last tick
  unnoticed           \* ticks of silence the relay had a chance to notice

linkVars == <<phase, echo_outstanding, echo_supported>>
queueVars == <<buf, tls, sock>>
clockVars == <<last_echo, last_progress, started>>
gatewayVars == <<gateway, answers_echo, reads, unnoticed>>
relayVars == <<pc, why, linkVars, queueVars, clockVars, stop, down, gatewayVars>>

Lesser(m, n) == IF m < n THEN m ELSE n
Repeat(f, n) == [i \in 1 .. n |-> f]
Count(s, f) == Cardinality({i \in DOMAIN s : s[i] = f})

\* run_relay up to the loop: the first Configure-Request is queued and pumped.
RelayInit ==
  /\ pc = "top" /\ why = "running"
  /\ phase = "Negotiating" /\ echo_outstanding = 0 /\ echo_supported = FALSE
  /\ buf = <<>> /\ tls = <<>> /\ sock = <<"frame">>
  /\ last_echo = 0 /\ last_progress = 0 /\ started = 0
  /\ stop = FALSE
  /\ down = <<>> /\ gateway = "alive" /\ answers_echo \in BOOLEAN
  /\ reads = FALSE /\ unnoticed = 0

\* run_relay returns: its locals, queue and PPP machine are gone.
Ends(reason) ==
  /\ pc' = "ended" /\ why' = reason
  /\ phase' = "Dead" /\ echo_outstanding' = 0 /\ echo_supported' = FALSE
  /\ buf' = <<>> /\ tls' = <<>> /\ sock' = <<>> /\ down' = <<>>
  /\ last_echo' = 0 /\ last_progress' = 0 /\ started' = 0
  /\ reads' = FALSE /\ unnoticed' = 0
  /\ UNCHANGED <<stop, gateway, answers_echo>>

GoesOn(next) == pc' = next /\ UNCHANGED why

-----------------------------------------------------------------------------
(* Top of the pass: stop flag, timeout, gateway to PPP. *)

\* The wait of a pass ends when a stream is ready, or with the tick.
AtTop == pc \in {"top", "wait"}

\* Mutant: the flag is looked at only when there is nothing to receive.
StopSeenWhenIdle == stop /\ down = <<>>
StopSeen == stop

TimedOut == phase # "Network" /\ started > NegotiationTimeout

Disconnects ==
  /\ AtTop /\ StopSeen
  /\ Ends("stop")

NegotiationTimesOut ==
  /\ AtTop /\ ~StopSeen /\ TimedOut
  /\ Ends("negotiation")

MayReceive == AtTop /\ ~StopSeen /\ ~TimedOut

\* PppState::handle of one frame: "up" completes the negotiation, and once it
\* is completed is any frame that calls for no answer; "ask" calls for one; "term"
\* ends the link and is acknowledged.  A link that died within the batch still answers
\* what comes after.
Handled(link, f) ==
  CASE f = "up"   -> [link EXCEPT !.phase = IF @ = "Dead" THEN "Dead" ELSE "Network"]
    [] f = "ask"  -> [link EXCEPT !.replies = @ + 1]
    [] f = "echo_reply" -> [link EXCEPT !.supported = TRUE]
    [] f = "term" -> [link EXCEPT !.phase = "Dead", !.replies = @ + 1]
    [] OTHER      -> link

\* The frames of one recv, in order.
Batch(n) ==
  LET link[i \in 0 .. n] ==
        IF i = 0 THEN [phase |-> phase, supported |-> echo_supported, replies |-> 0]
                 ELSE Handled(link[i - 1], down[i])
  IN  link[n]

\* Every frame proves the link alive.
LifeShown(n) == n > 0

\* recv returned n frames; what queue_outbox could not queue is lost with the end.
Takes(n, link) ==
  /\ down' = SubSeq(down, n + 1, Len(down))
  /\ phase' = link.phase /\ echo_supported' = link.supported
  /\ echo_outstanding' = IF LifeShown(n) THEN 0 ELSE echo_outstanding
  /\ UNCHANGED <<stop, gatewayVars>>

QueueFull(more) == Len(buf) + more > MaxOut

\* recv never waits for output to be written.
Readable == down # <<>>

\* In TLS, only what the gateway will answer tells frames apart.
Sealed(s) == [i \in 1 .. Len(s) |-> IF s[i] = "echo" THEN "echo" ELSE "frame"]

\* OutQueue::pump over buf0: TLS and socket take what they have room for.
Pumped(buf0) ==
  LET all == sock \o tls \o Sealed(buf0)
      onSocket == Lesser(SockBuffer, Len(all))
      inTls == Lesser(TlsBuffer, Len(all) - onSocket)
  IN /\ sock' = SubSeq(all, 1, onSocket)
     /\ tls' = SubSeq(all, onSocket + 1, onSocket + inTls)
     /\ buf' = SubSeq(buf0, onSocket + inTls + 1 - Len(sock \o tls), Len(buf0))

\* An answer no longer fits the hard cap.
FloodEnds ==
  /\ MayReceive /\ Readable
  /\ \E n \in 1 .. Len(down) : QueueFull(Batch(n).replies)
  /\ Ends("overflow")

\* The Terminate-Ack is pumped as far as it goes.
LinkDies ==
  /\ MayReceive /\ Readable
  /\ \E n \in 1 .. Len(down) : ~QueueFull(Batch(n).replies) /\ Batch(n).phase = "Dead"
  /\ Ends("dead")

\* on_network refuses: the tunnel is torn down.
SetupFails ==
  /\ MayReceive /\ Readable /\ phase # "Network"
  /\ \E n \in 1 .. Len(down) : ~QueueFull(Batch(n).replies) /\ Batch(n).phase = "Network"
  /\ Ends("setup")

Receives ==
  /\ MayReceive /\ Readable
  /\ \E n \in 1 .. Len(down) :
       LET link == Batch(n) IN
       /\ ~QueueFull(link.replies) /\ link.phase # "Dead"
       /\ Takes(n, link)
       /\ buf' = buf \o Repeat("reply", link.replies)
       /\ last_echo' = IF link.phase = phase THEN last_echo ELSE 0
  /\ GoesOn("out")
  /\ UNCHANGED <<tls, sock, last_progress, started>>

\* WouldBlock.
NothingReceived ==
  /\ MayReceive /\ ~Readable /\ gateway # "closed"
  /\ GoesOn("out")
  /\ UNCHANGED <<linkVars, queueVars, clockVars, stop, down, gatewayVars>>

\* recv returned 0.
SeesClose ==
  /\ MayReceive /\ down = <<>> /\ gateway = "closed"
  /\ Ends("closed")

\* A broken stream, or a TUN device that takes or gives no more packets.
StreamBreaks ==
  /\ pc = "out"
  /\ Ends("io")

-----------------------------------------------------------------------------
(* TUN to gateway, and the keepalive. *)

\* Mutant: room is checked once for a batch and not for each packet.
RoomForBatch == IF Len(buf) < MaxQueued THEN TunBatch ELSE 0
RoomForPackets == Lesser(TunBatch, IF Len(buf) < MaxQueued THEN MaxQueued - Len(buf) ELSE 0)

\* Mutant: keepalives are sent behind any backlog.
EchoDueAnyway(queued) == last_echo >= EchoInterval
\* Mutant: a backlog left in TLS or on the socket holds keepalives back as well.
EchoDueWhenFlushed(queued) ==
  last_echo >= EchoInterval /\ Len(queued) = 0 /\ tls = <<>> /\ sock = <<>>
EchoDue(queued) == last_echo >= EchoInterval /\ Len(queued) < EchoMaxBacklog

\* The socket took something, or nothing is left for it.
Progress == Len(sock') > Len(sock) \/ tls' \o buf' = <<>>
\* OutQueue::pump, and its look at the clock.
Drains(queued) ==
  /\ Pumped(queued)
  /\ last_progress' = IF Progress THEN 0 ELSE last_progress
  /\ last_progress' <= WriteStallTimeout
  /\ GoesOn("wait")
  /\ UNCHANGED <<started, stop, down, gateway, answers_echo, reads>>

\* Nothing of it gets any further, for too long.
Stalled(queued) ==
  Len(sock) = SockBuffer /\ tls \o queued # <<>> /\ last_progress > WriteStallTimeout

NoTraffic ==
  /\ pc = "out" /\ phase # "Network"
  /\ Drains(buf)
  /\ UNCHANGED <<linkVars, last_echo, unnoticed>>

\* The host has n packets for the tunnel.  They stop at MaxQueued, so OutQueue::push
\* accepts them.
Queued(n) == buf \o Repeat("packet", n)
HasPackets(n) == pc = "out" /\ phase = "Network" /\ n <= RoomForPackets

\* A keepalive that is held back behind output that moves: silence goes unnoticed,
\* as the code intends.
HeldBack(queued) == last_echo >= EchoInterval /\ Len(queued) >= EchoMaxBacklog

ForwardsTraffic ==
  /\ \E n \in 0 .. TunBatch :
       /\ HasPackets(n) /\ ~EchoDue(Queued(n))
       /\ Drains(Queued(n))
       /\ unnoticed' = IF HeldBack(Queued(n)) /\ Len(sock') > Len(sock) THEN 0 ELSE unnoticed
  /\ UNCHANGED <<linkVars, last_echo>>

\* send_echo_request: one more is on its way, unless too many are and the gateway
\* is known not to care.
KeepsAlive ==
  /\ \E n \in 0 .. TunBatch :
       /\ HasPackets(n) /\ EchoDue(Queued(n))
       /\ \/ /\ echo_outstanding < MaxEchoOutstanding
             /\ echo_outstanding' = echo_outstanding + 1
             /\ Drains(Append(Queued(n), "echo"))
          \/ /\ echo_outstanding = MaxEchoOutstanding /\ ~echo_supported
             /\ UNCHANGED echo_outstanding
             /\ Drains(Queued(n))
  /\ last_echo' = 0
  /\ UNCHANGED <<phase, echo_supported, unnoticed>>

KeepaliveFails ==
  /\ \E n \in 0 .. TunBatch : HasPackets(n) /\ EchoDue(Queued(n))
  /\ echo_outstanding = MaxEchoOutstanding /\ echo_supported
  /\ Ends("echo")

\* The socket has accepted nothing for too long.
WriteStalls ==
  /\ pc = "out"
  /\ \/ phase # "Network" /\ Stalled(buf)
     \/ \E n \in 0 .. TunBatch : HasPackets(n) /\ Stalled(Queued(n))
  /\ Ends("stalled")

-----------------------------------------------------------------------------
(* The world around the loop. *)

\* An alive gateway takes a frame of ours every tick if there is one, unless it
\* cannot get rid of its own.
Diligent == gateway = "alive" /\ sock # <<>> /\ Len(down) < DownBuffer => reads

\* Silence counts as long as a timer or keepalives can show it.
Probed == phase = "Network" => echo_supported

Tick ==
  /\ pc = "wait" /\ Diligent
  /\ GoesOn("top")
  /\ last_echo' = Lesser(last_echo + 1, EchoInterval)
  /\ last_progress' = Lesser(last_progress + 1, WriteStallTimeout + 1)
  /\ started' = IF phase = "Network" THEN 0   \* not looked at any more
                ELSE Lesser(started + 1, NegotiationTimeout + 2)
  /\ reads' = FALSE
  /\ unnoticed' = IF gateway = "silent" /\ down = <<>> /\ Probed THEN unnoticed + 1 ELSE 0
  /\ UNCHANGED <<linkVars, queueVars, stop, down, gateway, answers_echo>>

UserStops ==
  /\ pc # "ended" /\ ~stop
  /\ stop' = TRUE
  /\ UNCHANGED <<pc, why, linkVars, queueVars, clockVars, down, gatewayVars>>

\* It serves our frames between its own.
GatewaySends(f) ==
  /\ pc # "ended" /\ gateway = "alive" /\ Len(down) < DownBuffer
  /\ sock = <<>> \/ reads
  /\ down' = Append(down, f)
  /\ UNCHANGED <<pc, why, linkVars, queueVars, clockVars, stop, gatewayVars>>

\* It handles the oldest frame of ours.
GatewayTakes ==
  /\ pc # "ended" /\ gateway \in {"alive", "silent"} /\ sock # <<>>
  /\ gateway = "alive" => Len(down) < DownBuffer
  /\ sock' = Tail(sock) /\ reads' = (gateway = "alive")
  /\ down' = IF gateway = "alive" /\ answers_echo /\ Head(sock) = "echo"
             THEN Append(down, "echo_reply") ELSE down
  /\ UNCHANGED <<pc, why, linkVars, buf, tls, clockVars, stop, gateway, answers_echo, unnoticed>>

\* It crashes, or the network to it fails, or it closes the connection.
GatewayFails ==
  /\ pc # "ended" /\ gateway = "alive"
  /\ gateway' \in {"silent", "closed"}
  /\ answers_echo' = FALSE /\ reads' = FALSE
  /\ UNCHANGED <<pc, why, linkVars, queueVars, clockVars, stop, down, unnoticed>>

Pass ==
  \/ Disconnects \/ NegotiationTimesOut
  \/ FloodEnds \/ LinkDies \/ SetupFails \/ Receives \/ NothingReceived \/ SeesClose
  \/ NoTraffic \/ ForwardsTraffic \/ KeepsAlive \/ KeepaliveFails \/ WriteStalls \/ Tick

RelayNext ==
  \/ Pass \/ StreamBreaks
  \/ UserStops \/ GatewayTakes \/ GatewayFails
  \/ \E f \in {"up", "ask", "term"} : GatewaySends(f)

RelaySpec == RelayInit /\ [][RelayNext]_relayVars /\ WF_relayVars(Pass)

-----------------------------------------------------------------------------
(* Properties. *)

\* The hard cap is for "a peer that floods requests without reading our replies"
\* (tunnel.rs, MAX_OUT_BYTES): the host's own packets never fill the queue so far
\* that the gateway's ordinary requests end the tunnel.
OnlyAFloodOverflows ==
  [][why' = "overflow" =>
       Count(buf, "reply") + Count(buf, "echo") + Count(down, "ask") + Count(down, "term")
         > MaxOut - MaxQueued]_relayVars

\* A gateway that is alive and takes our output, if only as slowly as RateAssumption has
\* it, is not given up: neither for a keepalive that waits in a queue, nor for output
\* that waits for a gateway which itself waits for us to read, nor for not implementing
\* echoes.
HealthyGatewayKept == gateway = "alive" => why \notin {"echo", "stalled", "closed"}

\* A gateway that answered echoes and falls silent is given up in bounded time,
\* with or without output to send.
SilenceIsNoticed == unnoticed <= NoticeTicks

\* A disconnect request ends the loop, however busy both sides keep it.
StopEnds == stop ~> pc = "ended"
=============================================================================
