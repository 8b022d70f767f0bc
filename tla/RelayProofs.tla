----------------------------- MODULE RelayProofs -----------------------------
(***************************************************************************)
(* The safety properties of Relay hold for queues, buffers and clocks of   *)
(* any size that meet the assumptions of Relay.                            *)
(***************************************************************************)
EXTENDS Relay, SequenceTheorems, FiniteSetTheorems, DataInduction

OurFrames == {"reply", "echo", "packet"}
OnTheWay == {"frame", "echo"}
TheirFrames == {"up", "ask", "term", "echo_reply"}

\* The values the variables take.
TypeOK ==
  /\ pc \in {"top", "out", "wait", "ended"}
  /\ phase \in {"Negotiating", "Network", "Dead"}
  /\ echo_outstanding \in 0 .. MaxEchoOutstanding /\ echo_supported \in BOOLEAN
  /\ buf \in Seq(OurFrames)
  /\ tls \in Seq(OnTheWay) /\ Len(tls) <= TlsBuffer
  /\ sock \in Seq(OnTheWay) /\ Len(sock) <= SockBuffer
  /\ last_echo \in 0 .. EchoInterval /\ last_progress \in 0 .. WriteStallTimeout + 1
  /\ started \in Nat
  /\ down \in Seq(TheirFrames) /\ Len(down) <= DownBuffer
  /\ answers_echo \in BOOLEAN /\ reads \in BOOLEAN /\ unnoticed \in Nat

\* The host's packets stop at MaxQueued.
PacketsFit == \A i \in DOMAIN buf : buf[i] = "packet" => i <= MaxQueued

\* Only a gateway that implements echoes has shown that it does.
SupportIsTrue ==
  gateway = "alive" /\ (echo_supported \/ \E i \in DOMAIN down : down[i] = "echo_reply")
    => answers_echo

\* All that is to be sent, in order.
ToSend(queued) == sock \o tls \o Sealed(queued)

\* An echo is among the first n frames of s.
EchoWithin(s, n) == \E i \in DOMAIN s : s[i] = "echo" /\ i <= n

\* What can be ahead of the first keepalive nobody answered, less what the gateway has
\* taken since it was sent: a frame every tick.
Ahead ==
  EchoMaxBacklog + TlsBuffer + SockBuffer + 1 + EchoInterval
    - (echo_outstanding * EchoInterval + last_echo + (IF reads THEN 1 ELSE 0))

KeepaliveInv ==
  gateway = "alive" /\ echo_supported /\ echo_outstanding > 0 =>
    /\ down = <<>> => EchoWithin(ToSend(buf), Ahead)
    /\ pc = "out" => echo_outstanding < MaxEchoOutstanding \/ last_echo < EchoInterval

\* A gateway that is alive takes something every tick, but where it waits for us.
ProgressInv ==
  gateway = "alive" =>
    /\ pc = "wait" /\ sock = <<>> => reads \/ tls \o buf = <<>>
    /\ pc \in {"out", "wait"} /\ sock # <<>> /\ ~reads =>
         Len(down) < DownBuffer \/ last_progress = 0
    /\ last_progress = 0 \/ Len(sock) < SockBuffer \/ (last_progress = 1 /\ ~reads)

\* How long a silent gateway has been silent shows in the timers.
Waited ==
  echo_outstanding * (EchoInterval + WriteStallTimeout + 1)
    + last_echo + (IF last_echo = EchoInterval THEN last_progress ELSE 0)

SilenceInv ==
  /\ unnoticed > 0 => gateway = "silent" /\ down = <<>> /\ Probed
  /\ phase # "Network" =>
       /\ unnoticed <= started
       /\ started <= IF pc = "top" THEN NegotiationTimeout + 1 ELSE NegotiationTimeout
  /\ phase = "Network" => unnoticed <= Waited
  /\ pc = "wait" => last_progress <= WriteStallTimeout

\* The inductive invariant.
IInv ==
  /\ TypeOK /\ PacketsFit /\ SupportIsTrue /\ KeepaliveInv /\ ProgressInv /\ SilenceInv
  /\ HealthyGatewayKept

-----------------------------------------------------------------------------
(* The frames of one recv. *)

\* The sizes are numbers.
LEMMA Sizes ==
  /\ NegotiationTimeout \in Nat /\ EchoInterval \in Nat /\ WriteStallTimeout \in Nat
  /\ MaxEchoOutstanding \in Nat /\ EchoMaxBacklog \in Nat /\ TunBatch \in Nat
  /\ TlsBuffer \in Nat /\ SockBuffer \in Nat /\ DownBuffer \in Nat
  /\ MaxQueued \in Nat /\ MaxOut \in Nat
  /\ EchoInterval >= 1 /\ WriteStallTimeout >= 1 /\ MaxEchoOutstanding >= 1
  /\ EchoMaxBacklog >= 1 /\ SockBuffer >= 1 /\ TlsBuffer >= 1 /\ DownBuffer >= 1
  /\ EchoMaxBacklog <= MaxQueued /\ MaxQueued <= MaxOut
  BY RelayAssumption

Links == [phase : {"Negotiating", "Network", "Dead"}, supported : BOOLEAN, replies : Nat]

\* The positions of the first n frames that call for an answer.
Asking(n) == {i \in 1 .. n : down[i] \in {"ask", "term"}}

\* What n frames can have done to the link.
HandledAll(link, n) ==
  /\ phase = "Network" => link.phase \in {"Network", "Dead"}
  /\ echo_supported => link.supported
  /\ link.supported => echo_supported \/ \E i \in 1 .. n : down[i] = "echo_reply"
  /\ link.replies <= Cardinality(Asking(n))

\* What a frame does to a link.
Becomes(link, next, f) ==
  /\ next \in Links
  /\ link.phase = "Network" => next.phase \in {"Network", "Dead"}
  /\ link.phase = "Dead" => next.phase = "Dead"
  /\ link.supported => next.supported
  /\ next.supported => link.supported \/ f = "echo_reply"
  /\ next.replies <= link.replies + (IF f \in {"ask", "term"} THEN 1 ELSE 0)

\* Handling it does that.
LEMMA HandledIs ==
  ASSUME NEW link \in Links, NEW f \in TheirFrames
  PROVE  Becomes(link, Handled(link, f), f)
  <1> SUFFICES ASSUME NEW h, h = Handled(link, f) PROVE Becomes(link, h, f)
    OBVIOUS
  <1>0. PICK p \in {"Negotiating", "Network", "Dead"}, s \in BOOLEAN, r \in Nat :
          link = [phase |-> p, supported |-> s, replies |-> r]
    BY DEF Links
  <1> DEFINE To(q, t, n) == h = [phase |-> q, supported |-> t, replies |-> n]
  <1>1. CASE p = "Dead" /\ f = "up"
    <2>1. To("Dead", s, r)
      BY <1>0, <1>1 DEF Handled
    <2> QED BY <1>0, <1>1, <2>1 DEF Becomes, Links
  <1>2. CASE p # "Dead" /\ f = "up"
    <2>1. To("Network", s, r)
      BY <1>0, <1>2 DEF Handled
    <2> QED BY <1>0, <1>2, <2>1 DEF Becomes, Links
  <1>3. CASE f = "ask"
    <2>1. To(p, s, r + 1)
      BY <1>0, <1>3 DEF Handled
    <2> QED BY <1>0, <1>3, <2>1 DEF Becomes, Links
  <1>4. CASE f = "term"
    <2>1. To("Dead", s, r + 1)
      BY <1>0, <1>4 DEF Handled
    <2> QED BY <1>0, <1>4, <2>1 DEF Becomes, Links
  <1>5. CASE f = "echo_reply"
    <2>1. To(p, TRUE, r)
      BY <1>0, <1>5 DEF Handled
    <2>2. PICK t \in BOOLEAN : t /\ To(p, t, r)
      BY <2>1, Zenon
    <2>3. h \in Links /\ h.phase = p /\ h.supported = t /\ h.replies = r
      BY <2>2 DEF Links
    <2>4. h.supported
      BY <2>2, <2>3, Zenon
    <2>5. link.phase = p /\ link.replies = r
      BY <1>0
    <2> QED BY <1>5, <2>3, <2>4, <2>5 DEF Becomes
  <1> QED BY <1>1, <1>2, <1>3, <1>4, <1>5 DEF TheirFrames

\* One frame more that may call for an answer.
LEMMA OneMore ==
  ASSUME NEW n \in Nat
  PROVE  /\ Cardinality(Asking(n)) \in Nat
         /\ Cardinality(Asking(n + 1)) =
              Cardinality(Asking(n)) + (IF down[n + 1] \in {"ask", "term"} THEN 1 ELSE 0)
  <1>1. IsFiniteSet(1 .. n)
    <2>1. 1 \in Int /\ n \in Int
      OBVIOUS
    <2> QED BY <2>1, FS_Interval
  <1>2. IsFiniteSet(Asking(n)) /\ Asking(n) \subseteq 1 .. n
    BY <1>1, FS_Subset DEF Asking
  <1>3. n + 1 \notin Asking(n)
    BY <1>2
  <1>4. Asking(n + 1) = IF down[n + 1] \in {"ask", "term"} THEN Asking(n) \cup {n + 1} ELSE Asking(n)
    BY DEF Asking
  <1>5. Cardinality(Asking(n)) \in Nat
    BY <1>2, FS_CardinalityType
  <1>6. Cardinality(Asking(n) \cup {n + 1}) = Cardinality(Asking(n)) + 1
    BY <1>2, <1>3, FS_AddElement
  <1> QED BY <1>4, <1>5, <1>6

LEMMA BatchIs ==
  ASSUME TypeOK, NEW n \in 1 .. Len(down)
  PROVE  Batch(n) \in Links /\ HandledAll(Batch(n), n)
  <1> DEFINE before == [phase |-> phase, supported |-> echo_supported, replies |-> 0]
             turn == [i \in 1 .. n |-> [k \in Links |-> Handled(k, down[i])]]
             Rounds(f) ==
               f = [i \in 0 .. n |-> IF i = 0 THEN before ELSE Handled(f[i - 1], down[i])]
             link == CHOOSE f : Rounds(f)
  <1>1. n \in Nat /\ \A i \in 1 .. n : down[i] \in TheirFrames
    <2>1. down \in Seq(TheirFrames) /\ Len(down) \in Nat
      BY LenProperties DEF TypeOK
    <2>2. \A i \in 1 .. Len(down) : down[i] \in TheirFrames
      BY <2>1, ElementOfSeq
    <2> QED BY <2>1, <2>2
  <1>2. before \in Links
    BY DEF TypeOK, Links
  <1>3. turn \in [1 .. n -> [Links -> Links]]
    <2>1. \A i \in 1 .. n : \A k \in Links : Handled(k, down[i]) \in Links
      BY <1>1, HandledIs DEF Becomes
    <2> QED BY <2>1
  <1>4. \A i \in 1 .. n : \A k \in Links : turn[i][k] = Handled(k, down[i])
    OBVIOUS
  <1> HIDE DEF turn
  <1> HIDE DEF before
  <1>a. PICK f : Iterates(n, Links, before, turn, f)
    BY <1>1, <1>2, <1>3, Iteration
  <1>5. /\ f \in [0 .. n -> Links] /\ f[0] = before
        /\ \A i \in 1 .. n : f[i] = turn[i][f[i - 1]]
    BY <1>a DEF Iterates
  <1>6. Rounds(f)
    <2> DEFINE g == [i \in 0 .. n |-> IF i = 0 THEN before ELSE Handled(f[i - 1], down[i])]
    <2>1. \A i \in 0 .. n : f[i] = g[i]
      <3> TAKE i \in 0 .. n
      <3>1. CASE i = 0
        BY <1>5, <3>1
      <3>2. CASE i # 0
        <4>1. i \in 1 .. n /\ i - 1 \in 0 .. n
          BY <1>1, <3>2
        <4> QED BY <1>4, <1>5, <3>2, <4>1
      <3> QED BY <3>1, <3>2
    <2>2. f = [i \in 0 .. n |-> f[i]] /\ g = [i \in 0 .. n |-> g[i]]
      BY <1>5
    <2> QED BY ONLY <2>1, <2>2
  <1>7. Rounds(link)
    BY <1>6
  <1>8. Batch(n) = link[n]
    BY DEF Batch, before
  <1> HIDE DEF link
  <1>9. link[0] = before /\ \A i \in 1 .. n : link[i] = Handled(link[i - 1], down[i])
    <2>1. link = [i \in 0 .. n |-> IF i = 0 THEN before ELSE Handled(link[i - 1], down[i])]
      BY <1>7
    <2>2. 0 \in 0 .. n /\ \A i \in 1 .. n : i \in 0 .. n /\ i # 0
      BY <1>1
    <2> QED BY <2>1, <2>2
  <1> DEFINE T == {i \in Nat : i <= n => link[i] \in Links /\ HandledAll(link[i], i)}
  <1>10. 0 \in T
    <2>1. Asking(0) = {}
      BY DEF Asking
    <2>2. Cardinality(Asking(0)) = 0
      BY <2>1, FS_EmptySet
    <2> QED BY <1>2, <1>9, <2>2 DEF HandledAll, before
  <1>11. \A i \in Nat : i \in T => i + 1 \in T
    <2> SUFFICES ASSUME NEW i \in Nat, i \in T, i + 1 <= n
                 PROVE  link[i + 1] \in Links /\ HandledAll(link[i + 1], i + 1)
      OBVIOUS
    <2>1. link[i] \in Links /\ HandledAll(link[i], i)
      BY <1>1
    <2>2. down[i + 1] \in TheirFrames /\ link[i + 1] = Handled(link[i], down[i + 1])
      BY <1>1, <1>9
    <2> DEFINE a == link[i]
               b == link[i + 1]
    <2>3. Becomes(a, b, down[i + 1])
      BY <2>1, <2>2, HandledIs
    <2> HIDE DEF a, b
    <2>4. HandledAll(a, i)
      BY <2>1 DEF a
    <2>5. a.replies \in Nat /\ b.replies \in Nat
      BY <2>1, <2>3 DEF a, Links, Becomes
    <2>6. phase = "Network" => b.phase \in {"Network", "Dead"}
      BY <2>3, <2>4 DEF HandledAll, Becomes
    <2>7. echo_supported => b.supported
      BY <2>3, <2>4 DEF HandledAll, Becomes
    <2>8. b.supported => echo_supported \/ \E j \in 1 .. i + 1 : down[j] = "echo_reply"
      BY <2>3, <2>4 DEF HandledAll, Becomes
    <2>9. b.replies <= Cardinality(Asking(i + 1))
      <3>1. /\ Cardinality(Asking(i)) \in Nat
            /\ Cardinality(Asking(i + 1)) =
                 Cardinality(Asking(i)) + (IF down[i + 1] \in {"ask", "term"} THEN 1 ELSE 0)
        BY OneMore
      <3>2. a.replies <= Cardinality(Asking(i))
        BY <2>4 DEF HandledAll
      <3> DEFINE x == Cardinality(Asking(i))
                 y == Cardinality(Asking(i + 1))
                 d == IF down[i + 1] \in {"ask", "term"} THEN 1 ELSE 0
      <3>3. x \in Nat /\ y = x + d /\ a.replies <= x /\ b.replies <= a.replies + d /\ d \in Nat
        BY <2>3, <3>1, <3>2 DEF Becomes
      <3> HIDE DEF x, y, d
      <3>4. b.replies <= y
        BY ONLY <2>5, <3>3
      <3> QED BY <3>4 DEF y
    <2>10. HandledAll(b, i + 1)
      BY <2>6, <2>7, <2>8, <2>9 DEF HandledAll
    <2> QED BY <2>3, <2>10 DEF b, Becomes
  <1>12. \A i \in Nat : i \in T
    <2> HIDE DEF T
    <2> QED BY <1>10, <1>11, Induction
  <1> QED BY <1>1, <1>8, <1>12

-----------------------------------------------------------------------------
(* What is to be sent, and the pump. *)

\* A part of a sequence.
LEMMA Between ==
  ASSUME NEW S, NEW s \in Seq(S), NEW a \in Nat, NEW b \in Nat, a <= b, b <= Len(s)
  PROVE  /\ SubSeq(s, a + 1, b) \in Seq(S) /\ Len(SubSeq(s, a + 1, b)) = b - a
         /\ \A i \in 1 .. b - a : SubSeq(s, a + 1, b)[i] = s[a + i]
  <1>1. a + 1 \in Int /\ b \in Int /\ Len(s) \in Nat
    BY LenProperties
  <1>2. \A i \in a + 1 .. b : s[i] \in S
    BY <1>1, ElementOfSeq
  <1> DEFINE t == SubSeq(s, a + 1, b)
  <1>3. /\ t \in Seq(S) /\ Len(t) = IF a + 1 <= b THEN b - (a + 1) + 1 ELSE 0
        /\ \A i \in 1 .. b - (a + 1) + 1 : t[i] = s[a + 1 + i - 1]
    BY <1>1, <1>2, SubSeqProperties
  <1> HIDE DEF t
  <1>4. Len(t) = b - a /\ \A i \in 1 .. b - a : i \in 1 .. b - (a + 1) + 1 /\ a + 1 + i - 1 = a + i
    BY <1>3
  <1> QED BY <1>3, <1>4 DEF t

SealOf(f) == IF f = "echo" THEN "echo" ELSE "frame"

\* The frames of the socket, of TLS and of the queue, in line.
Lined(line, s, t, q) ==
  /\ line \in Seq(OnTheWay) /\ Len(line) = Len(s) + Len(t) + Len(q)
  /\ \A i \in 1 .. Len(s) : line[i] = s[i]
  /\ \A i \in 1 .. Len(t) : line[Len(s) + i] = t[i]
  /\ \A i \in 1 .. Len(q) : line[Len(s) + Len(t) + i] = SealOf(q[i])

LEMMA LineIs ==
  ASSUME NEW s \in Seq(OnTheWay), NEW t \in Seq(OnTheWay), NEW q \in Seq(OurFrames)
  PROVE  Lined(s \o t \o Sealed(q), s, t, q)
  <1> DEFINE z == Sealed(q)
             st == s \o t
             line == st \o z
  <1>1. z \in Seq(OnTheWay) /\ Len(z) = Len(q) /\ \A i \in 1 .. Len(q) : z[i] = SealOf(q[i])
    BY DEF Sealed, SealOf, OnTheWay
  <1> HIDE DEF z
  <1>2. Len(s) \in Nat /\ Len(t) \in Nat /\ Len(q) \in Nat
    BY LenProperties
  <1>3. /\ st \in Seq(OnTheWay) /\ Len(st) = Len(s) + Len(t)
        /\ \A i \in 1 .. Len(s) + Len(t) : st[i] = IF i <= Len(s) THEN s[i] ELSE t[i - Len(s)]
    BY ConcatProperties, ZenonT(60)
  <1> HIDE DEF st
  <1>4. /\ line \in Seq(OnTheWay) /\ Len(line) = Len(st) + Len(z)
        /\ \A i \in 1 .. Len(st) + Len(z) : line[i] = IF i <= Len(st) THEN st[i] ELSE z[i - Len(st)]
    <2>1. st \in Seq(OnTheWay) /\ z \in Seq(OnTheWay)
      BY <1>1, <1>3
    <2> QED BY ONLY <2>1, ConcatProperties
  <1> HIDE DEF line
  <1>5. ASSUME NEW i \in 1 .. Len(s) PROVE line[i] = s[i]
    <2>1. i \in 1 .. Len(s) + Len(t) /\ i <= Len(s) /\ i \in 1 .. Len(st) + Len(z) /\ i <= Len(st)
      BY <1>1, <1>2, <1>3
    <2> QED BY <1>3, <1>4, <2>1
  <1>6. ASSUME NEW i \in 1 .. Len(t) PROVE line[Len(s) + i] = t[i]
    <2>1. /\ Len(s) + i \in 1 .. Len(s) + Len(t) /\ ~(Len(s) + i <= Len(s))
          /\ (Len(s) + i) - Len(s) = i
          /\ Len(s) + i \in 1 .. Len(st) + Len(z) /\ Len(s) + i <= Len(st)
      BY <1>1, <1>2, <1>3
    <2> QED BY <1>3, <1>4, <2>1
  <1>7. ASSUME NEW i \in 1 .. Len(q) PROVE line[Len(s) + Len(t) + i] = SealOf(q[i])
    <2>1. /\ Len(s) + Len(t) + i \in 1 .. Len(st) + Len(z) /\ ~(Len(s) + Len(t) + i <= Len(st))
          /\ (Len(s) + Len(t) + i) - Len(st) = i
      BY <1>1, <1>2, <1>3
    <2> QED BY <1>1, <1>4, <2>1
  <1> QED BY <1>1, <1>3, <1>4, <1>5, <1>6, <1>7 DEF Lined, line, st, z

\* What the pump leaves: the same frames in the same order, of which the socket and TLS
\* hold as many as they have room for.
Advanced(q) ==
  /\ sock' \in Seq(OnTheWay) /\ Len(sock') <= SockBuffer /\ Len(sock') >= Len(sock)
  /\ tls' \in Seq(OnTheWay) /\ Len(tls') <= TlsBuffer
  /\ buf' \in Seq(OurFrames)
  /\ Len(sock') + Len(tls') + Len(buf') = Len(sock) + Len(tls) + Len(q)
  /\ Len(sock') < SockBuffer => Len(tls') = 0 /\ Len(buf') = 0

\* What is left of the queue are its last frames.
Shifted(q) ==
  \E d \in 0 .. Len(q) : Len(buf') = Len(q) - d /\ \A i \in 1 .. Len(buf') : buf'[i] = q[i + d]

LEMMA PumpIs ==
  ASSUME TypeOK, NEW q \in Seq(OurFrames), Pumped(q)
  PROVE  Advanced(q) /\ Shifted(q) /\ ToSend(buf)' = ToSend(q)
  <1> DEFINE all == sock \o tls \o Sealed(q)
             L == Len(all)
             m == Lesser(SockBuffer, L)
             n == Lesser(TlsBuffer, L - m)
             d == m + n - Len(sock \o tls)
  <1>1. /\ sock \in Seq(OnTheWay) /\ tls \in Seq(OnTheWay)
        /\ Len(sock) <= SockBuffer /\ Len(tls) <= TlsBuffer
    BY DEF TypeOK
  <1>2. Len(sock) \in Nat /\ Len(tls) \in Nat /\ Len(q) \in Nat /\ Len(sock \o tls) = Len(sock) + Len(tls)
    BY <1>1, LenProperties, ConcatProperties
  <1>3. Lined(all, sock, tls, q)
    BY <1>1, LineIs
  <1>4. L = Len(sock) + Len(tls) + Len(q) /\ L \in Nat /\ all \in Seq(OnTheWay)
    BY <1>2, <1>3 DEF Lined
  <1>5. /\ sock' = SubSeq(all, 1, m) /\ tls' = SubSeq(all, m + 1, m + n)
        /\ buf' = SubSeq(q, m + n + 1 - Len(sock \o tls), Len(q))
    BY DEF Pumped
  <1> HIDE DEF all, L
  <1> DEFINE Ls == Len(sock)
             Lt == Len(tls)
             Lq == Len(q)
  <1>a. Ls \in Nat /\ Lt \in Nat /\ Lq \in Nat /\ L = Ls + Lt + Lq /\ Ls <= SockBuffer /\ Lt <= TlsBuffer
    BY <1>1, <1>2, <1>4
  <1>b. d = m + n - (Ls + Lt)
    BY <1>2
  <1>c. SockBuffer \in Nat /\ TlsBuffer \in Nat
    BY Sizes
  <1> HIDE DEF Ls, Lt, Lq, d
  <1>6. /\ m \in Nat /\ n \in Nat /\ m <= SockBuffer /\ n <= TlsBuffer /\ m + n <= L
        /\ m >= Ls /\ m + n >= Ls + Lt
        /\ m < SockBuffer => m = L /\ n = 0
    <2>1. m = IF SockBuffer < L THEN SockBuffer ELSE L
      BY DEF Lesser
    <2>2. n = IF TlsBuffer < L - m THEN TlsBuffer ELSE L - m
      BY DEF Lesser
    <2> HIDE DEF m, n
    <2> QED BY <1>a, <1>c, <2>1, <2>2
  <1> HIDE DEF m, n
  <1>7. d \in Nat /\ d <= Lq /\ Lq - d = L - m - n /\ d = m + n - Ls - Lt
    BY <1>a, <1>b, <1>6
  <1>8. sock' \in Seq(OnTheWay) /\ Len(sock') = m /\ \A i \in 1 .. m : sock'[i] = all[i]
    <2>1. /\ SubSeq(all, 0 + 1, m) \in Seq(OnTheWay) /\ Len(SubSeq(all, 0 + 1, m)) = m - 0
          /\ \A i \in 1 .. m - 0 : SubSeq(all, 0 + 1, m)[i] = all[0 + i]
      <3>1. 0 \in Nat /\ 0 <= m /\ m <= Len(all)
        BY <1>6 DEF L
      <3> QED BY <1>4, <1>6, <3>1, Between
    <2>2. m - 0 = m /\ 0 + 1 = 1
      BY <1>6
    <2>3. \A i \in 1 .. m : 0 + i = i
      BY <1>6
    <2> QED BY <1>5, <2>1, <2>2, <2>3
  <1>9. tls' \in Seq(OnTheWay) /\ Len(tls') = n /\ \A i \in 1 .. n : tls'[i] = all[m + i]
    <2> DEFINE k == m + n
    <2>1. k \in Nat /\ m <= k /\ k <= Len(all) /\ k - m = n
      BY <1>6 DEF L
    <2>2. tls' = SubSeq(all, m + 1, k)
      BY <1>5
    <2> HIDE DEF k
    <2>3. /\ SubSeq(all, m + 1, k) \in Seq(OnTheWay) /\ Len(SubSeq(all, m + 1, k)) = k - m
          /\ \A i \in 1 .. k - m : SubSeq(all, m + 1, k)[i] = all[m + i]
      BY <1>4, <1>6, <2>1, Between
    <2> QED BY <2>1, <2>2, <2>3
  <1>10. /\ buf' \in Seq(OurFrames) /\ Len(buf') = Lq - d
         /\ \A i \in 1 .. Lq - d : buf'[i] = q[d + i]
    <2>1. m + n + 1 - Len(sock \o tls) = d + 1
      BY <1>2, <1>6, <1>a, <1>7 DEF Ls, Lt
    <2>2. buf' = SubSeq(q, d + 1, Lq)
      BY <1>5, <2>1 DEF Lq
    <2>3. /\ SubSeq(q, d + 1, Lq) \in Seq(OurFrames) /\ Len(SubSeq(q, d + 1, Lq)) = Lq - d
          /\ \A i \in 1 .. Lq - d : SubSeq(q, d + 1, Lq)[i] = q[d + i]
      <3>1. Lq <= Len(q)
        BY <1>a DEF Lq
      <3> QED BY <1>a, <1>7, <3>1, Between, SMTT(30)
    <2> QED BY <2>2, <2>3
  <1>11. Advanced(q)
    <2>1. Len(sock') >= Ls /\ Len(sock') + Len(tls') + Len(buf') = Ls + Lt + Lq
      BY <1>a, <1>6, <1>7, <1>8, <1>9, <1>10
    <2>2. Len(sock') < SockBuffer => Len(tls') = 0 /\ Len(buf') = 0
      BY <1>a, <1>6, <1>7, <1>8, <1>9, <1>10
    <2> QED BY <1>6, <1>8, <1>9, <1>10, <2>1, <2>2 DEF Advanced, Ls, Lt, Lq
  <1>12. Shifted(q)
    <2>1. d \in 0 .. Len(q) /\ Len(buf') = Len(q) - d
      BY <1>a, <1>7, <1>10 DEF Lq
    <2>2. \A i \in 1 .. Len(buf') : buf'[i] = q[i + d]
      <3> TAKE i \in 1 .. Len(buf')
      <3>1. i \in 1 .. Lq - d /\ d + i = i + d
        BY <1>10, <1>7
      <3> QED BY <1>10, <3>1
    <2> QED BY <2>1, <2>2 DEF Shifted
  <1>13. ToSend(buf)' = ToSend(q)
    <2> DEFINE now == sock' \o tls' \o Sealed(buf')
    <2>1. Lined(now, sock', tls', buf')
      BY <1>8, <1>9, <1>10, LineIs
    <2> HIDE DEF now
    <2>2. now \in Seq(OnTheWay) /\ Len(now) = L
      BY <1>a, <1>6, <1>7, <1>8, <1>9, <1>10, <2>1 DEF Lined
    <2>3. ASSUME NEW i \in 1 .. L PROVE now[i] = all[i]
      <3>1. CASE i <= m
        <4>1. i \in 1 .. m
          BY <1>6, <3>1
        <4>2. now[i] = sock'[i]
          BY <1>8, <2>1, <4>1 DEF Lined
        <4> QED BY <1>8, <4>1, <4>2
      <3>2. CASE i > m /\ i <= m + n
        <4> DEFINE j == i - m
        <4>1. j \in 1 .. n /\ m + j = i
          BY <1>6, <3>2
        <4> HIDE DEF j
        <4>2. now[m + j] = tls'[j]
          BY <1>8, <1>9, <2>1, <4>1 DEF Lined
        <4> QED BY <1>9, <4>1, <4>2
      <3>3. CASE i > m + n
        <4> DEFINE j == i - m - n
                   k == d + j
        <4>1. /\ j \in 1 .. Lq - d /\ m + n + j = i
              /\ k \in 1 .. Lq /\ Ls + Lt + k = i
          BY <1>a, <1>4, <1>6, <1>7, <3>3
        <4>2. buf'[j] = q[k]
          BY <1>10, <4>1
        <4> HIDE DEF j, k
        <4>3. now[m + n + j] = SealOf(buf'[j])
          BY <1>8, <1>9, <1>10, <2>1, <4>1 DEF Lined
        <4>4. all[Ls + Lt + k] = SealOf(q[k])
          BY <1>3, <4>1 DEF Lined, Ls, Lt, Lq
        <4> QED BY <4>1, <4>2, <4>3, <4>4
      <3> QED BY <1>4, <1>6, <3>1, <3>2, <3>3
    <2>4. now = all
      <3>1. Len(now) = Len(all)
        BY <2>2 DEF L
      <3>2. \A i \in 1 .. Len(now) : now[i] = all[i]
        BY <2>2, <2>3
      <3> QED BY <1>4, <2>2, <3>1, <3>2, SeqEqual
    <2> QED BY <2>4 DEF ToSend, now, all
  <1> QED BY <1>11, <1>12, <1>13

\* A queue that goes on after the one there is.
Extends(q) == Len(q) >= Len(buf) /\ \A i \in 1 .. Len(buf) : q[i] = buf[i]

\* Packets queued.
LEMMA QueuedIs ==
  ASSUME TypeOK, NEW n \in Nat
  PROVE  /\ Queued(n) \in Seq(OurFrames) /\ Len(Queued(n)) = Len(buf) + n /\ Extends(Queued(n))
         /\ \A i \in 1 .. Len(buf) + n : i > Len(buf) => Queued(n)[i] = "packet"
  <1> DEFINE p == Repeat("packet", n)
             q == buf \o p
  <1>1. p \in Seq(OurFrames) /\ Len(p) = n /\ \A i \in 1 .. n : p[i] = "packet"
    BY DEF Repeat, OurFrames
  <1>2. buf \in Seq(OurFrames) /\ Len(buf) \in Nat
    BY LenProperties DEF TypeOK
  <1> HIDE DEF p
  <1>3. /\ q \in Seq(OurFrames) /\ Len(q) = Len(buf) + Len(p)
        /\ \A i \in 1 .. Len(buf) + Len(p) : q[i] = IF i <= Len(buf) THEN buf[i] ELSE p[i - Len(buf)]
    BY ONLY <1>1, <1>2, ConcatProperties
  <1> HIDE DEF q
  <1>4. ASSUME NEW i \in 1 .. Len(buf) PROVE q[i] = buf[i]
    BY <1>1, <1>2, <1>3
  <1>5. ASSUME NEW i \in 1 .. Len(buf) + n, i > Len(buf) PROVE q[i] = "packet"
    <2>1. i - Len(buf) \in 1 .. n /\ ~(i <= Len(buf))
      BY <1>2, <1>5
    <2> QED BY <1>1, <1>3, <2>1
  <1>6. Extends(q) /\ Len(q) = Len(buf) + n
    BY <1>1, <1>2, <1>3, <1>4 DEF Extends
  <1>7. q = Queued(n)
    BY DEF Queued, p, q
  <1> QED BY <1>3, <1>5, <1>6, <1>7

\* A keepalive behind them.
LEMMA EchoQueuedIs ==
  ASSUME TypeOK, NEW n \in Nat
  PROVE  /\ Append(Queued(n), "echo") \in Seq(OurFrames)
         /\ Len(Append(Queued(n), "echo")) = Len(buf) + n + 1
         /\ Extends(Append(Queued(n), "echo"))
         /\ Append(Queued(n), "echo")[Len(buf) + n + 1] = "echo"
         /\ \A i \in 1 .. Len(buf) + n + 1 :
              Append(Queued(n), "echo")[i] = "packet" => i <= Len(buf) + n
         /\ \A i \in 1 .. Len(buf) + n : Append(Queued(n), "echo")[i] = Queued(n)[i]
  <1> DEFINE q == Queued(n)
             e == Append(q, "echo")
  <1>1. q \in Seq(OurFrames) /\ Len(q) = Len(buf) + n /\ Extends(q)
    BY QueuedIs
  <1>2. Len(buf) \in Nat
    BY LenProperties DEF TypeOK
  <1> HIDE DEF q
  <1>3. /\ e \in Seq(OurFrames) /\ Len(e) = Len(q) + 1 /\ e[Len(q) + 1] = "echo"
        /\ \A i \in 1 .. Len(q) : e[i] = q[i]
    <2>1. "echo" \in OurFrames
      BY DEF OurFrames
    <2> QED BY ONLY <1>1, <2>1, AppendProperties
  <1> HIDE DEF e
  <1>4. Extends(e)
    BY <1>1, <1>2, <1>3 DEF Extends
  <1>5. \A i \in 1 .. Len(buf) + n + 1 : e[i] = "packet" => i <= Len(buf) + n
    <2> SUFFICES ASSUME NEW i \in 1 .. Len(buf) + n + 1, ~(i <= Len(buf) + n) PROVE e[i] # "packet"
      OBVIOUS
    <2>1. i = Len(q) + 1
      BY <1>1, <1>2
    <2> QED BY <1>3, <2>1
  <1>6. \A i \in 1 .. Len(buf) + n : e[i] = q[i]
    BY <1>1, <1>3
  <1> QED BY <1>1, <1>3, <1>4, <1>5, <1>6 DEF e, q

\* What is within the first frames is one of them.
LEMMA WithinIs ==
  ASSUME NEW s, NEW n \in Int, EchoWithin(s, n), s \in Seq(OnTheWay)
  PROVE  n >= 1 /\ Len(s) >= 1 /\ \A m \in Int : m >= n => EchoWithin(s, m)
  <1>1. PICK i \in 1 .. Len(s) : s[i] = "echo" /\ i <= n
    BY LenProperties DEF EchoWithin
  <1>2. Len(s) \in Nat /\ DOMAIN s = 1 .. Len(s)
    BY LenProperties
  <1>3. ASSUME NEW m \in Int, m >= n PROVE EchoWithin(s, m)
    <2>1. i <= m
      BY <1>1, <1>2, <1>3
    <2> QED BY <1>1, <1>2, <2>1 DEF EchoWithin
  <1> QED BY <1>1, <1>2, <1>3

\* The line of what there is to send.
LEMMA ToSendIs ==
  ASSUME TypeOK, NEW q \in Seq(OurFrames)
  PROVE  Lined(ToSend(q), sock, tls, q)
  BY LineIs DEF TypeOK, ToSend

\* An echo keeps its place when more is queued.
LEMMA StillWithin ==
  ASSUME TypeOK, NEW q \in Seq(OurFrames), Extends(q), NEW n \in Int,
         EchoWithin(ToSend(buf), n)
  PROVE  EchoWithin(ToSend(q), n)
  <1> DEFINE a == ToSend(buf)
             b == ToSend(q)
  <1>1. Lined(a, sock, tls, buf) /\ Lined(b, sock, tls, q)
    BY ToSendIs DEF TypeOK
  <1>2. EchoWithin(a, n)
    OBVIOUS
  <1> HIDE DEF a, b
  <1>3. Len(sock) \in Nat /\ Len(tls) \in Nat /\ Len(buf) \in Nat /\ Len(q) \in Nat
    BY LenProperties DEF TypeOK
  <1>4. /\ DOMAIN a = 1 .. Len(sock) + Len(tls) + Len(buf)
        /\ DOMAIN b = 1 .. Len(sock) + Len(tls) + Len(q)
    <2>1. a \in Seq(OnTheWay) /\ b \in Seq(OnTheWay)
      BY <1>1 DEF Lined
    <2>2. DOMAIN a = 1 .. Len(a) /\ DOMAIN b = 1 .. Len(b)
      BY <2>1, LenProperties
    <2> QED BY <1>1, <2>2 DEF Lined
  <1>5. PICK i \in DOMAIN a : a[i] = "echo" /\ i <= n
    BY <1>2 DEF EchoWithin
  <1>6. i \in DOMAIN b
    BY <1>3, <1>4 DEF Extends
  <1>7. b[i] = a[i]
    <2>1. CASE i <= Len(sock)
      <3>1. i \in 1 .. Len(sock)
        BY <1>3, <1>4, <2>1
      <3> QED BY <1>1, <3>1 DEF Lined
    <2>2. CASE i > Len(sock) /\ i <= Len(sock) + Len(tls)
      <3> DEFINE j == i - Len(sock)
      <3>1. j \in 1 .. Len(tls) /\ Len(sock) + j = i
        BY <1>3, <1>4, <2>2
      <3> HIDE DEF j
      <3>2. a[Len(sock) + j] = tls[j] /\ b[Len(sock) + j] = tls[j]
        BY <1>1, <3>1 DEF Lined
      <3> QED BY <3>1, <3>2
    <2>3. CASE i > Len(sock) + Len(tls)
      <3> DEFINE j == i - Len(sock) - Len(tls)
      <3>1. j \in 1 .. Len(buf) /\ j \in 1 .. Len(q) /\ Len(sock) + Len(tls) + j = i
        BY <1>3, <1>4, <2>3 DEF Extends
      <3> HIDE DEF j
      <3>2. /\ a[Len(sock) + Len(tls) + j] = SealOf(buf[j])
            /\ b[Len(sock) + Len(tls) + j] = SealOf(q[j])
        BY <1>1, <3>1 DEF Lined
      <3> QED BY <3>1, <3>2 DEF Extends
    <2> QED BY <1>3, <1>4, <2>1, <2>2, <2>3
  <1>8. EchoWithin(b, n)
    BY <1>5, <1>6, <1>7 DEF EchoWithin
  <1> QED BY <1>8 DEF b

\* A keepalive is sent only where little is ahead of it.
LEMMA NewEcho ==
  ASSUME TypeOK, NEW n \in Nat, Len(Queued(n)) < EchoMaxBacklog
  PROVE  EchoWithin(ToSend(Append(Queued(n), "echo")), EchoMaxBacklog + TlsBuffer + SockBuffer)
  <1> DEFINE q == Append(Queued(n), "echo")
             j == Len(buf) + n + 1
             line == ToSend(q)
             i == Len(sock) + Len(tls) + j
  <1>1. q \in Seq(OurFrames) /\ Len(q) = j /\ q[j] = "echo" /\ Len(Queued(n)) = Len(buf) + n
    BY EchoQueuedIs, QueuedIs
  <1> HIDE DEF q
  <1>2. Lined(line, sock, tls, q)
    BY <1>1, ToSendIs
  <1> HIDE DEF line
  <1>3. /\ Len(sock) \in Nat /\ Len(tls) \in Nat /\ Len(buf) \in Nat
        /\ Len(sock) <= SockBuffer /\ Len(tls) <= TlsBuffer
    BY LenProperties DEF TypeOK
  <1>4. /\ j \in 1 .. Len(q) /\ i \in 1 .. Len(sock) + Len(tls) + Len(q)
        /\ i <= EchoMaxBacklog + TlsBuffer + SockBuffer
    BY <1>1, <1>3, Sizes
  <1>5. line[i] = "echo"
    <2>1. line[i] = SealOf(q[j])
      <3> HIDE DEF j
      <3> QED BY <1>2, <1>4 DEF Lined
    <2> QED BY <1>1, <2>1 DEF SealOf
  <1>6. i \in DOMAIN line
    <2> HIDE DEF i
    <2>1. line \in Seq(OnTheWay) /\ Len(line) = Len(sock) + Len(tls) + Len(q)
      BY <1>2 DEF Lined
    <2>2. DOMAIN line = 1 .. Len(line)
      BY <2>1, LenProperties
    <2> QED BY <1>4, <2>1, <2>2
  <1> HIDE DEF i
  <1>7. EchoWithin(line, EchoMaxBacklog + TlsBuffer + SockBuffer)
    BY <1>4, <1>5, <1>6 DEF EchoWithin
  <1> QED BY <1>7 DEF line, q

\* A frame the gateway takes brings the echo one closer to it.
LEMMA OneCloser ==
  ASSUME TypeOK, sock # <<>>, sock' = Tail(sock), UNCHANGED <<tls, buf>>,
         NEW n \in Int, EchoWithin(ToSend(buf), n), Head(sock) # "echo"
  PROVE  EchoWithin(ToSend(buf)', n - 1)
  <1> DEFINE a == ToSend(buf)
             b == sock' \o tls \o Sealed(buf)
  <1>1. /\ sock \in Seq(OnTheWay) /\ tls \in Seq(OnTheWay) /\ buf \in Seq(OurFrames)
    BY DEF TypeOK
  <1>2. /\ sock' \in Seq(OnTheWay) /\ Len(sock') = Len(sock) - 1 /\ Len(sock) \in Nat
        /\ \A i \in 1 .. Len(sock') : sock'[i] = sock[i + 1]
    BY <1>1, HeadTailProperties, LenProperties
  <1>3. Lined(a, sock, tls, buf) /\ Lined(b, sock', tls, buf)
    BY <1>1, <1>2, ToSendIs, LineIs
  <1>4. EchoWithin(a, n)
    OBVIOUS
  <1> HIDE DEF a, b
  <1>5. Len(tls) \in Nat /\ Len(buf) \in Nat
    BY <1>1, LenProperties
  <1>6. /\ DOMAIN a = 1 .. Len(sock) + Len(tls) + Len(buf)
        /\ DOMAIN b = 1 .. Len(sock') + Len(tls) + Len(buf)
    <2>1. a \in Seq(OnTheWay) /\ b \in Seq(OnTheWay)
      BY <1>3 DEF Lined
    <2>2. DOMAIN a = 1 .. Len(a) /\ DOMAIN b = 1 .. Len(b)
      BY <2>1, LenProperties
    <2> QED BY <1>3, <2>2 DEF Lined
  <1>7. PICK i \in DOMAIN a : a[i] = "echo" /\ i <= n
    BY <1>4 DEF EchoWithin
  <1>8. i # 1
    <2>1. Len(sock) >= 1 /\ 1 \in 1 .. Len(sock)
      BY <1>1, <1>2, EmptySeq
    <2>2. a[1] = sock[1] /\ sock[1] = Head(sock)
      BY <1>1, <1>3, <2>1 DEF Lined
    <2> QED BY <1>7, <2>2
  <1> DEFINE k == i - 1
  <1>9. i \in Nat /\ k \in DOMAIN b /\ k <= n - 1 /\ k + 1 = i
    BY <1>2, <1>5, <1>6, <1>7, <1>8
  <1>10. b[k] = a[i]
    <2>1. CASE i <= Len(sock)
      <3>1. k \in 1 .. Len(sock') /\ i \in 1 .. Len(sock)
        BY <1>2, <1>5, <1>6, <1>8, <2>1
      <3> HIDE DEF k
      <3>2. b[k] = sock'[k] /\ a[i] = sock[i] /\ sock'[k] = sock[k + 1]
        BY <1>2, <1>3, <3>1 DEF Lined
      <3> QED BY <1>9, <3>2
    <2>2. CASE i > Len(sock) /\ i <= Len(sock) + Len(tls)
      <3> DEFINE j == i - Len(sock)
      <3>1. j \in 1 .. Len(tls) /\ Len(sock) + j = i /\ Len(sock') + j = k
        BY <1>2, <1>5, <1>6, <2>2, SMTT(30)
      <3> HIDE DEF j, k
      <3>2. a[Len(sock) + j] = tls[j] /\ b[Len(sock') + j] = tls[j]
        BY <1>3, <3>1 DEF Lined
      <3> QED BY <3>1, <3>2
    <2>3. CASE i > Len(sock) + Len(tls)
      <3> DEFINE j == i - Len(sock) - Len(tls)
      <3>a. i \in 1 .. Len(sock) + Len(tls) + Len(buf)
        BY <1>6
      <3>b. j \in 1 .. Len(buf) /\ Len(sock) + Len(tls) + j = i
        BY <1>2, <1>5, <2>3, <3>a
      <3>c. Len(sock') + Len(tls) + j = k
        <4> HIDE DEF j
        <4>1. j \in Nat
          BY <3>b
        <4> QED BY <1>2, <1>5, <3>b, <4>1
      <3>1. /\ j \in 1 .. Len(buf) /\ Len(sock) + Len(tls) + j = i
            /\ Len(sock') + Len(tls) + j = k
        BY <3>b, <3>c
      <3> HIDE DEF j, k
      <3>2. /\ a[Len(sock) + Len(tls) + j] = SealOf(buf[j])
            /\ b[Len(sock') + Len(tls) + j] = SealOf(buf[j])
        BY <1>3, <3>1 DEF Lined
      <3> QED BY <3>1, <3>2
    <2> QED BY <1>2, <1>5, <1>6, <2>1, <2>2, <2>3
  <1> HIDE DEF k
  <1>11. EchoWithin(b, n - 1)
    BY <1>7, <1>9, <1>10 DEF EchoWithin
  <1>12. ToSend(buf)' = b
    BY DEF ToSend, b
  <1> QED BY <1>11, <1>12

-----------------------------------------------------------------------------
(* The steps that pump. *)

\* The types of the queues.
QueuesOK ==
  /\ buf \in Seq(OurFrames)
  /\ tls \in Seq(OnTheWay) /\ Len(tls) <= TlsBuffer
  /\ sock \in Seq(OnTheWay) /\ Len(sock) <= SockBuffer

Fits(q) == \A i \in 1 .. Len(q) : q[i] = "packet" => i <= MaxQueued

\* The pump moves no packet to where none may be, and keeps the look at the clock.
LEMMA DrainKeeps ==
  ASSUME TypeOK, ProgressInv, pc = "out", NEW q \in Seq(OurFrames), Extends(q), Fits(q), Drains(q)
  PROVE  /\ QueuesOK' /\ PacketsFit' /\ ProgressInv'
         /\ last_progress' \in 0 .. WriteStallTimeout /\ last_progress' <= last_progress
         /\ ToSend(buf)' = ToSend(q)
         /\ Len(q) > 0 /\ ~(Len(sock') > Len(sock)) => last_progress' = last_progress
  <1>1. Advanced(q) /\ Shifted(q) /\ ToSend(buf)' = ToSend(q)
    BY PumpIs DEF Drains
  <1>2. QueuesOK'
    BY <1>1 DEF Advanced, QueuesOK
  <1>3. PacketsFit'
    <2>1. PICK d \in 0 .. Len(q) :
            Len(buf') = Len(q) - d /\ \A i \in 1 .. Len(buf') : buf'[i] = q[i + d]
      BY <1>1 DEF Shifted
    <2>2. Len(q) \in Nat /\ DOMAIN buf' = 1 .. Len(buf')
      BY <1>1, LenProperties DEF Advanced
    <2> SUFFICES ASSUME NEW i \in 1 .. Len(buf'), buf'[i] = "packet" PROVE i <= MaxQueued
      BY <2>2 DEF PacketsFit
    <2>3. i + d \in 1 .. Len(q) /\ q[i + d] = "packet"
      BY <2>1, <2>2
    <2>4. i + d <= MaxQueued /\ i <= i + d /\ MaxQueued \in Nat
      BY <2>1, <2>2, <2>3, Sizes DEF Fits
    <2> QED BY <2>2, <2>3, <2>4
  <1> DEFINE S == Len(sock)
             T == Len(sock')
             R == Len(tls') + Len(buf')
  <1>4. /\ S \in Nat /\ T \in Nat /\ Len(tls') \in Nat /\ Len(buf') \in Nat /\ Len(q) \in Nat
        /\ Len(tls) \in Nat /\ SockBuffer \in Nat /\ SockBuffer >= 1
        /\ S <= SockBuffer /\ T <= SockBuffer /\ T >= S
        /\ T + R = S + Len(tls) + Len(q)
        /\ T < SockBuffer => R = 0
    <2>1. /\ sock \in Seq(OnTheWay) /\ tls \in Seq(OnTheWay) /\ sock' \in Seq(OnTheWay)
          /\ tls' \in Seq(OnTheWay) /\ buf' \in Seq(OurFrames)
      BY <1>1 DEF TypeOK, Advanced
    <2>2. /\ S \in Nat /\ T \in Nat /\ Len(tls') \in Nat /\ Len(buf') \in Nat /\ Len(q) \in Nat
          /\ Len(tls) \in Nat
      BY <2>1, LenProperties
    <2> QED BY <1>1, <2>2, Sizes DEF TypeOK, Advanced
  <1>5. /\ tls' \o buf' = <<>> <=> R = 0
        /\ sock = <<>> <=> S = 0
        /\ sock' = <<>> <=> T = 0
    <2>1. /\ tls' \in Seq(OnTheWay \cup OurFrames) /\ buf' \in Seq(OnTheWay \cup OurFrames)
          /\ sock \in Seq(OnTheWay) /\ sock' \in Seq(OnTheWay)
      <3>1. /\ tls' \in Seq(OnTheWay) /\ buf' \in Seq(OurFrames)
            /\ sock \in Seq(OnTheWay) /\ sock' \in Seq(OnTheWay)
        BY <1>1 DEF TypeOK, Advanced
      <3>2. OnTheWay \subseteq OnTheWay \cup OurFrames /\ OurFrames \subseteq OnTheWay \cup OurFrames
        OBVIOUS
      <3> QED BY <3>1, <3>2, SeqMonotonic, Zenon
    <2>2. tls' \o buf' = <<>> <=> tls' = <<>> /\ buf' = <<>>
      BY <2>1, ConcatEqualIffEmpty
    <2>3. /\ tls' = <<>> <=> Len(tls') = 0
          /\ buf' = <<>> <=> Len(buf') = 0
          /\ sock = <<>> <=> S = 0
          /\ sock' = <<>> <=> T = 0
      BY <2>1, EmptySeq
    <2>4. R = 0 <=> Len(tls') = 0 /\ Len(buf') = 0
      BY <1>4
    <2> QED BY <2>2, <2>3, <2>4
  <1>6. Progress <=> T > S \/ R = 0
    BY <1>5 DEF Progress
  <1>7. /\ last_progress' = IF Progress THEN 0 ELSE last_progress
        /\ last_progress' <= WriteStallTimeout
        /\ pc' = "wait" /\ down' = down /\ gateway' = gateway /\ reads' = reads
    BY DEF Drains, GoesOn
  <1>8. last_progress \in Nat /\ WriteStallTimeout \in Nat
    BY Sizes DEF TypeOK
  <1> HIDE DEF S, T, R
  <1>9. ProgressInv'
    <2> SUFFICES ASSUME gateway = "alive" PROVE ProgressInv'
      BY <1>7 DEF ProgressInv
    <2>1. sock' = <<>> => tls' \o buf' = <<>>
      BY <1>4, <1>5
    <2>2. sock # <<>> /\ ~reads => Len(down) < DownBuffer \/ last_progress = 0
      BY DEF ProgressInv
    <2>3. sock = <<>> /\ sock' # <<>> => last_progress' = 0
      BY <1>4, <1>5, <1>6, <1>7
    <2>4. last_progress = 0 => last_progress' = 0
      BY <1>7
    <2>5. last_progress = 0 \/ S < SockBuffer \/ (last_progress = 1 /\ ~reads)
      BY DEF ProgressInv, S
    <2>6. S < SockBuffer => last_progress' = 0
      BY <1>4, <1>6, <1>7
    <2>7. last_progress' = 0 \/ (last_progress' = 1 /\ ~reads)
      BY <1>7, <2>4, <2>5, <2>6
    <2> QED BY <1>7, <2>1, <2>2, <2>3, <2>4, <2>7 DEF ProgressInv
  <1>10. last_progress' \in 0 .. WriteStallTimeout /\ last_progress' <= last_progress
    BY <1>7, <1>8
  <1>11. Len(q) > 0 /\ ~(T > S) => last_progress' = last_progress
    BY <1>4, <1>6, <1>7
  <1> QED BY <1>1, <1>2, <1>3, <1>9, <1>10, <1>11 DEF S, T

\* The packets that are read from the device fit.
LEMMA PacketsAreFew ==
  ASSUME TypeOK, PacketsFit, NEW n \in 0 .. TunBatch, HasPackets(n)
  PROVE  n \in Nat /\ Fits(Queued(n))
  <1>1. n \in Nat /\ MaxQueued \in Nat
    BY Sizes
  <1>2. Len(buf) \in Nat /\ DOMAIN buf = 1 .. Len(buf)
    BY LenProperties DEF TypeOK
  <1>3. n > 0 => Len(buf) + n <= MaxQueued
    BY <1>1, <1>2, Sizes DEF HasPackets, RoomForPackets, Lesser
  <1>4. /\ Len(Queued(n)) = Len(buf) + n
        /\ \A i \in 1 .. Len(buf) : Queued(n)[i] = buf[i]
    BY <1>1, QueuedIs DEF Extends
  <1>5. ASSUME NEW i \in 1 .. Len(Queued(n)), Queued(n)[i] = "packet" PROVE i <= MaxQueued
    <2>1. CASE i <= Len(buf)
      <3>1. i \in DOMAIN buf /\ buf[i] = "packet"
        BY <1>2, <1>4, <1>5, <2>1
      <3> QED BY <3>1 DEF PacketsFit
    <2>2. CASE i > Len(buf)
      BY <1>1, <1>2, <1>3, <1>4, <2>2
    <2> QED BY <1>2, <2>1, <2>2
  <1> QED BY <1>1, <1>5 DEF Fits

\* Counting keepalives.
LEMMA Times ==
  ASSUME NEW k \in Nat, NEW c \in Nat
  PROVE  k * c \in Nat /\ (k + 1) * c = k * c + c
  OBVIOUS

\* The same number of keepalives is out; nothing but the queues has changed.
LEMMA ForwardingKeeps ==
  ASSUME IInv, pc = "out", NEW q \in Seq(OurFrames), Extends(q), Fits(q), Drains(q),
         UNCHANGED <<linkVars, last_echo>>,
         unnoticed' \in {unnoticed, 0},
         \/ phase # "Network"
         \/ last_echo < EchoInterval
         \/ Len(q) > 0 /\ (Len(sock') > Len(sock) => unnoticed' = 0)
  PROVE  IInv'
  <1>0. /\ TypeOK /\ PacketsFit /\ SupportIsTrue /\ KeepaliveInv /\ ProgressInv /\ SilenceInv
        /\ HealthyGatewayKept
    BY DEF IInv
  <1>1. /\ QueuesOK' /\ PacketsFit' /\ ProgressInv'
        /\ last_progress' \in 0 .. WriteStallTimeout /\ last_progress' <= last_progress
        /\ ToSend(buf)' = ToSend(q)
        /\ Len(q) > 0 /\ ~(Len(sock') > Len(sock)) => last_progress' = last_progress
    BY <1>0, DrainKeeps
  <1>2. /\ pc' = "wait" /\ why' = why /\ started' = started /\ down' = down /\ gateway' = gateway
        /\ answers_echo' = answers_echo /\ reads' = reads /\ last_echo' = last_echo
        /\ phase' = phase /\ echo_outstanding' = echo_outstanding
        /\ echo_supported' = echo_supported
    BY DEF Drains, GoesOn, linkVars
  <1>3. TypeOK'
    <2>1. last_progress' \in 0 .. WriteStallTimeout + 1 /\ unnoticed' \in Nat
      BY <1>0, <1>1, Sizes DEF TypeOK
    <2> QED BY <1>0, <1>1, <1>2, <2>1 DEF TypeOK, QueuesOK
  <1>4. SupportIsTrue'
    BY <1>0, <1>2 DEF SupportIsTrue
  <1>5. KeepaliveInv'
    <2>1. Ahead' = Ahead
      BY <1>2 DEF Ahead
    <2>2. Ahead \in Int
      BY <1>0, Sizes, Times DEF Ahead, TypeOK
    <2>3. EchoWithin(ToSend(buf), Ahead) => EchoWithin(ToSend(q), Ahead)
      BY <1>0, <2>2, StillWithin
    <2> QED BY <1>0, <1>1, <1>2, <2>1, <2>3 DEF KeepaliveInv
  <1>6. SilenceInv'
    <2>1. unnoticed' > 0 => gateway' = "silent" /\ down' = <<>> /\ Probed'
      BY <1>0, <1>2 DEF SilenceInv, Probed, TypeOK
    <2>2. phase' # "Network" => unnoticed' <= started' /\ started' <= NegotiationTimeout
      BY <1>0, <1>2 DEF SilenceInv, TypeOK
    <2>3. phase' = "Network" => unnoticed' <= Waited'
      <3> SUFFICES ASSUME phase = "Network" PROVE unnoticed' <= Waited'
        BY <1>2
      <3> DEFINE m == echo_outstanding * (EchoInterval + WriteStallTimeout + 1)
                 d == IF last_echo = EchoInterval THEN last_progress ELSE 0
                 e == IF last_echo = EchoInterval THEN last_progress' ELSE 0
      <3>1. m \in Nat /\ last_echo \in Nat /\ EchoInterval \in Nat
        <4>1. EchoInterval + WriteStallTimeout + 1 \in Nat /\ echo_outstanding \in Nat
          BY <1>0, Sizes DEF TypeOK
        <4> QED BY <1>0, <4>1, Sizes, Times DEF TypeOK
      <3>2. Waited = m + last_echo + d /\ Waited' = m + last_echo + e
        BY <1>2 DEF Waited
      <3> HIDE DEF m
      <3>3. unnoticed <= Waited /\ d \in Nat /\ e \in Nat
        BY <1>0, <1>1 DEF SilenceInv, TypeOK
      <3>4. CASE unnoticed' = 0
        <4> HIDE DEF d, e
        <4> QED BY <3>1, <3>2, <3>3, <3>4
      <3>5. CASE unnoticed' # 0
        <4>1. unnoticed' = unnoticed
          BY <3>5
        <4>2. last_echo < EchoInterval \/ last_progress' = last_progress
          BY <1>1, <3>5
        <4>3. e = d
          BY <3>1, <4>2
        <4> HIDE DEF d, e
        <4> QED BY <3>2, <3>3, <4>1, <4>3
      <3> QED BY <3>4, <3>5
    <2> QED BY <1>1, <1>2, <2>1, <2>2, <2>3 DEF SilenceInv
  <1>7. HealthyGatewayKept'
    BY <1>0, <1>2 DEF HealthyGatewayKept
  <1> QED BY <1>1, <1>3, <1>4, <1>5, <1>6, <1>7 DEF IInv

\* No traffic, or packets and no keepalive.
LEMMA TrafficKeeps == ASSUME IInv, NoTraffic \/ ForwardsTraffic PROVE IInv'
  <1>0. TypeOK /\ PacketsFit
    BY DEF IInv
  <1>1. CASE NoTraffic
    <2>1. buf \in Seq(OurFrames) /\ Extends(buf) /\ Fits(buf)
      <3>1. buf \in Seq(OurFrames) /\ DOMAIN buf = 1 .. Len(buf) /\ Len(buf) \in Nat
        BY <1>0, LenProperties DEF TypeOK
      <3> QED BY <1>0, <3>1 DEF Extends, Fits, PacketsFit
    <2>2. pc = "out" /\ phase # "Network" /\ Drains(buf) /\ UNCHANGED <<linkVars, last_echo>>
          /\ unnoticed' = unnoticed
      BY <1>1 DEF NoTraffic
    <2> QED BY <2>1, <2>2, ForwardingKeeps
  <1>2. CASE ForwardsTraffic
    <2>1. PICK n \in 0 .. TunBatch :
            /\ HasPackets(n) /\ ~EchoDue(Queued(n))
            /\ Drains(Queued(n))
            /\ unnoticed' = IF HeldBack(Queued(n)) /\ Len(sock') > Len(sock) THEN 0 ELSE unnoticed
      BY <1>2 DEF ForwardsTraffic
    <2> DEFINE q == Queued(n)
    <2>2. n \in Nat /\ Fits(q)
      BY <1>0, <2>1, PacketsAreFew
    <2>3. q \in Seq(OurFrames) /\ Extends(q)
      BY <1>0, <2>2, QueuedIs
    <2>4. pc = "out" /\ UNCHANGED <<linkVars, last_echo>> /\ Drains(q)
      BY <1>2, <2>1 DEF ForwardsTraffic, HasPackets
    <2>5. unnoticed' \in {unnoticed, 0}
      BY <2>1
    <2>6. last_echo < EchoInterval \/ (Len(q) > 0 /\ (Len(sock') > Len(sock) => unnoticed' = 0))
      <3> SUFFICES ASSUME ~(last_echo < EchoInterval)
                   PROVE  Len(q) > 0 /\ (Len(sock') > Len(sock) => unnoticed' = 0)
        OBVIOUS
      <3>1. last_echo >= EchoInterval
        BY <1>0, Sizes DEF TypeOK
      <3>2. Len(q) >= EchoMaxBacklog
        <4>1. ~(Len(q) < EchoMaxBacklog)
          BY <2>1, <3>1 DEF EchoDue
        <4>2. Len(q) \in Nat
          BY <2>3, LenProperties
        <4> QED BY <4>1, <4>2, Sizes
      <3>3. HeldBack(q)
        BY <3>1, <3>2 DEF HeldBack
      <3>4. Len(q) > 0
        <4>1. Len(q) \in Nat
          BY <2>3, LenProperties
        <4> QED BY <3>2, <4>1, Sizes
      <3> QED BY <2>1, <3>3, <3>4
    <2> HIDE DEF q
    <2> QED BY <2>2, <2>3, <2>4, <2>5, <2>6, ForwardingKeeps
  <1> QED BY <1>1, <1>2

\* A keepalive that is sent, or skipped.
LEMMA KeepsAliveKeeps == ASSUME IInv, KeepsAlive PROVE IInv'
  <1>0. /\ TypeOK /\ PacketsFit /\ SupportIsTrue /\ KeepaliveInv /\ ProgressInv /\ SilenceInv
        /\ HealthyGatewayKept
    BY DEF IInv
  <1>1. PICK n \in 0 .. TunBatch :
          /\ HasPackets(n) /\ EchoDue(Queued(n))
          /\ \/ /\ echo_outstanding < MaxEchoOutstanding
                /\ echo_outstanding' = echo_outstanding + 1
                /\ Drains(Append(Queued(n), "echo"))
             \/ /\ echo_outstanding = MaxEchoOutstanding /\ ~echo_supported
                /\ UNCHANGED echo_outstanding
                /\ Drains(Queued(n))
    BY DEF KeepsAlive
  <1>2. last_echo' = 0 /\ UNCHANGED <<phase, echo_supported, unnoticed>>
    BY DEF KeepsAlive
  <1> DEFINE sent == echo_outstanding < MaxEchoOutstanding
             q == IF sent THEN Append(Queued(n), "echo") ELSE Queued(n)
  <1>3. /\ Drains(q) /\ pc = "out" /\ phase = "Network"
        /\ sent => echo_outstanding' = echo_outstanding + 1
        /\ ~sent => echo_outstanding' = echo_outstanding /\ ~echo_supported
    <2>1. pc = "out" /\ phase = "Network"
      BY <1>1 DEF HasPackets
    <2>2. CASE sent
      <3>1. echo_outstanding # MaxEchoOutstanding
        BY <1>0, <2>2, Sizes DEF TypeOK
      <3> QED BY <1>1, <2>1, <2>2, <3>1
    <2>3. CASE ~sent
      BY <1>1, <2>1, <2>3
    <2> QED BY <2>2, <2>3
  <1>4. n \in Nat /\ Fits(Queued(n))
    BY <1>0, <1>1, PacketsAreFew
  <1>5. last_echo = EchoInterval /\ Len(Queued(n)) < EchoMaxBacklog
    BY <1>0, <1>1, Sizes DEF EchoDue, TypeOK
  <1>6. q \in Seq(OurFrames) /\ Extends(q)
    BY <1>0, <1>4, QueuedIs, EchoQueuedIs
  <1>7. Fits(q)
    <2>1. CASE ~sent
      BY <1>4, <2>1
    <2>2. CASE sent
      <3> DEFINE e == Append(Queued(n), "echo")
      <3>1. /\ Len(e) = Len(buf) + n + 1 /\ Len(Queued(n)) = Len(buf) + n
            /\ \A i \in 1 .. Len(buf) + n + 1 : e[i] = "packet" => i <= Len(buf) + n
            /\ \A i \in 1 .. Len(buf) + n : e[i] = Queued(n)[i]
        BY <1>0, <1>4, EchoQueuedIs, QueuedIs
      <3> HIDE DEF e
      <3>2. Len(buf) \in Nat
        BY <1>0, LenProperties DEF TypeOK
      <3>3. ASSUME NEW i \in 1 .. Len(e), e[i] = "packet" PROVE i <= MaxQueued
        <4>1. i \in 1 .. Len(buf) + n
          BY <1>4, <3>1, <3>2, <3>3
        <4> QED BY <1>4, <3>1, <3>3, <4>1 DEF Fits
      <3>4. Fits(e)
        BY <3>3 DEF Fits
      <3> QED BY <2>2, <3>4 DEF e
    <2> QED BY <2>1, <2>2
  <1> HIDE DEF q
  <1>8. /\ QueuesOK' /\ PacketsFit' /\ ProgressInv'
        /\ last_progress' \in 0 .. WriteStallTimeout
        /\ ToSend(buf)' = ToSend(q)
    BY <1>0, <1>3, <1>6, <1>7, DrainKeeps
  <1>9. /\ pc' = "wait" /\ why' = why /\ started' = started /\ down' = down /\ gateway' = gateway
        /\ answers_echo' = answers_echo /\ reads' = reads
    BY <1>3 DEF Drains, GoesOn
  <1>10. /\ echo_outstanding \in Nat /\ echo_outstanding <= MaxEchoOutstanding
         /\ EchoInterval \in Nat /\ MaxEchoOutstanding \in Nat
         /\ EchoInterval + WriteStallTimeout + 1 \in Nat /\ WriteStallTimeout \in Nat
    BY <1>0, Sizes DEF TypeOK
  <1>11. TypeOK'
    <2>1. /\ last_progress' \in 0 .. WriteStallTimeout + 1 /\ last_echo' \in 0 .. EchoInterval
          /\ echo_outstanding' \in 0 .. MaxEchoOutstanding
      BY <1>2, <1>3, <1>8, <1>10
    <2> QED BY <1>0, <1>2, <1>8, <1>9, <2>1 DEF TypeOK, QueuesOK
  <1>12. SupportIsTrue'
    BY <1>0, <1>2, <1>9 DEF SupportIsTrue
  <1>13. KeepaliveInv'
    <2> SUFFICES ASSUME gateway = "alive", echo_supported, down = <<>>
                 PROVE  EchoWithin(ToSend(q), Ahead')
      <3>1. /\ pc' = "wait" /\ gateway' = gateway /\ echo_supported' = echo_supported
            /\ down' = down /\ ToSend(buf)' = ToSend(q)
        BY <1>2, <1>8, <1>9
      <3> QED BY <3>1 DEF KeepaliveInv
    <2>1. sent /\ echo_outstanding' = echo_outstanding + 1
      BY <1>3
    <2> DEFINE m == echo_outstanding * EchoInterval
               r == IF reads THEN 1 ELSE 0
               Q == EchoMaxBacklog + TlsBuffer + SockBuffer
    <2>2. m \in Nat /\ (echo_outstanding + 1) * EchoInterval = m + EchoInterval
      BY <1>10, Times
    <2>3. Ahead = Q + 1 + EchoInterval - (m + EchoInterval + r)
      BY <1>5 DEF Ahead
    <2>4. Ahead' = Q + 1 + EchoInterval - (m + EchoInterval + 0 + r)
      BY <1>2, <1>9, <2>1, <2>2 DEF Ahead
    <2>5. Q \in Nat /\ r \in {0, 1}
      BY Sizes
    <2>a. echo_outstanding = 0 => m = 0
      BY <1>10
    <2> HIDE DEF m, r
    <2>6. CASE echo_outstanding = 0
      <3>1. q = Append(Queued(n), "echo")
        BY <2>1 DEF q
      <3>2. EchoWithin(ToSend(q), Q)
        BY <1>0, <1>4, <1>5, <3>1, NewEcho
      <3> HIDE DEF Q
      <3>3. Ahead' \in Int /\ Ahead' >= Q
        BY <1>10, <2>2, <2>4, <2>5, <2>6, <2>a
      <3>4. ToSend(q) \in Seq(OnTheWay)
        BY <1>0, <1>6, ToSendIs DEF Lined
      <3>5. Q \in Int
        BY <2>5
      <3> QED BY <3>2, <3>3, <3>4, <3>5, WithinIs
    <2>7. CASE echo_outstanding # 0
      <3>1. EchoWithin(ToSend(buf), Ahead)
        BY <1>0, <1>10, <2>7 DEF KeepaliveInv
      <3> HIDE DEF Q
      <3>2. Ahead \in Int /\ Ahead' = Ahead
        BY <1>10, <2>2, <2>3, <2>4, <2>5
      <3> QED BY <1>0, <1>6, <3>1, <3>2, StillWithin
    <2> QED BY <2>6, <2>7
  <1>14. SilenceInv'
    <2>1. unnoticed' > 0 => gateway' = "silent" /\ down' = <<>> /\ Probed'
      BY <1>0, <1>2, <1>9 DEF SilenceInv, Probed
    <2>2. unnoticed' <= Waited'
      <3> DEFINE C == EchoInterval + WriteStallTimeout + 1
                 m == echo_outstanding * C
      <3>1. m \in Nat /\ (echo_outstanding + 1) * C = m + C /\ C \in Nat
        BY <1>10, Times
      <3>2. Waited = m + EchoInterval + last_progress
        BY <1>5 DEF Waited
      <3>3. 0 # EchoInterval
        BY Sizes
      <3>4. sent => Waited' = m + C + 0 + 0
        BY <1>2, <1>3, <3>1, <3>3 DEF Waited
      <3>5. ~sent => Waited' = m + 0 + 0
        BY <1>2, <1>3, <3>3 DEF Waited
      <3>6. unnoticed \in Nat /\ last_progress \in Nat /\ last_progress <= WriteStallTimeout + 1
        BY <1>0, Sizes DEF TypeOK
      <3>7. unnoticed <= Waited
        BY <1>0, <1>3 DEF SilenceInv
      <3>8. CASE sent
        <4> HIDE DEF m
        <4> QED BY <1>2, <1>10, <3>1, <3>2, <3>4, <3>6, <3>7, <3>8
      <3>9. CASE ~sent
        <4>1. unnoticed = 0
          BY <1>0, <1>3, <3>6, <3>9 DEF SilenceInv, Probed
        <4> HIDE DEF m
        <4> QED BY <1>2, <3>1, <3>5, <3>9, <4>1
      <3> QED BY <3>8, <3>9
    <2> QED BY <1>2, <1>3, <1>8, <1>9, <2>1, <2>2 DEF SilenceInv
  <1>15. HealthyGatewayKept'
    BY <1>0, <1>9 DEF HealthyGatewayKept
  <1> QED BY <1>8, <1>11, <1>12, <1>13, <1>14, <1>15 DEF IInv
-----------------------------------------------------------------------------
(* The ends. *)

\* Nothing is left of a relay that has ended but the reason.
LEMMA EndsKeeps ==
  ASSUME IInv, NEW r, Ends(r), gateway = "alive" => r \notin {"echo", "stalled", "closed"}
  PROVE  IInv'
  <1>1. /\ pc' = "ended" /\ why' = r /\ phase' = "Dead" /\ echo_outstanding' = 0 /\ ~echo_supported'
        /\ echo_supported' \in BOOLEAN
        /\ buf' = <<>> /\ tls' = <<>> /\ sock' = <<>> /\ down' = <<>>
        /\ last_echo' = 0 /\ last_progress' = 0 /\ started' = 0 /\ reads' \in BOOLEAN
        /\ unnoticed' = 0 /\ gateway' = gateway /\ answers_echo' = answers_echo
    BY DEF Ends
  <1>2. TypeOK'
    <2>1. /\ <<>> \in Seq(OurFrames) /\ <<>> \in Seq(OnTheWay) /\ <<>> \in Seq(TheirFrames)
          /\ Len(<<>>) = 0
      OBVIOUS
    <2>2. answers_echo \in BOOLEAN
      BY DEF IInv, TypeOK
    <2> QED BY <1>1, <2>1, <2>2, Sizes DEF TypeOK
  <1>3. PacketsFit' /\ SupportIsTrue'
    BY <1>1 DEF PacketsFit, SupportIsTrue
  <1>4. KeepaliveInv' /\ ProgressInv'
    BY <1>1 DEF KeepaliveInv, ProgressInv
  <1>5. SilenceInv'
    BY <1>1, Sizes DEF SilenceInv
  <1>6. HealthyGatewayKept'
    BY <1>1 DEF HealthyGatewayKept
  <1> QED BY <1>2, <1>3, <1>4, <1>5, <1>6 DEF IInv

\* What ends the relay.
Endings ==
  \/ Disconnects \/ NegotiationTimesOut \/ FloodEnds \/ LinkDies \/ SetupFails \/ SeesClose
  \/ StreamBreaks \/ KeepaliveFails \/ WriteStalls

\* None of it is held against a gateway that is alive.
LEMMA EndingsKeep == ASSUME IInv, Endings PROVE IInv'
  <1>0. TypeOK /\ KeepaliveInv /\ ProgressInv
    BY DEF IInv
  <1>1. CASE Disconnects \/ NegotiationTimesOut \/ FloodEnds \/ LinkDies \/ SetupFails \/ StreamBreaks
    <2>1. \E r \in {"stop", "negotiation", "overflow", "dead", "setup", "io"} : Ends(r)
      BY <1>1 DEF Disconnects, NegotiationTimesOut, FloodEnds, LinkDies, SetupFails, StreamBreaks
    <2> QED BY <2>1, EndsKeeps
  <1>2. CASE SeesClose
    BY <1>2, EndsKeeps DEF SeesClose
  <1>3. CASE KeepaliveFails
    <2>1. /\ pc = "out" /\ last_echo >= EchoInterval
          /\ echo_outstanding = MaxEchoOutstanding /\ echo_supported /\ Ends("echo")
      BY <1>3 DEF KeepaliveFails, HasPackets, EchoDue
    <2>2. gateway # "alive"
      BY <1>0, <2>1, Sizes DEF KeepaliveInv, TypeOK
    <2> QED BY <2>1, <2>2, EndsKeeps
  <1>4. CASE WriteStalls
    <2>1. /\ pc = "out" /\ Len(sock) = SockBuffer /\ last_progress > WriteStallTimeout
          /\ Ends("stalled")
      BY <1>4 DEF WriteStalls, Stalled
    <2>2. gateway # "alive"
      BY <1>0, <2>1, Sizes DEF ProgressInv, TypeOK
    <2> QED BY <2>1, <2>2, EndsKeeps
  <1> QED BY <1>1, <1>2, <1>3, <1>4 DEF Endings

-----------------------------------------------------------------------------
(* The steps that receive. *)

\* The time waited is a number.
LEMMA WaitedIs ==
  ASSUME NEW k \in Nat, NEW e \in Nat, NEW p \in Nat
  PROVE  k * (EchoInterval + WriteStallTimeout + 1) + e + (IF e = EchoInterval THEN p ELSE 0) \in Nat
  <1>1. EchoInterval + WriteStallTimeout + 1 \in Nat
    BY Sizes
  <1>2. k * (EchoInterval + WriteStallTimeout + 1) \in Nat
    BY <1>1, Times
  <1> QED BY <1>2

\* Replies queued.
LEMMA RepliesQueued ==
  ASSUME TypeOK, PacketsFit, NEW n \in Nat, buf' = buf \o Repeat("reply", n)
  PROVE  buf' \in Seq(OurFrames) /\ PacketsFit'
  <1> DEFINE p == Repeat("reply", n)
  <1>1. p \in Seq(OurFrames) /\ Len(p) = n /\ \A i \in 1 .. n : p[i] = "reply"
    BY DEF Repeat, OurFrames
  <1>2. buf \in Seq(OurFrames) /\ Len(buf) \in Nat /\ DOMAIN buf = 1 .. Len(buf) /\ buf' = buf \o p
    BY LenProperties DEF TypeOK
  <1> HIDE DEF p
  <1>3. /\ buf' \in Seq(OurFrames) /\ Len(buf') = Len(buf) + Len(p)
        /\ \A i \in 1 .. Len(buf) + Len(p) : buf'[i] = IF i <= Len(buf) THEN buf[i] ELSE p[i - Len(buf)]
    BY ONLY <1>1, <1>2, ConcatProperties
  <1>4. ASSUME NEW i \in DOMAIN buf', buf'[i] = "packet" PROVE i <= MaxQueued
    <2>1. i \in 1 .. Len(buf) + n
      BY <1>1, <1>3, LenProperties
    <2>2. CASE i <= Len(buf)
      <3>1. i \in DOMAIN buf /\ buf[i] = "packet"
        BY <1>1, <1>2, <1>3, <1>4, <2>1, <2>2
      <3> QED BY <3>1 DEF PacketsFit
    <2>3. CASE ~(i <= Len(buf))
      <3>1. i - Len(buf) \in 1 .. n
        BY <1>2, <2>1, <2>3
      <3>2. buf'[i] = "reply"
        BY <1>1, <1>3, <2>1, <2>3, <3>1
      <3> QED BY <1>4, <3>2
    <2> QED BY <2>2, <2>3
  <1> QED BY <1>3, <1>4 DEF PacketsFit

\* Frames from the gateway.
LEMMA ReceivesKeeps == ASSUME IInv, Receives PROVE IInv'
  <1>0. /\ TypeOK /\ PacketsFit /\ SupportIsTrue /\ ProgressInv /\ SilenceInv /\ HealthyGatewayKept
    BY DEF IInv
  <1>1. PICK n \in 1 .. Len(down) :
          /\ ~QueueFull(Batch(n).replies) /\ Batch(n).phase # "Dead"
          /\ Takes(n, Batch(n))
          /\ buf' = buf \o Repeat("reply", Batch(n).replies)
          /\ last_echo' = IF Batch(n).phase = phase THEN last_echo ELSE 0
    BY DEF Receives
  <1> DEFINE link == Batch(n)
  <1>2. link \in Links /\ HandledAll(link, n)
    BY <1>0, BatchIs
  <1>3. /\ pc' = "out" /\ why' = why /\ tls' = tls /\ sock' = sock /\ last_progress' = last_progress
        /\ started' = started /\ gateway' = gateway /\ answers_echo' = answers_echo
        /\ reads' = reads /\ unnoticed' = unnoticed
        /\ down # <<>> /\ ~TimedOut
    BY <1>1 DEF Receives, GoesOn, Takes, gatewayVars, MayReceive, Readable
  <1>4. /\ down' = SubSeq(down, n + 1, Len(down)) /\ phase' = link.phase
        /\ echo_supported' = link.supported /\ echo_outstanding' = 0
        /\ last_echo' \in {last_echo, 0} /\ link.phase # "Dead"
        /\ buf' = buf \o Repeat("reply", link.replies)
    BY <1>1 DEF Takes, LifeShown
  <1> HIDE DEF link
  <1>5. /\ down \in Seq(TheirFrames) /\ Len(down) \in Nat /\ n \in Nat /\ n >= 1 /\ n <= Len(down)
        /\ DOMAIN down = 1 .. Len(down) /\ Len(down) <= DownBuffer
    <2>1. down \in Seq(TheirFrames) /\ Len(down) <= DownBuffer
      BY <1>0 DEF TypeOK
    <2>2. Len(down) \in Nat /\ DOMAIN down = 1 .. Len(down)
      BY <2>1, LenProperties
    <2> QED BY <2>1, <2>2
  <1>6. /\ down' \in Seq(TheirFrames) /\ Len(down') = Len(down) - n
        /\ \A i \in 1 .. Len(down) - n : down'[i] = down[n + i]
    <2>1. Len(down) <= Len(down)
      BY <1>5
    <2> QED BY <1>4, <1>5, <2>1, Between, SMTT(30)
  <1>7. link.replies \in Nat /\ link.supported \in BOOLEAN
        /\ link.phase \in {"Negotiating", "Network", "Dead"}
    BY <1>2 DEF Links
  <1>8. buf' \in Seq(OurFrames) /\ PacketsFit'
    BY <1>0, <1>4, <1>7, RepliesQueued
  <1>9. TypeOK'
    <2>1. last_echo' \in 0 .. EchoInterval /\ echo_outstanding' \in 0 .. MaxEchoOutstanding
      BY <1>0, <1>4, Sizes DEF TypeOK
    <2>2. Len(down') <= DownBuffer
      BY <1>5, <1>6, Sizes
    <2> QED BY <1>0, <1>3, <1>4, <1>6, <1>7, <1>8, <2>1, <2>2 DEF TypeOK
  <1>10. SupportIsTrue'
    <2> SUFFICES ASSUME gateway = "alive",
                        echo_supported' \/ \E i \in DOMAIN down' : down'[i] = "echo_reply"
                 PROVE  answers_echo
      BY <1>3 DEF SupportIsTrue
    <2>1. CASE echo_supported'
      <3>1. echo_supported \/ \E i \in 1 .. n : down[i] = "echo_reply"
        BY <1>2, <1>4, <2>1 DEF HandledAll
      <3>2. \A i \in 1 .. n : i \in DOMAIN down
        BY <1>5
      <3> QED BY <1>0, <3>1, <3>2 DEF SupportIsTrue
    <2>2. CASE \E i \in DOMAIN down' : down'[i] = "echo_reply"
      <3>1. PICK i \in DOMAIN down' : down'[i] = "echo_reply"
        BY <2>2
      <3>2. i \in 1 .. Len(down) - n
        BY <1>6, LenProperties
      <3>3. n + i \in DOMAIN down
        BY <1>5, <3>2
      <3>4. down[n + i] = "echo_reply"
        BY <1>6, <3>1, <3>2
      <3> QED BY <1>0, <3>3, <3>4 DEF SupportIsTrue
    <2> QED BY <2>1, <2>2
  <1>11. KeepaliveInv'
    BY <1>4 DEF KeepaliveInv
  <1>12. ProgressInv'
    <2>1. Len(down') < DownBuffer
      BY <1>5, <1>6, Sizes
    <2>2. gateway = "alive" =>
            last_progress = 0 \/ Len(sock) < SockBuffer \/ (last_progress = 1 /\ ~reads)
      BY <1>0 DEF ProgressInv
    <2> QED BY <1>3, <2>1, <2>2 DEF ProgressInv
  <1>13. SilenceInv'
    <2>1. unnoticed' = 0
      BY <1>0, <1>3 DEF SilenceInv, TypeOK
    <2>2. phase' # "Network" => unnoticed' <= started' /\ started' <= NegotiationTimeout
      <3> SUFFICES ASSUME phase' # "Network"
                   PROVE  unnoticed' <= started' /\ started' <= NegotiationTimeout
        OBVIOUS
      <3>1. phase # "Network"
        BY <1>2, <1>4 DEF HandledAll
      <3>2. ~(started > NegotiationTimeout) /\ started \in Nat /\ NegotiationTimeout \in Nat
        BY <1>0, <1>3, <3>1, Sizes DEF TimedOut, TypeOK
      <3> QED BY <1>3, <2>1, <3>2
    <2>3. unnoticed' <= Waited'
      <3>1. Waited' \in Nat
        <4>1. echo_outstanding' \in Nat /\ last_echo' \in Nat /\ last_progress' \in Nat
          BY <1>9, Sizes DEF TypeOK
        <4> QED BY <4>1, WaitedIs DEF Waited
      <3> QED BY <2>1, <3>1
    <2> QED BY <1>3, <2>1, <2>2, <2>3 DEF SilenceInv
  <1>14. HealthyGatewayKept'
    BY <1>0, <1>3 DEF HealthyGatewayKept
  <1> QED BY <1>8, <1>9, <1>10, <1>11, <1>12, <1>13, <1>14 DEF IInv
\* The number of what is ahead is a number.
LEMMA AheadIs ==
  ASSUME TypeOK
  PROVE  Ahead \in Int
  <1>1. echo_outstanding \in Nat /\ EchoInterval \in Nat /\ last_echo \in Nat
    BY Sizes DEF TypeOK
  <1>2. echo_outstanding * EchoInterval \in Nat
    BY <1>1, Times
  <1> QED BY <1>1, <1>2, Sizes DEF Ahead

\* When nothing comes, the keepalives that may go unanswered have left the gateway the
\* time it needs.
LEMMA NothingReceivedKeeps == ASSUME IInv, NothingReceived PROVE IInv'
  <1>0. /\ TypeOK /\ PacketsFit /\ SupportIsTrue /\ KeepaliveInv /\ ProgressInv /\ SilenceInv
        /\ HealthyGatewayKept
    BY DEF IInv
  <1>1. /\ pc' = "out" /\ why' = why /\ down = <<>> /\ ~TimedOut
        /\ phase' = phase /\ echo_outstanding' = echo_outstanding
        /\ echo_supported' = echo_supported /\ buf' = buf /\ tls' = tls /\ sock' = sock
        /\ last_echo' = last_echo /\ last_progress' = last_progress /\ started' = started
        /\ down' = down /\ gateway' = gateway /\ answers_echo' = answers_echo
        /\ reads' = reads /\ unnoticed' = unnoticed
    BY DEF NothingReceived, GoesOn, MayReceive, Readable, linkVars, queueVars, clockVars, gatewayVars
  <1>2. TypeOK'
    BY <1>0, <1>1 DEF TypeOK
  <1>3. PacketsFit' /\ SupportIsTrue' /\ HealthyGatewayKept'
    BY <1>0, <1>1 DEF PacketsFit, SupportIsTrue, HealthyGatewayKept
  <1>4. KeepaliveInv'
    <2> SUFFICES ASSUME gateway = "alive", echo_supported, echo_outstanding > 0
                 PROVE  /\ EchoWithin(ToSend(buf), Ahead)
                        /\ echo_outstanding < MaxEchoOutstanding \/ last_echo < EchoInterval
      <3>1. ToSend(buf)' = ToSend(buf) /\ Ahead' = Ahead
        BY <1>1 DEF ToSend, Ahead, Sealed
      <3> QED BY <1>1, <3>1 DEF KeepaliveInv
    <2>1. EchoWithin(ToSend(buf), Ahead)
      BY <1>0, <1>1 DEF KeepaliveInv
    <2>2. Ahead \in Int /\ Ahead >= 1
      <3>1. ToSend(buf) \in Seq(OnTheWay)
        BY <1>0, ToSendIs DEF Lined, TypeOK
      <3> QED BY <1>0, <2>1, <3>1, AheadIs, WithinIs
    <2>3. ASSUME echo_outstanding = MaxEchoOutstanding, last_echo = EchoInterval PROVE FALSE
      <3> DEFINE m == MaxEchoOutstanding * EchoInterval
                 r == IF reads THEN 1 ELSE 0
                 Q == EchoMaxBacklog + TlsBuffer + SockBuffer
      <3>1. m \in Nat /\ Q \in Nat /\ r \in Nat /\ EchoInterval \in Nat
        BY Sizes, Times
      <3>2. Q < m
        BY RateAssumption
      <3>3. Ahead = Q + 1 + EchoInterval - (m + EchoInterval + r)
        BY <2>3 DEF Ahead
      <3> HIDE DEF m, r, Q
      <3> QED BY <2>2, <3>1, <3>2, <3>3
    <2>4. echo_outstanding < MaxEchoOutstanding \/ last_echo < EchoInterval
      BY <1>0, <2>3, Sizes DEF TypeOK
    <2> QED BY <2>1, <2>4
  <1>5. ProgressInv'
    <2>1. Len(down) < DownBuffer
      BY <1>1, Sizes
    <2>2. gateway = "alive" =>
            last_progress = 0 \/ Len(sock) < SockBuffer \/ (last_progress = 1 /\ ~reads)
      BY <1>0 DEF ProgressInv
    <2> QED BY <1>1, <2>1, <2>2 DEF ProgressInv
  <1>6. SilenceInv'
    <2>1. /\ Probed' = Probed /\ Waited' = Waited
      BY <1>1 DEF Probed, Waited
    <2>2. phase # "Network" => started <= NegotiationTimeout
      BY <1>0, <1>1, Sizes DEF TimedOut, TypeOK
    <2> QED BY <1>0, <1>1, <2>1, <2>2 DEF SilenceInv
  <1> QED BY <1>2, <1>3, <1>4, <1>5, <1>6 DEF IInv

-----------------------------------------------------------------------------
(* The clock, the user and the gateway. *)

\* What a tick does to the clocks.
LEMMA Clocks ==
  ASSUME TypeOK, Tick
  PROVE  /\ last_echo' = IF last_echo < EchoInterval THEN last_echo + 1 ELSE last_echo
         /\ last_progress' =
              IF last_progress <= WriteStallTimeout THEN last_progress + 1 ELSE last_progress
         /\ phase # "Network" =>
              started' = IF started + 1 < NegotiationTimeout + 2 THEN started + 1
                                                                ELSE NegotiationTimeout + 2
  BY Sizes DEF Tick, Lesser, TypeOK

\* A tick, before which an alive gateway took a frame.
LEMMA TickKeeps == ASSUME IInv, Tick PROVE IInv'
  <1>0. /\ TypeOK /\ PacketsFit /\ SupportIsTrue /\ KeepaliveInv /\ ProgressInv /\ SilenceInv
        /\ HealthyGatewayKept
    BY DEF IInv
  <1>1. /\ pc = "wait" /\ pc' = "top" /\ why' = why /\ Diligent
        /\ phase' = phase /\ echo_outstanding' = echo_outstanding
        /\ echo_supported' = echo_supported /\ buf' = buf /\ tls' = tls /\ sock' = sock
        /\ down' = down /\ gateway' = gateway /\ answers_echo' = answers_echo /\ ~reads'
        /\ reads' \in BOOLEAN
        /\ unnoticed' = IF gateway = "silent" /\ down = <<>> /\ Probed THEN unnoticed + 1 ELSE 0
        /\ phase = "Network" => started' = 0
    BY DEF Tick, GoesOn, linkVars, queueVars
  <1>2. /\ last_echo \in Nat /\ last_echo <= EchoInterval /\ EchoInterval \in Nat
        /\ last_progress \in Nat /\ WriteStallTimeout \in Nat
        /\ last_progress <= WriteStallTimeout
        /\ started \in Nat /\ NegotiationTimeout \in Nat /\ unnoticed \in Nat
        /\ echo_outstanding \in Nat
    BY <1>0, <1>1, Sizes DEF TypeOK, SilenceInv
  <1>3. /\ last_echo' = IF last_echo < EchoInterval THEN last_echo + 1 ELSE last_echo
        /\ last_progress' = last_progress + 1
        /\ phase # "Network" /\ started <= NegotiationTimeout => started' = started + 1
        /\ started' \in Nat
    <2>1. /\ last_echo' = IF last_echo < EchoInterval THEN last_echo + 1 ELSE last_echo
          /\ last_progress' = last_progress + 1
      BY <1>0, <1>2, Clocks
    <2>2. phase # "Network" =>
            started' = IF started + 1 < NegotiationTimeout + 2 THEN started + 1
                                                              ELSE NegotiationTimeout + 2
      BY <1>0, Clocks
    <2>3. phase # "Network" /\ started <= NegotiationTimeout => started' = started + 1
      BY <1>2, <2>2
    <2>4. started' \in Nat
      BY <1>1, <1>2, <2>2
    <2> QED BY <2>1, <2>3, <2>4
  <1>4. TypeOK'
    <2>1. /\ last_echo' \in 0 .. EchoInterval /\ last_progress' \in 0 .. WriteStallTimeout + 1
          /\ unnoticed' \in Nat
      BY <1>1, <1>2, <1>3
    <2> QED BY <1>0, <1>1, <1>3, <2>1 DEF TypeOK
  <1>5. PacketsFit' /\ SupportIsTrue' /\ HealthyGatewayKept'
    BY <1>0, <1>1 DEF PacketsFit, SupportIsTrue, HealthyGatewayKept
  <1>6. KeepaliveInv'
    <2> SUFFICES ASSUME gateway = "alive", echo_supported, echo_outstanding > 0, down = <<>>
                 PROVE  EchoWithin(ToSend(buf), Ahead')
      <3>1. ToSend(buf)' = ToSend(buf)
        BY <1>1 DEF ToSend, Sealed
      <3> QED BY <1>1, <3>1 DEF KeepaliveInv
    <2>1. EchoWithin(ToSend(buf), Ahead)
      BY <1>0 DEF KeepaliveInv
    <2>2. Lined(ToSend(buf), sock, tls, buf)
      BY <1>0, ToSendIs DEF TypeOK
    <2>3. Ahead \in Int
      BY <1>0, AheadIs
    <2>4. reads
      <3> SUFFICES ASSUME ~reads PROVE FALSE
        OBVIOUS
      <3>1. sock = <<>>
        BY <1>1, Sizes DEF Diligent
      <3>2. tls \o buf = <<>>
        BY <1>0, <1>1, <3>1 DEF ProgressInv
      <3>3. tls = <<>> /\ buf = <<>>
        <4>1. tls \in Seq(OnTheWay \cup OurFrames) /\ buf \in Seq(OnTheWay \cup OurFrames)
          <5>1. tls \in Seq(OnTheWay) /\ buf \in Seq(OurFrames)
            BY <1>0 DEF TypeOK
          <5>2. OnTheWay \subseteq OnTheWay \cup OurFrames /\ OurFrames \subseteq OnTheWay \cup OurFrames
            OBVIOUS
          <5> QED BY <5>1, <5>2, SeqMonotonic, Zenon
        <4> QED BY <3>2, <4>1, ConcatEqualIffEmpty
      <3>4. Len(sock) = 0 /\ Len(tls) = 0 /\ Len(buf) = 0
        BY <3>1, <3>3
      <3>5. ToSend(buf) \in Seq(OnTheWay) /\ Len(ToSend(buf)) = 0
        BY <2>2, <3>4 DEF Lined
      <3>6. Len(ToSend(buf)) >= 1
        BY <2>1, <2>3, <3>5, WithinIs
      <3> QED BY <3>5, <3>6
    <2>5. Ahead' \in Int /\ Ahead' >= Ahead
      <3> DEFINE m == echo_outstanding * EchoInterval
                 Q == EchoMaxBacklog + TlsBuffer + SockBuffer
      <3>1. m \in Nat /\ Q \in Nat
        BY <1>2, Sizes, Times
      <3>2. Ahead = Q + 1 + EchoInterval - (m + last_echo + 1)
        BY <2>4 DEF Ahead
      <3>3. Ahead' = Q + 1 + EchoInterval - (m + last_echo' + 0)
        BY <1>1 DEF Ahead
      <3>4. last_echo' \in Nat /\ last_echo' <= last_echo + 1
        BY <1>2, <1>3
      <3>5. EchoInterval \in Nat /\ last_echo \in Nat
        BY <1>2
      <3> HIDE DEF m, Q
      <3>6. \A k \in Nat : k <= last_echo + 1 =>
              /\ Q + 1 + EchoInterval - (m + k + 0) \in Int
              /\ Q + 1 + EchoInterval - (m + k + 0) >= Q + 1 + EchoInterval - (m + last_echo + 1)
        BY ONLY <3>1, <3>5
      <3> QED BY <3>2, <3>3, <3>4, <3>6
    <2> QED BY <2>1, <2>2, <2>3, <2>5, WithinIs DEF Lined
  <1>7. ProgressInv'
    <2> SUFFICES ASSUME gateway = "alive"
                 PROVE  last_progress' = 0 \/ Len(sock) < SockBuffer \/ last_progress' = 1
      BY <1>1 DEF ProgressInv
    <2> SUFFICES ASSUME ~(Len(sock) < SockBuffer) PROVE last_progress = 0
      BY <1>2, <1>3
    <2>1. sock # <<>>
      BY Sizes
    <2>2. last_progress = 0 \/ (last_progress = 1 /\ ~reads)
      BY <1>0 DEF ProgressInv
    <2>3. ~reads => Len(down) < DownBuffer \/ last_progress = 0
      BY <1>0, <1>1, <2>1 DEF ProgressInv
    <2>4. Len(down) < DownBuffer => reads
      BY <1>1, <2>1 DEF Diligent
    <2> QED BY <2>2, <2>3, <2>4
  <1>8. SilenceInv'
    <2>1. unnoticed' > 0 => gateway' = "silent" /\ down' = <<>> /\ Probed'
      <3>1. Probed' = Probed
        BY <1>1 DEF Probed
      <3> QED BY <1>1, <3>1
    <2>2. unnoticed' \in Nat /\ unnoticed' <= unnoticed + 1
      BY <1>1, <1>2
    <2>3. phase # "Network" => unnoticed' <= started' /\ started' <= NegotiationTimeout + 1
      <3> SUFFICES ASSUME phase # "Network"
                   PROVE  unnoticed' <= started' /\ started' <= NegotiationTimeout + 1
        OBVIOUS
      <3>1. unnoticed <= started /\ started <= NegotiationTimeout
        BY <1>0, <1>1 DEF SilenceInv
      <3> QED BY <1>2, <1>3, <2>2, <3>1
    <2>4. phase = "Network" => unnoticed' <= Waited'
      <3> SUFFICES ASSUME phase = "Network" PROVE unnoticed' <= Waited'
        OBVIOUS
      <3> DEFINE m == echo_outstanding * (EchoInterval + WriteStallTimeout + 1)
                 d == IF last_echo = EchoInterval THEN last_progress ELSE 0
                 e == IF last_echo' = EchoInterval THEN last_progress' ELSE 0
      <3>1. m \in Nat
        <4>1. EchoInterval + WriteStallTimeout + 1 \in Nat
          BY <1>2
        <4> QED BY <1>2, <4>1, Times
      <3>2. Waited = m + last_echo + d /\ Waited' = m + last_echo' + e
        BY <1>1 DEF Waited
      <3>3. unnoticed <= Waited
        BY <1>0 DEF SilenceInv
      <3> HIDE DEF m
      <3>4. last_echo + d + 1 <= last_echo' + e /\ d \in Nat /\ e \in Nat /\ last_echo' \in Nat
        BY <1>2, <1>3
      <3>5. unnoticed \in Nat /\ last_echo \in Nat
        BY <1>2
      <3> HIDE DEF d, e
      <3>6. unnoticed <= m + last_echo + d
        BY <3>2, <3>3
      <3>7. \A u \in Nat, k \in Nat, j \in Nat :
              u <= unnoticed + 1 /\ last_echo + d + 1 <= k + j => u <= m + k + j
        BY ONLY <3>1, <3>4, <3>5, <3>6
      <3> QED BY <2>2, <3>2, <3>4, <3>7
    <2> QED BY <1>1, <2>1, <2>3, <2>4 DEF SilenceInv
  <1> QED BY <1>4, <1>5, <1>6, <1>7, <1>8 DEF IInv
\* A frame more from the gateway.
LEMMA OneArrives ==
  ASSUME TypeOK, NEW f \in TheirFrames, down' = Append(down, f), Len(down) < DownBuffer
  PROVE  /\ down' \in Seq(TheirFrames) /\ Len(down') <= DownBuffer /\ down' # <<>>
         /\ f # "echo_reply" =>
              \A i \in DOMAIN down' : down'[i] = "echo_reply" =>
                \E j \in DOMAIN down : down[j] = "echo_reply"
  <1>1. down \in Seq(TheirFrames) /\ Len(down) \in Nat /\ DOMAIN down = 1 .. Len(down)
    BY LenProperties DEF TypeOK
  <1>2. /\ down' \in Seq(TheirFrames) /\ Len(down') = Len(down) + 1 /\ down'[Len(down) + 1] = f
        /\ \A i \in 1 .. Len(down) : down'[i] = down[i]
    BY <1>1, AppendProperties
  <1>3. Len(down') <= DownBuffer /\ DOMAIN down' = 1 .. Len(down) + 1
    BY <1>1, <1>2, LenProperties, Sizes
  <1>4. down' # <<>>
    BY <1>1, <1>2
  <1>5. ASSUME f # "echo_reply", NEW i \in DOMAIN down', down'[i] = "echo_reply"
        PROVE  \E j \in DOMAIN down : down[j] = "echo_reply"
    <2>1. i \in 1 .. Len(down)
      BY <1>1, <1>2, <1>3, <1>5
    <2> QED BY <1>1, <1>2, <1>5, <2>1
  <1> QED BY <1>2, <1>3, <1>4, <1>5

\* The gateway sends, between frames of ours that it takes.
LEMMA SendsKeeps ==
  ASSUME IInv, NEW f \in {"up", "ask", "term"}, GatewaySends(f) PROVE IInv'
  <1>0. /\ TypeOK /\ PacketsFit /\ SupportIsTrue /\ KeepaliveInv /\ ProgressInv /\ SilenceInv
        /\ HealthyGatewayKept
    BY DEF IInv
  <1>1. /\ pc' = pc /\ why' = why /\ gateway = "alive" /\ Len(down) < DownBuffer
        /\ sock = <<>> \/ reads
        /\ down' = Append(down, f)
        /\ phase' = phase /\ echo_outstanding' = echo_outstanding
        /\ echo_supported' = echo_supported /\ buf' = buf /\ tls' = tls /\ sock' = sock
        /\ last_echo' = last_echo /\ last_progress' = last_progress /\ started' = started
        /\ gateway' = gateway /\ answers_echo' = answers_echo
        /\ reads' = reads /\ unnoticed' = unnoticed
    BY DEF GatewaySends, linkVars, queueVars, clockVars, gatewayVars
  <1>2. f \in TheirFrames /\ f # "echo_reply"
    BY DEF TheirFrames
  <1>3. /\ down' \in Seq(TheirFrames) /\ Len(down') <= DownBuffer /\ down' # <<>>
        /\ \A i \in DOMAIN down' : down'[i] = "echo_reply" =>
             \E j \in DOMAIN down : down[j] = "echo_reply"
    BY <1>0, <1>1, <1>2, OneArrives
  <1>4. TypeOK'
    BY <1>0, <1>1, <1>3 DEF TypeOK
  <1>5. PacketsFit' /\ HealthyGatewayKept'
    BY <1>0, <1>1 DEF PacketsFit, HealthyGatewayKept
  <1>6. SupportIsTrue'
    BY <1>0, <1>1, <1>3 DEF SupportIsTrue
  <1>7. KeepaliveInv'
    BY <1>0, <1>1, <1>3 DEF KeepaliveInv
  <1>8. ProgressInv'
    BY <1>0, <1>1 DEF ProgressInv
  <1>9. SilenceInv'
    <2>1. unnoticed = 0
      BY <1>0, <1>1 DEF SilenceInv, TypeOK
    <2>2. Waited' = Waited
      BY <1>1 DEF Waited
    <2> QED BY <1>0, <1>1, <2>1, <2>2 DEF SilenceInv
  <1> QED BY <1>4, <1>5, <1>6, <1>7, <1>8, <1>9 DEF IInv

\* The gateway takes a frame of ours.
LEMMA TakesKeeps == ASSUME IInv, GatewayTakes PROVE IInv'
  <1>0. /\ TypeOK /\ PacketsFit /\ SupportIsTrue /\ KeepaliveInv /\ ProgressInv /\ SilenceInv
        /\ HealthyGatewayKept
    BY DEF IInv
  <1> DEFINE answered == gateway = "alive" /\ answers_echo /\ Head(sock) = "echo"
  <1>1. /\ pc' = pc /\ why' = why /\ sock # <<>> /\ sock' = Tail(sock)
        /\ gateway = "alive" => Len(down) < DownBuffer /\ reads'
        /\ reads' \in BOOLEAN
        /\ down' = IF answered THEN Append(down, "echo_reply") ELSE down
        /\ phase' = phase /\ echo_outstanding' = echo_outstanding
        /\ echo_supported' = echo_supported /\ buf' = buf /\ tls' = tls
        /\ last_echo' = last_echo /\ last_progress' = last_progress /\ started' = started
        /\ gateway' = gateway /\ answers_echo' = answers_echo /\ unnoticed' = unnoticed
    BY DEF GatewayTakes, linkVars, clockVars
  <1>2. /\ sock' \in Seq(OnTheWay) /\ Len(sock') = Len(sock) - 1 /\ Len(sock) \in Nat
        /\ Len(sock) <= SockBuffer
    <2>1. sock \in Seq(OnTheWay) /\ sock # <<>> /\ Len(sock) <= SockBuffer
      BY <1>0, <1>1 DEF TypeOK
    <2> QED BY <1>1, <2>1, HeadTailProperties, LenProperties
  <1>3. /\ down' \in Seq(TheirFrames) /\ Len(down') <= DownBuffer
        /\ answered => down' # <<>>
    <2>1. CASE answered
      <3>1. "echo_reply" \in TheirFrames
        BY DEF TheirFrames
      <3>2. down' = Append(down, "echo_reply") /\ Len(down) < DownBuffer
        BY <1>1, <2>1
      <3> QED BY <1>0, <3>1, <3>2, OneArrives
    <2>2. CASE ~answered
      BY <1>0, <1>1, <2>2 DEF TypeOK
    <2> QED BY <2>1, <2>2
  <1> HIDE DEF answered
  <1>4. TypeOK'
    <2>1. Len(sock') <= SockBuffer
      BY <1>2, Sizes
    <2> QED BY <1>0, <1>1, <1>2, <1>3, <2>1 DEF TypeOK
  <1>5. PacketsFit' /\ HealthyGatewayKept'
    BY <1>0, <1>1 DEF PacketsFit, HealthyGatewayKept
  <1>6. SupportIsTrue'
    BY <1>0, <1>1 DEF SupportIsTrue, answered
  <1>7. KeepaliveInv'
    <2> SUFFICES ASSUME gateway = "alive", echo_supported, echo_outstanding > 0, down' = <<>>
                 PROVE  EchoWithin(ToSend(buf)', Ahead')
      <3>1. pc = "out" /\ gateway = "alive" /\ echo_supported /\ echo_outstanding > 0 =>
              echo_outstanding < MaxEchoOutstanding \/ last_echo < EchoInterval
        BY <1>0 DEF KeepaliveInv
      <3> QED BY <1>1, <3>1 DEF KeepaliveInv
    <2>1. ~answered
      BY <1>3
    <2>2. answers_echo
      BY <1>0 DEF SupportIsTrue
    <2>3. Head(sock) # "echo" /\ down = <<>>
      BY <1>1, <2>1, <2>2 DEF answered
    <2>4. EchoWithin(ToSend(buf), Ahead) /\ Ahead \in Int
      BY <1>0, <2>3, AheadIs DEF KeepaliveInv
    <2>5. EchoWithin(ToSend(buf)', Ahead - 1)
      BY <1>0, <1>1, <2>3, <2>4, OneCloser
    <2>6. Ahead' \in Int /\ Ahead' >= Ahead - 1
      <3> DEFINE m == echo_outstanding * EchoInterval
                 Q == EchoMaxBacklog + TlsBuffer + SockBuffer
                 r == IF reads THEN 1 ELSE 0
      <3>1. m \in Nat /\ Q \in Nat /\ EchoInterval \in Nat /\ last_echo \in Nat
        <4>1. echo_outstanding \in Nat /\ EchoInterval \in Nat /\ last_echo \in Nat
          BY <1>0, Sizes DEF TypeOK
        <4> QED BY <4>1, Sizes, Times
      <3>2. Ahead = Q + 1 + EchoInterval - (m + last_echo + r) /\ r \in {0, 1}
        BY DEF Ahead
      <3>3. Ahead' = Q + 1 + EchoInterval - (m + last_echo + 1)
        BY <1>1 DEF Ahead
      <3> DEFINE a == Q + 1 + EchoInterval - (m + last_echo + r)
                 b == Q + 1 + EchoInterval - (m + last_echo + 1)
      <3> HIDE DEF m, Q, r
      <3>4. b \in Int /\ b >= a - 1
        BY ONLY <3>1, <3>2
      <3>5. Ahead = a /\ Ahead' = b
        BY <3>2, <3>3
      <3> HIDE DEF a, b
      <3> QED BY <3>4, <3>5
    <2>7. ToSend(buf)' \in Seq(OnTheWay)
      <3>1. tls \in Seq(OnTheWay) /\ buf \in Seq(OurFrames)
        BY <1>0 DEF TypeOK
      <3>2. Lined(sock' \o tls \o Sealed(buf), sock', tls, buf)
        BY <1>2, <3>1, LineIs
      <3>3. ToSend(buf)' = sock' \o tls \o Sealed(buf)
        BY <1>1 DEF ToSend, Sealed
      <3> QED BY <3>2, <3>3 DEF Lined
    <2>8. Ahead - 1 \in Int
      BY <2>4
    <2> QED BY <2>5, <2>6, <2>7, <2>8, WithinIs
  <1>8. ProgressInv'
    <2>1. Len(sock') < SockBuffer
      BY <1>2, Sizes
    <2> QED BY <1>1, <2>1 DEF ProgressInv
  <1>9. SilenceInv'
    <2>1. Waited' = Waited /\ Probed' = Probed
      BY <1>1 DEF Waited, Probed
    <2>2. unnoticed > 0 => down' = down
      BY <1>0, <1>1 DEF SilenceInv, answered
    <2> QED BY <1>0, <1>1, <2>1, <2>2 DEF SilenceInv
  <1> QED BY <1>4, <1>5, <1>6, <1>7, <1>8, <1>9 DEF IInv

\* The gateway fails; the user disconnects.
LEMMA WorldKeeps == ASSUME IInv, GatewayFails \/ UserStops PROVE IInv'
  <1>0. /\ TypeOK /\ PacketsFit /\ SupportIsTrue /\ KeepaliveInv /\ ProgressInv /\ SilenceInv
        /\ HealthyGatewayKept
    BY DEF IInv
  <1>1. /\ pc' = pc /\ why' = why /\ down' = down
        /\ phase' = phase /\ echo_outstanding' = echo_outstanding
        /\ echo_supported' = echo_supported /\ buf' = buf /\ tls' = tls /\ sock' = sock
        /\ last_echo' = last_echo /\ last_progress' = last_progress /\ started' = started
        /\ unnoticed' = unnoticed
    BY DEF GatewayFails, UserStops, linkVars, queueVars, clockVars, gatewayVars
  <1>2. CASE UserStops
    <2>1. gateway' = gateway /\ answers_echo' = answers_echo /\ reads' = reads
      BY <1>2 DEF UserStops, gatewayVars
    <2>2. TypeOK' /\ PacketsFit' /\ SupportIsTrue' /\ HealthyGatewayKept'
      BY <1>0, <1>1, <2>1 DEF TypeOK, PacketsFit, SupportIsTrue, HealthyGatewayKept
    <2>3. ToSend(buf)' = ToSend(buf) /\ Ahead' = Ahead /\ Waited' = Waited /\ Probed' = Probed
      BY <1>1, <2>1 DEF ToSend, Sealed, Ahead, Waited, Probed
    <2>4. KeepaliveInv'
      BY <1>0, <1>1, <2>1, <2>3 DEF KeepaliveInv
    <2>5. ProgressInv'
      BY <1>0, <1>1, <2>1 DEF ProgressInv
    <2>6. SilenceInv'
      BY <1>0, <1>1, <2>1, <2>3 DEF SilenceInv
    <2> QED BY <2>2, <2>4, <2>5, <2>6 DEF IInv
  <1>3. CASE GatewayFails
    <2>1. /\ gateway = "alive" /\ gateway' # "alive" /\ answers_echo' \in BOOLEAN
          /\ reads' \in BOOLEAN
      BY <1>3 DEF GatewayFails
    <2>2. TypeOK' /\ PacketsFit'
      BY <1>0, <1>1, <2>1 DEF TypeOK, PacketsFit
    <2>3. SupportIsTrue' /\ KeepaliveInv' /\ ProgressInv' /\ HealthyGatewayKept'
      BY <2>1 DEF SupportIsTrue, KeepaliveInv, ProgressInv, HealthyGatewayKept
    <2>4. SilenceInv'
      <3>1. unnoticed = 0
        BY <1>0, <2>1 DEF SilenceInv, TypeOK
      <3>2. Waited' = Waited
        BY <1>1 DEF Waited
      <3> QED BY <1>0, <1>1, <3>1, <3>2 DEF SilenceInv
    <2> QED BY <2>2, <2>3, <2>4 DEF IInv
  <1> QED BY <1>2, <1>3

-----------------------------------------------------------------------------
(* The theorems. *)

\* The inductive invariant of the relay loop holds throughout.
THEOREM InvariantHolds == RelaySpec => []IInv
  <1>1. RelayInit => IInv
    <2> SUFFICES ASSUME RelayInit PROVE IInv
      OBVIOUS
    <2>1. /\ pc = "top" /\ why = "running" /\ phase = "Negotiating" /\ echo_outstanding = 0
          /\ ~echo_supported /\ echo_supported \in BOOLEAN
          /\ buf = <<>> /\ tls = <<>> /\ sock = <<"frame">> /\ down = <<>>
          /\ last_echo = 0 /\ last_progress = 0 /\ started = 0
          /\ answers_echo \in BOOLEAN /\ reads \in BOOLEAN /\ unnoticed = 0
      BY DEF RelayInit
    <2>2. TypeOK
      <3>1. "frame" \in OnTheWay
        BY DEF OnTheWay
      <3>2. sock \in Seq(OnTheWay) /\ Len(sock) = 1
        BY <2>1, <3>1
      <3>3. <<>> \in Seq(OurFrames) /\ <<>> \in Seq(OnTheWay) /\ <<>> \in Seq(TheirFrames)
            /\ Len(<<>>) = 0
        OBVIOUS
      <3> QED BY <2>1, <3>2, <3>3, Sizes DEF TypeOK
    <2>3. PacketsFit /\ SupportIsTrue /\ KeepaliveInv /\ ProgressInv
      BY <2>1 DEF PacketsFit, SupportIsTrue, KeepaliveInv, ProgressInv
    <2>4. SilenceInv /\ HealthyGatewayKept
      BY <2>1, Sizes DEF SilenceInv, HealthyGatewayKept
    <2> QED BY <2>2, <2>3, <2>4 DEF IInv
  <1>2. IInv /\ [RelayNext]_relayVars => IInv'
    <2> SUFFICES ASSUME IInv, [RelayNext]_relayVars PROVE IInv'
      OBVIOUS
    <2>1. CASE Endings
      BY <2>1, EndingsKeep
    <2>2. CASE Receives \/ NothingReceived
      BY <2>2, ReceivesKeeps, NothingReceivedKeeps
    <2>3. CASE NoTraffic \/ ForwardsTraffic \/ KeepsAlive
      BY <2>3, TrafficKeeps, KeepsAliveKeeps
    <2>4. CASE Tick
      BY <2>4, TickKeeps
    <2>5. CASE UserStops \/ GatewayFails
      BY <2>5, WorldKeeps
    <2>6. CASE GatewayTakes
      BY <2>6, TakesKeeps
    <2>7. CASE \E f \in {"up", "ask", "term"} : GatewaySends(f)
      BY <2>7, SendsKeeps
    <2>8. CASE UNCHANGED relayVars
      <3>1. /\ pc' = pc /\ why' = why /\ down' = down
            /\ phase' = phase /\ echo_outstanding' = echo_outstanding
            /\ echo_supported' = echo_supported /\ buf' = buf /\ tls' = tls /\ sock' = sock
            /\ last_echo' = last_echo /\ last_progress' = last_progress /\ started' = started
            /\ unnoticed' = unnoticed
            /\ gateway' = gateway /\ answers_echo' = answers_echo /\ reads' = reads
        BY <2>8 DEF relayVars, linkVars, queueVars, clockVars, gatewayVars
      <3>2. TypeOK' = TypeOK /\ PacketsFit' = PacketsFit /\ SupportIsTrue' = SupportIsTrue
            /\ HealthyGatewayKept' = HealthyGatewayKept
        BY <3>1 DEF TypeOK, PacketsFit, SupportIsTrue, HealthyGatewayKept
      <3>3. ToSend(buf)' = ToSend(buf) /\ Ahead' = Ahead /\ Waited' = Waited /\ Probed' = Probed
        BY <3>1 DEF ToSend, Sealed, Ahead, Waited, Probed
      <3>4. KeepaliveInv' = KeepaliveInv /\ ProgressInv' = ProgressInv /\ SilenceInv' = SilenceInv
        BY <3>1, <3>3 DEF KeepaliveInv, ProgressInv, SilenceInv
      <3> QED BY <3>2, <3>4 DEF IInv
    <2> QED BY <2>1, <2>2, <2>3, <2>4, <2>5, <2>6, <2>7, <2>8 DEF RelayNext, Pass, Endings
  <1> QED BY <1>1, <1>2, PTL DEF RelaySpec

\* An alive gateway is not given up for keepalives that wait in a queue, for output that
\* waits for it, or for not answering echoes it never answered (run_relay's keepalive,
\* OutQueue::pump and PppState::send_echo_request), whatever the sizes of the buffers.
THEOREM HealthyGatewayIsKept == RelaySpec => []HealthyGatewayKept
  <1>1. IInv => HealthyGatewayKept
    BY DEF IInv
  <1> QED BY <1>1, InvariantHolds, PTL

\* A gateway that falls silent is given up in bounded time: the keepalives not answered,
\* the time since the last one and the time nothing has been written add up to the time
\* it has been silent.
THEOREM SilenceNoticed == RelaySpec => []SilenceIsNoticed
  <1>1. IInv => SilenceIsNoticed
    <2> SUFFICES ASSUME IInv PROVE unnoticed <= NoticeTicks
      BY DEF SilenceIsNoticed
    <2>0. TypeOK /\ SilenceInv
      BY DEF IInv
    <2> DEFINE C == EchoInterval + WriteStallTimeout + 1
    <2>1. /\ echo_outstanding \in Nat /\ echo_outstanding <= MaxEchoOutstanding
          /\ last_echo \in Nat /\ last_echo <= EchoInterval /\ last_progress \in Nat
          /\ last_progress <= WriteStallTimeout + 1
          /\ started \in Nat /\ unnoticed \in Nat /\ C \in Nat
          /\ EchoInterval \in Nat /\ WriteStallTimeout \in Nat /\ MaxEchoOutstanding \in Nat
      BY <2>0, Sizes DEF TypeOK
    <2>2. NoticeTicks = (MaxEchoOutstanding + 1) * C
      BY DEF NoticeTicks
    <2>3. CASE phase = "Network"
      <3> DEFINE d == IF last_echo = EchoInterval THEN last_progress ELSE 0
                 m == echo_outstanding * C
                 M == MaxEchoOutstanding * C
      <3>1. unnoticed <= m + last_echo + d
        BY <2>0, <2>3 DEF SilenceInv, Waited
      <3>2. last_echo + d <= C /\ d \in Nat
        BY <2>1
      <3>3. m \in Nat /\ M \in Nat /\ NoticeTicks = M + C
        BY <2>1, <2>2, Times
      <3>4. m <= M
        <4>1. PICK k \in Nat : MaxEchoOutstanding = echo_outstanding + k
          <5>1. /\ MaxEchoOutstanding - echo_outstanding \in Nat
                /\ MaxEchoOutstanding = echo_outstanding + (MaxEchoOutstanding - echo_outstanding)
            BY <2>1
          <5> QED BY <5>1
        <4>2. M = m + k * C /\ k * C \in Nat
          <5> HIDE DEF C
          <5> QED BY <2>1, <4>1
        <4> HIDE DEF m, M
        <4> QED BY <3>3, <4>2
      <3> HIDE DEF m, M, d, C
      <3> QED BY <2>1, <3>1, <3>2, <3>3, <3>4
    <2>4. CASE phase # "Network"
      <3>1. unnoticed <= started /\ started <= NegotiationTimeout + 1
        BY <2>0, <2>1, <2>4, Sizes DEF SilenceInv
      <3>2. NegotiationTimeout < NoticeTicks /\ NegotiationTimeout \in Nat /\ NoticeTicks \in Nat
        <4>1. MaxEchoOutstanding + 1 \in Nat
          BY <2>1
        <4> QED BY <2>1, <2>2, <4>1, Times, RateAssumption, Sizes
      <3> QED BY <2>1, <3>1, <3>2
    <2> QED BY <2>3, <2>4
  <1> QED BY <1>1, InvariantHolds, PTL
\* Two sets have no more members together than one by one.
LEMMA Together ==
  ASSUME NEW A, IsFiniteSet(A), NEW B, IsFiniteSet(B)
  PROVE  IsFiniteSet(A \cup B) /\ Cardinality(A \cup B) <= Cardinality(A) + Cardinality(B)
  <1>1. /\ IsFiniteSet(A \cup B)
        /\ Cardinality(A \cup B) = Cardinality(A) + Cardinality(B) - Cardinality(A \cap B)
    BY FS_Union
  <1>2. IsFiniteSet(A \cap B)
    <2>1. A \cap B \in SUBSET A
      OBVIOUS
    <2> QED BY <2>1, FS_Subset
  <1>3. Cardinality(A) \in Nat /\ Cardinality(B) \in Nat /\ Cardinality(A \cap B) \in Nat
    BY <1>2, FS_CardinalityType
  <1> DEFINE c == Cardinality(A \cap B)
             u == Cardinality(A \cup B)
             a == Cardinality(A)
             b == Cardinality(B)
  <1>4. u = a + b - c /\ a \in Nat /\ b \in Nat /\ c \in Nat
    BY <1>1, <1>3
  <1> HIDE DEF a, b, c, u
  <1>5. u <= a + b
    BY ONLY <1>4
  <1> QED BY <1>1, <1>5 DEF a, b, u

\* The places of a sequence that hold a frame.
Places(s, f) == {i \in DOMAIN s : s[i] = f}

LEMMA PlacesAre ==
  ASSUME NEW S, NEW s \in Seq(S), NEW f
  PROVE  IsFiniteSet(Places(s, f)) /\ Count(s, f) = Cardinality(Places(s, f)) /\ Count(s, f) \in Nat
  <1>1. DOMAIN s = 1 .. Len(s) /\ 1 \in Int /\ Len(s) \in Int
    BY LenProperties
  <1>2. IsFiniteSet(DOMAIN s) /\ Places(s, f) \in SUBSET DOMAIN s
    BY <1>1, FS_Interval DEF Places
  <1>3. IsFiniteSet(Places(s, f))
    BY <1>2, FS_Subset
  <1>4. Count(s, f) = Cardinality(Places(s, f))
    BY DEF Count, Places
  <1> QED BY <1>3, <1>4, FS_CardinalityType

\* The queue holds the gateway's replies, keepalives and at most MaxQueued packets.
LEMMA QueueIs ==
  ASSUME TypeOK, PacketsFit
  PROVE  /\ Count(buf, "reply") \in Nat /\ Count(buf, "echo") \in Nat
         /\ Len(buf) <= Count(buf, "reply") + Count(buf, "echo") + MaxQueued
  <1>1. buf \in Seq(OurFrames) /\ DOMAIN buf = 1 .. Len(buf) /\ Len(buf) \in Nat /\ MaxQueued \in Nat
    BY LenProperties, Sizes DEF TypeOK
  <1> DEFINE R == Places(buf, "reply")
             E == Places(buf, "echo")
             P == 1 .. MaxQueued
  <1>2. /\ IsFiniteSet(R) /\ IsFiniteSet(E)
        /\ Count(buf, "reply") = Cardinality(R) /\ Count(buf, "echo") = Cardinality(E)
        /\ Count(buf, "reply") \in Nat /\ Count(buf, "echo") \in Nat
    BY <1>1, PlacesAre
  <1>3. IsFiniteSet(P) /\ Cardinality(P) = MaxQueued
    <2>1. 1 \in Int /\ MaxQueued \in Int
      BY <1>1
    <2>2. IsFiniteSet(P) /\ Cardinality(P) = IF 1 > MaxQueued THEN 0 ELSE MaxQueued - 1 + 1
      BY <2>1, FS_Interval
    <2> QED BY <1>1, <2>2
  <1>4. DOMAIN buf \subseteq (R \cup E) \cup P
    <2> SUFFICES ASSUME NEW i \in DOMAIN buf PROVE i \in (R \cup E) \cup P
      OBVIOUS
    <2>1. buf[i] \in OurFrames
      BY <1>1, ElementOfSeq
    <2>2. CASE buf[i] = "reply"
      BY <2>2 DEF Places
    <2>3. CASE buf[i] = "echo"
      BY <2>3 DEF Places
    <2>4. CASE buf[i] = "packet"
      <3>1. i <= MaxQueued
        BY <2>4 DEF PacketsFit
      <3> QED BY <1>1, <3>1
    <2> QED BY <2>1, <2>2, <2>3, <2>4 DEF OurFrames
  <1> HIDE DEF R, E, P
  <1>5. IsFiniteSet(R \cup E) /\ Cardinality(R \cup E) <= Cardinality(R) + Cardinality(E)
    BY <1>2, Together
  <1>6. /\ IsFiniteSet((R \cup E) \cup P)
        /\ Cardinality((R \cup E) \cup P) <= Cardinality(R \cup E) + Cardinality(P)
    BY <1>3, <1>5, Together
  <1>7. Cardinality(DOMAIN buf) <= Cardinality((R \cup E) \cup P)
    <2>1. DOMAIN buf \in SUBSET ((R \cup E) \cup P)
      BY <1>4
    <2> QED BY <1>6, <2>1, FS_Subset
  <1>8. Cardinality(DOMAIN buf) = Len(buf)
    <2>1. 1 \in Int /\ Len(buf) \in Int
      BY <1>1
    <2>2. Cardinality(1 .. Len(buf)) = IF 1 > Len(buf) THEN 0 ELSE Len(buf) - 1 + 1
      BY <2>1, FS_Interval
    <2> QED BY <1>1, <2>2
  <1>9. Cardinality(R \cup E) \in Nat /\ Cardinality((R \cup E) \cup P) \in Nat
    BY <1>5, <1>6, FS_CardinalityType
  <1> DEFINE u == Cardinality(R \cup E)
             v == Cardinality((R \cup E) \cup P)
  <1>10. /\ u \in Nat /\ v \in Nat /\ Len(buf) <= v /\ v <= u + MaxQueued
         /\ u <= Count(buf, "reply") + Count(buf, "echo")
    BY <1>2, <1>3, <1>5, <1>6, <1>7, <1>8, <1>9
  <1> HIDE DEF u, v
  <1>11. Len(buf) <= Count(buf, "reply") + Count(buf, "echo") + MaxQueued
    BY ONLY <1>1, <1>2, <1>10
  <1> QED BY <1>2, <1>11

\* The answers to a batch are no more than the frames that call for one.
LEMMA AnswersAre ==
  ASSUME TypeOK, NEW n \in 1 .. Len(down)
  PROVE  /\ Count(down, "ask") \in Nat /\ Count(down, "term") \in Nat
         /\ Batch(n).replies \in Nat
         /\ Batch(n).replies <= Count(down, "ask") + Count(down, "term")
  <1> DEFINE A == Places(down, "ask")
             T == Places(down, "term")
  <1>1. down \in Seq(TheirFrames) /\ DOMAIN down = 1 .. Len(down) /\ Len(down) \in Nat
    BY LenProperties DEF TypeOK
  <1>2. /\ IsFiniteSet(A) /\ IsFiniteSet(T)
        /\ Count(down, "ask") = Cardinality(A) /\ Count(down, "term") = Cardinality(T)
        /\ Count(down, "ask") \in Nat /\ Count(down, "term") \in Nat
    BY <1>1, PlacesAre
  <1>3. Asking(n) \in SUBSET (A \cup T)
    <2> SUFFICES ASSUME NEW i \in Asking(n) PROVE i \in A \cup T
      OBVIOUS
    <2>1. i \in 1 .. n /\ down[i] \in {"ask", "term"}
      BY DEF Asking
    <2>2. i \in DOMAIN down
      BY <1>1, <2>1
    <2> QED BY <2>1, <2>2 DEF Places
  <1> HIDE DEF A, T
  <1>4. IsFiniteSet(A \cup T) /\ Cardinality(A \cup T) <= Cardinality(A) + Cardinality(T)
    BY <1>2, Together
  <1>5. Cardinality(Asking(n)) <= Cardinality(A \cup T)
    BY <1>3, <1>4, FS_Subset
  <1>6. Batch(n) \in Links /\ HandledAll(Batch(n), n)
    BY BatchIs
  <1>7. Batch(n).replies \in Nat /\ Batch(n).replies <= Cardinality(Asking(n))
    <2> DEFINE link == Batch(n)
    <2>1. link \in Links /\ HandledAll(link, n)
      BY <1>6
    <2> HIDE DEF link
    <2>2. link.replies \in Nat /\ link.replies <= Cardinality(Asking(n))
      BY <2>1 DEF Links, HandledAll
    <2> QED BY <2>2 DEF link
  <1>8. Cardinality(A \cup T) \in Nat /\ Cardinality(Asking(n)) \in Nat
    <2>1. IsFiniteSet(Asking(n))
      BY <1>3, <1>4, FS_Subset
    <2> QED BY <1>4, <2>1, FS_CardinalityType
  <1> DEFINE r == Batch(n).replies
             x == Cardinality(Asking(n))
             y == Cardinality(A \cup T)
  <1>9. /\ r \in Nat /\ x \in Nat /\ y \in Nat /\ r <= x /\ x <= y
        /\ y <= Count(down, "ask") + Count(down, "term")
    BY <1>2, <1>4, <1>5, <1>7, <1>8
  <1> HIDE DEF r, x, y
  <1>10. r <= Count(down, "ask") + Count(down, "term")
    BY ONLY <1>2, <1>9
  <1> QED BY <1>2, <1>9, <1>10 DEF r

\* A step of the loop keeps it running without a reason, or ends it.
LEMMA EndOrGoOn == RelayNext => pc # "ended" /\ (why' = why \/ pc' = "ended")
  <1> SUFFICES ASSUME RelayNext PROVE pc # "ended" /\ (why' = why \/ pc' = "ended")
    OBVIOUS
  <1>1. CASE Endings
    BY <1>1 DEF Endings, Disconnects, NegotiationTimesOut, FloodEnds, LinkDies, SetupFails,
                SeesClose, StreamBreaks, KeepaliveFails, WriteStalls, Ends, AtTop, MayReceive,
                HasPackets
  <1>2. CASE Receives \/ NothingReceived
    BY <1>2 DEF Receives, NothingReceived, MayReceive, AtTop, GoesOn
  <1>3. CASE NoTraffic \/ ForwardsTraffic \/ KeepsAlive
    BY <1>3 DEF NoTraffic, ForwardsTraffic, KeepsAlive, Drains, GoesOn, HasPackets
  <1>4. CASE Tick
    BY <1>4 DEF Tick, GoesOn
  <1>5. CASE UserStops \/ GatewayFails \/ GatewayTakes
    BY <1>5 DEF UserStops, GatewayFails, GatewayTakes
  <1>6. CASE \E f \in {"up", "ask", "term"} : GatewaySends(f)
    BY <1>6 DEF GatewaySends
  <1> QED BY <1>1, <1>2, <1>3, <1>4, <1>5, <1>6 DEF RelayNext, Pass, Endings

\* As long as it runs there is no reason.
Unended == pc # "ended" => why = "running"

\* The hard cap of the output queue (MAX_OUT_BYTES, tunnel.rs) ends the tunnel only for
\* answers to a gateway that does not read them: the packets of the host leave room for
\* MaxOut - MaxQueued frames that are none of theirs.
THEOREM FloodOnlyOverflows == RelaySpec => OnlyAFloodOverflows
  <1>1. RelayInit => Unended
    BY DEF RelayInit, Unended
  <1>2. Unended /\ [RelayNext]_relayVars => Unended'
    <2>1. CASE RelayNext
      BY <2>1, EndOrGoOn DEF Unended
    <2>2. CASE UNCHANGED relayVars
      BY <2>2 DEF relayVars, Unended
    <2> QED BY <2>1, <2>2
  <1> DEFINE Flood == why' = "overflow" =>
       Count(buf, "reply") + Count(buf, "echo") + Count(down, "ask") + Count(down, "term")
         > MaxOut - MaxQueued
  <1>3. IInv /\ Unended /\ [RelayNext]_relayVars => [Flood]_relayVars
    <2> SUFFICES ASSUME IInv, Unended, RelayNext, why' = "overflow" PROVE Flood
      OBVIOUS
    <2>1. TypeOK /\ PacketsFit
      BY DEF IInv
    <2>2. pc # "ended" /\ why = "running"
      BY EndOrGoOn DEF Unended
    <2>3. FloodEnds
      BY <2>2 DEF RelayNext, Pass, Endings, Disconnects, NegotiationTimesOut, LinkDies, SetupFails,
                  SeesClose, StreamBreaks, KeepaliveFails, WriteStalls, Ends, Receives,
                  NothingReceived, NoTraffic, ForwardsTraffic, KeepsAlive, Drains, GoesOn, Tick,
                  UserStops, GatewayFails, GatewayTakes, GatewaySends
    <2>4. PICK n \in 1 .. Len(down) : Len(buf) + Batch(n).replies > MaxOut
      BY <2>3 DEF FloodEnds, QueueFull
    <2> DEFINE r == Batch(n).replies
               l == Len(buf)
               a == Count(buf, "reply")
               b == Count(buf, "echo")
               c == Count(down, "ask")
               d == Count(down, "term")
    <2>5. a \in Nat /\ b \in Nat /\ l <= a + b + MaxQueued
      BY <2>1, QueueIs
    <2>6. c \in Nat /\ d \in Nat /\ r \in Nat /\ r <= c + d
      BY <2>1, AnswersAre
    <2>7. l \in Nat /\ MaxOut \in Nat /\ MaxQueued \in Nat /\ l + r > MaxOut
      BY <2>1, <2>4, LenProperties, Sizes DEF TypeOK
    <2> HIDE DEF r, l, a, b, c, d
    <2>8. a + b + c + d > MaxOut - MaxQueued
      BY ONLY <2>5, <2>6, <2>7
    <2> QED BY <2>8 DEF a, b, c, d
  <1> QED BY <1>1, <1>2, <1>3, InvariantHolds, PTL DEF RelaySpec, OnlyAFloodOverflows
=============================================================================
