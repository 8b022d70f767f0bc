----------------------------- MODULE LoginProofs -----------------------------
(***************************************************************************)
(* Theorems about Login and the framing it ends in.  The framing: for      *)
(* every base, magic byte and payload, the reader takes out what the       *)
(* writer put in, whatever pieces it arrives in, and finds the first frame *)
(* behind noise.  The login: its safety properties hold for every timeout, *)
(* number of local clients, set of bodies, payloads and noise.             *)
(***************************************************************************)
EXTENDS Login, SequenceTheorems, DataInduction

(* The framing. *)

\* A length survives being written in two bytes.
LEMMA LengthRoundTrips ==
  ASSUME NEW n \in Nat
  PROVE  /\ n \div Base \in Nat /\ n % Base \in Nat
         /\ Value(n \div Base, n % Base) = n
  BY FramingAssumption DEF Value

\* The three parts of a buffer h, p, r can be cut out of it again.
LEMMA Parts ==
  ASSUME NEW h \in Seq(Nat), NEW p \in Seq(Nat), NEW r \in Seq(Nat)
  PROVE  /\ Len(h \o p \o r) = Len(h) + Len(p) + Len(r)
         /\ \A i \in 1 .. Len(h) : (h \o p \o r)[i] = h[i]
         /\ SubSeq(h \o p \o r, Len(h) + 1, Len(h) + Len(p)) = p
         /\ SubSeq(h \o p \o r, Len(h) + Len(p) + 1, Len(h \o p \o r)) = r
  <1> DEFINE hp == h \o p
             bytes == hp \o r
             cut == SubSeq(bytes, Len(h) + 1, Len(h) + Len(p))
             tail == SubSeq(bytes, Len(h) + Len(p) + 1, Len(bytes))
  <1>1. Len(h) \in Nat /\ Len(p) \in Nat /\ Len(r) \in Nat
    BY LenProperties
  <1>2. /\ hp \in Seq(Nat) /\ Len(hp) = Len(h) + Len(p)
        /\ \A i \in 1 .. Len(h) + Len(p) : hp[i] = IF i <= Len(h) THEN h[i] ELSE p[i - Len(h)]
    BY ConcatProperties
  <1> HIDE DEF hp
  <1>3. /\ bytes \in Seq(Nat) /\ Len(bytes) = Len(hp) + Len(r)
        /\ \A i \in 1 .. Len(hp) + Len(r) : bytes[i] = IF i <= Len(hp) THEN hp[i] ELSE r[i - Len(hp)]
    <2>1. hp \in Seq(Nat)
      BY <1>2
    <2> QED BY <2>1, ConcatProperties
  <1> HIDE DEF bytes
  <1>4. /\ Len(bytes) = Len(h) + Len(p) + Len(r)
        /\ \A i \in 1 .. Len(h) : bytes[i] = h[i]
        /\ \A i \in 1 .. Len(p) : bytes[Len(h) + 1 + i - 1] = p[i]
        /\ \A i \in 1 .. Len(r) : bytes[Len(h) + Len(p) + 1 + i - 1] = r[i]
    <2>1. Len(bytes) = Len(h) + Len(p) + Len(r)
      BY <1>1, <1>2, <1>3
    <2>2. ASSUME NEW i \in 1 .. Len(h)
          PROVE  bytes[i] = h[i]
      <3>1. i \in 1 .. Len(h) + Len(p) /\ i <= Len(h) /\ i \in 1 .. Len(hp) + Len(r) /\ i <= Len(hp)
        BY <1>1, <1>2
      <3> QED BY <1>2, <1>3, <3>1
    <2>3. ASSUME NEW i \in 1 .. Len(p)
          PROVE  bytes[Len(h) + 1 + i - 1] = p[i]
      <3>1. /\ Len(h) + 1 + i - 1 = Len(h) + i /\ Len(h) + i \in 1 .. Len(h) + Len(p)
            /\ ~(Len(h) + i <= Len(h)) /\ (Len(h) + i) - Len(h) = i
            /\ Len(h) + i <= Len(hp) /\ Len(h) + i \in 1 .. Len(hp) + Len(r)
        BY <1>1, <1>2
      <3> QED BY <1>2, <1>3, <3>1
    <2>4. ASSUME NEW i \in 1 .. Len(r)
          PROVE  bytes[Len(h) + Len(p) + 1 + i - 1] = r[i]
      <3>1. /\ Len(h) + Len(p) + 1 + i - 1 = Len(hp) + i /\ Len(hp) + i \in 1 .. Len(hp) + Len(r)
            /\ ~(Len(hp) + i <= Len(hp)) /\ (Len(hp) + i) - Len(hp) = i
        BY <1>1, <1>2
      <3> QED BY <1>3, <3>1
    <2> QED BY <2>1, <2>2, <2>3, <2>4
  <1>5. \A i \in 1 .. Len(bytes) : bytes[i] \in Nat
    BY <1>3, ElementOfSeq
  <1>6. cut = p
    <2>1. /\ cut \in Seq(Nat)
          /\ Len(cut) = IF Len(h) + 1 <= Len(h) + Len(p)
                          THEN (Len(h) + Len(p)) - (Len(h) + 1) + 1 ELSE 0
          /\ \A i \in 1 .. (Len(h) + Len(p)) - (Len(h) + 1) + 1 : cut[i] = bytes[Len(h) + 1 + i - 1]
      <3>1. \A i \in Len(h) + 1 .. Len(h) + Len(p) : bytes[i] \in Nat
        BY <1>1, <1>4, <1>5
      <3>2. Len(h) + 1 \in Int /\ Len(h) + Len(p) \in Int
        BY <1>1
      <3> QED BY <3>1, <3>2, SubSeqProperties
    <2> HIDE DEF cut
    <2>2. Len(cut) = Len(p) /\ \A i \in 1 .. Len(p) : cut[i] = p[i]
      BY <1>1, <1>4, <2>1
    <2> QED BY <2>1, <2>2, SeqEqual
  <1>7. tail = r
    <2>1. /\ tail \in Seq(Nat)
          /\ Len(tail) = IF Len(h) + Len(p) + 1 <= Len(bytes)
                           THEN Len(bytes) - (Len(h) + Len(p) + 1) + 1 ELSE 0
          /\ \A i \in 1 .. Len(bytes) - (Len(h) + Len(p) + 1) + 1 :
               tail[i] = bytes[Len(h) + Len(p) + 1 + i - 1]
      <3>1. \A i \in Len(h) + Len(p) + 1 .. Len(bytes) : bytes[i] \in Nat
        BY <1>1, <1>5
      <3>2. Len(h) + Len(p) + 1 \in Int /\ Len(bytes) \in Int
        BY <1>1, <1>4
      <3> QED BY <3>1, <3>2, SubSeqProperties
    <2> HIDE DEF tail
    <2>2. Len(tail) = Len(r) /\ \A i \in 1 .. Len(r) : tail[i] = r[i]
      BY <1>1, <1>4, <2>1
    <2> QED BY <2>1, <2>2, SeqEqual
  <1> QED BY <1>4, <1>6, <1>7 DEF bytes, hp

\* The last of them, as a fact of its own.
LEMMA LastPart ==
  ASSUME NEW h \in Seq(Nat), NEW p \in Seq(Nat), NEW r \in Seq(Nat)
  PROVE  SubSeq(h \o p \o r, Len(h) + Len(p) + 1, Len(h \o p \o r)) = r
  BY Parts, SMT

\* What pop_frame makes of a buffer that starts with a header and its payload.
LEMMA PopsPayload ==
  ASSUME NEW head \in Seq(Nat), NEW ppp \in Seq(Nat), NEW rest \in Seq(Nat), Len(ppp) >= 1,
         NEW bytes, bytes = head \o ppp \o rest, Len(head) = HeaderLen,
         head[3] = Magic, head[4] = Magic,
         Value(head[1], head[2]) = Len(ppp) + HeaderLen, Value(head[5], head[6]) = Len(ppp)
  PROVE  GoodHeader(bytes) /\ ~NeedsMore(bytes) /\ Popped(bytes) = ppp /\ Rest(bytes) = rest
  <1>1. Len(ppp) \in Nat /\ Len(rest) \in Nat
    BY LenProperties
  <1>2. Len(bytes) = HeaderLen + Len(ppp) + Len(rest)
    BY Parts
  <1>a. SubSeq(bytes, HeaderLen + 1, HeaderLen + Len(ppp)) = ppp
    <2>1. SubSeq(head \o ppp \o rest, Len(head) + 1, Len(head) + Len(ppp)) = ppp
      BY Parts, ZenonT(60)
    <2> QED BY <2>1
  <1>b. SubSeq(bytes, HeaderLen + Len(ppp) + 1, Len(bytes)) = rest
    <2>1. SubSeq(head \o ppp \o rest, Len(head) + Len(ppp) + 1, Len(head \o ppp \o rest)) = rest
      BY LastPart
    <2> QED BY <2>1
  <1>3. /\ bytes[1] = head[1] /\ bytes[2] = head[2] /\ bytes[3] = head[3]
        /\ bytes[4] = head[4] /\ bytes[5] = head[5] /\ bytes[6] = head[6]
    <2>1. \A i \in 1 .. Len(head) : bytes[i] = head[i]
      BY Parts
    <2>2. 1 .. Len(head) = {1, 2, 3, 4, 5, 6}
      BY DEF HeaderLen
    <2> QED BY <2>1, <2>2
  <1>4. HeaderTotal(bytes) = Len(ppp) + HeaderLen /\ HeaderSize(bytes) = Len(ppp)
    BY <1>3 DEF HeaderTotal, HeaderSize
  <1>5. GoodHeader(bytes)
    BY <1>1, <1>3, <1>4 DEF GoodHeader, HeaderLen
  <1>6. ~NeedsMore(bytes)
    <2>1. ~(Len(bytes) < HeaderLen) /\ ~(Len(bytes) < HeaderLen + Len(ppp))
      BY <1>1, <1>2, SMTT(30) DEF HeaderLen
    <2> QED BY <1>4, <2>1 DEF NeedsMore
  <1>7. Popped(bytes) = ppp /\ Rest(bytes) = rest
    <2>1. Popped(bytes) = SubSeq(bytes, HeaderLen + 1, HeaderLen + Len(ppp))
      BY <1>4, <1>5 DEF Popped
    <2>2. Rest(bytes) = SubSeq(bytes, HeaderLen + Len(ppp) + 1, Len(bytes))
      BY <1>4, <1>5 DEF Rest, Consumed
    <2> QED BY <1>a, <1>b, <2>1, <2>2
  <1> QED BY <1>5, <1>6, <1>7

\* pop_frame takes exactly the frame that frame_raw wrote at the front of the stream,
\* and leaves what follows it: it asks for no more input and skips nothing.
THEOREM PopsWhatWasFramed ==
  ASSUME NEW ppp \in Seq(Nat), NEW rest \in Seq(Nat), Len(ppp) >= 1
  PROVE  LET bytes == FrameRaw(ppp) \o rest
         IN  GoodHeader(bytes) /\ ~NeedsMore(bytes) /\ Popped(bytes) = ppp /\ Rest(bytes) = rest
  <1> DEFINE n == Len(ppp)
             t == n + HeaderLen
             header == <<t \div Base, t % Base, Magic, Magic, n \div Base, n % Base>>
  <1>1. n \in Nat /\ t \in Nat
    BY LenProperties DEF HeaderLen
  <1>2. Magic \in Nat
    BY FramingAssumption
  <1>3. /\ t \div Base \in Nat /\ t % Base \in Nat /\ Value(t \div Base, t % Base) = t
        /\ n \div Base \in Nat /\ n % Base \in Nat /\ Value(n \div Base, n % Base) = n
    BY <1>1, LengthRoundTrips
  <1>4. PICK head : head = header
    OBVIOUS
  <1>5. head \in Seq(Nat) /\ Len(head) = HeaderLen
    BY <1>2, <1>3, <1>4 DEF HeaderLen
  <1>6. /\ head[1] = t \div Base /\ head[2] = t % Base /\ head[3] = Magic /\ head[4] = Magic
        /\ head[5] = n \div Base /\ head[6] = n % Base
    BY <1>4
  <1>7. FrameRaw(ppp) = head \o ppp
    BY <1>4 DEF FrameRaw, Written
  <1>8. Value(head[1], head[2]) = Len(ppp) + HeaderLen /\ Value(head[5], head[6]) = Len(ppp)
    BY <1>3, <1>6
  <1> QED BY <1>5, <1>6, <1>7, <1>8, PopsPayload

-----------------------------------------------------------------------------
(* The loop around pop_frame. *)

\* A length is a number.
LEMMA ValueIs ==
  ASSUME NEW x \in Nat, NEW y \in Nat
  PROVE  Value(x, y) \in Nat /\ Value(x, y) = Value(x, 0) + y
  <1>1. Base \in Nat
    BY FramingAssumption
  <1>2. x * Base \in Nat
    BY <1>1
  <1>3. x * Base + y \in Nat /\ x * Base + y = (x * Base + 0) + y
    BY <1>2
  <1> QED BY <1>3 DEF Value

\* What is popped and what is left of a buffer are parts of it, and each turn
\* consumes something.
LEMMA TurnIs ==
  ASSUME NEW bytes \in Seq(Bytes), ~NeedsMore(bytes)
  PROVE  /\ Consumed(bytes) \in 1 .. Len(bytes)
         /\ Rest(bytes) \in Seq(Bytes) /\ Len(Rest(bytes)) = Len(bytes) - Consumed(bytes)
         /\ \A i \in 1 .. Len(Rest(bytes)) : Rest(bytes)[i] = bytes[Consumed(bytes) + i]
         /\ Popped(bytes) \in Seq(Bytes)
         /\ GoodHeader(bytes) => Len(Popped(bytes)) = HeaderSize(bytes)
         /\ GoodHeader(bytes) =>
              \A i \in 1 .. HeaderSize(bytes) : Popped(bytes)[i] = bytes[HeaderLen + i]
  <1>1. Len(bytes) \in Nat /\ Len(bytes) >= HeaderLen /\ HeaderLen = 6
    BY DEF NeedsMore, HeaderLen
  <1>2. Bytes \subseteq Nat
    BY FramingAssumption DEF Bytes
  <1>3. bytes[5] \in Nat /\ bytes[6] \in Nat
    <2>1. \A i \in 1 .. Len(bytes) : bytes[i] \in Bytes
      OBVIOUS
    <2>2. 5 \in 1 .. Len(bytes) /\ 6 \in 1 .. Len(bytes)
      BY <1>1
    <2> QED BY <1>2, <2>1, <2>2
  <1>4. HeaderSize(bytes) \in Nat
    BY <1>3, ValueIs DEF HeaderSize
  <1>5. Consumed(bytes) \in 1 .. Len(bytes)
    BY <1>1, <1>4 DEF Consumed, NeedsMore, SkipsByte
  <1> DEFINE c == Consumed(bytes)
             h == HeaderSize(bytes)
  <1>6. /\ SubSeq(bytes, c + 1, Len(bytes)) \in Seq(Bytes)
        /\ Len(SubSeq(bytes, c + 1, Len(bytes))) = Len(bytes) - c
        /\ \A i \in 1 .. Len(bytes) - c : SubSeq(bytes, c + 1, Len(bytes))[i] = bytes[c + i]
    <2> HIDE DEF c
    <2> QED BY <1>1, <1>5 DEF c
  <1>7. Rest(bytes) = SubSeq(bytes, c + 1, Len(bytes))
    BY DEF Rest
  <1>8. CASE GoodHeader(bytes)
    <2>1. HeaderLen + h <= Len(bytes)
      BY <1>1, <1>4, <1>8 DEF NeedsMore
    <2>2. Popped(bytes) = SubSeq(bytes, HeaderLen + 1, HeaderLen + h)
      BY <1>8 DEF Popped
    <2> HIDE DEF h
    <2>3. /\ SubSeq(bytes, 6 + 1, 6 + h) \in Seq(Bytes)
          /\ Len(SubSeq(bytes, 6 + 1, 6 + h)) = h
          /\ \A i \in 1 .. h : SubSeq(bytes, 6 + 1, 6 + h)[i] = bytes[6 + i]
      BY <1>1, <1>4, <2>1 DEF h
    <2> QED BY <1>1, <1>5, <1>6, <1>7, <2>2, <2>3 DEF h
  <1>9. CASE ~GoodHeader(bytes)
    BY <1>5, <1>6, <1>7, <1>9 DEF Popped
  <1> QED BY <1>8, <1>9

\* The recursion of Left, unfolded.
LEMMA LeftIs ==
  /\ \A bytes \in Seq(Bytes) : NeedsMore(bytes) => Left[bytes] = bytes
  /\ \A bytes \in Seq(Bytes) : ~NeedsMore(bytes) => Left[bytes] = Left[Rest(bytes)]
  <1> DEFINE D == Seq(Bytes)
             on == {b \in D : ~NeedsMore(b)}
             size == [b \in D |-> Len(b)]
             next == [b \in on |-> Rest(b)]
             base == [b \in D |-> b]
             turn == [b \in D |-> [v \in D |-> v]]
             Is(f) == f = [b \in D |-> IF NeedsMore(b) THEN b ELSE f[Rest(b)]]
  <1>1. Smaller(D, size, next, on)
    <2>1. size \in [D -> Nat]
      OBVIOUS
    <2>2. ASSUME NEW b \in on PROVE next[b] \in D /\ size[next[b]] < size[b]
      <3>1. b \in D /\ ~NeedsMore(b) /\ next[b] = Rest(b) /\ Len(b) \in Nat
        OBVIOUS
      <3>2. Rest(b) \in D /\ Len(Rest(b)) < Len(b)
        BY <3>1, TurnIs
      <3> QED BY <3>1, <3>2
    <2> QED BY <2>1, <2>2 DEF Smaller
  <1>2. base \in [D -> D] /\ turn \in [D -> [D -> D]] /\ on \subseteq D
    OBVIOUS
  <1>3. PICK f : Recursive(D, D, base, turn, next, on, f)
    <2> HIDE DEF D, on, size, next, base, turn
    <2> QED BY <1>1, <1>2, Recursion
  <1>4. f \in [D -> D] /\ \A b \in D : f[b] = IF NeedsMore(b) THEN b ELSE f[Rest(b)]
    <2>1. f \in [D -> D] /\ \A b \in D : f[b] = Rule(base, turn, next, on, f, b)
      BY <1>3 DEF Recursive
    <2>2. ASSUME NEW b \in D PROVE f[b] = IF NeedsMore(b) THEN b ELSE f[Rest(b)]
      <3>1. CASE NeedsMore(b)
        BY <2>1, <3>1 DEF Rule
      <3>2. CASE ~NeedsMore(b)
        <4>1. b \in on /\ next[b] = Rest(b) /\ Rest(b) \in D
          BY <3>2, TurnIs
        <4>2. f[Rest(b)] \in D
          BY <2>1, <4>1
        <4> QED BY <2>1, <3>2, <4>1, <4>2 DEF Rule
      <3> QED BY <3>1, <3>2
    <2> QED BY <2>1, <2>2
  <1>5. Is(f)
    <2> HIDE DEF D
    <2>1. f = [b \in D |-> f[b]]
      BY <1>4
    <2> QED BY <1>4, <2>1
  <1>6. Left = CHOOSE g : Is(g)
    BY DEF Left
  <1>7. Is(Left)
    <2> HIDE DEF Is
    <2> QED BY <1>5, <1>6
  <1> HIDE DEF D
  <1>8. \A b \in D : Left[b] = IF NeedsMore(b) THEN b ELSE Left[Rest(b)]
    BY <1>7
  <1> QED BY <1>8 DEF D

\* The recursion of Frames, unfolded.
LEMMA FramesIs ==
  /\ \A bytes \in Seq(Bytes) : Frames[bytes] \in Seq(Seq(Bytes))
  /\ \A bytes \in Seq(Bytes) : NeedsMore(bytes) => Frames[bytes] = <<>>
  /\ \A bytes \in Seq(Bytes) :
       ~NeedsMore(bytes) => Frames[bytes] = Worthy(Popped(bytes)) \o Frames[Rest(bytes)]
  <1> DEFINE D == Seq(Bytes)
             V == Seq(D)
             on == {b \in D : ~NeedsMore(b)}
             size == [b \in D |-> Len(b)]
             next == [b \in on |-> Rest(b)]
             base == [b \in D |-> <<>>]
             Now(b) == IF NeedsMore(b) THEN <<>> ELSE Worthy(Popped(b))
             turn == [b \in D |-> [v \in V |-> Now(b) \o v]]
             Is(f) == f = [b \in D |-> IF NeedsMore(b) THEN <<>> ELSE Worthy(Popped(b)) \o f[Rest(b)]]
  <1>1. Smaller(D, size, next, on)
    <2>1. size \in [D -> Nat]
      OBVIOUS
    <2>2. ASSUME NEW b \in on PROVE next[b] \in D /\ size[next[b]] < size[b]
      <3>1. b \in D /\ ~NeedsMore(b) /\ next[b] = Rest(b) /\ Len(b) \in Nat
        OBVIOUS
      <3>2. Rest(b) \in D /\ Len(Rest(b)) < Len(b)
        BY <3>1, TurnIs
      <3> QED BY <3>1, <3>2
    <2> QED BY <2>1, <2>2 DEF Smaller
  <1>2. base \in [D -> V] /\ turn \in [D -> [V -> V]] /\ on \subseteq D
    <2>1. \A b \in D : Now(b) \in V
      <3> TAKE b \in D
      <3>1. ~NeedsMore(b) => Popped(b) \in D
        BY TurnIs
      <3> HIDE DEF D
      <3> QED BY <3>1 DEF Worthy
    <2> HIDE DEF Now, D
    <2>2. \A b \in D : \A v \in V : Now(b) \o v \in V
      BY <2>1
    <2>3. turn \in [D -> [V -> V]]
      BY <2>2
    <2>4. base \in [D -> V]
      OBVIOUS
    <2> QED BY <2>3, <2>4
  <1>3. PICK f : Recursive(D, V, base, turn, next, on, f)
    <2> HIDE DEF D, V, on, size, next, base, turn
    <2> QED BY <1>1, <1>2, Recursion
  <1>4. f \in [D -> V]
        /\ \A b \in D : f[b] = IF NeedsMore(b) THEN <<>> ELSE Worthy(Popped(b)) \o f[Rest(b)]
    <2>1. f \in [D -> V] /\ \A b \in D : f[b] = Rule(base, turn, next, on, f, b)
      BY <1>3 DEF Recursive
    <2>2. ASSUME NEW b \in D
          PROVE  f[b] = IF NeedsMore(b) THEN <<>> ELSE Worthy(Popped(b)) \o f[Rest(b)]
      <3>1. CASE NeedsMore(b)
        BY <2>1, <3>1 DEF Rule
      <3>2. CASE ~NeedsMore(b)
        <4>1. b \in on /\ next[b] = Rest(b) /\ Rest(b) \in D
          BY <3>2, TurnIs
        <4>2. f[Rest(b)] \in V
          BY <2>1, <4>1
        <4>3. f[b] = turn[b][f[Rest(b)]]
          BY <2>1, <4>1 DEF Rule
        <4>4. turn[b][f[Rest(b)]] = Now(b) \o f[Rest(b)]
          BY <4>2
        <4> QED BY <3>2, <4>3, <4>4
      <3> QED BY <3>1, <3>2
    <2> QED BY <2>1, <2>2
  <1>5. Is(f)
    <2> HIDE DEF D, V
    <2>1. f = [b \in D |-> f[b]]
      BY <1>4
    <2> QED BY <1>4, <2>1
  <1>6. Frames = CHOOSE g : Is(g)
    BY DEF Frames
  <1>7. Is(Frames)
    <2> HIDE DEF Is
    <2> QED BY <1>5, <1>6
  <1> HIDE DEF D
  <1>8. \A b \in D : Frames[b] = IF NeedsMore(b) THEN <<>> ELSE Worthy(Popped(b)) \o Frames[Rest(b)]
    BY <1>7
  <1>9. \A b \in D : Frames[b] \in V
    <2> DEFINE T == {n \in Nat : \A b \in D : Len(b) < n => Frames[b] \in V}
    <2>1. \A b \in D : Len(b) \in Nat /\ (NeedsMore(b) \/ Now(b) \in V)
      <3> TAKE b \in D
      <3>1. ~NeedsMore(b) => Popped(b) \in D
        BY TurnIs DEF D
      <3>2. Len(b) \in Nat
        BY DEF D
      <3> QED BY <3>1, <3>2 DEF Worthy
    <2>2. \A b \in D : ~NeedsMore(b) => Rest(b) \in D /\ Len(Rest(b)) < Len(b)
      <3> TAKE b \in D
      <3> HAVE ~NeedsMore(b)
      <3>1. Rest(b) \in D /\ Len(Rest(b)) = Len(b) - Consumed(b) /\ Consumed(b) \in 1 .. Len(b)
        BY TurnIs DEF D
      <3>2. Len(b) \in Nat
        BY DEF D
      <3> QED BY <3>1, <3>2
    <2>3. 0 \in T
      BY <2>1
    <2>4. \A n \in Nat : n \in T => n + 1 \in T
      <3> SUFFICES ASSUME NEW n \in Nat, n \in T, NEW b \in D, Len(b) < n + 1
                   PROVE  Frames[b] \in V
        OBVIOUS
      <3>0. <<>> \in V
        OBVIOUS
      <3>1. CASE NeedsMore(b)
        <4>1. Frames[b] = <<>>
          BY <1>8, <3>1
        <4> QED BY <3>0, <4>1
      <3>2. CASE ~NeedsMore(b)
        <4>1. Frames[b] = Now(b) \o Frames[Rest(b)] /\ Now(b) \in V
          BY <1>8, <2>1, <3>2
        <4>2. Frames[Rest(b)] \in V
          BY <2>1, <2>2, <3>2
        <4> HIDE DEF Now
        <4> QED BY <4>1, <4>2
      <3> QED BY <3>1, <3>2
    <2> HIDE DEF T
    <2>5. \A n \in Nat : n \in T
      BY <2>3, <2>4, Induction
    <2>6. \A b \in D : Len(b) + 1 \in Nat /\ Len(b) < Len(b) + 1
      BY <2>1
    <2> QED BY <2>5, <2>6 DEF T
  <1> QED BY <1>8, <1>9 DEF D

\* A turn does not depend on what comes after the frame.
LEMMA TurnExtends ==
  ASSUME NEW a \in Seq(Bytes), NEW b \in Seq(Bytes), ~NeedsMore(a)
  PROVE  /\ ~NeedsMore(a \o b) /\ Popped(a \o b) = Popped(a) /\ Rest(a \o b) = Rest(a) \o b
  <1> DEFINE c == a \o b
  <1>1. /\ c \in Seq(Bytes) /\ Len(c) = Len(a) + Len(b) /\ Len(a) \in Nat /\ Len(b) \in Nat
        /\ \A i \in 1 .. Len(a) : c[i] = a[i]
        /\ \A i \in 1 .. Len(b) : c[Len(a) + i] = b[i]
    OBVIOUS
  <1> HIDE DEF c
  <1>2. Len(a) >= 6
    BY <1>1 DEF NeedsMore, HeaderLen
  <1>3. c[1] = a[1] /\ c[2] = a[2] /\ c[3] = a[3] /\ c[4] = a[4] /\ c[5] = a[5] /\ c[6] = a[6]
    BY <1>1, <1>2
  <1>4. HeaderSize(c) = HeaderSize(a) /\ (GoodHeader(c) <=> GoodHeader(a))
    BY <1>3 DEF HeaderSize, HeaderTotal, GoodHeader
  <1>5. HeaderSize(a) \in Nat
    <2>1. Bytes \subseteq Nat
      BY FramingAssumption DEF Bytes
    <2>2. 5 \in 1 .. Len(a) /\ 6 \in 1 .. Len(a)
      BY <1>1, <1>2
    <2>3. a[5] \in Bytes /\ a[6] \in Bytes
      BY <2>2
    <2> QED BY <2>1, <2>3, ValueIs DEF HeaderSize
  <1>6. ~NeedsMore(c)
    BY <1>1, <1>2, <1>4, <1>5 DEF NeedsMore, HeaderLen
  <1>7. Consumed(c) = Consumed(a)
    BY <1>4 DEF Consumed
  <1> DEFINE k == Consumed(a)
             ra == Rest(a)
             rc == Rest(c)
  <1>8. /\ k \in 1 .. Len(a)
        /\ ra \in Seq(Bytes) /\ Len(ra) = Len(a) - k
        /\ \A i \in 1 .. Len(ra) : ra[i] = a[k + i]
    BY TurnIs
  <1>9. /\ rc \in Seq(Bytes) /\ Len(rc) = Len(c) - k
        /\ \A i \in 1 .. Len(rc) : rc[i] = c[k + i]
    BY <1>1, <1>6, <1>7, TurnIs, SMTT(30)
  <1>10. rc = ra \o b
    <2> HIDE DEF k, ra, rc
    <2> DEFINE rb == ra \o b
    <2>1. /\ rb \in Seq(Bytes) /\ Len(rb) = Len(ra) + Len(b)
          /\ \A i \in 1 .. Len(ra) : rb[i] = ra[i]
          /\ \A i \in 1 .. Len(b) : rb[Len(ra) + i] = b[i]
      <3>1. ra \in Seq(Bytes)
        BY <1>8
      <3> QED BY ONLY <3>1, b \in Seq(Bytes)
    <2> HIDE DEF rb
    <2>2. Len(rc) = Len(rb)
      BY <1>1, <1>8, <1>9, <2>1
    <2>3. ASSUME NEW i \in 1 .. Len(rc) PROVE rc[i] = rb[i]
      <3>1. rc[i] = c[k + i] /\ i \in Nat /\ k \in Nat
        BY <1>8, <1>9
      <3>2. CASE i <= Len(ra)
        <4>1. k + i \in 1 .. Len(a) /\ i \in 1 .. Len(ra)
          BY <1>1, <1>8, <3>1, <3>2
        <4> QED BY <1>1, <1>8, <2>1, <3>1, <4>1
      <3>3. CASE ~(i <= Len(ra))
        <4>1. /\ i - Len(ra) \in 1 .. Len(b)
              /\ k + i = Len(a) + (i - Len(ra)) /\ i = Len(ra) + (i - Len(ra))
          BY <1>1, <1>8, <1>9, <3>1, <3>3
        <4>2. c[k + i] = b[i - Len(ra)]
          BY <1>1, <4>1
        <4>3. rb[i] = b[i - Len(ra)]
          BY <2>1, <4>1
        <4> QED BY <3>1, <4>2, <4>3
      <3> QED BY <3>2, <3>3
    <2>4. rc = rb
      BY <1>9, <2>1, <2>2, <2>3, SeqEqual
    <2> QED BY <2>4 DEF rb
  <1>11. Popped(c) = Popped(a)
    <2>1. CASE ~GoodHeader(a)
      BY <1>4, <2>1 DEF Popped
    <2>2. CASE GoodHeader(a)
      <3> DEFINE h == HeaderSize(a)
                 pv == Popped(a)
                 pw == Popped(c)
      <3>1. /\ pv \in Seq(Bytes) /\ Len(pv) = h
            /\ \A i \in 1 .. h : pv[i] = a[6 + i]
        BY <2>2, TurnIs DEF HeaderLen
      <3>2. /\ pw \in Seq(Bytes) /\ Len(pw) = h
            /\ \A i \in 1 .. h : pw[i] = c[6 + i]
        BY <1>1, <1>4, <1>6, <2>2, TurnIs DEF HeaderLen
      <3>3. 6 + h <= Len(a)
        BY <1>1, <1>5, <2>2 DEF NeedsMore, HeaderLen
      <3> HIDE DEF pv, pw, h
      <3>4. \A i \in 1 .. h : pv[i] = pw[i]
        <4> TAKE i \in 1 .. h
        <4>1. 6 + i \in 1 .. Len(a)
          BY <1>1, <1>5, <3>3 DEF h
        <4> QED BY <1>1, <3>1, <3>2, <4>1
      <3>5. pv = pw
        BY <3>1, <3>2, <3>4, SeqEqual
      <3> QED BY <3>5 DEF pv, pw
    <2> QED BY <2>1, <2>2
  <1> QED BY <1>6, <1>10, <1>11 DEF c

\* The frames taken, and what is left, do not depend on the pieces in which the bytes
\* arrive: the buffer may be cut anywhere (run_relay, around pop_frame).
THEOREM PiecesDoNotMatter ==
  ASSUME NEW a \in Seq(Bytes), NEW b \in Seq(Bytes)
  PROVE  /\ Left[a] \in Seq(Bytes) /\ NeedsMore(Left[a])
         /\ Left[a \o b] = Left[Left[a] \o b]
         /\ Frames[a \o b] = Frames[a] \o Frames[Left[a] \o b]
  <1> DEFINE Same(x) ==
               /\ Left[x] \in Seq(Bytes) /\ NeedsMore(Left[x])
               /\ Left[x \o b] = Left[Left[x] \o b]
               /\ Frames[x \o b] = Frames[x] \o Frames[Left[x] \o b]
             T == {n \in Nat : \A x \in Seq(Bytes) : Len(x) < n => Same(x)}
  <1>1. 0 \in T
    <2>1. \A x \in Seq(Bytes) : ~(Len(x) < 0)
      OBVIOUS
    <2> QED BY <2>1
  <1>2. ASSUME NEW n \in Nat, n \in T, NEW x \in Seq(Bytes), Len(x) < n + 1
        PROVE  Same(x)
    <2>1. CASE NeedsMore(x)
      <3>1. Left[x] = x /\ Frames[x] = <<>>
        BY <2>1, LeftIs, FramesIs
      <3>2. Frames[x \o b] \in Seq(Seq(Bytes))
        <4>1. x \o b \in Seq(Bytes)
          OBVIOUS
        <4> QED BY <4>1, FramesIs
      <3>3. <<>> \o Frames[x \o b] = Frames[x \o b]
        BY <3>2
      <3> QED BY <2>1, <3>1, <3>3
    <2>2. CASE ~NeedsMore(x)
      <3> DEFINE r == Rest(x)
                 p == Worthy(Popped(x))
      <3>1. /\ r \in Seq(Bytes) /\ Len(r) < Len(x) /\ Len(r) \in Nat /\ Len(x) \in Nat
            /\ Popped(x) \in Seq(Bytes)
        BY <2>2, TurnIs
      <3>2. Same(r)
        <4> HIDE DEF Same, r
        <4>1. \A y \in Seq(Bytes) : Len(y) < n => Same(y)
          BY <1>2
        <4>2. Len(r) < n
          BY <1>2, <3>1
        <4> QED BY <3>1, <4>1, <4>2
      <3>3. Left[x] = Left[r] /\ Frames[x] = p \o Frames[r]
        BY <2>2, LeftIs, FramesIs
      <3>4. x \o b \in Seq(Bytes) /\ ~NeedsMore(x \o b) /\ Popped(x \o b) = Popped(x) /\ Rest(x \o b) = r \o b
        BY <2>2, TurnExtends
      <3>5. Left[x \o b] = Left[r \o b] /\ Frames[x \o b] = p \o Frames[r \o b]
        BY <3>4, LeftIs, FramesIs
      <3>6. p \in Seq(Seq(Bytes))
        BY <3>1 DEF Worthy
      <3>7. Frames[r] \in Seq(Seq(Bytes)) /\ Frames[Left[r] \o b] \in Seq(Seq(Bytes))
        <4>1. Left[r] \o b \in Seq(Bytes)
          BY <3>2
        <4> QED BY <3>1, <4>1, FramesIs
      <3> DEFINE u == Frames[r]
                 v == Frames[Left[r] \o b]
      <3>8. p \o (u \o v) = (p \o u) \o v
        <4> DEFINE S == Seq(Bytes)
        <4>1. p \in Seq(S) /\ u \in Seq(S) /\ v \in Seq(S)
          BY <3>6, <3>7
        <4> HIDE DEF S, p, u, v
        <4>2. (p \o u) \o v = p \o (u \o v)
          BY ONLY <4>1, ConcatAssociative, SMTT(30)
        <4> QED BY <4>2
      <3> QED BY <3>2, <3>3, <3>5, <3>8
    <2> QED BY <2>1, <2>2
  <1> HIDE DEF Same
  <1>3. \A n \in Nat : n \in T
    <2>1. \A n \in Nat : n \in T => n + 1 \in T
      BY <1>2
    <2> HIDE DEF T
    <2> QED BY <1>1, <2>1, Induction
  <1>4. Len(a) + 1 \in T /\ Len(a) < Len(a) + 1
    BY <1>3
  <1>5. Same(a)
    BY <1>4
  <1> QED BY <1>5 DEF Same

\* Two numbers of two digits are compared by the first one.
LEMMA FirstDigit ==
  ASSUME NEW a \in Nat, NEW c \in Nat, a < c, NEW b \in Nat, b < Base, NEW d \in Nat
  PROVE  Value(a, b) < Value(c, d)
  <1>1. Base \in Nat
    BY FramingAssumption
  <1>2. PICK k \in Nat : c = a + 1 + k
    <2>1. c - a - 1 \in Nat /\ c = a + 1 + (c - a - 1)
      OBVIOUS
    <2> QED BY <2>1
  <1>3. c * Base = a * Base + Base + k * Base
    BY <1>1, <1>2
  <1>4. k * Base \in Nat /\ a * Base \in Nat /\ c * Base \in Nat
    BY <1>1
  <1> QED BY <1>1, <1>3, <1>4 DEF Value

\* What frame_raw writes before a payload.
LEMMA HeaderIs ==
  ASSUME NEW p \in Seq(Bytes), Len(p) >= 1, Len(p) + HeaderLen < Base * Base
  PROVE  \E th, tl, nh, nl \in Bytes :
           /\ FrameRaw(p) = <<th, tl, Magic, Magic, nh, nl>> \o p
           /\ nh <= th /\ FrameRaw(p) \in Seq(Bytes)
  <1> DEFINE n == Len(p)
             t == n + HeaderLen
  <1>1. n \in Nat /\ t \in Nat /\ n < t /\ Base \in Nat /\ Base > 1 /\ Magic \in Bytes
    BY FramingAssumption DEF HeaderLen, Bytes
  <1>2. /\ t \div Base \in Nat /\ t % Base \in Nat /\ Value(t \div Base, t % Base) = t
        /\ n \div Base \in Nat /\ n % Base \in Nat /\ Value(n \div Base, n % Base) = n
    BY <1>1, LengthRoundTrips
  <1>3. t % Base < Base /\ n % Base < Base
    BY <1>1
  <1> DEFINE th == t \div Base
             tl == t % Base
             nh == n \div Base
             nl == n % Base
  <1> HIDE DEF n, t
  <1>4. th < Base
    <2> SUFFICES ASSUME th >= Base PROVE FALSE
      BY <1>1, <1>2
    <2> HIDE DEF th, tl
    <2>1. Base * Base \in Nat /\ Base * Base <= th * Base
      <3>1. PICK k \in Nat : th = Base + k
        <4>1. th - Base \in Nat /\ th = Base + (th - Base)
          BY <1>1, <1>2 DEF th
        <4> QED BY <4>1
      <3>2. th * Base = Base * Base + k * Base /\ k * Base \in Nat /\ Base * Base \in Nat
        BY <1>1, <3>1
      <3> QED BY <3>2
    <2>2. t = th * Base + tl /\ tl \in Nat
      BY <1>2 DEF Value, th, tl
    <2>3. t < Base * Base
      BY DEF t, n
    <2>4. th * Base \in Nat
      BY <1>1, <1>2 DEF th
    <2> QED BY <2>1, <2>2, <2>3, <2>4, <1>1
  <1>5. nh <= th
    <2> SUFFICES ASSUME th < nh PROVE FALSE
      BY <1>2
    <2>1. Value(th, tl) < Value(nh, nl)
      BY <1>2, <1>3, FirstDigit
    <2> QED BY <1>1, <1>2, <2>1
  <1>6. th \in Bytes /\ tl \in Bytes /\ nh \in Bytes /\ nl \in Bytes
    BY <1>1, <1>2, <1>3, <1>4, <1>5 DEF Bytes
  <1> HIDE DEF th, tl, nh, nl
  <1>7. FrameRaw(p) = <<th, tl, Magic, Magic, nh, nl>> \o p
    BY DEF FrameRaw, Written, th, tl, nh, nl, t, n
  <1>8. FrameRaw(p) \in Seq(Bytes)
    BY <1>1, <1>6, <1>7
  <1> QED BY <1>5, <1>6, <1>7, <1>8

\* A frame behind bytes that have no magic byte among them: no header is found before
\* the frame's, even one that begins in the noise.
LEMMA NoHeaderInNoise ==
  ASSUME NEW g \in Seq(Bytes \ {Magic}), Len(g) >= 1, Magic + HeaderLen < Base,
         NEW p \in Seq(Bytes), Len(p) >= 1, Len(p) + HeaderLen < Base * Base
  PROVE  ~NeedsMore(g \o FrameRaw(p)) /\ ~GoodHeader(g \o FrameRaw(p))
  <1> DEFINE f == FrameRaw(p)
             c == g \o f
  <1>1. PICK th, tl, nh, nl \in Bytes :
          f = <<th, tl, Magic, Magic, nh, nl>> \o p /\ nh <= th /\ f \in Seq(Bytes)
    BY HeaderIs
  <1>2. /\ f[1] = th /\ f[2] = tl /\ f[3] = Magic /\ f[4] = Magic /\ f[5] = nh /\ Len(f) >= 6
        /\ Len(f) \in Nat
    BY <1>1
  <1> HIDE DEF f
  <1>3. /\ Len(g) \in Nat /\ \A i \in 1 .. Len(g) : g[i] \in Bytes /\ g[i] # Magic
        /\ Len(c) = Len(g) + Len(f)
        /\ \A i \in 1 .. Len(g) : c[i] = g[i]
        /\ \A i \in 1 .. Len(f) : c[Len(g) + i] = f[i]
    BY <1>1
  <1> HIDE DEF c
  <1>4. /\ Base \in Nat /\ Magic \in Nat /\ Magic + 6 < Base /\ Bytes \subseteq Nat
        /\ \A b \in Bytes : b < Base
    BY FramingAssumption DEF Bytes, HeaderLen
  <1>5. Len(c) >= HeaderLen /\ 1 \in 1 .. Len(g) /\ c[1] \in Nat /\ c[1] # Magic
    <2>1. 1 \in 1 .. Len(g) /\ Len(c) >= 6
      BY <1>2, <1>3
    <2>2. c[1] = g[1] /\ g[1] \in Bytes /\ g[1] # Magic
      BY <1>3, <2>1
    <2> QED BY <1>4, <2>1, <2>2 DEF HeaderLen
  <1>6. ~GoodHeader(c)
    <2> SUFFICES ASSUME c[3] = Magic, c[4] = Magic, HeaderTotal(c) = HeaderSize(c) + 6
                 PROVE  FALSE
      BY DEF GoodHeader, HeaderLen
    <2>1. Len(g) < 3
      BY <1>3
    <2>2. CASE Len(g) = 1
      <3>1. c[2] = th /\ c[5] = Magic /\ c[6] = nh
        BY <1>2, <1>3, <2>2, SMTT(30)
      <3>2. Value(c[1], th) = Value(Magic, nh) + 6
        BY <3>1 DEF HeaderTotal, HeaderSize
      <3>3. CASE c[1] < Magic
        <4>1. th \in Nat /\ nh \in Nat /\ th < Base
          BY <1>4
        <4>2. Value(c[1], th) < Value(Magic, nh)
          BY <1>4, <1>5, <3>3, <4>1, FirstDigit
        <4>3. Value(c[1], th) \in Nat /\ Value(Magic, nh) \in Nat
          BY <1>4, <1>5, <4>1, ValueIs
        <4> QED BY <3>2, <4>2, <4>3
      <3>4. CASE Magic < c[1]
        <4>1. Value(Magic, 6) < Value(c[1], 0)
          BY <1>4, <1>5, <3>4, FirstDigit
        <4>2. nh \in Nat /\ th \in Nat /\ 6 \in Nat
          BY <1>4
        <4>3. /\ Value(Magic, nh) = Value(Magic, 0) + nh /\ Value(Magic, 0) \in Nat
              /\ Value(Magic, 6) = Value(Magic, 0) + 6
          BY <1>4, <4>2, ValueIs
        <4>4. Value(c[1], th) = Value(c[1], 0) + th /\ Value(c[1], 0) \in Nat
          BY <1>5, <4>2, ValueIs
        <4> DEFINE m == Value(Magic, 0)
                   v == Value(c[1], 0)
        <4>5. m + nh + 6 = v + th /\ m + 6 < v
          BY <3>2, <4>1, <4>3, <4>4
        <4>6. m \in Nat /\ v \in Nat /\ nh <= th
          BY <1>1, <4>3, <4>4
        <4> HIDE DEF m, v
        <4> QED BY <4>2, <4>5, <4>6
      <3> QED BY <1>4, <1>5, <3>3, <3>4
    <2>3. CASE Len(g) = 2
      <3>1. c[2] \in Nat /\ c[2] < Base /\ c[5] = Magic /\ c[6] = Magic
        <4>1. 2 \in 1 .. Len(g) /\ 3 \in 1 .. Len(f) /\ 4 \in 1 .. Len(f)
          BY <1>2, <2>3
        <4>2. c[2] = g[2] /\ g[2] \in Bytes
          BY <1>3, <4>1
        <4>3. c[2 + 3] = f[3] /\ c[2 + 4] = f[4]
          BY <1>3, <2>3, <4>1
        <4>4. c[5] = Magic /\ c[6] = Magic
          BY <1>2, <4>3
        <4>5. c[2] \in Nat /\ c[2] < Base
          BY <1>4, <4>2
        <4> QED BY <4>4, <4>5
      <3>2. Value(c[1], c[2]) = Value(Magic, Magic) + 6
        BY <3>1 DEF HeaderTotal, HeaderSize
      <3>3. CASE c[1] < Magic
        <4>1. Value(c[1], c[2]) < Value(Magic, Magic)
          BY <1>4, <1>5, <3>1, <3>3, FirstDigit
        <4>2. Value(c[1], c[2]) \in Nat /\ Value(Magic, Magic) \in Nat
          BY <1>4, <1>5, <3>1, ValueIs
        <4> QED BY <3>2, <4>1, <4>2
      <3>4. CASE Magic < c[1]
        <4>1. Value(Magic, Magic + 6) < Value(c[1], c[2])
          <5>1. Magic + 6 \in Nat /\ Magic + 6 < Base
            BY <1>4
          <5> QED BY <1>4, <1>5, <3>1, <3>4, <5>1, FirstDigit
        <4>2. Value(Magic, Magic) + 6 = Value(Magic, Magic + 6)
          <5>1. Magic * Base \in Nat
            BY <1>4
          <5> QED BY <1>4, <5>1 DEF Value
        <4>3. Value(Magic, Magic) \in Nat /\ Value(c[1], c[2]) \in Nat
          BY <1>4, <1>5, <3>1, ValueIs
        <4> QED BY <3>2, <4>1, <4>2, <4>3
      <3> QED BY <1>4, <1>5, <3>3, <3>4
    <2>4. Len(g) = 1 \/ Len(g) = 2
      <3>1. Len(g) \in Nat
        BY <1>3
      <3>2. Len(g) >= 1
        BY <1>5
      <3>3. \A n \in Nat : n >= 1 /\ n < 3 => n = 1 \/ n = 2
        OBVIOUS
      <3> QED BY <2>1, <3>1, <3>2, <3>3, Zenon
    <2> QED BY <2>2, <2>3, <2>4
  <1>7. ~NeedsMore(c)
    BY <1>2, <1>3, <1>5, <1>6 DEF NeedsMore, HeaderLen
  <1> QED BY <1>6, <1>7 DEF c, f

\* The first frame of the tunnel is found behind any noise that has no magic byte: all
\* of the noise is skipped, nothing else (pop_frame returns a byte to skip).
THEOREM FrameAfterNoise ==
  ASSUME NEW noise \in Seq(Bytes \ {Magic}), Magic + HeaderLen < Base,
         NEW p \in Seq(Bytes), Len(p) >= 1, Len(p) + HeaderLen < Base * Base
  PROVE  Left[noise \o FrameRaw(p)] = <<>> /\ Frames[noise \o FrameRaw(p)] = Worthy(p)
  <1> DEFINE f == FrameRaw(p)
             Quiet == Seq(Bytes \ {Magic})
             Found(g) == Left[g \o f] = <<>> /\ Frames[g \o f] = Worthy(p)
             T == {n \in Nat : \A g \in Quiet : Len(g) = n => Found(g)}
  <1>1. f \in Seq(Bytes)
    BY HeaderIs
  <1>2. Bytes \subseteq Nat
    BY FramingAssumption DEF Bytes
  <1>3. Found(<<>>)
    <2>1. p \in Seq(Nat) /\ <<>> \in Seq(Nat)
      <3>1. p \in Seq(Nat)
        BY <1>2, SeqMonotonic, Zenon
      <3> QED BY <3>1
    <2>2. LET b == f \o <<>>
          IN  ~NeedsMore(b) /\ Popped(b) = p /\ Rest(b) = <<>>
      BY <2>1, PopsWhatWasFramed
    <2> HIDE DEF f
    <2>3. f \o <<>> = f /\ <<>> \o f = f /\ <<>> \in Seq(Bytes)
      BY <1>1
    <2>4. ~NeedsMore(f) /\ Popped(f) = p /\ Rest(f) = <<>>
      BY <2>2, <2>3
    <2>5. Left[f] = Left[<<>>] /\ Frames[f] = Worthy(p) \o Frames[<<>>]
      BY <1>1, <2>4, LeftIs, FramesIs
    <2>6. NeedsMore(<<>>)
      BY DEF NeedsMore, HeaderLen
    <2>7. Left[<<>>] = <<>> /\ Frames[<<>>] = <<>>
      BY <2>3, <2>6, LeftIs, FramesIs
    <2>8. Worthy(p) \o <<>> = Worthy(p)
      BY DEF Worthy
    <2> QED BY <2>3, <2>5, <2>7, <2>8
  <1>4. ASSUME NEW n \in Nat, n \in T, NEW g \in Quiet, Len(g) = n + 1
        PROVE  Found(g)
    <2> DEFINE c == g \o f
               t == Tail(g)
    <2>1. g \in Seq(Bytes) /\ t \in Quiet /\ t \in Seq(Bytes) /\ Len(t) = n /\ Len(g) >= 1
      BY <1>4
    <2>2. ~NeedsMore(c) /\ ~GoodHeader(c)
      BY <2>1, NoHeaderInNoise
    <2> HIDE DEF f
    <2>3. c \in Seq(Bytes)
      BY <1>1, <2>1
    <2>4. Popped(c) = <<>> /\ Consumed(c) = 1
      BY <2>2 DEF Popped, Consumed, SkipsByte
    <2>5. Rest(c) = t \o f
      <3>1. Rest(c) = SubSeq(c, 2, Len(c))
        BY <2>4 DEF Rest
      <3>2. SubSeq(g \o f, 2, Len(g \o f)) = Tail(g) \o f
        <4> DEFINE x == SubSeq(g \o f, 2, Len(g \o f))
                   y == Tail(g) \o f
        <4>1. x \in Seq(Bytes) /\ y \in Seq(Bytes) /\ Len(x) = Len(y)
          BY <1>1, <2>1
        <4>2. ASSUME NEW i \in 1 .. Len(x) PROVE x[i] = y[i]
          BY <1>1, <2>1
        <4> HIDE DEF x, y
        <4>3. x = y
          BY <4>1, <4>2, SeqEqual
        <4> QED BY <4>3 DEF x, y
      <3> QED BY <3>1, <3>2
    <2>6. Found(t)
      BY <1>4, <2>1
    <2>7. Left[c] = Left[t \o f] /\ Frames[c] = Worthy(<<>>) \o Frames[t \o f]
      BY <2>2, <2>3, <2>4, <2>5, LeftIs, FramesIs
    <2>8. Worthy(<<>>) \o Worthy(p) = Worthy(p)
      BY DEF Worthy
    <2> QED BY <2>6, <2>7, <2>8
  <1> HIDE DEF Found, Quiet
  <1>5. \A n \in Nat : n \in T
    <2>1. 0 \in T
      <3>1. \A g \in Quiet : Len(g) = 0 => g = <<>>
        BY DEF Quiet
      <3> QED BY <1>3, <3>1
    <2>2. \A n \in Nat : n \in T => n + 1 \in T
      BY <1>4
    <2> HIDE DEF T
    <2> QED BY <2>1, <2>2, Induction
  <1>6. Found(noise)
    <2>1. Len(noise) \in T /\ noise \in Quiet
      BY <1>5 DEF Quiet
    <2> QED BY <2>1
  <1> QED BY <1>6 DEF Found

-----------------------------------------------------------------------------
(* The login. *)

Steps == {"login", "index", "alloc", "redirect", "config"}

\* The clocks of the SAML wait.
SamlInv ==
  /\ elapsed \in Nat /\ in_client \in Nat
  /\ pc = "bind" => elapsed = 0 /\ since_stop = 0
  /\ pc \in {"listen", "client"} => since_stop = 0
  /\ pc = "listen" => elapsed <= SamlTimeout + ClientTimeout + 1
  /\ pc = "client" => in_client <= ClientTimeout + 1 /\ elapsed <= SamlTimeout + in_client

Genuine(r) == r \in Verdicts /\ WellFormed(r)

\* The cells of a response.
Layout(r) == IF r.framing = "chunked" THEN Chunked(r.body) ELSE r.body
HeadCell(r) == [t |-> "head", says |-> r]
CellsOf(r) == {HeadCell(r)} \cup {Cell(k) : k \in Data \cup {"headers_end", "size", "last", "nl"}}

\* What was read and what is under way are the response, but for the rest that went
\* with a gateway that died; of a body that the end of the connection ends, all is there
\* unless that end was no clean one or came early.
Arriving ==
  /\ Genuine(answer)
  /\ buf \in Seq(CellsOf(answer)) /\ wire \in Seq(CellsOf(answer))
  /\ \E rest \in Seq(CellsOf(answer)) :
       /\ (buf \o wire) \o rest = Message(answer)
       /\ answer.framing = "close" => ended_by # "open"
       /\ answer.framing = "close" /\ ended_by = "clean" /\ ~curtailed => rest = <<>>
  /\ curtailed => answer.framing = "close"

\* What is taken for a response is all of it, or what there was of one cut short.
Taken ==
  IF curtailed
    THEN answer.framing = "close" /\ buf = SubSeq(Message(answer), 1, Len(buf))
    ELSE buf = Message(answer) /\ Content(buf) = answer.body

\* Where an exchange is.  Between two of them nothing is under way.
ExchangeInv ==
  /\ step \in Steps
  /\ pc \in {"bind", "listen", "client", "send", "read", "took", "relay", "ended"}
  /\ pc \in {"bind", "listen", "client", "send"} =>
       asked = "none" /\ wire = <<>> /\ answer = NoAnswer
  /\ pc = "read" =>
       \/ asked = step /\ wire = <<>> /\ buf = <<>> /\ answer = NoAnswer
       \/ asked = "none" /\ Arriving
  /\ pc = "took" => /\ asked = "none" /\ wire = <<>> /\ Says(buf) = answer /\ Taken
  /\ curtailed => ended_by # "open"
  /\ pc = "relay" => asked \in {"tunnel", "none"}
  /\ pc = "ended" => asked = "none"

\* What the gateway granted by then.
GrantInv ==
  /\ answer.cookie = "value" => session
  /\ pc \in {"read", "took"} /\ step \in {"alloc", "redirect"} /\ answer.status = 200
       => slot \/ elsewhere
  /\ step # "login" => session /\ cookie
  /\ step = "config" => slot \/ elsewhere
  /\ pc = "relay" => step = "config"

\* What was popped and what would be popped of the bytes not taken apart yet are the
\* payloads sent.
TunnelInv ==
  /\ pc # "relay" => frames = <<>> /\ due = <<>>
  /\ pc = "relay" /\ asked = "tunnel" =>
       /\ buf \in Seq(Bytes) /\ wire \in Seq(Bytes) /\ NeedsMore(buf)
       /\ frames \in Seq(Seq(Bytes))
       /\ frames \o Frames[buf \o wire] = due
       /\ Left[buf \o wire] = <<>>

IInv == SamlInv /\ ExchangeInv /\ GrantInv /\ TunnelInv

-----------------------------------------------------------------------------
(* Sequences, and what the client makes of a response. *)

\* Concatenations may be regrouped.
Regroups(a, b, c) == (a \o b) \o c = a \o (b \o c)

LEMMA Regrouping ==
  ASSUME NEW S, NEW a \in Seq(S), NEW b \in Seq(S), NEW c \in Seq(S)
  PROVE  Regroups(a, b, c)
  BY ConcatAssociative DEF Regroups

\* A sequence is its first cells and the others.
LEMMA Cut ==
  ASSUME NEW S, NEW s \in Seq(S), NEW n \in 0 .. Len(s)
  PROVE  /\ SubSeq(s, 1, n) \in Seq(S) /\ SubSeq(s, n + 1, Len(s)) \in Seq(S)
         /\ SubSeq(s, 1, n) \o SubSeq(s, n + 1, Len(s)) = s
  <1>1. Len(s) \in Nat /\ \A i \in 1 .. Len(s) : s[i] \in S
    BY LenProperties, ElementOfSeq
  <1>2. SubSeq(s, 1, n) \in Seq(S)
    BY <1>1, SubSeqProperties
  <1>3. SubSeq(s, n + 1, Len(s)) \in Seq(S)
    BY <1>1, SubSeqProperties
  <1>4. SubSeq(s, 1, n) \o SubSeq(s, n + 1, Len(s)) = SubSeq(s, 1, Len(s))
    <2>1. 1 \in 1 .. Len(s) + 1 /\ n \in 1 - 1 .. Len(s) /\ Len(s) \in n .. Len(s)
      BY <1>1
    <2> QED BY <2>1, ConcatAdjacentSubSeq
  <1> QED BY <1>2, <1>3, <1>4, SubSeqFull

\* The first part of a concatenation can be cut out of it again.
LEMMA FirstPart ==
  ASSUME NEW S, NEW a \in Seq(S), NEW b \in Seq(S)
  PROVE  SubSeq(a \o b, 1, Len(a)) = a
  <1> DEFINE c == SubSeq(a \o b, 1, Len(a))
  <1>1. /\ Len(a) \in Nat /\ Len(b) \in Nat /\ \A i \in 1 .. Len(a) : a[i] \in S
        /\ \A i \in 1 .. Len(a) : (a \o b)[i] = a[i]
    <2>1. Len(a) \in Nat /\ Len(b) \in Nat /\ \A i \in 1 .. Len(a) : a[i] \in S
      BY LenProperties, ElementOfSeq
    <2>2. \A i \in 1 .. Len(a) + Len(b) : (a \o b)[i] = IF i <= Len(a) THEN a[i] ELSE b[i - Len(a)]
      BY ConcatProperties
    <2> QED BY <2>1, <2>2
  <1>2. \A i \in 1 .. Len(a) : (a \o b)[i] \in S
    BY <1>1
  <1>3. /\ c \in Seq(S) /\ Len(c) = IF 1 <= Len(a) THEN Len(a) - 1 + 1 ELSE 0
        /\ \A i \in 1 .. Len(a) - 1 + 1 : c[i] = (a \o b)[1 + i - 1]
    BY <1>1, <1>2, SubSeqProperties
  <1> HIDE DEF c
  <1>4. Len(c) = Len(a)
    BY <1>1, <1>3
  <1>5. \A i \in 1 .. Len(c) : c[i] = a[i]
    BY <1>1, <1>3, <1>4
  <1>6. c = a
    BY <1>3, <1>4, <1>5, SeqEqual
  <1> QED BY <1>6 DEF c

\* What a body is laid out as.
LEMMA LayoutIs ==
  ASSUME NEW r, Genuine(r)
  PROVE  /\ r.body \in Seq(Data) /\ Layout(r) \in Seq(Data \cup {"size", "last", "nl"})
         /\ r.framing = "chunked" =>
              /\ Len(Layout(r)) = 3 * Len(r.body) + 2
              /\ \A i \in 1 .. Len(Layout(r)) : Layout(r)[i] = "last" => i = 3 * Len(r.body) + 1
              /\ Layout(r)[3 * Len(r.body) + 1] = "last"
              /\ \A i \in 1 .. Len(r.body) : Layout(r)[3 * i - 1] = r.body[i]
         /\ r.framing # "chunked" => Layout(r) = r.body
         /\ r.framing \notin {"length", "chunked", "close"} => r.body = <<>>
  <1> DEFINE body == r.body
             n == Len(body)
             W == Data \cup {"size", "last", "nl"}
             ch == Chunked(body)
  <1>1. body \in Seq(Data) /\ n \in Nat
    BY LoginAssumption DEF Genuine, Verdicts
  <1>2. r.framing \notin {"length", "chunked", "close"} => body = <<>>
    BY LoginAssumption, ZenonT(60) DEF Genuine, Verdicts, WellFormed
  <1>3. \A i \in 1 .. n : body[i] \in Data
    BY <1>1
  <1> HIDE DEF body
  <1>4. ASSUME NEW i \in 1 .. 3 * n + 2, i # 3 * n + 1, i % 3 # 1, i % 3 = 2, i <= 3 * n
        PROVE  (i + 1) \div 3 \in 1 .. n
    BY <1>1, <1>4
  <1> DEFINE at(i) == IF i = 3 * n + 1 THEN "last"
                      ELSE CASE i % 3 = 1 -> "size"
                             [] i % 3 = 2 -> IF i > 3 * n THEN "nl" ELSE body[(i + 1) \div 3]
                             [] OTHER -> "nl"
  <1>5. ch = [i \in 1 .. 3 * n + 2 |-> at(i)]
    BY DEF Chunked
  <1>6. ASSUME NEW i \in 1 .. 3 * n + 2
        PROVE  at(i) \in W /\ (at(i) = "last" => i = 3 * n + 1)
    <2>1. CASE i = 3 * n + 1
      BY <2>1
    <2>2. CASE i # 3 * n + 1 /\ i % 3 = 1
      BY <2>2
    <2>3. CASE i # 3 * n + 1 /\ i % 3 = 2 /\ i > 3 * n
      BY <2>3
    <2>4. CASE i # 3 * n + 1 /\ i % 3 = 2 /\ ~(i > 3 * n)
      <3>1. (i + 1) \div 3 \in 1 .. n
        BY <1>1, <1>4, <2>4
      <3>2. at(i) = body[(i + 1) \div 3]
        BY <2>4
      <3>3. at(i) \in Data
        BY <1>3, <3>1, <3>2
      <3> HIDE DEF at
      <3> QED BY <3>3 DEF Data
    <2>5. CASE i # 3 * n + 1 /\ i % 3 # 1 /\ i % 3 # 2
      BY <2>5
    <2> QED BY <2>1, <2>2, <2>3, <2>4, <2>5
  <1>7. 3 * n + 1 \in 1 .. 3 * n + 2 /\ at(3 * n + 1) = "last"
    BY <1>1
  <1>8. ASSUME NEW i \in 1 .. n
        PROVE  3 * i - 1 \in 1 .. 3 * n + 2 /\ at(3 * i - 1) = body[i]
    <2>1. /\ i \in Nat /\ 3 * i - 1 \in 1 .. 3 * n + 2 /\ 3 * i - 1 # 3 * n + 1
          /\ ~(3 * i - 1 > 3 * n)
      BY <1>1
    <2>2. (3 * i - 1) % 3 = 2 /\ ((3 * i - 1) + 1) \div 3 = i
      BY <2>1
    <2> QED BY <2>1, <2>2
  <1> HIDE DEF at
  <1>9. 3 * n + 2 \in Nat
    BY <1>1
  <1>10. ch \in Seq(W) /\ Len(ch) = 3 * n + 2
    <2>1. ch \in [1 .. 3 * n + 2 -> W]
      BY <1>5, <1>6
    <2> HIDE DEF ch, W
    <2> QED BY <1>9, <2>1
  <1>11. body \in Seq(W)
    BY <1>1, SeqMonotonic, Zenon
  <1>12. /\ \A i \in 1 .. Len(ch) : ch[i] = "last" => i = 3 * n + 1
         /\ ch[3 * n + 1] = "last"
         /\ \A i \in 1 .. n : ch[3 * i - 1] = body[i]
    BY <1>5, <1>6, <1>7, <1>8, <1>10
  <1> HIDE DEF ch, n, W
  <1>13. r.framing = "chunked" => Layout(r) = ch
    BY DEF Layout, ch, body
  <1>14. r.framing # "chunked" => Layout(r) = body
    BY DEF Layout, body
  <1>15. Layout(r) \in Seq(W)
    BY <1>10, <1>11, <1>13, <1>14
  <1> QED BY <1>1, <1>2, <1>10, <1>12, <1>13, <1>14, <1>15 DEF body, n, W

\* The cells of a response, one by one.
LEMMA MessageIs ==
  ASSUME NEW r, Genuine(r)
  PROVE  /\ Message(r) \in Seq(CellsOf(r)) /\ Len(Message(r)) = 2 + Len(Layout(r))
         /\ Message(r)[1] = HeadCell(r) /\ Message(r)[2] = Cell("headers_end")
         /\ \A i \in 1 .. Len(Layout(r)) : Message(r)[2 + i] = Cell(Layout(r)[i])
  <1> DEFINE W == Data \cup {"size", "last", "nl"}
             S == CellsOf(r)
             l == Layout(r)
             c == Cells(l)
             h == <<HeadCell(r), Cell("headers_end")>>
  <1>1. l \in Seq(W) /\ Len(l) \in Nat /\ \A i \in 1 .. Len(l) : l[i] \in W
    BY LayoutIs, LenProperties, ElementOfSeq
  <1>2. /\ \A k \in W : Cell(k) \in S
        /\ HeadCell(r) \in S /\ Cell("headers_end") \in S
    BY DEF CellsOf
  <1>3. Message(r) = h \o c
    BY DEF Message, Layout, HeadCell
  <1> HIDE DEF W, S, l
  <1>4. c = [i \in 1 .. Len(l) |-> Cell(l[i])]
    BY DEF Cells
  <1>5. c \in [1 .. Len(l) -> S]
    BY <1>1, <1>2, <1>4
  <1> HIDE DEF c
  <1>6. c \in Seq(S) /\ Len(c) = Len(l)
    BY <1>1, <1>5
  <1>7. h \in Seq(S) /\ Len(h) = 2 /\ h[1] = HeadCell(r) /\ h[2] = Cell("headers_end")
    BY <1>2
  <1> HIDE DEF h
  <1>8. /\ h \o c \in Seq(S) /\ Len(h \o c) = 2 + Len(c)
        /\ \A i \in 1 .. 2 + Len(c) : (h \o c)[i] = IF i <= 2 THEN h[i] ELSE c[i - 2]
    <2>1. /\ h \o c \in Seq(S) /\ Len(h \o c) = Len(h) + Len(c)
          /\ \A i \in 1 .. Len(h) + Len(c) : (h \o c)[i] = IF i <= Len(h) THEN h[i] ELSE c[i - Len(h)]
      BY <1>6, <1>7, ConcatProperties, ZenonT(60)
    <2> QED BY <1>7, <2>1
  <1>9. (h \o c)[1] = h[1] /\ (h \o c)[2] = h[2]
    BY <1>1, <1>6, <1>8
  <1>10. ASSUME NEW i \in 1 .. Len(l) PROVE (h \o c)[2 + i] = Cell(l[i])
    <2>1. 2 + i \in 1 .. 2 + Len(c) /\ ~(2 + i <= 2) /\ (2 + i) - 2 = i
      BY <1>1, <1>6
    <2> QED BY <1>4, <1>8, <2>1
  <1> QED BY <1>3, <1>6, <1>7, <1>8, <1>9, <1>10 DEF S, l

Splits(r, b, rest) ==
  /\ Genuine(r) /\ b \in Seq(CellsOf(r)) /\ rest \in Seq(CellsOf(r))
  /\ b \o rest = Message(r)

IsWhole(r, b, rest) == b = Message(r) /\ rest = <<>> /\ Content(b) = r.body

\* Of a response that is not all there, read_http_response_bytes says that it is not
\* complete, at whatever cell it breaks off, unless only the end of the connection
\* would end it; of one that is, Content is its body.
LEMMA WholeResponse ==
  ASSUME NEW r, NEW b, NEW rest, NEW eof \in BOOLEAN, Splits(r, b, rest),
         HasHeaders(b), BodyComplete(b, eof), r.framing = "close" /\ eof => rest = <<>>
  PROVE  IsWhole(r, b, rest)
  <1> USE DEF Splits
  <1> DEFINE m == Message(r)
             l == Layout(r)
             n == Len(b)
             body == BodyOf(b)
  <1>1. /\ m \in Seq(CellsOf(r)) /\ Len(m) = 2 + Len(l) /\ Len(l) \in Nat
        /\ m[1] = HeadCell(r) /\ m[2] = Cell("headers_end")
        /\ \A i \in 1 .. Len(l) : m[2 + i] = Cell(l[i])
    <2>1. Len(l) \in Nat
      BY LayoutIs, LenProperties
    <2> QED BY <2>1, MessageIs
  <1>2. /\ n \in Nat /\ Len(rest) \in Nat /\ Len(m) = n + Len(rest)
        /\ \A i \in 1 .. n : b[i] = m[i]
    <2>1. n \in Nat /\ Len(rest) \in Nat
      BY LenProperties
    <2>2. /\ Len(b \o rest) = n + Len(rest)
          /\ \A i \in 1 .. n + Len(rest) : (b \o rest)[i] = IF i <= n THEN b[i] ELSE rest[i - n]
      BY ConcatProperties
    <2> QED BY <2>1, <2>2
  <1> HIDE DEF m, l
  <1>3. HeadersEnd(b) = 2 /\ n >= 2
    <2> DEFINE ends == {i \in 1 .. n : b[i].t \in {"headers_end", "blank"}}
    <2>1. 1 \notin ends
      <3>1. 1 \in 1 .. n => b[1].t = "head"
        BY <1>1, <1>2 DEF HeadCell
      <3> QED BY <3>1
    <2>2. 2 \in 1 .. n => 2 \in ends
      <3>1. 2 \in 1 .. n => b[2].t = "headers_end"
        BY <1>1, <1>2 DEF Cell
      <3> QED BY <3>1
    <2>3. HeadersEnd(b) = IF ends = {} THEN 0 ELSE CHOOSE i \in ends : \A j \in ends : i <= j
      BY DEF HeadersEnd
    <2>4. \A i \in ends : i \in Nat /\ i >= 1 /\ i <= n
      BY <1>2
    <2> HIDE DEF ends
    <2>5. ends # {}
      BY <2>3 DEF HasHeaders
    <2>6. \A i \in ends : i >= 2
      BY <2>1, <2>4
    <2>7. 2 \in ends
      BY <1>2, <2>2, <2>4, <2>5, <2>6
    <2>8. \A i \in ends : (\A j \in ends : i <= j) <=> i = 2
      BY <2>4, <2>6, <2>7
    <2>9. HeadersEnd(b) = 2
      <3>1. HeadersEnd(b) = CHOOSE i \in ends : \A j \in ends : i <= j
        BY <2>3, <2>7
      <3> QED BY <2>7, <2>8, <3>1
    <2> QED BY <2>4, <2>7, <2>9
  <1>4. Says(b) = r
    <2>1. 1 \in 1 .. n
      <3>1. n \in Nat /\ n >= 2
        BY <1>2, <1>3
      <3> HIDE DEF n
      <3> QED BY <3>1
    <2>2. b[1] = m[1] /\ m[1] = HeadCell(r)
      BY <1>1, <1>2, <2>1
    <2> QED BY <2>2 DEF Says, HeadCell
  <1>5. body \in Seq(CellsOf(r)) /\ Len(body) = n - 2 /\ \A i \in 1 .. n - 2 : body[i] = Cell(l[i])
    <2>1. body = SubSeq(b, 3, n)
      BY <1>3 DEF BodyOf
    <2>2. \A i \in 3 .. n : b[i] \in CellsOf(r)
      BY <1>2, ElementOfSeq
    <2>3. /\ SubSeq(b, 3, n) \in Seq(CellsOf(r))
          /\ Len(SubSeq(b, 3, n)) = IF 3 <= n THEN n - 3 + 1 ELSE 0
          /\ \A i \in 1 .. n - 3 + 1 : SubSeq(b, 3, n)[i] = b[3 + i - 1]
      BY <1>2, <2>2, SubSeqProperties
    <2>4. ASSUME NEW i \in 1 .. n - 2 PROVE body[i] = Cell(l[i])
      <3>1. i \in 1 .. n - 3 + 1 /\ 3 + i - 1 = 2 + i /\ 2 + i \in 1 .. n /\ i \in 1 .. Len(l)
        BY <1>1, <1>2, <1>3
      <3> QED BY <1>1, <1>2, <2>1, <2>3, <3>1
    <2>5. Len(body) = n - 2
      <3>1. (IF 3 <= n THEN n - 3 + 1 ELSE 0) = n - 2
        <4>1. \A x \in Nat : x >= 2 => (IF 3 <= x THEN x - 3 + 1 ELSE 0) = x - 2
          OBVIOUS
        <4>2. n \in Nat /\ n >= 2
          BY <1>2, <1>3
        <4> HIDE DEF n
        <4> QED BY <4>1, <4>2
      <3>2. Len(body) = IF 3 <= n THEN n - 3 + 1 ELSE 0
        BY <2>1, <2>3
      <3> HIDE DEF body, n
      <3> QED BY <3>1, <3>2
    <2>6. body \in Seq(CellsOf(r))
      BY <2>1, <2>3
    <2> HIDE DEF body, n
    <2> QED BY <2>4, <2>5, <2>6, Zenon
  <1>c. \A x : Cell(x).t = x
    BY DEF Cell
  <1> HIDE DEF body
  <1>6. n = Len(m)
    <2>1. CASE r.framing = "chunked"
      <3>1. /\ Len(l) = 3 * Len(r.body) + 2 /\ Len(r.body) \in Nat
            /\ \A i \in 1 .. Len(l) : l[i] = "last" => i = 3 * Len(r.body) + 1
            /\ l[3 * Len(r.body) + 1] = "last"
        BY <2>1, LayoutIs, LenProperties DEF l
      <3>2. EndsBlank(b) /\ LastChunks(body) # {}
        BY <1>4, <2>1 DEF BodyComplete, ChunksEnded, Decodes, body
      <3>3. PICK k \in LastChunks(body) : TRUE
        BY <3>2
      <3>4. k \in 1 .. n - 2 /\ body[k].t = "last"
        BY <1>5 DEF LastChunks
      <3>5. k = 3 * Len(r.body) + 1
        <4>1. body[k] = Cell(l[k]) /\ k \in 1 .. Len(l)
          BY <1>1, <1>2, <1>3, <1>5, <3>4
        <4> QED BY <3>1, <3>4, <4>1 DEF Cell
      <3>6. n # 2 + k
        <4> SUFFICES ASSUME n = 2 + k PROVE FALSE
          OBVIOUS
        <4>1. b[n].t = "last"
          <5>1. n \in 1 .. n /\ b[n] = m[2 + k] /\ k \in 1 .. Len(l)
            BY <1>1, <1>2, <1>3, <3>4
          <5>2. b[n] = Cell(l[k])
            BY <1>1, <5>1
          <5>3. l[k] = "last"
            BY <3>1, <3>5
          <5> QED BY <1>c, <5>2, <5>3
        <4> QED BY <3>2, <4>1 DEF EndsBlank
      <3> QED BY <1>1, <1>2, <3>1, <3>4, <3>5, <3>6
    <2>2. CASE r.framing = "length"
      <3>1. n - 2 >= Len(l)
        BY <1>4, <1>5, <2>2, LayoutIs DEF BodyComplete, body, l
      <3> QED BY <1>1, <1>2, <3>1
    <2>3. CASE r.framing = "close"
      <3>1. rest = <<>>
        BY <1>4, <2>3 DEF BodyComplete
      <3> QED BY <1>2, <3>1
    <2>4. CASE r.framing \notin {"length", "chunked", "close"}
      <3>1. Len(l) = 0
        BY <2>4, LayoutIs DEF l
      <3> QED BY <1>1, <1>2, <1>3, <3>1
    <2> QED BY <2>1, <2>2, <2>3, <2>4
  <1>7. b = m /\ rest = <<>>
    <2>1. Len(rest) = 0
      BY <1>2, <1>6
    <2>2. rest = <<>>
      BY <2>1, EmptySeq
    <2>3. b \o <<>> = b
      BY ConcatEmptySeq
    <2> QED BY <2>2, <2>3 DEF m
  <1>8. Content(b) = r.body
    <2>1. CASE r.framing = "chunked"
      <3>1. /\ r.body \in Seq(Data) /\ Len(r.body) \in Nat /\ Len(l) = 3 * Len(r.body) + 2
            /\ \A i \in 1 .. Len(l) : l[i] = "last" => i = 3 * Len(r.body) + 1
            /\ \A i \in 1 .. Len(r.body) : l[3 * i - 1] = r.body[i]
        BY <2>1, LayoutIs, LenProperties DEF l
      <3>2. LastChunks(body) # {}
        BY <1>4, <2>1 DEF BodyComplete, ChunksEnded, Decodes, body
      <3> DEFINE k == CHOOSE i \in LastChunks(body) : TRUE
      <3>3. k \in LastChunks(body)
        BY <3>2
      <3> HIDE DEF k
      <3>4. k \in 1 .. n - 2 /\ body[k].t = "last"
        BY <1>5, <3>3 DEF LastChunks
      <3>5. k = 3 * Len(r.body) + 1
        <4>1. body[k] = Cell(l[k]) /\ k \in 1 .. Len(l)
          BY <1>1, <1>2, <1>6, <1>5, <3>4, SMTT(30)
        <4> QED BY <3>1, <3>4, <4>1 DEF Cell
      <3>6. (k - 1) \div 3 = Len(r.body)
        <4>1. k - 1 = 3 * Len(r.body)
          BY <3>1, <3>5
        <4>2. \A x \in Nat : (3 * x) \div 3 = x
          OBVIOUS
        <4> QED BY <3>1, <4>1, <4>2
      <3>7. Content(b) = [i \in 1 .. Len(r.body) |-> body[3 * i - 1].t]
        <4>1. Content(b) = Decoded(body)
          BY <1>4, <2>1 DEF Content, body
        <4> QED BY <3>6, <4>1 DEF Decoded, k
      <3>8. ASSUME NEW i \in 1 .. Len(r.body) PROVE body[3 * i - 1].t = r.body[i]
        <4>1. 3 * i - 1 \in 1 .. n - 2
          BY <1>1, <1>6, <3>1
        <4>2. body[3 * i - 1] = Cell(l[3 * i - 1])
          BY <1>5, <4>1
        <4> QED BY <1>c, <3>1, <4>2
      <3>9. Content(b) = [i \in 1 .. Len(r.body) |-> r.body[i]]
        BY <3>7, <3>8
      <3> QED BY <3>1, <3>9
    <2>2. CASE r.framing # "chunked"
      <3>1. r.body \in Seq(Data) /\ Len(r.body) \in Nat /\ l = r.body
        BY <2>2, LayoutIs, LenProperties DEF l
      <3>2. Content(b) = [i \in 1 .. Len(body) |-> body[i].t]
        BY <1>4, <2>2 DEF Content, Kinds, body
      <3>3. Len(body) = Len(r.body)
        BY <1>1, <1>2, <1>5, <1>6, <3>1
      <3>4. ASSUME NEW i \in 1 .. Len(r.body) PROVE body[i].t = r.body[i]
        <4>1. i \in 1 .. n - 2
          BY <1>1, <1>2, <1>6, <3>1
        <4>2. body[i] = Cell(r.body[i])
          BY <1>5, <3>1, <4>1
        <4> QED BY <1>c, <4>2
      <3>5. Content(b) = [i \in 1 .. Len(r.body) |-> r.body[i]]
        BY <3>2, <3>3, <3>4
      <3> QED BY <3>1, <3>5
    <2> QED BY <2>1, <2>2
  <1> QED BY <1>7, <1>8 DEF m, IsWhole

-----------------------------------------------------------------------------
(* The invariant, part by part. *)

\* The clocks stay within their bounds: a client is given up before the wait is late by
\* more than it was given.
LEMMA SamlStep ==
  SamlInv /\ [LoginNext]_loginVars => SamlInv'
  <1> SUFFICES ASSUME SamlInv, [LoginNext]_loginVars PROVE SamlInv'
    OBVIOUS
  <1>0. SamlTimeout \in Nat /\ ClientTimeout \in Nat
    BY LoginAssumption
  <1> USE DEF SamlInv, samlVars, tlsVars, endVars, grantVars, tunnelVars
  <1>1. ASSUME Fails PROVE SamlInv'
    BY <1>1 DEF Fails
  <1>2. ASSUME Listens PROVE SamlInv'
    BY <1>0, <1>2 DEF Listens
  <1>3. ASSUME Accepts PROVE SamlInv'
    BY <1>0, <1>3 DEF Accepts, Expired
  <1>4. ASSUME DropsClient PROVE SamlInv'
    BY <1>0, <1>4 DEF DropsClient, Leaves
  <1>5. ASSUME AnswersJunk PROVE SamlInv'
    BY <1>0, <1>5 DEF AnswersJunk, Leaves, AfterJunk
  <1>6. ASSUME GetsId PROVE SamlInv'
    BY <1>6 DEF GetsId, Leaves
  <1>7. ASSUME Tick PROVE SamlInv'
    <2>1. CASE pc = "listen"
      BY <1>0, <1>7, <2>1 DEF Tick, Expired
    <2>2. CASE pc = "client"
      BY <1>0, <1>7, <2>2 DEF Tick, ClientDropped
    <2> QED BY <1>7, <2>1, <2>2 DEF Tick
  <1>8. ASSUME \/ Sends \/ ReadsMore \/ TakesResponse \/ GoesOn \/ StartsTunnel \/ RelayReads
               \/ SlowLineArrives \/ UserStops \/ RefusesTunnel \/ Dies \/ CutsShort
               \/ \E kind \in {"callback", "junk", "stalled"} : ClientConnects(kind)
               \/ \E r \in Verdicts, away \in BOOLEAN : Answers(r, away)
               \/ \E p \in Payloads, noise \in Garbage : SendsFrame(noise, p)
        PROVE  SamlInv'
    <2>1. /\ UNCHANGED <<elapsed, in_client, since_stop>>
          /\ pc' = pc \/ pc' \in {"read", "took", "send", "relay"}
      <3>1. CASE Sends \/ ReadsMore \/ TakesResponse \/ GoesOn \/ StartsTunnel \/ RelayReads
        BY <3>1 DEF Sends, ReadsMore, TakesResponse, GoesOn, StartsTunnel, RelayReads
      <3>2. CASE SlowLineArrives \/ UserStops \/ RefusesTunnel \/ Dies \/ CutsShort
        BY <3>2 DEF SlowLineArrives, UserStops, RefusesTunnel, Dies, CutsShort
      <3>3. CASE \E kind \in {"callback", "junk", "stalled"} : ClientConnects(kind)
        BY <3>3 DEF ClientConnects
      <3>4. CASE \E r \in Verdicts, away \in BOOLEAN : Answers(r, away)
        BY <3>4 DEF Answers
      <3>5. CASE \E p \in Payloads, noise \in Garbage : SendsFrame(noise, p)
        BY <3>5 DEF SendsFrame
      <3> QED BY <1>8, <3>1, <3>2, <3>3, <3>4, <3>5
    <2> QED BY <2>1
  <1>9. CannotListen \/ SamlGivesUp \/ SendFails \/ Oversized \/ ReadFails \/ ExchangeRefused
          \/ AbortsBeforeTunnel \/ TunnelRequestFails \/ SeesHttp => Fails
    BY DEF CannotListen, SamlGivesUp, SendFails, Oversized, ReadFails, ExchangeRefused,
           AbortsBeforeTunnel, TunnelRequestFails, SeesHttp
  <1>10. CASE UNCHANGED loginVars
    BY <1>10 DEF loginVars
  <1> QED BY <1>1, <1>2, <1>3, <1>4, <1>5, <1>6, <1>7, <1>8, <1>9, <1>10 DEF LoginNext, Thread

\* What the gateway granted stays granted, and a step further on needs it.
LEMMA GrantStep ==
  IInv /\ [LoginNext]_loginVars => GrantInv'
  <1> SUFFICES ASSUME IInv, [LoginNext]_loginVars PROVE GrantInv'
    OBVIOUS
  <1> USE DEF GrantInv, samlVars, tlsVars, endVars, grantVars, tunnelVars
  <1>0. GrantInv /\ ExchangeInv /\ NoAnswer.cookie = "none" /\ NoAnswer.status = 0
    BY DEF IInv, NoAnswer, Response
  <1>1. ASSUME Fails PROVE GrantInv'
    BY <1>0, <1>1 DEF Fails
  <1>2. ASSUME Sends PROVE GrantInv'
    <2>1. answer = NoAnswer /\ answer' = answer
      BY <1>0, <1>2 DEF Sends, ExchangeInv
    <2> QED BY <1>0, <1>2, <2>1 DEF Sends
  <1>3. ASSUME TakesResponse PROVE GrantInv'
    BY <1>0, <1>3 DEF TakesResponse
  <1>4. pc = "took" => Says(buf) = answer
    BY <1>0 DEF ExchangeInv
  <1>5. ASSUME GoesOn PROVE GrantInv'
    <2>1. pc = "took" /\ answer' = NoAnswer /\ step' = NextStep /\ step \in Steps
          /\ NextStep \notin {"fail", "tunnel"} /\ pc' = "send"
          /\ cookie' = (cookie \/ step = "login") /\ session' = session /\ slot' = slot /\ elsewhere' = elsewhere
      BY <1>0, <1>5 DEF GoesOn, ExchangeInv
    <2>2. session /\ (step' = "config" => slot \/ elsewhere)
      <3>1. CASE step = "login"
        BY <1>0, <1>4, <2>1, <3>1 DEF NextStep, GotCookie
      <3>2. CASE step = "index"
        BY <1>0, <2>1, <3>2 DEF NextStep
      <3>3. CASE step = "alloc"
        BY <1>0, <1>4, <2>1, <3>3 DEF NextStep, Status
      <3>4. CASE step = "redirect"
        BY <1>0, <1>4, <2>1, <3>4 DEF NextStep, Status, Allocated
      <3>5. CASE step = "config"
        BY <1>0, <2>1, <3>5 DEF NextStep
      <3> QED BY <2>1, <3>1, <3>2, <3>3, <3>4, <3>5 DEF Steps
    <2>3. cookie' = TRUE
      BY <1>0, <2>1
    <2> QED BY <1>0, <2>1, <2>2, <2>3
  <1>6. ASSUME StartsTunnel PROVE GrantInv'
    <2>1. step = "config"
      BY <1>0, <1>6 DEF StartsTunnel, NextStep, ExchangeInv, Steps
    <2> QED BY <1>0, <1>6, <2>1 DEF StartsTunnel
  <1>7. ASSUME NEW r \in Verdicts, NEW away \in BOOLEAN, Answers(r, away) PROVE GrantInv'
    <2>1. /\ answer' = r /\ UNCHANGED <<pc, step, cookie>>
          /\ session' = (session \/ r.cookie = "value")
          /\ elsewhere' = (elsewhere \/ away)
          /\ slot' = (slot \/ (r.status = 200 /\ (asked = "alloc" \/ (asked = "redirect" /\ ~elsewhere))))
          /\ asked \notin {"none", "tunnel"}
      BY <1>7 DEF Answers
    <2>2. pc \in {"read", "took"} => asked = step
      BY <1>0, <2>1 DEF ExchangeInv
    <2> QED BY <1>0, <2>1, <2>2
  <1>8. ASSUME \/ Listens \/ Accepts \/ DropsClient \/ AnswersJunk \/ GetsId
               \/ ReadsMore \/ RelayReads \/ SlowLineArrives \/ UserStops \/ RefusesTunnel \/ Dies
               \/ CutsShort \/ Tick \/ \E kind \in {"callback", "junk", "stalled"} : ClientConnects(kind)
               \/ \E p \in Payloads, noise \in Garbage : SendsFrame(noise, p)
               \/ UNCHANGED loginVars
        PROVE  GrantInv'
    <2>1. /\ UNCHANGED <<answer, step, session, slot, elsewhere, cookie>>
          /\ pc' = pc \/ pc' \in {"listen", "client", "send"}
      <3>1. CASE Listens \/ Accepts \/ DropsClient \/ AnswersJunk \/ GetsId
        BY <3>1 DEF Listens, Accepts, DropsClient, AnswersJunk, GetsId, Leaves, AfterJunk
      <3>2. CASE \/ ReadsMore \/ RelayReads \/ SlowLineArrives \/ UserStops \/ RefusesTunnel \/ Dies
                 \/ CutsShort \/ Tick
        BY <3>2 DEF ReadsMore, RelayReads, SlowLineArrives, UserStops, RefusesTunnel, Dies, CutsShort, Tick
      <3>3. CASE \E kind \in {"callback", "junk", "stalled"} : ClientConnects(kind)
        BY <3>3 DEF ClientConnects
      <3>4. CASE \E p \in Payloads, noise \in Garbage : SendsFrame(noise, p)
        BY <3>4 DEF SendsFrame
      <3>5. CASE UNCHANGED loginVars
        BY <3>5 DEF loginVars
      <3> QED BY <1>8, <3>1, <3>2, <3>3, <3>4, <3>5
    <2> QED BY <1>0, <2>1
  <1>9. CannotListen \/ SamlGivesUp \/ SendFails \/ Oversized \/ ReadFails \/ ExchangeRefused
          \/ AbortsBeforeTunnel \/ TunnelRequestFails \/ SeesHttp => Fails
    BY DEF CannotListen, SamlGivesUp, SendFails, Oversized, ReadFails, ExchangeRefused,
           AbortsBeforeTunnel, TunnelRequestFails, SeesHttp
  <1> QED BY <1>1, <1>2, <1>3, <1>5, <1>6, <1>7, <1>8, <1>9 DEF LoginNext, Thread

\* A response is under way only after the request it answers, and is all there when
\* it is taken.
LEMMA ExchangeStep ==
  ExchangeInv /\ [LoginNext]_loginVars => ExchangeInv'
  <1> SUFFICES ASSUME ExchangeInv, [LoginNext]_loginVars PROVE ExchangeInv'
    OBVIOUS
  <1> USE DEF samlVars, tlsVars, endVars, grantVars, tunnelVars
  <1>0. /\ \A n \in 0 .. Len(<<>>) : SubSeq(<<>>, 1, n) = <<>>
        /\ ~HasHeaders(<<>>) /\ Len(<<>>) = 0 /\ 1 .. 0 = {}
    <2>1. \A n \in 0 .. Len(<<>>) : SubSeq(<<>>, 1, n) = <<>>
      BY SubSeqEmpty
    <2>2. ~HasHeaders(<<>>)
      <3>1. {i \in 1 .. Len(<<>>) : <<>>[i].t \in {"headers_end", "blank"}} = {}
        OBVIOUS
      <3> QED BY <3>1 DEF HasHeaders, HeadersEnd
    <2> QED BY <2>1, <2>2
  <1>1. ASSUME Fails PROVE ExchangeInv'
    BY <1>1 DEF Fails, ExchangeInv
  <1>2. ASSUME \/ Listens \/ Accepts \/ DropsClient \/ AnswersJunk \/ GetsId \/ Tick
               \/ SlowLineArrives \/ UserStops
               \/ \E kind \in {"callback", "junk", "stalled"} : ClientConnects(kind)
               \/ UNCHANGED loginVars
        PROVE  ExchangeInv'
    <2>1. /\ UNCHANGED <<step, asked, wire, ended_by, curtailed, answer, buf>>
          /\ \/ pc' = pc
             \/ pc \in {"bind", "listen", "client"} /\ pc' \in {"listen", "client", "send"}
      <3>1. CASE Listens \/ Accepts \/ DropsClient \/ AnswersJunk \/ GetsId \/ Tick
        BY <3>1 DEF Listens, Accepts, DropsClient, AnswersJunk, GetsId, Leaves, AfterJunk, Tick
      <3>2. CASE SlowLineArrives \/ UserStops
        BY <3>2 DEF SlowLineArrives, UserStops
      <3>3. CASE \E kind \in {"callback", "junk", "stalled"} : ClientConnects(kind)
        BY <3>3 DEF ClientConnects
      <3>4. CASE UNCHANGED loginVars
        BY <3>4 DEF loginVars
      <3> QED BY <1>2, <3>1, <3>2, <3>3, <3>4
    <2>2. (Arriving' <=> Arriving) /\ (Taken' <=> Taken)
      BY <2>1 DEF Arriving, Taken
    <2> QED BY <2>1, <2>2 DEF ExchangeInv
  <1>3. ASSUME Sends PROVE ExchangeInv'
    BY <1>3 DEF Sends, ExchangeInv
  <1>4. ASSUME ReadsMore PROVE ExchangeInv'
    <2>1. PICK n \in 1 .. Len(wire) :
            buf' = buf \o SubSeq(wire, 1, n) /\ wire' = SubSeq(wire, n + 1, Len(wire))
      BY <1>4 DEF ReadsMore
    <2>2. pc = "read" /\ UNCHANGED <<pc, step, asked, ended_by, curtailed, answer>>
      BY <1>4 DEF ReadsMore
    <2>3. asked = "none" /\ Arriving
      BY <1>0, <2>1, <2>2 DEF ExchangeInv
    <2> DEFINE S == CellsOf(answer)
               u == SubSeq(wire, 1, n)
    <2>4. buf \in Seq(S) /\ wire \in Seq(S)
      BY <2>3 DEF Arriving
    <2>5. Len(wire) \in Nat /\ n \in 0 .. Len(wire)
      BY <2>4, LenProperties
    <2>6. u \in Seq(S) /\ wire' \in Seq(S) /\ u \o wire' = wire
      BY <2>1, <2>4, <2>5, Cut
    <2> HIDE DEF u, S
    <2>7. buf' = buf \o u
      BY <2>1 DEF u
    <2>8. buf' \in Seq(S) /\ buf' \o wire' = buf \o wire
      <3>1. (buf \o u) \o wire' = buf \o (u \o wire')
        <4>1. Regroups(buf, u, wire')
          BY <2>4, <2>6, Regrouping
        <4> QED BY <4>1 DEF Regroups
      <3> QED BY <2>4, <2>6, <2>7, <3>1, ConcatProperties
    <2>9. Arriving'
      BY <2>2, <2>3, <2>6, <2>8 DEF Arriving, S
    <2> QED BY <2>2, <2>3, <2>9 DEF ExchangeInv
  <1>5. ASSUME TakesResponse PROVE ExchangeInv'
    <2>1. pc = "read" /\ Complete /\ pc' = "took" /\ 
          /\ UNCHANGED <<step, asked, wire, ended_by, curtailed, answer, buf>>
      BY <1>5 DEF TakesResponse
    <2>2. asked = "none" /\ Arriving
      BY <1>0, <2>1 DEF ExchangeInv, Complete
    <2> DEFINE S == CellsOf(answer)
    <2>3. PICK rest \in Seq(S) :
            /\ (buf \o wire) \o rest = Message(answer)
            /\ answer.framing = "close" /\ ended_by = "clean" /\ ~curtailed => rest = <<>>
      BY <2>2 DEF Arriving
    <2>4. Genuine(answer) /\ buf \in Seq(S) /\ wire \in Seq(S)
      BY <2>2 DEF Arriving
    <2> HIDE DEF S
    <2> DEFINE more == wire \o rest
               eof == wire = <<>> /\ ended_by = "clean"
    <2>5. more \in Seq(S) /\ buf \o more = Message(answer)
      <3>1. (buf \o wire) \o rest = buf \o (wire \o rest)
        <4>1. Regroups(buf, wire, rest)
          BY <2>3, <2>4, Regrouping
        <4> QED BY <4>1 DEF Regroups
      <3> QED BY <2>3, <2>4, <3>1, ConcatProperties
    <2>6. HasHeaders(buf) /\ BodyComplete(buf, eof)
      BY <2>1 DEF Complete
    <2>7. ~curtailed /\ answer.framing = "close" /\ eof => more = <<>>
      <3>1. ~curtailed /\ answer.framing = "close" /\ eof => wire = <<>> /\ rest = <<>>
        BY <2>3
      <3>2. <<>> \o <<>> = <<>>
        OBVIOUS
      <3> QED BY <3>1, <3>2
    <2>8. eof \in BOOLEAN
      OBVIOUS
    <2>9. Says(buf) = answer
      <3>1. Len(buf) \in Nat /\ Len(buf) # 0
        <4>1. Len(buf) \in Nat
          BY <2>4, LenProperties
        <4>2. Len(buf) = 0 => ~HasHeaders(buf)
          BY DEF HasHeaders, HeadersEnd
        <4> QED BY <2>6, <4>1, <4>2
      <3> HIDE DEF more, eof
      <3>2. (buf \o more)[1] = buf[1]
        BY <2>4, <2>5, <3>1, ConcatProperties
      <3>3. buf[1] = HeadCell(answer)
        BY <2>4, <2>5, <3>2, MessageIs
      <3> QED BY <3>3 DEF Says, HeadCell
    <2>10. CASE curtailed
      <3>1. answer.framing = "close"
        BY <2>2, <2>10 DEF Arriving
      <3>2. wire = <<>>
        BY <2>6, <2>9, <3>1 DEF BodyComplete
      <3>3. buf = SubSeq(Message(answer), 1, Len(buf))
        <4> HIDE DEF more, eof
        <4>1. SubSeq(buf \o more, 1, Len(buf)) = buf
          BY <2>4, <2>5, FirstPart
        <4> QED BY <2>5, <4>1
      <3>4. Taken'
        BY <2>1, <2>10, <3>1, <3>3 DEF Taken
      <3> QED BY <2>1, <2>2, <2>9, <3>2, <3>4 DEF ExchangeInv
    <2>11. CASE ~curtailed
      <3> HIDE DEF more, eof
      <3>1. buf = Message(answer) /\ more = <<>> /\ Content(buf) = answer.body
        <4>1. Splits(answer, buf, more)
          BY <2>4, <2>5 DEF S, Splits
        <4>2. IsWhole(answer, buf, more)
          BY <2>6, <2>7, <2>8, <2>11, <4>1, WholeResponse
        <4> QED BY <4>2 DEF IsWhole
      <3>2. wire = <<>>
        BY <2>3, <2>4, <3>1, ConcatEqualIffEmpty DEF more
      <3>3. Taken'
        BY <2>1, <2>11, <3>1 DEF Taken
      <3> QED BY <2>1, <2>2, <2>9, <3>2, <3>3 DEF ExchangeInv
    <2> QED BY <2>10, <2>11
  <1>6. ASSUME GoesOn PROVE ExchangeInv'
    <2>1. step' \in Steps
      <3>1. step' = NextStep /\ NextStep \notin {"fail", "tunnel"} /\ step \in Steps
        BY <1>6 DEF GoesOn, ExchangeInv
      <3>2. NextStep \in {"index", "alloc", "redirect", "config", "tunnel", "fail"}
        BY <3>1 DEF NextStep, Steps
      <3> QED BY <3>1, <3>2 DEF Steps
    <2> QED BY <1>6, <2>1 DEF GoesOn, ExchangeInv
  <1>7. ASSUME StartsTunnel PROVE ExchangeInv'
    BY <1>7 DEF StartsTunnel, ExchangeInv
  <1>8. asked \notin {"none", "tunnel"} => pc = "read" /\ asked = step /\ wire = <<>> /\ buf = <<>>
    BY DEF ExchangeInv
  <1>9. asked = "tunnel" => pc = "relay"
    BY DEF ExchangeInv, Steps
  <1>10. ASSUME RelayReads \/ RefusesTunnel
                \/ \E p \in Payloads, noise \in Garbage : SendsFrame(noise, p)
         PROVE  ExchangeInv'
    <2>1. pc = "relay" /\ UNCHANGED <<pc, step, endVars>> /\ asked' \in {asked, "none"}
      <3>1. CASE RelayReads
        BY <3>1 DEF RelayReads
      <3>2. CASE RefusesTunnel
        BY <1>9, <3>2 DEF RefusesTunnel
      <3>3. CASE \E p \in Payloads, noise \in Garbage : SendsFrame(noise, p)
        BY <1>9, <3>3 DEF SendsFrame
      <3> QED BY <1>10, <3>1, <3>2, <3>3
    <2> QED BY <2>1 DEF ExchangeInv
  <1>11. ASSUME NEW r \in Verdicts, NEW away \in BOOLEAN, Answers(r, away) PROVE ExchangeInv'
    <2>1. /\ asked \notin {"none", "tunnel"} /\ WellFormed(r) /\ wire' = wire \o Message(r)
          /\ answer' = r /\ asked' = "none" /\ UNCHANGED <<pc, step, buf>>
          /\ r.framing = "close" => ended_by' # "open"
          /\ ended_by = "open" /\ curtailed' = curtailed
      BY <1>11 DEF Answers
    <2>2. pc = "read" /\ wire = <<>> /\ buf = <<>> /\ Genuine(r) /\ ~curtailed'
      BY <1>8, <2>1 DEF Genuine, ExchangeInv
    <2> DEFINE S == CellsOf(r)
               m == Message(r)
    <2>3. m \in Seq(S) /\ <<>> \in Seq(S)
      BY <2>2, MessageIs
    <2> HIDE DEF S, m
    <2>4. <<>> \o m = m /\ m \o <<>> = m
      BY <2>3, ConcatEmptySeq
    <2>5. wire' = m /\ buf' = <<>> /\ (buf' \o wire') \o <<>> = m
      BY <2>1, <2>2, <2>4 DEF m
    <2>6. Arriving'
      BY <2>1, <2>2, <2>3, <2>5 DEF Arriving, S, m
    <2> QED BY <2>1, <2>2, <2>6 DEF ExchangeInv
  <1>12. ASSUME Dies \/ CutsShort PROVE ExchangeInv'
    <2>1. /\ pc \in {"send", "read"} /\ UNCHANGED <<pc, step, asked, answer, buf>>
          /\ ended_by' # "open"
          /\ \/ /\ curtailed' = curtailed
                /\ ended_by = "open" \/ ended_by' = "broken"
             \/ curtailed' = TRUE /\ answer.framing = "close" /\ pc = "read"
      BY <1>12 DEF Dies, CutsShort
    <2>2. PICK n \in 0 .. Len(wire) : wire' = SubSeq(wire, 1, n)
      <3>1. CASE Dies
        BY <3>1 DEF Dies, Loses
      <3>2. CASE CutsShort
        <4>1. PICK n \in 0 .. Len(wire) - 1 : wire' = SubSeq(wire, 1, n)
          BY <3>2 DEF CutsShort, Loses
        <4>2. n \in 0 .. Len(wire)
          <5>1. wire # <<>> => Len(wire) \in Nat
            <6>1. pc = "read" /\ (wire # <<>> => Arriving)
              BY <3>2 DEF CutsShort, ExchangeInv
            <6> QED BY <6>1, LenProperties DEF Arriving
          <5> QED BY <4>1, <5>1
        <4> QED BY <4>1, <4>2
      <3> QED BY <1>12, <3>1, <3>2
    <2>3. CASE wire = <<>> /\ ~(pc = "read" /\ asked = "none")
      <3>1. ~(answer.framing = "close")
        BY <2>1, <2>3 DEF ExchangeInv, Steps, NoAnswer, Response
      <3> QED BY <1>0, <2>1, <2>2, <2>3, <3>1 DEF ExchangeInv
    <2>4. CASE pc = "read" /\ asked = "none"
      <3> DEFINE S == CellsOf(answer)
      <3>1. Arriving
        BY <2>4 DEF ExchangeInv, Steps
      <3>2. PICK rest \in Seq(S) : (buf \o wire) \o rest = Message(answer)
        BY <3>1 DEF Arriving
      <3>3. buf \in Seq(S) /\ wire \in Seq(S)
        BY <3>1 DEF Arriving
      <3> DEFINE lost == SubSeq(wire, n + 1, Len(wire))
      <3>4. wire' \in Seq(S) /\ lost \in Seq(S) /\ wire' \o lost = wire
        BY <2>2, <3>3, Cut
      <3> HIDE DEF S, lost
      <3>5. lost \o rest \in Seq(S) /\ (buf \o wire') \o (lost \o rest) = (buf \o wire) \o rest
        <4>1. buf \o wire' \in Seq(S) /\ lost \o rest \in Seq(S)
          BY <3>2, <3>3, <3>4, ConcatProperties
        <4>2. (buf \o wire') \o (lost \o rest) = ((buf \o wire') \o lost) \o rest
          <5>1. Regroups(buf \o wire', lost, rest)
            BY <3>2, <3>4, <4>1, Regrouping
          <5> QED BY <5>1 DEF Regroups
        <4>3. (buf \o wire') \o lost = buf \o (wire' \o lost)
          <5>1. Regroups(buf, wire', lost)
            BY <3>3, <3>4, Regrouping
          <5> QED BY <5>1 DEF Regroups
        <4> QED BY <3>4, <4>1, <4>2, <4>3
      <3>6. /\ answer.framing = "close" /\ ended_by' = "clean" => curtailed'
            /\ curtailed' => answer.framing = "close"
        <4>1. /\ answer.framing = "close" => ended_by # "open"
              /\ curtailed => answer.framing = "close"
          BY <3>1 DEF Arriving
        <4> QED BY <2>1, <4>1
      <3>7. Arriving'
        BY <2>1, <3>1, <3>2, <3>4, <3>5, <3>6 DEF Arriving, S
      <3> QED BY <2>1, <2>4, <3>7 DEF ExchangeInv
    <2> QED BY <2>1, <2>3, <2>4 DEF ExchangeInv
  <1>13. CannotListen \/ SamlGivesUp \/ SendFails \/ Oversized \/ ReadFails \/ ExchangeRefused
          \/ AbortsBeforeTunnel \/ TunnelRequestFails \/ SeesHttp => Fails
    BY DEF CannotListen, SamlGivesUp, SendFails, Oversized, ReadFails, ExchangeRefused,
           AbortsBeforeTunnel, TunnelRequestFails, SeesHttp
  <1> QED BY <1>1, <1>2, <1>3, <1>4, <1>5, <1>6, <1>7, <1>10, <1>11, <1>12, <1>13
          DEF LoginNext, Thread

\* What the loop of run_relay makes of nothing.
LEMMA NothingLeft ==
  <<>> \in Seq(Bytes) /\ NeedsMore(<<>>) /\ Left[<<>>] = <<>> /\ Frames[<<>>] = <<>>
  <1>1. <<>> \in Seq(Bytes) /\ NeedsMore(<<>>)
    BY DEF NeedsMore, HeaderLen
  <1> QED BY <1>1, LeftIs, FramesIs

\* Taking bytes off the wire and putting a frame on it leave the sum of the payloads as
\* it was, with the new one at its end.
LEMMA TunnelStep ==
  ExchangeInv /\ TunnelInv /\ [LoginNext]_loginVars => TunnelInv'
  <1> SUFFICES ASSUME ExchangeInv, TunnelInv, [LoginNext]_loginVars PROVE TunnelInv'
    OBVIOUS
  <1> USE DEF samlVars, tlsVars, endVars, grantVars, tunnelVars
  <1>1. ASSUME Fails PROVE TunnelInv'
    BY <1>1 DEF Fails, TunnelInv
  <1>2. ASSUME StartsTunnel PROVE TunnelInv'
    <2>1. /\ pc = "took" /\ pc' = "relay" /\ asked' = "tunnel" /\ buf' = <<>>
          /\ UNCHANGED <<wire, frames, due>>
      BY <1>2 DEF StartsTunnel
    <2>2. wire = <<>> /\ frames = <<>> /\ due = <<>>
      BY <2>1 DEF ExchangeInv, TunnelInv
    <2>3. <<>> \o <<>> = <<>> /\ <<>> \in Seq(Seq(Bytes))
      OBVIOUS
    <2> QED BY <2>1, <2>2, <2>3, NothingLeft DEF TunnelInv
  <1>3. ASSUME RelayReads PROVE TunnelInv'
    <2>1. pc = "relay" /\ UNCHANGED <<pc, asked, due>>
      BY <1>3 DEF RelayReads
    <2>2. PICK n \in 1 .. Len(wire) :
            /\ wire' = SubSeq(wire, n + 1, Len(wire))
            /\ buf' = Left[buf \o SubSeq(wire, 1, n)]
            /\ frames' = frames \o Frames[buf \o SubSeq(wire, 1, n)]
      BY <1>3 DEF RelayReads
    <2>3. CASE asked # "tunnel"
      BY <2>1, <2>3 DEF TunnelInv
    <2>4. CASE asked = "tunnel"
      <3> DEFINE u == SubSeq(wire, 1, n)
                 acc == buf \o u
                 F == Seq(Bytes)
      <3>1. /\ buf \in F /\ wire \in F /\ frames \in Seq(F)
            /\ frames \o Frames[buf \o wire] = due /\ Left[buf \o wire] = <<>>
        BY <2>1, <2>4 DEF TunnelInv
      <3>2. Len(wire) \in Nat /\ n \in 0 .. Len(wire)
        BY <3>1, LenProperties
      <3>3. u \in F /\ wire' \in F /\ u \o wire' = wire
        BY <2>2, <3>1, <3>2, Cut
      <3> HIDE DEF u
      <3>4. acc \in F /\ acc \o wire' = buf \o wire
        <4>1. Regroups(buf, u, wire')
          BY <3>1, <3>3, Regrouping
        <4>2. acc \in F
          BY <3>1, <3>3, ConcatProperties
        <4> QED BY <3>3, <4>1, <4>2 DEF Regroups
      <3>5. buf' = Left[acc] /\ frames' = frames \o Frames[acc]
        BY <2>2 DEF u
      <3> HIDE DEF acc
      <3>6. /\ Left[acc] \in F /\ NeedsMore(Left[acc])
            /\ Left[acc \o wire'] = Left[Left[acc] \o wire']
            /\ Frames[acc \o wire'] = Frames[acc] \o Frames[Left[acc] \o wire']
        BY <3>3, <3>4, PiecesDoNotMatter
      <3>7. Left[buf' \o wire'] = <<>>
        BY <3>1, <3>4, <3>5, <3>6
      <3>8. Frames[acc] \in Seq(F) /\ Frames[buf' \o wire'] \in Seq(F) /\ frames' \in Seq(F)
        <4>1. buf' \o wire' \in F
          BY <3>3, <3>5, <3>6, ConcatProperties
        <4>2. Frames[acc] \in Seq(F) /\ Frames[buf' \o wire'] \in Seq(F)
          BY <3>4, <4>1, FramesIs
        <4> QED BY <3>1, <3>5, <4>2, ConcatProperties
      <3>9. frames' \o Frames[buf' \o wire'] = due
        <4>1. Regroups(frames, Frames[acc], Frames[buf' \o wire'])
          BY <3>1, <3>8, Regrouping
        <4>2. Frames[acc] \o Frames[buf' \o wire'] = Frames[buf \o wire]
          BY <3>4, <3>5, <3>6
        <4> QED BY <3>1, <3>5, <4>1, <4>2 DEF Regroups
      <3> QED BY <2>1, <3>3, <3>5, <3>6, <3>7, <3>8, <3>9 DEF TunnelInv
    <2> QED BY <2>3, <2>4
  <1>4. ASSUME NEW p \in Payloads, NEW noise \in Garbage, SendsFrame(noise, p) PROVE TunnelInv'
    <2>1. /\ asked = "tunnel" /\ wire' = (wire \o noise) \o FrameRaw(p) /\ due' = due \o Worthy(p)
          /\ UNCHANGED <<pc, asked, buf, frames>>
      BY <1>4 DEF SendsFrame
    <2> DEFINE F == Seq(Bytes)
               old == buf \o wire
               new == noise \o FrameRaw(p)
    <2>2. pc = "relay"
      BY <2>1 DEF ExchangeInv, Steps
    <2>3. /\ buf \in F /\ wire \in F /\ frames \in Seq(F) /\ NeedsMore(buf)
          /\ frames \o Frames[old] = due /\ Left[old] = <<>>
      BY <2>1, <2>2 DEF TunnelInv
    <2>4. /\ p \in F /\ Len(p) >= 1 /\ Len(p) + HeaderLen < Base * Base
          /\ noise \in Seq(Bytes \ {Magic}) /\ Magic + HeaderLen < Base
      BY LoginAssumption
    <2>5. Left[new] = <<>> /\ Frames[new] = Worthy(p)
      BY <2>4, FrameAfterNoise
    <2>6. noise \in F /\ FrameRaw(p) \in F
      <3>1. noise \in F
        BY <2>4, SeqMonotonic, Zenon
      <3> QED BY <2>4, <3>1, HeaderIs
    <2>7. new \in F /\ old \in F
      BY <2>3, <2>6, ConcatProperties
    <2>8. wire' \in F /\ buf' \o wire' = old \o new
      <3>1. Regroups(wire, noise, FrameRaw(p))
        BY <2>3, <2>6, Regrouping
      <3>2. wire' = wire \o new
        BY <2>1, <3>1 DEF Regroups
      <3> HIDE DEF new
      <3>3. Regroups(buf, wire, new)
        BY <2>3, <2>7, Regrouping
      <3>4. wire' \in F
        BY <2>3, <2>7, <3>2, ConcatProperties
      <3> QED BY <2>1, <3>2, <3>3, <3>4 DEF Regroups
    <2> HIDE DEF old, new
    <2>9. /\ Left[old \o new] = Left[Left[old] \o new]
          /\ Frames[old \o new] = Frames[old] \o Frames[Left[old] \o new]
      BY <2>7, PiecesDoNotMatter
    <2>10. <<>> \o new = new
      BY <2>7, ConcatEmptySeq
    <2>11. Left[buf' \o wire'] = <<>> /\ Frames[buf' \o wire'] = Frames[old] \o Worthy(p)
      BY <2>3, <2>5, <2>8, <2>9, <2>10
    <2>12. frames' \o Frames[buf' \o wire'] = due'
      <3>1. Frames[old] \in Seq(F) /\ Worthy(p) \in Seq(F)
        <4>1. Frames[old] \in Seq(F) /\ Frames[new] \in Seq(F)
          BY <2>7, FramesIs
        <4> QED BY <2>5, <4>1
      <3> HIDE DEF F
      <3>2. Regroups(frames, Frames[old], Worthy(p))
        BY <2>3, <3>1, Regrouping
      <3> QED BY <2>1, <2>3, <2>11, <3>2 DEF Regroups
    <2> QED BY <2>1, <2>2, <2>3, <2>8, <2>11, <2>12 DEF TunnelInv
  <1>5. ASSUME RefusesTunnel PROVE TunnelInv'
    BY <1>5 DEF RefusesTunnel, TunnelInv
  <1>6. ASSUME \/ Listens \/ Accepts \/ DropsClient \/ AnswersJunk \/ GetsId \/ Tick
               \/ SlowLineArrives \/ UserStops \/ Dies \/ CutsShort
               \/ Sends \/ ReadsMore \/ TakesResponse \/ GoesOn
               \/ \E kind \in {"callback", "junk", "stalled"} : ClientConnects(kind)
               \/ \E r \in Verdicts, away \in BOOLEAN : Answers(r, away)
        PROVE  TunnelInv'
    <2>1. pc # "relay" /\ pc' # "relay" /\ UNCHANGED <<frames, due>>
      <3>1. CASE Listens \/ Accepts \/ DropsClient \/ AnswersJunk \/ GetsId \/ Tick
        BY <3>1 DEF Listens, Accepts, DropsClient, AnswersJunk, GetsId, Leaves, AfterJunk, Tick
      <3>2. CASE SlowLineArrives \/ UserStops \/ Dies \/ CutsShort
        BY <3>2 DEF SlowLineArrives, UserStops, Dies, CutsShort
      <3>3. CASE Sends \/ ReadsMore \/ TakesResponse \/ GoesOn
        BY <3>3 DEF Sends, ReadsMore, TakesResponse, GoesOn
      <3>4. CASE \E kind \in {"callback", "junk", "stalled"} : ClientConnects(kind)
        BY <3>4 DEF ClientConnects
      <3>5. CASE \E r \in Verdicts, away \in BOOLEAN : Answers(r, away)
        BY <3>5 DEF Answers, ExchangeInv
      <3> QED BY <1>6, <3>1, <3>2, <3>3, <3>4, <3>5
    <2> QED BY <2>1 DEF TunnelInv
  <1>7. CASE UNCHANGED loginVars
    BY <1>7 DEF loginVars, TunnelInv
  <1>8. CannotListen \/ SamlGivesUp \/ SendFails \/ Oversized \/ ReadFails \/ ExchangeRefused
          \/ AbortsBeforeTunnel \/ TunnelRequestFails \/ SeesHttp => Fails
    BY DEF CannotListen, SamlGivesUp, SendFails, Oversized, ReadFails, ExchangeRefused,
           AbortsBeforeTunnel, TunnelRequestFails, SeesHttp
  <1> QED BY <1>1, <1>2, <1>3, <1>4, <1>5, <1>6, <1>7, <1>8 DEF LoginNext, Thread

-----------------------------------------------------------------------------
(* The theorems. *)

\* The inductive invariant: where the SAML wait, an exchange and the tunnel are, and what
\* the gateway granted by then.
THEOREM InvariantHolds == LoginSpec => []IInv
  <1>1. LoginInit => IInv
    <2> SUFFICES ASSUME LoginInit PROVE IInv
      OBVIOUS
    <2>1. SamlInv
      BY DEF LoginInit, SamlInv
    <2>2. ExchangeInv
      BY DEF LoginInit, ExchangeInv, Steps
    <2>3. GrantInv
      BY DEF LoginInit, GrantInv, NoAnswer, Response
    <2>4. TunnelInv
      BY DEF LoginInit, TunnelInv
    <2> QED BY <2>1, <2>2, <2>3, <2>4 DEF IInv
  <1>2. IInv /\ [LoginNext]_loginVars => IInv'
    BY SamlStep, ExchangeStep, GrantStep, TunnelStep DEF IInv
  <1> QED BY <1>1, <1>2, PTL DEF LoginSpec

\* The response an exchange is taken to have is the gateway's, all of it and nothing else,
\* for every framing, body and cut of it into pieces, wherever the connection breaks,
\* unless the gateway cut a close-delimited one short (read_http_response).
THEOREM ResponsesAreWhole == LoginSpec => []ExchangesStayFramed
  <1>1. IInv => ExchangesStayFramed
    BY DEF IInv, ExchangeInv, Taken, ExchangesStayFramed
  <1> QED BY <1>1, InvariantHolds, PTL

\* The tunnel is entered only with a session, a cookie and a slot, but for a gateway that
\* redirected the allocation elsewhere (authenticate_password, allocate_tunnel).
THEOREM TunnelIsEarned == LoginSpec => []TunnelNeedsSlot
  <1>1. IInv => TunnelNeedsSlot
    BY DEF IInv, GrantInv, TunnelNeedsSlot
  <1> QED BY <1>1, InvariantHolds, PTL

\* The relay pops the payloads sent, in order, all that came, none altered and none made
\* up, for every base, payload, noise and cut into pieces (run_relay, pop_frame).
THEOREM FramesArriveAsSent == LoginSpec => []FramesAsSent
  <1>1. IInv => FramesAsSent
    <2> SUFFICES ASSUME IInv, pc = "relay", asked = "tunnel"
                 PROVE  /\ frames = SubSeq(due, 1, Len(frames))
                        /\ wire = <<>> => frames = due /\ buf = <<>>
      BY DEF FramesAsSent
    <2> DEFINE F == Seq(Bytes)
               more == Frames[buf \o wire]
    <2>1. /\ buf \in F /\ wire \in F /\ frames \in Seq(F) /\ NeedsMore(buf)
          /\ frames \o more = due /\ Left[buf \o wire] = <<>>
      BY DEF IInv, TunnelInv
    <2>2. more \in Seq(F)
      <3>1. buf \o wire \in F
        BY <2>1, ConcatProperties
      <3> QED BY <3>1, FramesIs
    <2>3. frames = SubSeq(due, 1, Len(frames))
      <3> HIDE DEF F, more
      <3>1. SubSeq(frames \o more, 1, Len(frames)) = frames
        BY <2>1, <2>2, FirstPart
      <3> QED BY <2>1, <3>1
    <2>4. ASSUME wire = <<>> PROVE frames = due /\ buf = <<>>
      <3>1. buf \o <<>> = buf /\ frames \o <<>> = frames
        BY <2>1, ConcatEmptySeq
      <3>2. buf = <<>>
        BY <2>1, <2>4, <3>1, LeftIs
      <3>3. more = <<>>
        BY <2>4, <3>1, <3>2, NothingLeft
      <3> QED BY <2>1, <3>1, <3>2, <3>3
    <2> QED BY <2>3, <2>4
  <1> QED BY <1>1, InvariantHolds, PTL

\* The SAML wait ends in time, whatever local clients do and however many they are
\* (wait_for_saml_callback).
THEOREM SamlWaitIsBounded == LoginSpec => []SamlIsBounded
  <1>1. IInv => SamlIsBounded
    BY LoginAssumption DEF IInv, SamlInv, SamlIsBounded
  <1> QED BY <1>1, InvariantHolds, PTL
=============================================================================
