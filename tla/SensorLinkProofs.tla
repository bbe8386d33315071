-------------------------- MODULE SensorLinkProofs --------------------------
(***************************************************************************)
(* Theorems about SensorLink, for every number and size of the data packets, *)
(* every size of the queue and any number of damaged answers: as long as the *)
(* driver has met no bad packet it is in step with the sensor.               *)
(***************************************************************************)
EXTENDS SensorLink, SequenceTheorems, TLAPS

Bytes == [of : PacketsSent, pos : Nat \ {0}, bad : BOOLEAN, own : BOOLEAN]
Streams == Seq(Bytes)

-----------------------------------------------------------------------------
\* Sequences of bytes: what First, After, Held and Stale make of one.

LEMMA FirstBytes ==
  ASSUME NEW s \in Streams, NEW n \in 0 .. Len(s)
  PROVE  /\ First(s, n) \in Streams /\ Len(First(s, n)) = n
         /\ \A i \in 1 .. n : First(s, n)[i] = s[i]
BY DEF First, Streams

LEMMA AfterBytes ==
  ASSUME NEW s \in Streams, NEW n \in Nat
  PROVE  /\ After(s, n) \in Streams
         /\ Len(After(s, n)) = IF n <= Len(s) THEN Len(s) - n ELSE 0
         /\ \A i \in 1 .. Len(s) - n : After(s, n)[i] = s[n + i]
BY DEF After, Streams

LEMMA HeldBytes ==
  ASSUME NEW s \in Streams
  PROVE  Held(s) \in Streams /\ (s = <<>> => Held(s) = <<>>)
<1>1. QueueSize \in Nat
  BY LinkAssumption
<1>2. CASE Len(s) > QueueSize
  BY <1>1, <1>2, FirstBytes DEF Held, Streams
<1>3. CASE ~(Len(s) > QueueSize)
  BY <1>1, <1>3 DEF Held
<1> QED BY <1>2, <1>3

LEMMA StaleBytes ==
  ASSUME NEW s \in Streams
  PROVE  Stale(s) \in Streams /\ (s = <<>> => Stale(s) = <<>>)
<1>1. Stale(s) = [i \in 1 .. Len(s) |-> [s[i] EXCEPT !.own = FALSE]]
  BY DEF Stale, Streams
<1>2. \A i \in 1 .. Len(s) : [s[i] EXCEPT !.own = FALSE] \in Bytes
  <2>1. \A i \in 1 .. Len(s) : s[i] \in Bytes
    BY DEF Streams
  <2>2. \A b \in Bytes : [b EXCEPT !.own = FALSE] \in Bytes
    BY DEF Bytes
  <2> QED BY <2>1, <2>2
<1>3. Stale(s) \in Streams
  BY <1>1, <1>2, SeqDef DEF Streams
<1>4. Len(Stale(s)) = Len(s)
  BY <1>1, <1>3, LenProperties DEF Streams
<1>5. s = <<>> => Stale(s) = <<>>
  BY <1>3, <1>4, EmptySeq DEF Streams
<1> QED BY <1>3, <1>5

\* A concatenation is the one sequence, then the other.
LEMMA JoinBytes ==
  ASSUME NEW s \in Streams, NEW t \in Streams
  PROVE  /\ s \o t \in Streams /\ Len(s \o t) = Len(s) + Len(t)
         /\ \A i \in 1 .. Len(s) : (s \o t)[i] = s[i]
         /\ \A i \in 1 .. Len(t) : (s \o t)[Len(s) + i] = t[i]
BY DEF Streams

-----------------------------------------------------------------------------
\* What the sensor sends.

SpanOf(p) == HEAD + p.size + CHECKSUM

\* A packet is sent as its bytes in order.
LEMMA SentBytes ==
  ASSUME NEW p \in PacketsSent
  PROVE  /\ SpanOf(p) \in Nat \ (0 .. 10)
         /\ Sent(p) \in Streams /\ Len(Sent(p)) = SpanOf(p)
         /\ \A i \in 1 .. SpanOf(p) :
              Sent(p)[i] = [of |-> p, pos |-> i, bad |-> FALSE, own |-> TRUE]
<1>1. SpanOf(p) \in Nat \ (0 .. 10)
  BY DEF PacketsSent, SpanOf, HEAD, CHECKSUM
<1>2. \A i \in 1 .. SpanOf(p) : [of |-> p, pos |-> i, bad |-> FALSE, own |-> TRUE] \in Bytes
  BY <1>1 DEF Bytes
<1>3. Sent(p) \in [1 .. SpanOf(p) -> Bytes]
  BY <1>2 DEF Sent, SpanOf
<1>4. Sent(p) \in Streams
  BY <1>1, <1>3, SeqDef DEF Streams
<1>5. Len(Sent(p)) = SpanOf(p)
  BY <1>1, <1>3, <1>4, LenProperties DEF Streams
<1> QED BY <1>1, <1>4, <1>5 DEF Sent, SpanOf

\* The packet of an answer.
AnswerPacket(c, value) == PacketOf(AnswerSize(c), FALSE, value)

\* It is a packet, with the code the sensor answers.
LEMMA AnswerPacketSent ==
  ASSUME NEW c, NEW value \in Codes
  PROVE  /\ AnswerPacket(c, value) \in PacketsSent
         /\ AnswerPacket(c, value).size = AnswerSize(c) /\ AnswerSize(c) > 0
         /\ AnswerPacket(c, value).code = value /\ ~AnswerPacket(c, value).more
<1>1. AnswerSize(c) \in Nat \ {0}
  BY DEF AnswerSize
<1> QED BY <1>1 DEF AnswerPacket, PacketOf, PacketsSent

\* A data packet is some bytes long, the template that many times as many.
LEMMA Spans ==
  /\ PacketSpan \in Nat \ (0 .. 10)
  /\ Packets * PacketSpan \in Nat
  /\ (Packets - 1) * PacketSpan = Packets * PacketSpan - PacketSpan
BY LinkAssumption DEF PacketSpan, HEAD, CHECKSUM

\* The bytes of a template, by their place in it.
LEMMA DataBytes ==
  /\ DataStream \in Streams /\ Len(DataStream) = Packets * PacketSpan
  /\ \A i \in 1 .. Packets * PacketSpan :
       DataStream[i] = [of |-> PacketOf(PacketSize, i <= (Packets - 1) * PacketSpan, "OK"),
                        pos |-> ((i - 1) % PacketSpan) + 1, bad |-> FALSE, own |-> TRUE]
<1> DEFINE N == Packets * PacketSpan
           M == (Packets - 1) * PacketSpan
<1>1. N \in Nat /\ M \in Int /\ PacketSpan \in Nat \ {0}
  BY Spans
<1>2. \A i \in 1 .. N : PacketOf(PacketSize, i <= M, "OK") \in PacketsSent
  BY LinkAssumption DEF PacketOf, PacketsSent, Codes
<1>3. \A i \in 1 .. N : ((i - 1) % PacketSpan) + 1 \in Nat \ {0}
  BY <1>1
<1>4. DataStream = [i \in 1 .. N |->
         [of |-> PacketOf(PacketSize, i <= M, "OK"),
          pos |-> ((i - 1) % PacketSpan) + 1, bad |-> FALSE, own |-> TRUE]]
  BY DEF DataStream
<1> HIDE DEF N, M
<1>5. DataStream \in [1 .. N -> Bytes]
  BY <1>2, <1>3, <1>4 DEF Bytes
<1>6. DataStream \in Streams
  BY <1>1, <1>5, SeqDef DEF Streams
<1>7. Len(DataStream) = N
  BY <1>1, <1>5, <1>6, LenProperties DEF Streams
<1> QED BY <1>4, <1>6, <1>7 DEF N, M

\* An answer is its packet and, for a template, the data packets.
LEMMA AnswerBytes ==
  ASSUME NEW c, NEW value \in Codes
  PROVE  /\ Answer(c, value) \in Streams
         /\ Len(Answer(c, value)) =
              SpanOf(AnswerPacket(c, value))
                + (IF c = "UploadTemplate" /\ value = "OK" THEN Len(DataStream) ELSE 0)
         /\ \A i \in 1 .. SpanOf(AnswerPacket(c, value)) :
              Answer(c, value)[i] = Sent(AnswerPacket(c, value))[i]
         /\ c = "UploadTemplate" /\ value = "OK" =>
              \A i \in 1 .. Len(DataStream) :
                Answer(c, value)[SpanOf(AnswerPacket(c, value)) + i] = DataStream[i]
<1> DEFINE p == AnswerPacket(c, value)
<1>1. p \in PacketsSent
  BY AnswerPacketSent
<1>2. Sent(p) \in Streams /\ Len(Sent(p)) = SpanOf(p)
  BY <1>1, SentBytes
<1>3. <<>> \in Streams /\ Len(<<>>) = 0
  BY EmptySeq DEF Streams
<1>4. Answer(c, value) = Sent(p) \o (IF c = "UploadTemplate" /\ value = "OK" THEN DataStream ELSE <<>>)
  BY DEF Answer, AnswerPacket
<1> HIDE DEF p
<1>5. CASE c = "UploadTemplate" /\ value = "OK"
  <2>1. Answer(c, value) = Sent(p) \o DataStream /\ DataStream \in Streams
    BY <1>4, <1>5, DataBytes
  <2>2. /\ Answer(c, value) \in Streams
        /\ Len(Answer(c, value)) = SpanOf(p) + Len(DataStream)
        /\ \A i \in 1 .. SpanOf(p) : Answer(c, value)[i] = Sent(p)[i]
        /\ \A i \in 1 .. Len(DataStream) : Answer(c, value)[SpanOf(p) + i] = DataStream[i]
    <3>1. PICK t : t = Sent(p)
      OBVIOUS
    <3>2. PICK u : u = DataStream
      OBVIOUS
    <3>3. /\ t \o u \in Streams /\ Len(t \o u) = Len(t) + Len(u)
          /\ \A i \in 1 .. Len(t) : (t \o u)[i] = t[i]
          /\ \A i \in 1 .. Len(u) : (t \o u)[Len(t) + i] = u[i]
      BY <1>2, <2>1, <3>1, <3>2, JoinBytes
    <3> QED BY <1>2, <2>1, <3>1, <3>2, <3>3
  <2> QED BY <1>5, <2>2 DEF p
<1>6. CASE ~(c = "UploadTemplate" /\ value = "OK")
  <2>1. Answer(c, value) = Sent(p)
    BY <1>2, <1>4, <1>6, ConcatEmptySeq DEF Streams
  <2>2. Len(Answer(c, value)) = SpanOf(p) + 0
    BY <1>1, <1>2, <2>1, SentBytes
  <2> QED BY <1>2, <1>6, <2>1, <2>2 DEF p
<1> QED BY <1>5, <1>6

-----------------------------------------------------------------------------
\* The packets of what the sensor sends: after its byte o the stream t goes on
\* with the packet p, whole, and what follows that begins a packet.
PacketAt(t, o, p) ==
  /\ o + SpanOf(p) <= Len(t)
  /\ \A i \in 1 .. SpanOf(p) : t[o + i].of = p /\ t[o + i].pos = i /\ t[o + i].own
  /\ o + SpanOf(p) < Len(t) => t[o + SpanOf(p) + 1].pos = 1

\* Multiplication is monotone.
LEMMA ProductGrows ==
  ASSUME NEW n \in Nat, NEW a \in Int, NEW b \in Int, a <= b
  PROVE  a * n <= b * n
<1>1. (b - a) * n >= 0
  OBVIOUS
<1>2. (b - a) * n = b * n - a * n
  OBVIOUS
<1>3. a * n \in Int /\ b * n \in Int
  OBVIOUS
<1> QED BY <1>1, <1>2, <1>3

\* The rest of a division, where the quotient can be read off.
LEMMA RestOfDivision ==
  ASSUME NEW n \in Nat \ {0}, NEW k \in Int, NEW i \in 0 .. n - 1
  PROVE  (k * n + i) % n = i
<1> DEFINE x == k * n + i
           q == x \div n
           r == x % n
<1>1. x \in Int /\ q \in Int /\ r \in 0 .. n - 1 /\ x = n * q + r
  OBVIOUS
<1> HIDE DEF q, r
<1>2. k * n + i = q * n + r
  BY <1>1
<1> HIDE DEF x
<1>3. q = k
  <2>1. CASE q <= k - 1
    <3>1. q * n <= (k - 1) * n /\ (k - 1) * n = k * n - n
      BY <1>1, <2>1, ProductGrows
    <3> QED BY <1>1, <1>2, <3>1
  <2>2. CASE k <= q - 1
    <3>1. k * n <= (q - 1) * n /\ (q - 1) * n = q * n - n
      BY <1>1, <2>2, ProductGrows
    <3> QED BY <1>1, <1>2, <3>1
  <2> QED BY <1>1, <2>1, <2>2
<1>4. r = i
  BY <1>1, <1>2, <1>3
<1> QED BY <1>4 DEF r, x

\* Data packet k begins where k packets end.
LEMMA DataPacketAt ==
  ASSUME NEW k \in 0 .. Packets - 1
  PROVE  /\ PacketAt(DataStream, k * PacketSpan, PacketOf(PacketSize, k < Packets - 1, "OK"))
         /\ (k + 1) * PacketSpan = k * PacketSpan + PacketSpan
<1> DEFINE p == PacketOf(PacketSize, k < Packets - 1, "OK")
<1>1. PICK S : S = PacketSpan /\ S \in Nat \ (0 .. 10) /\ SpanOf(p) = S
  BY Spans DEF p, SpanOf, PacketSpan, PacketOf
<1>2. PICK o : o = k * S /\ o \in Nat
  BY <1>1
<1>3. PICK N : N = Packets * S /\ N \in Nat /\ (Packets - 1) * S = N - S
  BY <1>1, Spans
<1>4. (k + 1) * S = o + S /\ o + S <= N
  BY <1>1, <1>2, <1>3, ProductGrows, LinkAssumption
<1>5. Len(DataStream) = N
      /\ \A j \in 1 .. N : /\ DataStream[j].of = PacketOf(PacketSize, j <= N - S, "OK")
                           /\ DataStream[j].pos = ((j - 1) % S) + 1
                           /\ DataStream[j].own
  BY <1>1, <1>3, DataBytes
<1>6. ASSUME NEW i \in 1 .. S
      PROVE  /\ DataStream[o + i].of = p /\ DataStream[o + i].pos = i
             /\ DataStream[o + i].own
  <2>1. PICK j \in 1 .. N : j = o + i
    BY <1>1, <1>2, <1>3, <1>4
  <2>2. (j - 1) % S = i - 1
    <3>1. PICK h \in 0 .. S - 1 : h = i - 1
      BY <1>1
    <3>2. k \in Int /\ S \in Nat \ {0} /\ j - 1 = k * S + h
      BY <1>1, <1>2, <2>1, <3>1
    <3>3. (k * S + h) % S = h
      BY <3>2, RestOfDivision
    <3> QED BY <3>1, <3>2, <3>3
  <2>3. o + i <= N - S <=> k < Packets - 1
    <3>1. CASE k < Packets - 1
      <4>1. (k + 1) * S <= (Packets - 1) * S
        BY <1>1, <3>1, ProductGrows, LinkAssumption
      <4> QED BY <1>1, <1>2, <1>3, <1>4, <3>1, <4>1
    <3>2. CASE k = Packets - 1
      <4>1. o = N - S
        BY <1>2, <1>3, <3>2
      <4> QED BY <1>1, <1>2, <1>3, <3>2, <4>1
    <3> QED BY <3>1, <3>2, LinkAssumption
  <2>4. PacketOf(PacketSize, j <= N - S, "OK") = p
    BY <2>1, <2>3 DEF p, PacketOf
  <2>5. (i - 1) + 1 = i
    BY <1>1
  <2> QED BY <1>5, <2>1, <2>2, <2>4, <2>5
<1>7. o + S < N => DataStream[o + S + 1].pos = 1
  <2> SUFFICES ASSUME o + S < N PROVE DataStream[o + S + 1].pos = 1
    OBVIOUS
  <2>1. PICK j \in 1 .. N : j = o + S + 1
    BY <1>1, <1>2, <1>3
  <2>2. j - 1 = (k + 1) * S + 0 /\ 0 \in 0 .. S - 1 /\ k + 1 \in Int
    BY <1>1, <1>2, <1>4, <2>1
  <2>3. (j - 1) % S = 0
    BY <1>1, <2>2, RestOfDivision
  <2> QED BY <1>5, <2>1, <2>3
<1> QED BY <1>1, <1>2, <1>4, <1>5, <1>6, <1>7 DEF PacketAt, p

\* An answer begins with its packet.
LEMMA AnswerPacketAt ==
  ASSUME NEW c, NEW value \in Codes
  PROVE  PacketAt(Answer(c, value), 0, AnswerPacket(c, value))
<1> DEFINE p == AnswerPacket(c, value)
<1>1. PICK L : L = SpanOf(p) /\ L \in Nat \ (0 .. 10)
  BY AnswerPacketSent, SentBytes
<1>2. \A i \in 1 .. L : Answer(c, value)[i] = [of |-> p, pos |-> i, bad |-> FALSE, own |-> TRUE]
  BY <1>1, AnswerPacketSent, SentBytes, AnswerBytes
<1>3. Len(DataStream) \in Nat
      /\ (Len(DataStream) > 0 => DataStream[1].pos = 1)
  <2>1. (0 * PacketSpan + 0) % PacketSpan = 0
    BY Spans, RestOfDivision
  <2> QED BY <2>1, Spans, DataBytes
<1>4. /\ Len(Answer(c, value)) \in Nat /\ Len(Answer(c, value)) >= L
      /\ Len(Answer(c, value)) > L => Answer(c, value)[L + 1].pos = 1
  <2>1. CASE c = "UploadTemplate" /\ value = "OK"
    <3>1. /\ Len(Answer(c, value)) = L + Len(DataStream)
          /\ \A i \in 1 .. Len(DataStream) : Answer(c, value)[L + i] = DataStream[i]
      BY <1>1, <2>1, AnswerBytes
    <3>2. Len(DataStream) > 0 => Answer(c, value)[L + 1] = DataStream[1]
      BY <1>3, <3>1
    <3> QED BY <1>1, <1>3, <3>1, <3>2
  <2>2. CASE ~(c = "UploadTemplate" /\ value = "OK")
    <3>1. Len(Answer(c, value)) = L
      BY <1>1, <2>2, AnswerBytes
    <3> QED BY <1>1, <3>1
  <2> QED BY <2>1, <2>2
<1>5. \A i \in 1 .. L : 0 + i = i
  BY <1>1
<1>6. \A i \in 1 .. L : /\ Answer(c, value)[0 + i].of = p /\ Answer(c, value)[0 + i].pos = i
                        /\ Answer(c, value)[0 + i].own
  <2> HIDE DEF p
  <2> SUFFICES ASSUME NEW i \in 1 .. L
               PROVE  /\ Answer(c, value)[i].of = p /\ Answer(c, value)[i].pos = i
                      /\ Answer(c, value)[i].own
    BY <1>5
  <2>1. PICK b : b = [of |-> p, pos |-> i, bad |-> FALSE, own |-> TRUE]
    OBVIOUS
  <2>2. b.of = p /\ b.pos = i /\ b.own
    BY <2>1
  <2>3. Answer(c, value)[i] = b
    BY <1>2, <2>1
  <2> QED BY <2>2, <2>3
<1>7. 0 + L = L
  BY <1>1
<1> HIDE DEF p
<1>8. PacketAt(Answer(c, value), 0, p)
  BY <1>1, <1>4, <1>6, <1>7 DEF PacketAt
<1> QED BY <1>8 DEF p

-----------------------------------------------------------------------------
\* What is left of it: q is the stream t after its byte o, without the byte d and
\* cut short anywhere.  A d beyond the end leaves out nothing, and bytes may
\* have been altered.
CutAt(q, t, o, d) ==
  \A i \in 1 .. Len(q) :
    LET j == IF i < d THEN o + i ELSE o + i + 1
    IN  j <= Len(t) /\ q[i].of = t[j].of /\ q[i].pos = t[j].pos /\ q[i].own = t[j].own

\* An altered or lost byte leaves the other bytes what they were ...
LEMMA DamagedIsCut ==
  ASSUME NEW t \in Streams, NEW q \in Damaged(t)
  PROVE  q \in Streams /\ \E d \in Nat \ {0} : CutAt(q, t, 0, d)
<1>1. DOMAIN t = 1 .. Len(t) /\ Len(t) \in Nat
  BY DEF Streams
<1>2. ASSUME NEW i \in DOMAIN t, q = [t EXCEPT ![i].bad = TRUE]
      PROVE  q \in Streams /\ \E d \in Nat \ {0} : CutAt(q, t, 0, d)
  <2>1. PICK b : b = [t[i] EXCEPT !.bad = TRUE]
    OBVIOUS
  <2>2. t[i] \in Bytes
    BY <1>1 DEF Streams
  <2>3. b \in Bytes /\ b.of = t[i].of /\ b.pos = t[i].pos /\ b.own = t[i].own
    BY <2>1, <2>2 DEF Bytes
  <2>4. q = [t EXCEPT ![i] = b]
    BY <1>2, <2>1
  <2>5. /\ q \in Streams /\ Len(q) = Len(t)
        /\ \A j \in 1 .. Len(t) : q[j] = IF j = i THEN b ELSE t[j]
    BY <1>1, <2>3, <2>4, ExceptSeq DEF Streams
  <2>6. CutAt(q, t, 0, Len(t) + 1)
    BY <1>1, <2>3, <2>5 DEF CutAt
  <2> QED BY <1>1, <2>5, <2>6
<1>3. ASSUME NEW i \in DOMAIN t, q = First(t, i - 1) \o After(t, i)
      PROVE  q \in Streams /\ \E d \in Nat \ {0} : CutAt(q, t, 0, d)
  <2>1. PICK n \in 0 .. Len(t) : n = i - 1 /\ i \in Nat \ {0} /\ i <= Len(t)
    BY <1>1
  <2>2. PICK u : u = First(t, n)
    OBVIOUS
  <2>3. PICK v : v = After(t, i)
    OBVIOUS
  <2>4. /\ u \in Streams /\ Len(u) = n
        /\ \A j \in 1 .. n : u[j] = t[j]
    BY <2>2, FirstBytes
  <2>5. /\ v \in Streams /\ Len(v) = Len(t) - i
        /\ \A j \in 1 .. Len(t) - i : v[j] = t[i + j]
    BY <1>1, <2>1, <2>3, AfterBytes
  <2>6. q = u \o v
    BY <1>3, <2>1, <2>2, <2>3
  <2>7. /\ q \in Streams /\ Len(q) = n + (Len(t) - i)
        /\ \A j \in 1 .. n : q[j] = u[j]
        /\ \A j \in 1 .. Len(t) - i : q[n + j] = v[j]
    <3>1. /\ u \o v \in Streams /\ Len(u \o v) = Len(u) + Len(v)
          /\ \A j \in 1 .. Len(u) : (u \o v)[j] = u[j]
          /\ \A j \in 1 .. Len(v) : (u \o v)[Len(u) + j] = v[j]
      BY <2>4, <2>5, JoinBytes
    <3> QED BY <2>4, <2>5, <2>6, <3>1
  <2>8. ASSUME NEW k \in 1 .. Len(q)
        PROVE  LET j == IF k < i THEN 0 + k ELSE 0 + k + 1
               IN j <= Len(t) /\ q[k].of = t[j].of /\ q[k].pos = t[j].pos /\ q[k].own = t[j].own
    <3>1. CASE k < i
      <4>1. PICK h \in 1 .. n : h = k
        BY <1>1, <2>1, <2>7, <3>1
      <4>2. q[k] = t[k] /\ k <= Len(t) /\ 0 + k = k
        BY <1>1, <2>1, <2>4, <2>7, <4>1
      <4> QED BY <3>1, <4>2
    <3>2. CASE ~(k < i)
      <4>1. PICK h \in 1 .. Len(t) - i : h = k - n
        BY <1>1, <2>1, <2>7, <3>2
      <4>2. q[n + h] = v[h] /\ v[h] = t[i + h]
        BY <2>5, <2>7, <4>1
      <4>3. n + h = k /\ i + h = 0 + k + 1 /\ i + h <= Len(t)
        BY <1>1, <2>1, <2>7, <4>1
      <4> QED BY <3>2, <4>2, <4>3
    <3> QED BY <3>1, <3>2
  <2>9. CutAt(q, t, 0, i)
    BY <2>8 DEF CutAt
  <2> QED BY <2>1, <2>7, <2>9
<1> QED BY <1>2, <1>3 DEF Damaged

\* ... and so does a line that is cut,
LEMMA FirstIsCut ==
  ASSUME NEW t \in Streams, NEW n \in DOMAIN t
  PROVE  First(t, n) \in Streams /\ CutAt(First(t, n), t, 0, n + 1)
<1>1. n \in 0 .. Len(t)
  BY DEF Streams
<1>2. /\ First(t, n) \in Streams /\ Len(First(t, n)) = n
      /\ \A i \in 1 .. n : First(t, n)[i] = t[i]
  BY <1>1, FirstBytes
<1> QED BY <1>1, <1>2 DEF CutAt

\* or that works.
LEMMA WholeIsCut ==
  ASSUME NEW t \in Streams
  PROVE  CutAt(t, t, 0, Len(t) + 1) /\ Len(t) + 1 \in Nat \ {0}
<1>1. Len(t) \in Nat
  BY DEF Streams
<1> QED BY <1>1 DEF CutAt

-----------------------------------------------------------------------------
\* R503PacketReceive.  A read that times out has taken everything, and one that
\* succeeds has taken what looks like a packet from its first byte to its last.
LEMMA ReceivedIs ==
  ASSUME NEW s \in Streams, code \in Codes, NEW r \in Received(s)
  PROVE  /\ r.rest \in Streams /\ r.code \in Codes /\ r.ret \in Failures \cup {"OK"}
         /\ r.ret = "TIMEOUT" => r.rest = <<>>
         /\ r.ret = "OK" =>
              LET n == s[1].of.size
              IN  /\ HEAD + n + CHECKSUM <= Len(s)
                  /\ r.rest = After(s, HEAD + n + CHECKSUM)
                  /\ \A i \in 1 .. HEAD + n + CHECKSUM : s[i].pos = i
                  /\ n > 0 => r.code = s[HEAD + 1].of.code
<1> USE DEF HEAD, CHECKSUM
<1>0. <<>> \in Streams /\ Len(s) \in Nat /\ \A i \in 1 .. Len(s) : s[i] \in Bytes
  BY EmptySeq, LenProperties, ElementOfSeq DEF Streams
<1>1. CASE Len(s) < HEAD
  BY <1>0, <1>1 DEF Received, Outcome, Failures
<1>2. CASE Len(s) >= HEAD /\ ~StartCode(s)
  <2>1. r = Outcome("INVALID_START_CODE", After(s, HEAD), code)
    BY <1>0, <1>2 DEF Received
  <2> QED BY <1>0, <2>1, AfterBytes DEF Outcome, Failures
<1>3. CASE Len(s) >= HEAD /\ StartCode(s)
  <2>1. PICK n \in Announced(s) :
          \E value \in (IF n > 0 /\ Len(s) > HEAD THEN CodeRead(s[HEAD + 1]) ELSE {code}) :
            LET end == HEAD + n + CHECKSUM
            IN r = CASE Len(s) < end -> Outcome("TIMEOUT", <<>>, value)
                     [] Len(s) >= end /\ ChecksumValid(s, n) ->
                          Outcome("OK", After(s, end), value)
                     [] OTHER -> Outcome("CHECKSUM_MISMATCH", After(s, end), value)
    BY <1>0, <1>3 DEF Received
  <2>2. PICK value \in (IF n > 0 /\ Len(s) > HEAD THEN CodeRead(s[HEAD + 1]) ELSE {code}) :
          LET end == HEAD + n + CHECKSUM
          IN r = CASE Len(s) < end -> Outcome("TIMEOUT", <<>>, value)
                   [] Len(s) >= end /\ ChecksumValid(s, n) -> Outcome("OK", After(s, end), value)
                   [] OTHER -> Outcome("CHECKSUM_MISMATCH", After(s, end), value)
    BY <2>1
  <2>3. n \in Nat
    <3>1. s[9].of.size \in Nat
      BY <1>0, <1>3 DEF Bytes, PacketsSent
    <3> QED BY <1>0, <3>1 DEF Announced
  <2>4. value \in Codes
    <3>1. ASSUME Len(s) > HEAD PROVE CodeRead(s[HEAD + 1]) \subseteq Codes
      BY <1>0, <3>1 DEF CodeRead, Bytes, PacketsSent
    <3> QED BY <1>0, <3>1
  <2> DEFINE end == HEAD + n + CHECKSUM
  <2>5. end \in Nat /\ end > HEAD
    BY <2>3
  <2>6. CASE Len(s) < end
    <3>1. ~(Len(s) >= end)
      BY <1>0, <2>5, <2>6
    <3>2. r = Outcome("TIMEOUT", <<>>, value)
      BY <2>2, <2>6, <3>1
    <3> QED BY <1>0, <2>4, <3>2 DEF Outcome, Failures
  <2>7. CASE Len(s) >= end /\ ~ChecksumValid(s, n)
    <3>1. r = Outcome("CHECKSUM_MISMATCH", After(s, end), value)
      BY <1>0, <2>2, <2>5, <2>7
    <3> QED BY <1>0, <2>4, <2>5, <3>1, AfterBytes DEF Outcome, Failures
  <2>8. CASE Len(s) >= end /\ ChecksumValid(s, n)
    <3>1. r = Outcome("OK", After(s, end), value)
      BY <1>0, <2>2, <2>5, <2>8
    <3>2. n = s[1].of.size /\ \A i \in 3 .. end : s[i].pos = i /\ (i > 6 => ~s[i].bad)
      BY <2>8 DEF ChecksumValid
    <3>3. \A i \in 1 .. end : s[i].pos = i
      BY <1>3, <2>5, <3>2 DEF StartCode, At
    <3>4. n > 0 => value = s[HEAD + 1].of.code
      BY <1>0, <2>2, <2>3, <2>8, <3>2 DEF CodeRead
    <3>5. After(s, end) \in Streams
      BY <2>5, AfterBytes
    <3> QED BY <2>4, <2>8, <3>1, <3>2, <3>3, <3>4, <3>5 DEF Outcome
  <2> QED BY <1>0, <2>5, <2>6, <2>7, <2>8
<1> QED BY <1>0, <1>1, <1>2, <1>3

\* A packet that is received from what is left of a stream, if nothing is missing
\* before it, is the next packet of the stream.
LEMMA NextPacket ==
  ASSUME NEW q \in Streams, NEW t \in Streams, NEW o \in Nat, NEW d \in Nat \ {0},
         CutAt(q, t, o, d),
         NEW p \in PacketsSent, PacketAt(t, o, p),
         code \in Codes, NEW r \in Received(q), r.ret = "OK"
  PROVE  /\ q[1].of = p /\ q[1].own
         /\ p.size > 0 => r.code = p.code
         /\ r.rest \in Streams
         /\ \E e \in Nat \ {0} : CutAt(r.rest, t, o + SpanOf(p), e)
<1>1. PICK L : L = SpanOf(p) /\ L \in Nat \ (0 .. 10)
  BY SentBytes
<1>2. PICK T : T = Len(t) /\ T \in Nat
  BY DEF Streams
<1>3. PICK N : N = Len(q) /\ N \in Nat
  BY DEF Streams
<1>4. /\ o + L <= T /\ (o + L < T => t[o + L + 1].pos = 1)
      /\ \A i \in 1 .. L : t[o + i].of = p /\ t[o + i].pos = i /\ t[o + i].own
  BY <1>1, <1>2 DEF PacketAt
<1>5. /\ \A i \in 1 .. N : i < d => /\ q[i].of = t[o + i].of /\ q[i].pos = t[o + i].pos
                                    /\ q[i].own = t[o + i].own
      /\ \A i \in 1 .. N : ~(i < d) => /\ o + i + 1 <= T
                                       /\ q[i].pos = t[o + i + 1].pos
  BY <1>2, <1>3 DEF CutAt
<1>6. PICK end : end = HEAD + q[1].of.size + CHECKSUM
  OBVIOUS
<1>7. /\ end <= N /\ r.rest = After(q, end)
      /\ \A i \in 1 .. end : q[i].pos = i
      /\ q[1].of.size > 0 => r.code = q[HEAD + 1].of.code
  BY <1>3, <1>6, ReceivedIs
<1>8. end \in Nat /\ end > 10
  <2>1. Len(q) > 0
    BY DEF Received, Outcome, HEAD, Streams
  <2>2. q[1].of.size \in Nat
    <3>1. 1 \in 1 .. Len(q)
      BY <1>3, <2>1
    <3>2. q[1] \in Bytes
      BY <3>1, ElementOfSeq DEF Streams
    <3> QED BY <3>2 DEF Bytes, PacketsSent
  <2> QED BY <1>6, <2>2 DEF HEAD, CHECKSUM
<1>9. 1 < d
  <2>1. CASE ~(1 < d)
    <3>1. 1 \in 1 .. N /\ 2 \in 1 .. L /\ 1 \in 1 .. end /\ o + 1 + 1 = o + 2
      BY <1>1, <1>3, <1>7, <1>8
    <3>2. q[1].pos = 2
      BY <1>4, <1>5, <2>1, <3>1
    <3> QED BY <1>7, <3>1, <3>2
  <2> QED BY <2>1
<1>10. q[1].of = p /\ q[1].own
  <2>1. 1 \in 1 .. N /\ 1 \in 1 .. L
    BY <1>1, <1>3, <1>7, <1>8
  <2> QED BY <1>4, <1>5, <1>9, <2>1
<1>11. end = L
  BY <1>1, <1>6, <1>10 DEF SpanOf
<1>12. L < d
  <2>1. CASE ~(L < d)
    <3>1. L \in 1 .. N /\ L \in 1 .. end /\ o + L + 1 <= T
      BY <1>1, <1>3, <1>5, <1>7, <1>11, <2>1
    <3>2. q[L].pos = 1
      BY <1>1, <1>2, <1>4, <1>5, <2>1, <3>1
    <3> QED BY <1>1, <1>7, <3>1, <3>2
  <2> QED BY <2>1
<1>13. p.size > 0 => r.code = p.code
  <2>1. HEAD + 1 \in 1 .. N /\ HEAD + 1 \in 1 .. L /\ HEAD + 1 < d
    BY <1>1, <1>3, <1>7, <1>11, <1>12 DEF HEAD
  <2>2. q[HEAD + 1].of = p
    BY <1>4, <1>5, <2>1
  <2> QED BY <1>7, <1>10, <2>2
<1>14. PICK u : u = r.rest
  OBVIOUS
<1>15. /\ u \in Streams /\ Len(u) = N - L
       /\ \A i \in 1 .. N - L : u[i] = q[L + i]
  BY <1>1, <1>3, <1>7, <1>11, <1>14, AfterBytes
<1>16. CutAt(u, t, o + L, d - L) /\ d - L \in Nat \ {0}
  <2>1. d - L \in Nat \ {0}
    BY <1>1, <1>12
  <2>2. ASSUME NEW i \in 1 .. Len(u)
        PROVE  LET j == IF i < d - L THEN (o + L) + i ELSE (o + L) + i + 1
               IN  j <= Len(t) /\ u[i].of = t[j].of /\ u[i].pos = t[j].pos /\ u[i].own = t[j].own
    <3>0. i \in Int /\ 1 <= i /\ i <= N - L /\ d \in Int
      BY <1>1, <1>3, <1>15
    <3>1. PICK k \in 1 .. N : k = L + i
      <4>1. L + i \in 1 .. N
        BY <1>1, <1>3, <3>0
      <4> QED BY <4>1
    <3>2. u[i] = q[k]
      BY <1>15, <3>1
    <3>3. (i < d - L <=> k < d) /\ (o + L) + i = o + k
      <4>1. L \in Int /\ k = L + i /\ o \in Int
        BY <1>1, <3>1
      <4>2. (o + L) + i = o + k
        BY <3>0, <4>1
      <4>3. i < d - L <=> L + i < d
        BY <3>0, <4>1
      <4> QED BY <4>1, <4>2, <4>3
    <3>4. LET j == IF k < d THEN o + k ELSE o + k + 1
          IN  j <= Len(t) /\ q[k].of = t[j].of /\ q[k].pos = t[j].pos /\ q[k].own = t[j].own
      BY <1>3, <3>1 DEF CutAt
    <3> QED BY <3>2, <3>3, <3>4
  <2> QED BY <2>1, <2>2 DEF CutAt
<1> QED BY <1>1, <1>10, <1>13, <1>14, <1>15, <1>16

-----------------------------------------------------------------------------
\* Type correctness, with what each step knows of the command in progress.
TypeInv ==
  /\ TypeOK
  /\ pc = "answer" => chunks = 0
  /\ pc = "data" => cmd = "UploadTemplate"

\* In step: while no packet was bad since a read timed out, the queue holds what
\* the sensor has sent for the command in progress from the next packet on, or
\* what the line has left of it, and nothing between two commands.
AnswerIsQueued ==
  \E value \in Codes, d \in Nat \ {0} : CutAt(queue, Answer(cmd, value), 0, d)

DataIsQueued ==
  \E d \in Nat \ {0} : CutAt(queue, DataStream, chunks * PacketSpan, d)

InStep ==
  ~outOfStep =>
    /\ pc = "idle" => queue = <<>>
    /\ pc = "answer" => AnswerIsQueued
    /\ pc = "data" => own /\ code = "OK" /\ DataIsQueued

\* The type of what a read works on.
LEMMA TypedQueue ==
  ASSUME TypeOK
  PROVE  queue \in Streams /\ code \in Codes /\ chunks \in Nat
BY DEF TypeOK, Streams, Bytes

\* What a command finds in the queue when it begins to read.
LEMMA SendQueues ==
  ASSUME TypeOK, NEW c \in Commands, Send(c)
  PROVE  /\ queue' \in Streams /\ connected' \in BOOLEAN /\ faults' \in 0 .. MaxFaults
         /\ queue = <<>> =>
              \E value \in Codes, d \in Nat \ {0} : CutAt(queue', Answer(c, value), 0, d)
<1>1. PICK old : old = Stale(queue) /\ old \in Streams /\ (queue = <<>> => old = <<>>)
  BY TypedQueue, StaleBytes
<1>2. ASSUME NEW value \in Codes, NEW d \in Nat \ {0}, NEW s \in Streams,
             CutAt(s, Answer(c, value), 0, d), queue' = old \o s
      PROVE  /\ queue' \in Streams
             /\ queue = <<>> =>
                  \E v \in Codes, e \in Nat \ {0} : CutAt(queue', Answer(c, v), 0, e)
  <2>1. old \o s \in Streams
    BY <1>1, JoinBytes
  <2>2. queue = <<>> => old \o s = s
    BY <1>1, <1>2, ConcatEmptySeq DEF Streams
  <2> QED BY <1>2, <2>1, <2>2
<1>3. CASE connected
  <2>1. PICK value \in Codes :
          \/ /\ queue' = old \o Answer(c, value)
             /\ UNCHANGED <<connected, faults>>
          \/ /\ faults < MaxFaults /\ faults' = faults + 1
             /\ \/ /\ \E s \in Damaged(Answer(c, value)) : queue' = old \o s
                   /\ UNCHANGED connected
                \/ /\ \E n \in DOMAIN Answer(c, value) :
                        queue' = old \o First(Answer(c, value), n)
                   /\ connected' = FALSE
    BY <1>1, <1>3 DEF Send
  <2>2. PICK t : t = Answer(c, value) /\ t \in Streams
    BY AnswerBytes
  <2>3. connected' \in BOOLEAN /\ faults' \in 0 .. MaxFaults
    <3>1. connected' = connected \/ connected' = FALSE
      BY <2>1
    <3>2. faults' = faults \/ (faults < MaxFaults /\ faults' = faults + 1)
      BY <2>1
    <3>3. faults \in 0 .. MaxFaults /\ MaxFaults \in Nat /\ connected \in BOOLEAN
      BY LinkAssumption DEF TypeOK
    <3>4. connected' \in BOOLEAN
      BY <3>1, <3>3
    <3> QED BY <3>2, <3>3, <3>4
  <2>4. CASE queue' = old \o t
    BY <1>2, <2>2, <2>3, <2>4, WholeIsCut
  <2>5. ASSUME NEW s \in Damaged(t), queue' = old \o s
        PROVE  /\ queue' \in Streams
               /\ queue = <<>> =>
                    \E v \in Codes, e \in Nat \ {0} : CutAt(queue', Answer(c, v), 0, e)
    BY <1>2, <2>2, <2>5, DamagedIsCut
  <2>6. ASSUME NEW n \in DOMAIN t, queue' = old \o First(t, n)
        PROVE  /\ queue' \in Streams
               /\ queue = <<>> =>
                    \E v \in Codes, e \in Nat \ {0} : CutAt(queue', Answer(c, v), 0, e)
    <3>1. n + 1 \in Nat \ {0}
      BY <2>2 DEF Streams
    <3> QED BY <1>2, <2>2, <2>6, <3>1, FirstIsCut
  <2> QED BY <2>1, <2>2, <2>3, <2>4, <2>5, <2>6
<1>4. CASE ~connected
  <2>1. queue' = old /\ UNCHANGED <<connected, faults>>
    BY <1>1, <1>4 DEF Send
  <2>2. CutAt(<<>>, Answer(c, "OK"), 0, 1) /\ "OK" \in Codes
    BY DEF CutAt, Codes
  <2> QED BY <1>1, <2>1, <2>2 DEF TypeOK
<1> QED BY <1>3, <1>4

\* What is left when the answer was received: the template, or nothing.
LEMMA AnswerReceived ==
  ASSUME TypeOK, AnswerIsQueued, NEW r \in Received(queue), r.ret = "OK"
  PROVE  /\ queue[1].own
         /\ IF cmd = "UploadTemplate" /\ r.code = "OK"
              THEN \E d \in Nat \ {0} : CutAt(r.rest, DataStream, 0, d)
              ELSE r.rest = <<>>
<1>1. PICK value \in Codes, d \in Nat \ {0} : CutAt(queue, Answer(cmd, value), 0, d)
  BY DEF AnswerIsQueued
<1>2. PICK p : p = AnswerPacket(cmd, value) /\ p \in PacketsSent /\ p.size > 0 /\ p.code = value
  BY AnswerPacketSent
<1>3. PICK L : L = SpanOf(p) /\ L \in Nat \ {0}
  BY <1>2, SentBytes
<1>4. PICK t : t = Answer(cmd, value) /\ t \in Streams /\ PacketAt(t, 0, p)
  BY <1>2, AnswerBytes, AnswerPacketAt
<1>5. /\ queue[1].own /\ r.code = value /\ r.rest \in Streams
      /\ \E e \in Nat \ {0} : CutAt(r.rest, t, 0 + L, e)
  BY <1>1, <1>2, <1>3, <1>4, TypedQueue, NextPacket
<1>6. PICK e \in Nat \ {0} : CutAt(r.rest, t, 0 + L, e)
  BY <1>5
<1>7. PICK n : n = Len(r.rest) /\ n \in Nat
  BY <1>5 DEF Streams
<1>8. ASSUME NEW i \in 1 .. n
      PROVE  LET j == IF i < e THEN L + i ELSE L + i + 1
             IN  j <= Len(t) /\ r.rest[i].of = t[j].of /\ r.rest[i].pos = t[j].pos
                 /\ r.rest[i].own = t[j].own
  BY <1>3, <1>6, <1>7 DEF CutAt
<1>9. CASE cmd = "UploadTemplate" /\ value = "OK"
  <2>1. PICK N : N = Len(DataStream) /\ N \in Nat
    BY Spans, DataBytes
  <2>2. Len(t) = L + N /\ \A j \in 1 .. N : t[L + j] = DataStream[j]
    BY <1>2, <1>3, <1>4, <1>9, <2>1, AnswerBytes
  <2>3. ASSUME NEW i \in 1 .. n
        PROVE  LET j == IF i < e THEN 0 + i ELSE 0 + i + 1
               IN  j <= N /\ r.rest[i].of = DataStream[j].of
                   /\ r.rest[i].pos = DataStream[j].pos /\ r.rest[i].own = DataStream[j].own
    <3>1. PICK j \in Nat \ {0} : j = IF i < e THEN 0 + i ELSE 0 + i + 1
      BY <1>7
    <3>2. L + j = IF i < e THEN L + i ELSE L + i + 1
      BY <1>3, <1>7, <3>1
    <3>3. j <= N
      BY <1>3, <1>8, <2>1, <2>2, <3>1, <3>2
    <3> QED BY <1>8, <2>1, <2>2, <3>1, <3>2, <3>3
  <2>4. CutAt(r.rest, DataStream, 0, e)
    BY <1>7, <2>1, <2>3 DEF CutAt
  <2> QED BY <1>5, <1>9, <2>4
<1>10. CASE ~(cmd = "UploadTemplate" /\ value = "OK")
  <2>1. Len(t) = L
    BY <1>2, <1>3, <1>4, <1>10, AnswerBytes
  <2>2. n = 0
    <3>1. CASE 1 \in 1 .. n
      BY <1>3, <1>8, <2>1, <3>1
    <3> QED BY <1>7, <3>1
  <2>3. r.rest = <<>>
    BY <1>5, <1>7, <2>2, EmptySeq DEF Streams
  <2> QED BY <1>5, <1>10, <2>3
<1> QED BY <1>9, <1>10

\* The same of a data packet: the last one leaves nothing.
LEMMA DataPacketReceived ==
  ASSUME TypeOK, DataIsQueued, NEW r \in Received(queue), r.ret = "OK"
  PROVE  /\ queue[1].own
         /\ chunks < Packets /\ (queue[1].of.more <=> chunks < Packets - 1)
         /\ \E d \in Nat \ {0} : CutAt(r.rest, DataStream, (chunks + 1) * PacketSpan, d)
         /\ ~queue[1].of.more => r.rest = <<>>
<1>1. PICK d \in Nat \ {0} : CutAt(queue, DataStream, chunks * PacketSpan, d)
  BY DEF DataIsQueued
<1>2. PICK S : S = PacketSpan /\ S \in Nat \ {0} /\ (Packets - 1) * S = Packets * S - S
  BY Spans
<1>3. Packets \in Nat \ {0} /\ chunks \in Nat /\ PacketSize \in Nat \ {0}
  BY LinkAssumption, TypedQueue
<1>4. Len(DataStream) = Packets * S /\ DataStream \in Streams
  BY <1>2, DataBytes
<1>5. chunks < Packets
  <2>1. Len(queue) \in Nat /\ Len(queue) > 0
    BY TypedQueue DEF Received, Outcome, HEAD, Streams
  <2>2. chunks * S + 1 <= Packets * S \/ chunks * S + 1 + 1 <= Packets * S
    BY <1>1, <1>2, <1>4, <2>1 DEF CutAt
  <2>3. CASE Packets <= chunks
    <3>1. Packets * S <= chunks * S
      BY <1>2, <1>3, <2>3, ProductGrows
    <3> QED BY <1>2, <1>3, <2>2, <3>1
  <2> QED BY <1>3, <2>3
<1>6. PICK p : p = PacketOf(PacketSize, chunks < Packets - 1, "OK")
  OBVIOUS
<1>7. p \in PacketsSent /\ SpanOf(p) = S /\ (p.more <=> chunks < Packets - 1)
  <2>1. (chunks < Packets - 1) \in BOOLEAN
    OBVIOUS
  <2>2. p \in PacketsSent
    BY <1>3, <1>6, <2>1 DEF PacketOf, PacketsSent, Codes
  <2>3. SpanOf(p) = S
    BY <1>2, <1>6 DEF PacketOf, SpanOf, PacketSpan
  <2>4. p.more <=> chunks < Packets - 1
    BY <1>6 DEF PacketOf
  <2> QED BY <2>2, <2>3, <2>4
<1>8. PacketAt(DataStream, chunks * S, p) /\ (chunks + 1) * S = chunks * S + S
  BY <1>2, <1>3, <1>5, <1>6, DataPacketAt
<1>9. chunks * S \in Nat
  BY <1>2, <1>3
<1>10. /\ queue[1].of = p /\ queue[1].own /\ r.rest \in Streams
       /\ \E e \in Nat \ {0} : CutAt(r.rest, DataStream, chunks * S + S, e)
  BY <1>1, <1>2, <1>4, <1>7, <1>8, <1>9, TypedQueue, NextPacket
<1>11. PICK e \in Nat \ {0} : CutAt(r.rest, DataStream, chunks * S + S, e)
  BY <1>10
<1>12. ASSUME ~p.more PROVE r.rest = <<>>
  <2>1. chunks = Packets - 1
    BY <1>3, <1>5, <1>7, <1>12
  <2>2. chunks * S + S = Packets * S
    <3>1. PICK x : x = Packets * S /\ x \in Int
      BY <1>2, <1>3
    <3>2. chunks * S = x - S
      BY <1>2, <2>1, <3>1
    <3> QED BY <1>2, <3>1, <3>2
  <2>3. PICK n : n = Len(r.rest) /\ n \in Nat
    BY <1>10 DEF Streams
  <2>4. n = 0
    <3>1. CASE 1 \in 1 .. n
      <4>1. Packets * S + 1 <= Packets * S \/ Packets * S + 1 + 1 <= Packets * S
        BY <1>4, <1>11, <2>2, <2>3, <3>1 DEF CutAt
      <4> QED BY <1>9, <1>2, <2>2, <4>1
    <3> QED BY <2>3, <3>1
  <2> QED BY <1>10, <2>3, <2>4, EmptySeq DEF Streams
<1> QED BY <1>2, <1>5, <1>7, <1>8, <1>10, <1>12

-----------------------------------------------------------------------------
\* Type correctness.
LEMMA TypeInitial == Init => TypeInv
<1> SUFFICES ASSUME Init PROVE TypeInv
  OBVIOUS
<1>1. queue \in Seq([of : PacketsSent, pos : Nat \ {0}, bad : BOOLEAN, own : BOOLEAN])
  BY EmptySeq DEF Init
<1>2. connected \in BOOLEAN /\ own \in BOOLEAN /\ outOfStep \in BOOLEAN
  BY DEF Init
<1>3. faults \in 0 .. MaxFaults /\ chunks \in Nat
  BY LinkAssumption DEF Init
<1>4. code \in Codes /\ ret \in Results
  BY DEF Init, Codes, Failures, Results
<1>5. pc = "idle" /\ cmd \in Commands
  BY DEF Init
<1> QED BY <1>1, <1>2, <1>3, <1>4, <1>5 DEF TypeInv, TypeOK

\* The end of a command.
LEMMA ReturnTypes ==
  ASSUME TypeInv, NEW result \in Results, NEW rest \in Streams, Return(result, rest)
  PROVE  /\ queue' \in Streams /\ pc' = "idle" /\ ret' \in Results
         /\ UNCHANGED <<connected, faults, cmd>>
BY HeldBytes DEF Return

\* Every step keeps the type.
LEMMA TypeStep == TypeInv /\ [Next]_vars => TypeInv'
<1> SUFFICES ASSUME TypeInv, [Next]_vars PROVE TypeInv'
  OBVIOUS
<1> USE DEF TypeInv
<1>1. queue \in Streams /\ code \in Codes /\ chunks \in Nat /\ Codes \cup Failures = Results
  BY TypedQueue DEF Results
<1>2. \A q : q \in Streams <=>
             q \in Seq([of : PacketsSent, pos : Nat \ {0}, bad : BOOLEAN, own : BOOLEAN])
  BY DEF Streams, Bytes
<1>3. ASSUME NEW c \in Commands, Send(c) PROVE TypeInv'
  <2>1. queue' \in Streams /\ connected' \in BOOLEAN /\ faults' \in 0 .. MaxFaults
    BY <1>3, SendQueues
  <2> QED BY <1>2, <1>3, <2>1 DEF Send, TypeOK
<1>4. CASE Answered
  <2>1. PICK r \in Received(queue) :
          /\ code' = r.code /\ outOfStep' = Noted(r.ret)
          /\ own' = (r.ret = "OK" /\ queue[1].own)
          /\ chunks' = chunks
          /\ IF cmd = "UploadTemplate" /\ r.ret = "OK" /\ r.code = "OK"
               THEN /\ pc' = "data" /\ queue' = r.rest
                    /\ UNCHANGED <<connected, faults, cmd, ret>>
               ELSE Return(ResultOf(cmd, r.ret, r.code), r.rest)
    BY <1>4 DEF Answered
  <2>2. r.rest \in Streams /\ r.code \in Codes /\ r.ret \in Failures \cup {"OK"}
    BY <1>1, ReceivedIs
  <2>3. Noted(r.ret) \in BOOLEAN
    BY <2>2 DEF Noted, TypeOK, Failures
  <2>4. (r.ret = "OK" /\ queue[1].own) \in BOOLEAN
    OBVIOUS
  <2>5. ResultOf(cmd, r.ret, r.code) \in Results
    BY <2>2 DEF ResultOf, Results, Failures, Codes
  <2>6. CASE cmd = "UploadTemplate" /\ r.ret = "OK" /\ r.code = "OK"
    BY <1>2, <2>1, <2>2, <2>3, <2>4, <2>6 DEF TypeOK
  <2>7. CASE ~(cmd = "UploadTemplate" /\ r.ret = "OK" /\ r.code = "OK")
    <3>1. /\ queue' \in Streams /\ pc' = "idle" /\ ret' \in Results
          /\ UNCHANGED <<connected, faults, cmd>>
      BY <2>1, <2>2, <2>5, <2>7, ReturnTypes
    <3> QED BY <1>2, <2>1, <2>2, <2>3, <2>4, <3>1 DEF TypeOK
  <2> QED BY <2>6, <2>7
<1>5. CASE DataReceived
  <2>1. PICK r \in Received(queue) :
          /\ outOfStep' = Noted(r.ret)
          /\ own' = (own /\ r.ret = "OK" /\ queue[1].own)
          /\ chunks' = IF r.ret = "OK" THEN chunks + 1 ELSE chunks
          /\ UNCHANGED code
          /\ IF r.ret = "OK" /\ queue[1].of.more
               THEN /\ queue' = r.rest
                    /\ UNCHANGED <<connected, faults, pc, cmd, ret>>
               ELSE Return(r.ret, r.rest)
    BY <1>5 DEF DataReceived
  <2>2. r.rest \in Streams /\ r.ret \in Failures \cup {"OK"}
    BY <1>1, ReceivedIs
  <2>3. Noted(r.ret) \in BOOLEAN
    BY <2>2 DEF Noted, TypeOK, Failures
  <2>4. (own /\ r.ret = "OK" /\ queue[1].own) \in BOOLEAN
    OBVIOUS
  <2>5. r.ret \in Results /\ chunks' \in Nat
    BY <1>1, <2>1, <2>2 DEF Results, Codes
  <2>6. CASE r.ret = "OK" /\ queue[1].of.more
    BY <1>2, <1>5, <2>1, <2>2, <2>3, <2>4, <2>5, <2>6 DEF TypeOK, DataReceived
  <2>7. CASE ~(r.ret = "OK" /\ queue[1].of.more)
    <3>1. /\ queue' \in Streams /\ pc' = "idle" /\ ret' \in Results
          /\ UNCHANGED <<connected, faults, cmd>>
      BY <2>1, <2>2, <2>5, <2>7, ReturnTypes
    <3> QED BY <1>2, <2>1, <2>3, <2>4, <2>5, <3>1 DEF TypeOK
  <2> QED BY <2>6, <2>7
<1>6. CASE Plug
  <2>1. (~connected) \in BOOLEAN
    OBVIOUS
  <2> QED BY <1>6, <2>1 DEF Plug, callVars, TypeOK
<1>7. CASE UNCHANGED vars
  BY <1>7 DEF vars, linkVars, callVars, TypeOK
<1> QED BY <1>3, <1>4, <1>5, <1>6, <1>7 DEF Next, Driver, Command

\* SensorLink!TypeOK: a command never returns anything but a code of the sensor
\* or an error of the driver, and data[0] holds a code of the sensor.
THEOREM TypeCorrect == Spec => []TypeOK
<1>1. Spec => Init /\ [][Next]_vars
  BY PTL DEF Spec
<1>2. TypeInv => TypeOK
  BY DEF TypeInv
<1> QED BY <1>1, <1>2, TypeInitial, TypeStep, PTL

-----------------------------------------------------------------------------
\* The driver in step with the sensor.
LEMMA InStepInitial == Init => InStep
BY DEF Init, InStep

\* A read that leaves the driver in step timed out or took a packet.
LEMMA NotedInStep ==
  ASSUME NEW r, r.ret \in Failures \cup {"OK"}, ~Noted(r.ret)
  PROVE  r.ret = "TIMEOUT" \/ (r.ret = "OK" /\ ~outOfStep)
BY DEF Noted, Failures

\* Every step keeps the driver in step, or notes that it is not.
LEMMA InStepStep == TypeInv /\ InStep /\ [Next]_vars => InStep'
<1> SUFFICES ASSUME TypeInv, InStep, [Next]_vars, ~outOfStep'
             PROVE  /\ pc' = "idle" => queue' = <<>>
                    /\ pc' = "answer" => AnswerIsQueued'
                    /\ pc' = "data" => own' /\ code' = "OK" /\ DataIsQueued'
  BY DEF InStep
<1>1. queue \in Streams /\ code \in Codes /\ chunks \in Nat /\ TypeOK
  BY TypedQueue DEF TypeInv
<1>2. ASSUME NEW c \in Commands, Send(c)
      PROVE  pc' = "answer" /\ AnswerIsQueued'
  <2>1. queue = <<>> /\ cmd' = c
    BY <1>2 DEF Send, InStep
  <2> QED BY <1>1, <1>2, <2>1, SendQueues DEF AnswerIsQueued, Send
<1>3. CASE Answered
  <2>1. PICK r \in Received(queue) :
          /\ code' = r.code /\ outOfStep' = Noted(r.ret)
          /\ own' = (r.ret = "OK" /\ queue[1].own)
          /\ chunks' = chunks
          /\ IF cmd = "UploadTemplate" /\ r.ret = "OK" /\ r.code = "OK"
               THEN pc' = "data" /\ queue' = r.rest
               ELSE pc' = "idle" /\ queue' = Held(r.rest)
    BY <1>3 DEF Answered, Return
  <2>2. r.rest \in Streams /\ r.ret \in Failures \cup {"OK"} /\ (r.ret = "TIMEOUT" => r.rest = <<>>)
    BY <1>1, ReceivedIs
  <2>3. CASE r.ret = "TIMEOUT"
    BY <2>1, <2>2, <2>3, HeldBytes
  <2>4. CASE r.ret = "OK" /\ ~outOfStep
    <3>1. AnswerIsQueued
      BY <1>3, <2>4 DEF Answered, InStep
    <3>2. /\ queue[1].own
          /\ IF cmd = "UploadTemplate" /\ r.code = "OK"
               THEN \E d \in Nat \ {0} : CutAt(r.rest, DataStream, 0, d)
               ELSE r.rest = <<>>
      BY <1>1, <2>4, <3>1, AnswerReceived
    <3>3. CASE cmd = "UploadTemplate" /\ r.code = "OK"
      <4>1. chunks * PacketSpan = 0
        BY <1>3, Spans DEF Answered, TypeInv
      <4>2. DataIsQueued'
        BY <2>1, <2>4, <3>2, <3>3, <4>1 DEF DataIsQueued
      <4> QED BY <2>1, <2>4, <3>2, <3>3, <4>2
    <3>4. CASE ~(cmd = "UploadTemplate" /\ r.code = "OK")
      BY <2>1, <2>2, <3>2, <3>4, HeldBytes
    <3> QED BY <3>3, <3>4
  <2> QED BY <2>1, <2>2, <2>3, <2>4, NotedInStep
<1>4. CASE DataReceived
  <2>1. PICK r \in Received(queue) :
          /\ outOfStep' = Noted(r.ret)
          /\ own' = (own /\ r.ret = "OK" /\ queue[1].own)
          /\ chunks' = IF r.ret = "OK" THEN chunks + 1 ELSE chunks
          /\ code' = code
          /\ IF r.ret = "OK" /\ queue[1].of.more
               THEN pc' = pc /\ queue' = r.rest
               ELSE pc' = "idle" /\ queue' = Held(r.rest)
    BY <1>4 DEF DataReceived, Return
  <2>2. r.rest \in Streams /\ r.ret \in Failures \cup {"OK"} /\ (r.ret = "TIMEOUT" => r.rest = <<>>)
    BY <1>1, ReceivedIs
  <2>3. CASE r.ret = "TIMEOUT"
    BY <2>1, <2>2, <2>3, HeldBytes
  <2>4. CASE r.ret = "OK" /\ ~outOfStep
    <3>1. DataIsQueued /\ own /\ code = "OK" /\ pc = "data"
      BY <1>4, <2>4 DEF DataReceived, InStep
    <3>2. /\ queue[1].own /\ (~queue[1].of.more => r.rest = <<>>)
          /\ \E d \in Nat \ {0} : CutAt(r.rest, DataStream, (chunks + 1) * PacketSpan, d)
      BY <1>1, <2>4, <3>1, DataPacketReceived
    <3>3. CASE queue[1].of.more
      <4>1. DataIsQueued'
        BY <2>1, <2>4, <3>2, <3>3 DEF DataIsQueued
      <4> QED BY <2>1, <2>4, <3>1, <3>2, <3>3, <4>1
    <3>4. CASE ~queue[1].of.more
      BY <2>1, <2>2, <3>2, <3>4, HeldBytes
    <3> QED BY <3>3, <3>4
  <2> QED BY <2>1, <2>2, <2>3, <2>4, NotedInStep
<1>5. CASE Plug
  BY <1>5 DEF Plug, callVars, InStep
<1>6. CASE UNCHANGED vars
  BY <1>6 DEF vars, linkVars, callVars, InStep, AnswerIsQueued, DataIsQueued
<1> QED BY <1>2, <1>3, <1>4, <1>5, <1>6 DEF Next, Driver, Command

\* What a command that has returned says of itself.
Outcomes == AnswerIsOwn /\ TransferIsWhole

LEMMA OutcomesInitial == Init => Outcomes
BY DEF Init, Outcomes, AnswerIsOwn, TransferIsWhole

\* A command that succeeds in step has read its answer, and its data.
LEMMA OutcomesStep == TypeInv /\ InStep /\ Outcomes /\ [Next]_vars => Outcomes'
<1> SUFFICES ASSUME TypeInv, InStep, Outcomes, [Next]_vars,
                    pc' = "idle", ret' = "OK", ~outOfStep', cmd' \notin UncheckedCommands
             PROVE  /\ own' /\ (cmd' \notin SentCommands => code' = "OK")
                    /\ cmd' = "UploadTemplate" => chunks' = Packets
  <2>1. "UploadTemplate" \notin UncheckedCommands
    BY DEF UncheckedCommands
  <2> QED BY <2>1 DEF Outcomes, AnswerIsOwn, TransferIsWhole
<1>1. queue \in Streams /\ code \in Codes /\ chunks \in Nat /\ TypeOK
  BY TypedQueue DEF TypeInv
<1>2. CASE Answered
  <2>1. PICK r \in Received(queue) :
          /\ code' = r.code /\ outOfStep' = Noted(r.ret)
          /\ own' = (r.ret = "OK" /\ queue[1].own)
          /\ ~(cmd = "UploadTemplate" /\ r.ret = "OK" /\ r.code = "OK")
          /\ ret' = ResultOf(cmd, r.ret, r.code) /\ cmd' = cmd
    BY <1>2 DEF Answered, Return
  <2>2. r.ret \in Failures \cup {"OK"}
    BY <1>1, ReceivedIs
  <2>3. r.ret = "OK" /\ (cmd \notin SentCommands => r.code = "OK")
    BY <2>1 DEF ResultOf
  <2>4. ~outOfStep
    BY <2>1, <2>2, <2>3, NotedInStep
  <2>5. AnswerIsQueued
    BY <1>2, <2>4 DEF Answered, InStep
  <2>6. queue[1].own
    BY <1>1, <2>3, <2>5, AnswerReceived
  <2>7. cmd # "UploadTemplate"
    BY <2>1, <2>3 DEF SentCommands
  <2> QED BY <2>1, <2>3, <2>6, <2>7
<1>3. CASE DataReceived
  <2>1. PICK r \in Received(queue) :
          /\ outOfStep' = Noted(r.ret)
          /\ own' = (own /\ r.ret = "OK" /\ queue[1].own)
          /\ chunks' = IF r.ret = "OK" THEN chunks + 1 ELSE chunks
          /\ code' = code
          /\ ~(r.ret = "OK" /\ queue[1].of.more)
          /\ ret' = r.ret /\ cmd' = cmd
    BY <1>3 DEF DataReceived, Return
  <2>2. r.ret \in Failures \cup {"OK"}
    BY <1>1, ReceivedIs
  <2>3. r.ret = "OK" /\ ~outOfStep
    BY <2>1, <2>2, NotedInStep
  <2>4. DataIsQueued /\ own /\ code = "OK"
    BY <1>3, <2>3 DEF DataReceived, InStep
  <2>5. /\ queue[1].own /\ chunks < Packets /\ (queue[1].of.more <=> chunks < Packets - 1)
    BY <1>1, <2>3, <2>4, DataPacketReceived
  <2>6. chunks' = Packets
    BY <1>1, <2>1, <2>3, <2>5, LinkAssumption
  <2> QED BY <2>1, <2>3, <2>4, <2>5, <2>6
<1>4. CASE Plug
  BY <1>4 DEF Plug, callVars, Outcomes, AnswerIsOwn, TransferIsWhole
<1>5. CASE UNCHANGED vars
  BY <1>5 DEF vars, callVars, Outcomes, AnswerIsOwn, TransferIsWhole
<1>6. ASSUME NEW c \in Commands, Send(c) PROVE FALSE
  BY <1>6 DEF Send
<1> QED BY <1>2, <1>3, <1>4, <1>5, <1>6 DEF Next, Driver, Command

\* SensorLink!StaleOnlyAfterBadPacket: whatever is lost, altered or cut short on
\* the line, R503PacketReceive leaves no byte behind but where it reports a bad
\* packet, and a read that times out makes up for it (R503Packet.c:141-201).
THEOREM DriverIsInStep == Spec => []StaleOnlyAfterBadPacket
<1>1. Spec => Init /\ [][Next]_vars
  BY PTL DEF Spec
<1>2. InStep => StaleOnlyAfterBadPacket
  BY DEF InStep, StaleOnlyAfterBadPacket
<1> QED BY <1>1, <1>2, TypeInitial, TypeStep, InStepInitial, InStepStep, PTL

\* SensorLink!AnswerIsOwn: until then a command that reports success has read the
\* answer to itself.
THEOREM SuccessIsAnswered == Spec => []AnswerIsOwn
<1>1. Spec => Init /\ [][Next]_vars
  BY PTL DEF Spec
<1>2. Outcomes => AnswerIsOwn
  BY DEF Outcomes
<1> QED
  BY <1>1, <1>2, TypeInitial, TypeStep, InStepInitial, InStepStep,
     OutcomesInitial, OutcomesStep, PTL

\* SensorLink!TransferIsWhole: and an upload that reports success has received
\* every data packet of the template, however many there are (R503.c:98-119).
THEOREM UploadIsWhole == Spec => []TransferIsWhole
<1>1. Spec => Init /\ [][Next]_vars
  BY PTL DEF Spec
<1>2. Outcomes => TransferIsWhole
  BY DEF Outcomes
<1> QED
  BY <1>1, <1>2, TypeInitial, TypeStep, InStepInitial, InStepStep,
     OutcomesInitial, OutcomesStep, PTL
=============================================================================
