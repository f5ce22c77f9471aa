----------------------------- MODULE LinkProofs ------------------------------
(***************************************************************************)
(* Theorems about Link: for packets of any sizes, any size of the socket's *)
(* buffer and any cutting of the stream into reads, the packets that       *)
(* write() took whole are handed over whole, once and in order.            *)
(***************************************************************************)
EXTENDS Link, SequenceTheorems, TLAPS

-----------------------------------------------------------------------------
(* The bytes of a packet and its size. *)

\* A size is the sum of its four bytes.
LEMMA FourBytes ==
    ASSUME NEW s \in Nat, s \div 16777216 < 256
    PROVE  s = (s % 256) + ((s \div 256) % 256) * 256
               + ((s \div 65536) % 256) * 65536
               + ((s \div 16777216) % 256) * 16777216
<1>1. PICK q1, r1 : q1 = s \div 256 /\ r1 = s % 256
  OBVIOUS
<1>2. PICK q2, r2 : q2 = q1 \div 256 /\ r2 = q1 % 256
  OBVIOUS
<1>3. PICK q3, r3 : q3 = q2 \div 256 /\ r3 = q2 % 256
  OBVIOUS
<1>4. /\ q1 \in Nat /\ r1 \in 0..255 /\ s = 256 * q1 + r1
      /\ q2 \in Nat /\ r2 \in 0..255 /\ q1 = 256 * q2 + r2
      /\ q3 \in Nat /\ r3 \in 0..255 /\ q2 = 256 * q3 + r3
  BY <1>1, <1>2, <1>3
<1>5. s \div 65536 = q2
  BY <1>4
<1>6. s \div 16777216 = q3
  BY <1>4
<1>7. q3 % 256 = q3
  BY <1>4, <1>6
<1> QED BY <1>1, <1>2, <1>3, <1>4, <1>5, <1>6, <1>7

\* The sizes of the packets.
LEMMA Sizes == \A p \in Packet : SizeOf[p] \in Nat /\ SizeOf[p] >= 12
BY LinkAssumption, SMT DEF LinkAssumption

\* Packet.Size as the bytes d give it.
SizeIn(d) ==
    LET at(k) == IF k <= Len(d) THEN Value(d[k]) * Weight[k] ELSE 0
    IN  at(1) + at(2) + at(3) + at(4)

LEMMA SizeInData == PacketSize = SizeIn(data) /\ PacketSize' = SizeIn(data')
BY DEF PacketSize, SizeIn, Value

\* One of the first bytes of a packet.
LEMMA Values ==
    ASSUME NEW p \in Packet, NEW k \in 1..4
    PROVE  Value(<<p, k>>) \in 0..255 /\ (k = 1 => Value(<<p, k>>) >= 4)
<1>1. CASE k = 1
  BY <1>1, LinkAssumption, SMT DEF Value, Weight, LinkAssumption
<1>2. CASE k = 2
  BY <1>2, LinkAssumption, SMT DEF Value, Weight, LinkAssumption
<1>3. CASE k = 3
  BY <1>3, LinkAssumption, SMT DEF Value, Weight, LinkAssumption
<1>4. CASE k = 4
  BY <1>4, LinkAssumption, SMT DEF Value, Weight, LinkAssumption
<1> QED BY <1>1, <1>2, <1>3, <1>4

\* What the bytes count for.
LEMMA Weights ==
    Weight[1] = 1 /\ Weight[2] = 256 /\ Weight[3] = 65536 /\ Weight[4] = 16777216
BY SMT DEF Weight

\* With the header there the size is that of the packet.
LEMMA WholeHeader ==
    ASSUME NEW d, NEW p \in Packet, Len(d) \in Nat, Len(d) >= 4,
           \A k \in 1..4 : d[k] = <<p, k>>
    PROVE  SizeIn(d) = SizeOf[p]
<1>1. PICK s : s = SizeOf[p]
  OBVIOUS
<1>2. s \in Nat /\ s \div 16777216 < 256 /\ s \div 1 = s
  BY <1>1, LinkAssumption, SMT DEF LinkAssumption
<1>3. d[1] = <<p, 1>> /\ d[2] = <<p, 2>> /\ d[3] = <<p, 3>> /\ d[4] = <<p, 4>>
  BY SMT
<1>4. /\ Value(d[1]) = s % 256 /\ Value(d[2]) = (s \div 256) % 256
      /\ Value(d[3]) = (s \div 65536) % 256 /\ Value(d[4]) = (s \div 16777216) % 256
  <2>1. \A k \in 1..4 : Value(<<p, k>>) = (s \div Weight[k]) % 256
    BY <1>1 DEF Value
  <2>2. /\ Value(d[1]) = (s \div 1) % 256 /\ Value(d[2]) = (s \div 256) % 256
        /\ Value(d[3]) = (s \div 65536) % 256 /\ Value(d[4]) = (s \div 16777216) % 256
    BY <1>3, <2>1, Weights, SMT
  <2> QED BY <1>2, <2>2, SMT
<1>5. SizeIn(d) = Value(d[1]) * Weight[1] + Value(d[2]) * Weight[2]
                  + Value(d[3]) * Weight[3] + Value(d[4]) * Weight[4]
  BY SMT DEF SizeIn
<1>6. s = (s % 256) + ((s \div 256) % 256) * 256 + ((s \div 65536) % 256) * 65536
          + ((s \div 16777216) % 256) * 16777216
  BY <1>2, FourBytes, SMTT(30)
<1>7. /\ s % 256 \in Int /\ (s \div 256) % 256 \in Int /\ (s \div 65536) % 256 \in Int
      /\ (s \div 16777216) % 256 \in Int
  BY <1>2, SMT
<1> QED BY <1>1, <1>4, <1>5, <1>6, <1>7, Weights, SMT

\* The first byte alone makes the size at least 4, whatever follows it.
LEMMA AnyHeader ==
    ASSUME NEW d \in Seq(Packet \X Nat), d # <<>>,
           \A k \in 1..Len(d) : d[k][2] \in 1..k
    PROVE  SizeIn(d) \in Int /\ SizeIn(d) >= 4
<1>1. ASSUME NEW k \in 1..4, k <= Len(d)
      PROVE  Value(d[k]) \in 0..255 /\ (k = 1 => Value(d[k]) >= 4)
  <2>1. d[k] \in Packet \X Nat /\ d[k][2] \in 1..k
    BY <1>1
  <2>2. d[k] = <<d[k][1], d[k][2]>> /\ d[k][1] \in Packet /\ d[k][2] \in 1..4
        /\ (k = 1 => d[k][2] = 1)
    BY <2>1
  <2> QED BY <2>2, Values
<1>2. Len(d) \in Nat /\ Len(d) >= 1
  OBVIOUS
<1>3. ASSUME NEW k \in 1..4
      PROVE  /\ (IF k <= Len(d) THEN Value(d[k]) * Weight[k] ELSE 0) \in Nat
             /\ k = 1 => (IF k <= Len(d) THEN Value(d[k]) * Weight[k] ELSE 0) >= 4
  <2>1. CASE k > Len(d)
    BY <1>2, <2>1
  <2>2. CASE k <= Len(d)
    <3>1. PICK v, w : v = Value(d[k]) /\ w = Weight[k]
      OBVIOUS
    <3>2. v \in 0..255 /\ (k = 1 => v >= 4)
      BY <1>1, <2>2, <3>1
    <3>3. w \in {1, 256, 65536, 16777216} /\ (k = 1 => w = 1)
      BY <3>1, Weights, SMT
    <3>4. v * w \in Nat /\ (k = 1 => v * w >= 4)
      BY <3>2, <3>3, SMT
    <3> QED BY <1>2, <2>2, <3>1, <3>4
  <2> QED BY <1>2, <2>1, <2>2
<1>4. PICK a, b, c, e : /\ a = IF 1 <= Len(d) THEN Value(d[1]) * Weight[1] ELSE 0
                        /\ b = IF 2 <= Len(d) THEN Value(d[2]) * Weight[2] ELSE 0
                        /\ c = IF 3 <= Len(d) THEN Value(d[3]) * Weight[3] ELSE 0
                        /\ e = IF 4 <= Len(d) THEN Value(d[4]) * Weight[4] ELSE 0
  OBVIOUS
<1>5. SizeIn(d) = a + b + c + e
  BY <1>4 DEF SizeIn
<1>6. a \in Nat /\ b \in Nat /\ c \in Nat /\ e \in Nat /\ a >= 4
  BY <1>3, <1>4
<1> QED BY <1>5, <1>6

\* More bytes do not change the size once the header is there.
LEMMA SizeStays ==
    ASSUME NEW d, NEW e, Len(d) \in Nat, Len(e) \in Nat, Len(d) >= 4, Len(e) >= 4,
           \A k \in 1..4 : d[k] = e[k]
    PROVE  SizeIn(d) = SizeIn(e)
BY SMT DEF SizeIn

\* The bytes of a packet.
LEMMA BytesOf ==
    ASSUME NEW p \in Packet
    PROVE  /\ Bytes(p) \in Seq(Packet \X Nat) /\ Len(Bytes(p)) = SizeOf[p]
           /\ \A k \in 1..SizeOf[p] : Bytes(p)[k] = <<p, k>>
           /\ \A d \in Seq(Packet \X Nat) :
                 Len(d) = SizeOf[p] /\ (\A k \in 1..Len(d) : d[k] = <<p, k>>)
                 => d = Bytes(p)
<1>1. PICK n : n = SizeOf[p]
  OBVIOUS
<1>2. n \in Nat /\ Bytes(p) = [k \in 1..n |-> <<p, k>>]
  BY <1>1, Sizes DEF Bytes
<1>3. PICK f : f = [k \in 1..n |-> <<p, k>>]
  OBVIOUS
<1>4. f \in [1..n -> Packet \X Nat] /\ DOMAIN f = 1..n /\ \A k \in 1..n : f[k] = <<p, k>>
  BY <1>2, <1>3
<1>5. f \in Seq(Packet \X Nat)
  BY <1>2, <1>4
<1>6. Len(f) = n
  BY <1>2, <1>4, <1>5, LenProperties
<1>7. ASSUME NEW d \in Seq(Packet \X Nat), Len(d) = n, \A k \in 1..Len(d) : d[k] = <<p, k>>
      PROVE  d = f
  BY <1>4, <1>5, <1>6, <1>7, SeqEqual
<1> QED BY <1>1, <1>2, <1>3, <1>4, <1>5, <1>6, <1>7

-----------------------------------------------------------------------------
(* The stream.  Its bytes are those of the packet that is being read, or    *)
(* handled, and then those in the socket.                                   *)

At(k) == IF k <= Len(data) THEN data[k] ELSE buffer[k - Len(data)]

Total == Len(data) + Len(buffer)

\* The number of the packet that is being read, or handled.
Current == IF handling THEN Len(handled) ELSE Len(handled) + 1

\* Where the accepted packets begin, and at last the one that would follow.  Each
\* of them is said to end before all later ones, as nothing here could derive
\* that by induction.
Offsets(acc) ==
    {off \in [1..(Len(acc) + 1) -> Nat] :
        \A k \in 1..Len(acc) :
            /\ off[k + 1] = off[k] + SizeOf[acc[k]]
            /\ \A m \in (k + 1)..(Len(acc) + 1) : off[k] + SizeOf[acc[k]] <= off[m]}

\* The bytes from packet c on are those of the accepted packets, one after the
\* other, and then nothing, or the beginnings of packets.
StreamOK(off, c) ==
    LET end == off[Len(accepted) + 1] - off[c] IN
    /\ \A k \in c..Len(accepted) : \A j \in 1..SizeOf[accepted[k]] :
          At(off[k] - off[c] + j) = <<accepted[k], j>>
    /\ IF torn
       THEN Total >= end /\ \A j \in 1..(Total - end) : At(end + j)[2] \in 1..j
       ELSE Total = end

\* Past the first packet put together from two the stream is not followed.
StreamIsFollowed ==
    Current <= Len(accepted) + 1 =>
        \E off \in Offsets(accepted) : StreamOK(off, Current)

\* What was handed over, and what is.
HandledOK ==
    /\ handled \in Seq(Seq(Packet \X Nat))
    /\ Len(handled) > Len(accepted) => torn
    /\ \A k \in 1..Len(handled) :
          k <= Len(accepted) => handled[k] = Bytes(accepted[k])
    /\ handling =>
          /\ handled # <<>>
          /\ Len(handled) <= Len(accepted) =>
                data = Bytes(accepted[Len(handled)])

\* What was read is not yet a packet.
ReadingOK ==
    /\ position <= TargetSize
    /\ ~handling /\ Len(handled) < Len(accepted) =>
          Len(data) < SizeOf[accepted[Len(handled) + 1]]

LinkInv == TypeOK /\ HandledOK /\ ReadingOK /\ StreamIsFollowed

-----------------------------------------------------------------------------
(* Reading. *)

\* The bytes of the stream move from the socket to the packet, in order.
LEMMA ReadMoves ==
    ASSUME TypeOK, NEW n \in 1..Len(buffer), data' = data \o SubSeq(buffer, 1, n),
           buffer' = SubSeq(buffer, n + 1, Len(buffer))
    PROVE  /\ data' \in Seq(Packet \X Nat) /\ buffer' \in Seq(Packet \X Nat)
           /\ Len(data') = Len(data) + n /\ Len(data) \in Nat
           /\ Total' = Total /\ Total \in Nat /\ Len(data') <= Total
           /\ \A k \in 1..Len(data') : data'[k] = At(k)
           /\ \A k \in 1..Len(data) : data'[k] = data[k]
           /\ \A k \in 1..Total : At(k)' = At(k)
<1>1. PICK d, b, m : d = data' /\ b = SubSeq(buffer, 1, n) /\ m = Len(buffer)
  OBVIOUS
<1>2. PICK r : r = buffer'
  OBVIOUS
<1>3. /\ data \in Seq(Packet \X Nat) /\ buffer \in Seq(Packet \X Nat)
      /\ Len(data) \in Nat /\ m \in Nat /\ n \in 1..m /\ Len(buffer) = m
  BY <1>1 DEF TypeOK
<1>4. /\ b \in Seq(Packet \X Nat) /\ Len(b) = n /\ \A k \in 1..n : b[k] = buffer[k]
  <2>1. ASSUME NEW k \in 1..n PROVE buffer[k] \in Packet \X Nat
    <3>1. k \in 1..Len(buffer)
      BY <1>3
    <3> QED BY <1>3, <3>1, ElementOfSeq
  <2> QED BY <1>1, <1>3, <2>1, SubSeqProperties
<1>5. /\ r \in Seq(Packet \X Nat) /\ Len(r) = m - n
      /\ \A k \in 1..(m - n) : r[k] = buffer[n + k]
  <2>1. r = SubSeq(buffer, n + 1, m) /\ n + 1 \in Int /\ m \in Int
        /\ \A k \in (n + 1)..m : buffer[k] \in Packet \X Nat
    BY <1>1, <1>2, <1>3
  <2>2. /\ r \in Seq(Packet \X Nat)
        /\ Len(r) = IF n + 1 <= m THEN m - (n + 1) + 1 ELSE 0
        /\ \A k \in 1..(m - (n + 1) + 1) : r[k] = buffer[n + 1 + k - 1]
    BY <2>1, SubSeqProperties
  <2>3. Len(r) = m - n /\ m - (n + 1) + 1 = m - n
    BY <1>3, <2>2
  <2>4. ASSUME NEW k \in 1..(m - n) PROVE r[k] = buffer[n + k]
    <3>1. n + 1 + k - 1 = n + k /\ k \in 1..(m - (n + 1) + 1)
      BY <1>3, <2>3
    <3> QED BY <2>2, <3>1
  <2> QED BY <2>2, <2>3, <2>4
<1>6. /\ d \in Seq(Packet \X Nat) /\ Len(d) = Len(data) + n
      /\ \A k \in 1..Len(d) : d[k] = IF k <= Len(data) THEN data[k] ELSE b[k - Len(data)]
  BY <1>1, <1>3, <1>4, ConcatProperties, SMTT(30)
<1>7. Total' = Total /\ Total \in Nat /\ Len(d) <= Total
  <2>1. Total = Len(data) + m /\ Total' = Len(d) + Len(r)
    BY <1>1, <1>2, <1>3 DEF Total
  <2> QED BY <1>3, <1>5, <1>6, <2>1
<1>8. ASSUME NEW k \in 1..Len(d) PROVE d[k] = At(k)
  <2>1. CASE k <= Len(data)
    BY <1>6, <2>1 DEF At
  <2>2. CASE ~(k <= Len(data))
    <3>1. k - Len(data) \in 1..n
      BY <1>3, <1>6, <2>2
    <3>2. d[k] = b[k - Len(data)] /\ b[k - Len(data)] = buffer[k - Len(data)]
      BY <1>4, <1>6, <2>2, <3>1
    <3> QED BY <2>2, <3>2 DEF At
  <2> QED BY <2>1, <2>2
<1>9. ASSUME NEW k \in 1..Total PROVE At(k)' = At(k)
  <2>1. CASE k <= Len(d)
    BY <1>1, <1>8, <2>1 DEF At
  <2>2. CASE k > Len(d)
    <3>1. /\ k - Len(d) \in 1..(m - n) /\ ~(k <= Len(data)) /\ ~(k <= Len(d))
          /\ n + (k - Len(d)) = k - Len(data)
      BY <1>1, <1>3, <1>6, <2>2 DEF Total
    <3>2. r[k - Len(d)] = buffer[k - Len(data)]
      BY <1>5, <3>1
    <3> QED BY <1>1, <1>2, <3>1, <3>2 DEF At
  <2> QED BY <1>3, <1>6, <1>7, <2>1, <2>2
<1>10. \A k \in 1..Len(data) : d[k] = data[k]
  <2>1. \A k \in 1..Len(data) : k \in 1..Len(d) /\ k <= Len(data)
    BY <1>3, <1>6
  <2> QED BY <1>6, <2>1
<1>11. data' = d /\ buffer' = r
  BY <1>1, <1>2
<1> QED BY <1>3, <1>5, <1>6, <1>7, <1>8, <1>9, <1>10, <1>11

\* A packet's bytes lie between where packet c and where the last one ends.
LEMMA Between ==
    ASSUME accepted \in Seq(Packet), NEW off \in Offsets(accepted),
           NEW c \in 1..(Len(accepted) + 1)
    PROVE  /\ off[c] \in Nat /\ off[Len(accepted) + 1] \in Nat
           /\ off[c] <= off[Len(accepted) + 1]
           /\ \A k \in c..Len(accepted) :
                 /\ off[k] \in Nat /\ SizeOf[accepted[k]] \in Nat /\ off[c] <= off[k]
                 /\ off[k] + SizeOf[accepted[k]] <= off[Len(accepted) + 1]
                 /\ \A j \in 1..SizeOf[accepted[k]] :
                       off[k] - off[c] + j \in 1..(off[Len(accepted) + 1] - off[c])
<1>1. PICK n : n = Len(accepted)
  OBVIOUS
<1>2. /\ n \in Nat /\ c \in 1..(n + 1) /\ n + 1 \in 1..(n + 1)
      /\ \A k \in 1..n : SizeOf[accepted[k]] \in Nat
  BY <1>1, Sizes
<1>3. /\ \A k \in 1..(n + 1) : off[k] \in Nat
      /\ \A k \in 1..n : \A m \in (k + 1)..(n + 1) : off[k] + SizeOf[accepted[k]] <= off[m]
  BY <1>1 DEF Offsets
<1>4. \A k \in 1..n : \A m \in (k + 1)..(n + 1) : off[k] <= off[m]
  BY <1>2, <1>3
<1>5. off[c] <= off[n + 1]
  <2>1. CASE c = n + 1
    BY <1>2, <1>3, <2>1
  <2>2. CASE c # n + 1
    <3>1. c \in 1..n /\ n + 1 \in (c + 1)..(n + 1)
      BY <1>2, <2>2
    <3> QED BY <1>4, <3>1
  <2> QED BY <2>1, <2>2
<1>6. ASSUME NEW k \in c..n
      PROVE  /\ off[k] \in Nat /\ SizeOf[accepted[k]] \in Nat /\ off[c] <= off[k]
             /\ off[k] + SizeOf[accepted[k]] <= off[n + 1]
  <2>1. /\ k \in 1..n /\ n + 1 \in (k + 1)..(n + 1)
        /\ k # c => c \in 1..n /\ k \in (c + 1)..(n + 1)
    BY <1>2
  <2>2. off[c] <= off[k]
    BY <1>2, <1>3, <1>4, <2>1
  <2>3. off[k] \in Nat /\ SizeOf[accepted[k]] \in Nat
    BY <1>2, <1>3, <2>1
  <2>4. off[k] + SizeOf[accepted[k]] <= off[n + 1]
    BY <1>3, <2>1
  <2> QED BY <2>2, <2>3, <2>4
<1>7. ASSUME NEW k \in c..n, NEW j \in 1..SizeOf[accepted[k]]
      PROVE  off[k] - off[c] + j \in 1..(off[n + 1] - off[c])
  <2>1. PICK a, b, e, z : a = off[c] /\ b = off[k] /\ e = SizeOf[accepted[k]] /\ z = off[n + 1]
    OBVIOUS
  <2>2. a \in Nat /\ b \in Nat /\ e \in Nat /\ z \in Nat /\ a <= b /\ b + e <= z /\ j \in 1..e
    BY <1>2, <1>3, <1>6, <2>1
  <2>3. b - a + j \in 1..(z - a)
    BY <2>2
  <2> QED BY <2>1, <2>3
<1> QED BY <1>1, <1>2, <1>3, <1>5, <1>6, <1>7

\* A step that leaves the bytes of the stream where they are.
LEMMA StreamStays ==
    ASSUME TypeOK, StreamIsFollowed, UNCHANGED <<accepted, torn>>, Total' = Total,
           \A k \in 1..Total : At(k)' = At(k), Current \in Nat \ {0}, Current' = Current
    PROVE  StreamIsFollowed'
<1>1. PICK c, n : c = Current /\ n = Len(accepted)
  OBVIOUS
<1>2. SUFFICES ASSUME c <= n + 1
               PROVE  \E off \in Offsets(accepted) : StreamOK(off, c)'
  BY <1>1, SMTT(30) DEF StreamIsFollowed, StreamOK, Offsets
<1>3. PICK off \in Offsets(accepted) : StreamOK(off, c)
  BY <1>1, <1>2 DEF StreamIsFollowed
<1>4. PICK end : end = off[n + 1] - off[c]
  OBVIOUS
<1>5. /\ accepted \in Seq(Packet) /\ n \in Nat /\ c \in 1..(n + 1)
      /\ Len(data) \in Nat /\ Len(buffer) \in Nat /\ Total \in Nat
  BY <1>1, <1>2 DEF TypeOK, Total
<1>6. /\ end \in Nat
      /\ \A k \in c..n : \A j \in 1..SizeOf[accepted[k]] : off[k] - off[c] + j \in 1..end
  BY <1>1, <1>4, <1>5, Between
<1>7. end <= Total /\ (~torn => Total = end)
      /\ (torn => \A j \in 1..(Total - end) : At(end + j)[2] \in 1..j)
      /\ \A k \in c..n : \A j \in 1..SizeOf[accepted[k]] :
             At(off[k] - off[c] + j) = <<accepted[k], j>>
  BY <1>1, <1>3, <1>4, <1>5, <1>6 DEF StreamOK
<1>8. \A k \in c..n : \A j \in 1..SizeOf[accepted[k]] :
          At(off[k] - off[c] + j)' = <<accepted[k], j>>
  <2>1. ASSUME NEW k \in c..n, NEW j \in 1..SizeOf[accepted[k]], NEW i,
               i = off[k] - off[c] + j
        PROVE  At(i)' = <<accepted[k], j>>
    BY <1>5, <1>6, <1>7, <2>1
  <2> QED BY <2>1
<1>9. ASSUME torn, NEW j \in 1..(Total - end) PROVE At(end + j)'[2] \in 1..j
  <2>1. PICK i : i = end + j
    OBVIOUS
  <2>2. i \in 1..Total
    BY <1>5, <1>6, <1>9, <2>1
  <2>3. At(i)' = At(i) /\ At(i)[2] \in 1..j
    BY <1>7, <1>9, <2>1, <2>2
  <2> QED BY <2>1, <2>3
<1>10. StreamOK(off, c)'
  BY <1>1, <1>4, <1>7, <1>8, <1>9 DEF StreamOK
<1> QED BY <1>10

\* A read puts bytes after those that are there.
LEMMA ReadAppends ==
    ASSUME TypeOK, NEW n \in 1..Len(buffer), Read(n)
    PROVE  /\ data' = data \o SubSeq(buffer, 1, n)
           /\ buffer' = SubSeq(buffer, n + 1, Len(buffer))
           /\ position' = position + n /\ Len(handled) <= Len(accepted)
           /\ n <= TargetSize - position /\ UNCHANGED <<torn, accepted, writes>>
           /\ handling' = (handling \/ position' >= PacketSize')
           /\ handled' = IF position' >= PacketSize' THEN Append(handled, data')
                         ELSE handled
<1>1. PICK l : l = Len(data)
  OBVIOUS
<1>2. PICK b : b = SubSeq(buffer, 1, n)
  OBVIOUS
<1>3. /\ data \in Seq(Packet \X Nat) /\ buffer \in Seq(Packet \X Nat) /\ l \in Nat
      /\ position = l /\ Len(buffer) \in Nat
  BY <1>1 DEF TypeOK
<1>4. b \in Seq(Packet \X Nat)
  <2>1. ASSUME NEW k \in 1..n PROVE buffer[k] \in Packet \X Nat
    <3>1. k \in 1..Len(buffer)
      BY <1>3
    <3> QED BY <1>3, <3>1, ElementOfSeq
  <2> QED BY <1>2, <1>3, <2>1, SubSeqProperties
<1>5. SubSeq(data, 1, l) = data
  BY <1>1, <1>3, SubSeqFull
<1>6. SubSeq(data, l + n + 1, l) = <<>>
  BY <1>3, SubSeqEmpty
<1>7. data \o b \o <<>> = data \o b
  <2>1. data \o b \in Seq(Packet \X Nat)
    BY <1>3, <1>4
  <2> QED BY <2>1, ConcatEmptySeq
<1>8. data' = SubSeq(data, 1, l) \o b \o SubSeq(data, l + n + 1, l)
  BY <1>1, <1>2, <1>3 DEF Read
<1> QED BY <1>2, <1>5, <1>6, <1>7, <1>8 DEF Read, Complete, PositionAt

\* A packet that is being handled is whole: nothing more is read into it.
LEMMA HandledIsWhole ==
    ASSUME LinkInv, handling, Len(handled) <= Len(accepted)
    PROVE  position = TargetSize /\ Len(handled) \in 1..Len(accepted)
           /\ data = Bytes(accepted[Len(handled)])
<1>1. /\ Len(handled) \in 1..Len(accepted) /\ data = Bytes(accepted[Len(handled)])
      /\ position = Len(data) /\ accepted \in Seq(Packet)
  <2>1. handled \in Seq(Seq(Packet \X Nat)) /\ handled # <<>> /\ accepted \in Seq(Packet)
    BY DEF LinkInv, HandledOK, TypeOK
  <2>2. Len(handled) \in Nat /\ Len(handled) # 0 /\ Len(accepted) \in Nat
    BY <2>1
  <2> QED BY <2>1, <2>2 DEF LinkInv, HandledOK, TypeOK
<1>2. PICK p : p = accepted[Len(handled)]
  OBVIOUS
<1>3. p \in Packet
  BY <1>1, <1>2, ElementOfSeq
<1>4. /\ Len(data) = SizeOf[p] /\ SizeOf[p] \in Nat /\ SizeOf[p] >= 12
      /\ \A k \in 1..SizeOf[p] : data[k] = <<p, k>>
  BY <1>1, <1>2, <1>3, BytesOf, Sizes
<1>5. SizeIn(data) = SizeOf[p]
  <2>1. \A k \in 1..4 : data[k] = <<p, k>>
    BY <1>4
  <2> QED BY <1>3, <1>4, <2>1, WholeHeader
<1> QED BY <1>1, <1>4, <1>5, SizeInData DEF TargetSize

\* A read of the packet that comes next.
LEMMA ReadOfPacket ==
    ASSUME TypeOK, NEW n \in 1..Len(buffer), Read(n), NEW p \in Packet,
           \A k \in 1..SizeOf[p] : At(k) = <<p, k>>, SizeOf[p] <= Total
    PROVE  /\ position' <= SizeOf[p] /\ position' <= TargetSize'
           /\ position' >= PacketSize' <=> position' = SizeOf[p]
           /\ position' = SizeOf[p] => data' = Bytes(p)
<1>1. PICK d, s : d = data' /\ s = SizeOf[p]
  OBVIOUS
<1>2. s \in Nat /\ s >= 12
  BY <1>1, Sizes
<1>3. /\ d \in Seq(Packet \X Nat) /\ Len(d) = Len(data) + n /\ Len(data) \in Nat
      /\ \A k \in 1..Len(d) : d[k] = At(k)
      /\ \A k \in 1..Len(data) : d[k] = data[k]
      /\ position = Len(data) /\ position' = Len(d)
  BY <1>1, ReadAppends, ReadMoves DEF TypeOK
<1>4. n <= TargetSize - position
  BY ReadAppends
<1>5. \A k \in 1..Len(d) : k <= s => d[k] = <<p, k>>
  BY <1>1, <1>2, <1>3
<1>6. CASE position < 4
  <2>1. TargetSize = 4 /\ Len(d) \in 1..4
    BY <1>3, <1>4, <1>6 DEF TargetSize
  <2>2. ASSUME NEW k \in 1..Len(d) PROVE d[k] = <<p, k>> /\ d[k][2] \in 1..k
    <3>1. d[k] = <<p, k>>
      BY <1>2, <1>5, <2>1
    <3> QED BY <2>1, <3>1
  <2>3. SizeIn(d) \in Int /\ SizeIn(d) >= 4
    BY <1>3, <2>1, <2>2, AnyHeader
  <2>4. ASSUME Len(d) = 4 PROVE SizeIn(d) = s
    <3>1. \A k \in 1..4 : d[k] = <<p, k>>
      BY <2>2, <2>4
    <3> QED BY <1>1, <2>4, <3>1, WholeHeader
  <2>5. PacketSize' \in Int /\ PacketSize' >= 4 /\ (position' = 4 => PacketSize' = s)
    BY <1>1, <1>3, <2>3, <2>4, SizeInData
  <2>6. position' \in 1..4 /\ position' <= TargetSize'
    BY <1>3, <2>1, <2>5 DEF TargetSize
  <2> QED BY <1>1, <1>2, <2>5, <2>6
<1>7. CASE position >= 4
  <2>1. \A k \in 1..4 : d[k] = <<p, k>> /\ data[k] = <<p, k>>
    BY <1>2, <1>3, <1>5, <1>7
  <2>2. SizeIn(d) = s /\ SizeIn(data) = s
    <3>1. Len(data) \in Nat /\ Len(data) >= 4 /\ Len(d) \in Nat /\ Len(d) >= 4
      BY <1>3, <1>7
    <3>2. SizeIn(d) = s
      BY <1>1, <2>1, <3>1, WholeHeader
    <3>3. SizeIn(data) = s
      BY <1>1, <2>1, <3>1, WholeHeader
    <3> QED BY <3>2, <3>3
  <2>3. PacketSize = s /\ PacketSize' = s
    BY <1>1, <2>2, SizeInData
  <2>4. position' <= s /\ TargetSize' = s
    BY <1>2, <1>3, <1>4, <1>7, <2>3 DEF TargetSize
  <2>5. position' = s => d = Bytes(p)
    BY <1>1, <1>3, <1>5, BytesOf
  <2> QED BY <1>1, <1>2, <1>3, <2>3, <2>4, <2>5
<1> QED BY <1>3, <1>6, <1>7

\* A read past the last accepted packet.
LEMMA ReadOfRest ==
    ASSUME TypeOK, NEW n \in 1..Len(buffer), Read(n), \A k \in 1..Total : At(k)[2] \in 1..k
    PROVE  position' <= TargetSize'
<1>1. PICK d : d = data'
  OBVIOUS
<1>2. /\ d \in Seq(Packet \X Nat) /\ Len(d) = Len(data) + n /\ Len(data) \in Nat
      /\ \A k \in 1..Len(d) : d[k] = At(k) /\ Len(d) <= Total /\ Total \in Nat
      /\ \A k \in 1..Len(data) : d[k] = data[k]
      /\ position = Len(data) /\ position' = Len(d)
  BY <1>1, ReadAppends, ReadMoves DEF TypeOK
<1>3. n <= TargetSize - position
  BY ReadAppends
<1>4. SizeIn(d) \in Int /\ SizeIn(d) >= 4
  <2>1. ASSUME NEW k \in 1..Len(d) PROVE d[k][2] \in 1..k
    BY <1>2
  <2>2. d # <<>>
    BY <1>2
  <2> QED BY <1>2, <2>1, <2>2, AnyHeader
<1>5. CASE position < 4
  BY <1>1, <1>2, <1>3, <1>4, <1>5, SizeInData DEF TargetSize
<1>6. CASE position >= 4
  <2>1. SizeIn(d) = SizeIn(data)
    <3>1. Len(data) \in Nat /\ Len(data) >= 4 /\ Len(d) \in Nat /\ Len(d) >= 4
      BY <1>2, <1>6
    <3>2. \A k \in 1..4 : d[k] = data[k]
      BY <1>2, <3>1
    <3> QED BY <3>1, <3>2, SizeStays
  <2> QED BY <1>1, <1>2, <1>3, <1>4, <1>6, <2>1, SizeInData DEF TargetSize
<1> QED BY <1>2, <1>5, <1>6

\* Reading keeps the invariant: a packet is handed over when its last byte came.
LEMMA ReadKeeps ==
    ASSUME LinkInv, NEW n \in 1..Len(buffer), Read(n)
    PROVE  LinkInv' /\ ~handling
<1>1. TypeOK /\ HandledOK /\ ReadingOK /\ StreamIsFollowed
  BY DEF LinkInv
<1>2. /\ data' = data \o SubSeq(buffer, 1, n)
      /\ buffer' = SubSeq(buffer, n + 1, Len(buffer))
      /\ position' = position + n /\ Len(handled) <= Len(accepted)
      /\ n <= TargetSize - position /\ UNCHANGED <<torn, accepted, writes>>
      /\ handling' = (handling \/ position' >= PacketSize')
      /\ handled' = IF position' >= PacketSize' THEN Append(handled, data')
                    ELSE handled
  BY <1>1, ReadAppends
<1>3. /\ data' \in Seq(Packet \X Nat) /\ buffer' \in Seq(Packet \X Nat)
      /\ Len(data') = Len(data) + n /\ Len(data) \in Nat
      /\ Total' = Total /\ Total \in Nat /\ Len(data') <= Total
      /\ \A k \in 1..Total : At(k)' = At(k)
  BY <1>1, <1>2, ReadMoves
<1>4. PICK h, l : h = Len(handled) /\ l = Len(accepted)
  OBVIOUS
<1>5. /\ h \in Nat /\ l \in Nat /\ h <= l /\ position = Len(data)
      /\ handled \in Seq(Seq(Packet \X Nat)) /\ accepted \in Seq(Packet)
      /\ n \in Nat \ {0}
  BY <1>1, <1>2, <1>4 DEF TypeOK, HandledOK
<1>6. ~handling
  <2>1. ~(n <= position - position)
    BY <1>3, <1>5
  <2> QED BY <1>2, <2>1, HandledIsWhole
<1>7. Current = h + 1 /\ Current \in Nat \ {0} /\ Current <= l + 1
  BY <1>4, <1>5, <1>6 DEF Current
<1>8. PICK off \in Offsets(accepted) : StreamOK(off, h + 1)
  BY <1>1, <1>4, <1>7 DEF StreamIsFollowed
<1>9. PICK end : end = off[l + 1] - off[h + 1]
  OBVIOUS
<1>10. /\ off[h + 1] \in Nat /\ off[l + 1] \in Nat /\ end \in Nat /\ end <= Total
       /\ torn => \A j \in 1..(Total - end) : At(end + j)[2] \in 1..j
       /\ ~torn => Total = end
       /\ \A k \in (h + 1)..l : \A j \in 1..SizeOf[accepted[k]] :
             At(off[k] - off[h + 1] + j) = <<accepted[k], j>>
  <2>1. h + 1 \in 1..(l + 1)
    BY <1>5
  <2>2. off[h + 1] \in Nat /\ off[l + 1] \in Nat /\ off[h + 1] <= off[l + 1]
    BY <1>4, <1>5, <2>1, Between
  <2> QED BY <1>4, <1>5, <1>8, <1>9, <2>2 DEF StreamOK
<1>11. TypeOK'
  <2>1. handling' \in BOOLEAN
    BY <1>2, <1>6
  <2>2. position' = Len(data')
    BY <1>2, <1>3, <1>5
  <2> QED BY <1>1, <1>2, <1>3, <2>1, <2>2 DEF TypeOK
<1>12. /\ handled' \in Seq(Seq(Packet \X Nat))
       /\ \A k \in 1..h : handled'[k] = handled[k]
       /\ handling' => handled' # <<>> /\ Len(handled') = h + 1 /\ handled'[h + 1] = data'
       /\ ~handling' => handled' = handled
  <2>1. CASE position' >= PacketSize'
    <3>1. PICK d, g : d = data' /\ g = handled'
      OBVIOUS
    <3>2. d \in Seq(Packet \X Nat) /\ g = Append(handled, d)
      BY <1>2, <1>3, <2>1, <3>1
    <3>3. /\ g \in Seq(Seq(Packet \X Nat)) /\ g # <<>> /\ Len(g) = h + 1 /\ g[h + 1] = d
          /\ \A k \in 1..h : g[k] = handled[k]
      BY <1>4, <1>5, <3>2, AppendProperties
    <3> QED BY <1>2, <2>1, <3>1, <3>3
  <2>2. CASE ~(position' >= PacketSize')
    BY <1>2, <1>5, <1>6, <2>2
  <2> QED BY <2>1, <2>2
<1>13. StreamIsFollowed'
  <2>1. Current' = Current
    BY <1>4, <1>7, <1>12 DEF Current
  <2> QED BY <1>1, <1>2, <1>3, <1>7, <2>1, StreamStays
<1>14. CASE h < l
  <2>1. PICK p : p = accepted[h + 1]
    OBVIOUS
  <2>2. p \in Packet /\ h + 1 \in (h + 1)..l /\ h + 1 \in 1..l
    <3>1. h + 1 \in (h + 1)..l /\ h + 1 \in 1..l
      BY <1>5, <1>14
    <3> QED BY <1>4, <1>5, <2>1, <3>1, ElementOfSeq
  <2>3. \A k \in 1..SizeOf[p] : At(k) = <<p, k>>
    <3>1. \A j \in 1..SizeOf[p] : At(off[h + 1] - off[h + 1] + j) = <<p, j>>
      BY <1>10, <2>1, <2>2
    <3>2. \A j \in 1..SizeOf[p] : off[h + 1] - off[h + 1] + j = j
      BY <1>10, <2>2, Sizes
    <3> QED BY <3>1, <3>2
  <2>4. SizeOf[p] <= Total
    <3>1. off[h + 1] + SizeOf[p] <= off[l + 1]
      BY <1>4, <1>5, <2>1, <2>2, Between
    <3>2. SizeOf[p] \in Nat
      BY <2>2, Sizes
    <3>3. PICK a, b, e : a = off[h + 1] /\ b = off[l + 1] /\ e = SizeOf[p]
      OBVIOUS
    <3>4. a \in Nat /\ b \in Nat /\ e \in Nat /\ a + e <= b /\ b - a <= Total
      BY <1>9, <1>10, <3>1, <3>2, <3>3
    <3>5. e <= Total
      BY <1>3, <3>4
    <3> QED BY <3>3, <3>5
  <2>5. /\ position' <= SizeOf[p] /\ position' <= TargetSize'
        /\ position' >= PacketSize' <=> position' = SizeOf[p]
        /\ position' = SizeOf[p] => data' = Bytes(p)
    BY <1>1, <2>2, <2>3, <2>4, ReadOfPacket
  <2>6. HandledOK'
    <3>1. CASE handling'
      <4>1. handled'[h + 1] = Bytes(accepted[h + 1]) /\ data' = Bytes(accepted[h + 1])
            /\ Len(handled') = h + 1
        BY <1>2, <1>6, <1>12, <2>1, <2>5, <3>1
      <4>2. \A k \in 1..h : handled'[k] = Bytes(accepted[k])
        BY <1>1, <1>4, <1>5, <1>12 DEF HandledOK
      <4>3. \A k \in 1..Len(handled') : k \in 1..h \/ k = h + 1
        BY <1>5, <4>1
      <4>4. \A k \in 1..Len(handled') : handled'[k] = Bytes(accepted[k])
        BY <4>1, <4>2, <4>3
      <4>5. ~(h + 1 > l) /\ accepted' = accepted
        BY <1>2, <1>5, <1>14
      <4> QED BY <1>4, <1>12, <3>1, <4>1, <4>4, <4>5 DEF HandledOK, Bytes
    <3>2. CASE ~handling'
      BY <1>1, <1>2, <1>12, <3>2 DEF HandledOK
    <3> QED BY <3>1, <3>2
  <2>7. ReadingOK'
    <3>1. ASSUME ~handling'
          PROVE  Len(data)' < SizeOf[accepted[Len(handled) + 1]]'
      <4>1. position' # SizeOf[p] /\ handled' = handled
        BY <1>2, <1>12, <2>5, <3>1
      <4>2. position' = Len(data') /\ Len(data') \in Nat /\ SizeOf[p] \in Nat
        BY <1>2, <1>3, <1>5, <2>2, Sizes
      <4>3. Len(data') < SizeOf[p]
        BY <2>5, <4>1, <4>2
      <4>4. accepted'[Len(handled') + 1] = p
        BY <1>2, <1>4, <2>1, <4>1
      <4> QED BY <4>3, <4>4
    <3> QED BY <2>5, <3>1 DEF ReadingOK
  <2> QED BY <1>6, <1>11, <1>13, <2>6, <2>7 DEF LinkInv
<1>15. CASE h = l
  <2>1. end = 0 /\ torn
    <3>1. end = 0
      BY <1>9, <1>10, <1>15
    <3>2. Total # 0
      BY <1>3, <1>5
    <3> QED BY <1>10, <3>1, <3>2
  <2>2. \A k \in 1..Total : At(k)[2] \in 1..k
    BY <1>3, <1>10, <2>1
  <2>3. position' <= TargetSize'
    BY <1>1, <2>2, ReadOfRest
  <2>4. HandledOK'
    <3>1. \A k \in 1..Len(handled') : k <= l => k \in 1..h
      BY <1>15, <1>12, <1>5
    <3>2. \A k \in 1..h : handled'[k] = Bytes(accepted[k])
      BY <1>1, <1>4, <1>5, <1>12 DEF HandledOK
    <3> QED BY <1>2, <1>4, <1>5, <1>12, <1>15, <2>1, <3>1, <3>2 DEF HandledOK
  <2>5. ReadingOK'
    <3>1. ASSUME ~handling' PROVE ~(Len(handled') < Len(accepted'))
      <4>1. handled' = handled /\ accepted' = accepted
        BY <1>2, <1>12, <3>1
      <4>2. ~(h < l)
        BY <1>5, <1>15
      <4> QED BY <1>4, <4>1, <4>2
    <3> QED BY <2>3, <3>1 DEF ReadingOK
  <2> QED BY <1>6, <1>11, <1>13, <2>4, <2>5 DEF LinkInv
<1> QED BY <1>5, <1>14, <1>15

-----------------------------------------------------------------------------
(* The other steps. *)

\* When the handler returns the next packet begins where the last one ended.
LEMMA ReturnKeeps ==
    ASSUME LinkInv, Return
    PROVE  LinkInv'
<1>1. TypeOK /\ HandledOK /\ ReadingOK /\ StreamIsFollowed
  BY DEF LinkInv
<1>2. /\ handling /\ handling' = FALSE /\ position' = 0 /\ data' = <<>>
      /\ UNCHANGED <<buffer, torn, accepted, handled, writes>>
  BY DEF Return
<1>3. PICK h, l : h = Len(handled) /\ l = Len(accepted)
  OBVIOUS
<1>4. /\ h \in Nat /\ l \in Nat /\ accepted \in Seq(Packet) /\ h # 0
      /\ Len(data) \in Nat /\ Len(buffer) \in Nat
      /\ handled \in Seq(Seq(Packet \X Nat))
  BY <1>1, <1>2, <1>3 DEF TypeOK, HandledOK
<1>5. TypeOK'
  <2>1. data' \in Seq(Packet \X Nat) /\ position' = Len(data')
    BY <1>2
  <2>2. handling' \in BOOLEAN
    BY <1>2
  <2> QED BY <1>1, <1>2, <2>1, <2>2 DEF TypeOK
<1>6. HandledOK'
  BY <1>1, <1>2 DEF HandledOK, Bytes
<1>7. ReadingOK'
  <2>1. position' <= TargetSize'
    BY <1>2 DEF TargetSize
  <2>2. ASSUME h < l PROVE Len(data') < SizeOf[accepted[h + 1]]
    <3>1. h + 1 \in 1..l
      BY <1>4, <2>2
    <3>2. SizeOf[accepted[h + 1]] \in Nat /\ SizeOf[accepted[h + 1]] >= 12
      BY <1>3, <1>4, <3>1, ElementOfSeq, Sizes
    <3> QED BY <1>2, <3>2
  <2> QED BY <1>2, <1>3, <2>1, <2>2 DEF ReadingOK
<1>8. StreamIsFollowed'
  <2>1. SUFFICES ASSUME h + 1 <= l + 1
                 PROVE  \E off \in Offsets(accepted) : StreamOK(off, h + 1)'
    <3>1. Current' = h + 1 /\ Len(accepted') = l /\ accepted' = accepted
      BY <1>2, <1>3 DEF Current
    <3> QED BY <1>3, <3>1 DEF StreamIsFollowed, StreamOK, Offsets
  <2>2. Current = h /\ h \in 1..l
    BY <1>2, <1>3, <1>4, <2>1 DEF Current
  <2>3. PICK off \in Offsets(accepted) : StreamOK(off, h)
    BY <1>1, <1>3, <1>4, <2>2 DEF StreamIsFollowed
  <2>4. PICK s, p : p = accepted[h] /\ s = SizeOf[p]
    OBVIOUS
  <2>5. p \in Packet /\ s \in Nat /\ Len(data) = s
    BY <1>1, <1>2, <1>3, <1>4, <2>2, <2>4, ElementOfSeq, Sizes, BytesOf, HandledIsWhole
  <2>6. off[h + 1] = off[h] + s
    BY <1>3, <2>2, <2>4 DEF Offsets
  <2>7. PICK end : end = off[l + 1] - off[h + 1]
    OBVIOUS
  <2>8. /\ off[h] \in Nat /\ off[h + 1] \in Nat /\ off[l + 1] \in Nat
        /\ end \in Nat /\ off[l + 1] - off[h] = end + s
        /\ \A k \in (h + 1)..l : off[k] \in Nat /\ SizeOf[accepted[k]] \in Nat
              /\ \A j \in 1..SizeOf[accepted[k]] : off[k] - off[h + 1] + j \in 1..end
    <3>1. h \in 1..(l + 1) /\ h + 1 \in 1..(l + 1)
      BY <1>4, <2>2
    <3>2. off[h] \in Nat
      BY <1>3, <1>4, <2>3, <3>1, Between
    <3>3. /\ off[h + 1] \in Nat /\ off[l + 1] \in Nat /\ off[h + 1] <= off[l + 1]
          /\ \A k \in (h + 1)..l : off[k] \in Nat /\ SizeOf[accepted[k]] \in Nat
              /\ \A j \in 1..SizeOf[accepted[k]] :
                    off[k] - off[h + 1] + j \in 1..(off[l + 1] - off[h + 1])
      BY <1>3, <1>4, <2>3, <3>1, Between
    <3> QED BY <2>5, <2>6, <2>7, <3>2, <3>3
  <2>9. /\ torn => Total >= end + s /\ \A j \in 1..(Total - (end + s)) :
                         At(end + s + j)[2] \in 1..j
        /\ ~torn => Total = end + s
        /\ \A k \in h..l : \A j \in 1..SizeOf[accepted[k]] :
              At(off[k] - off[h] + j) = <<accepted[k], j>>
    BY <1>3, <2>3, <2>8 DEF StreamOK
  <2>10. Total \in Nat /\ Total' = Total - s /\ Total' \in Int
    BY <1>2, <1>4, <2>5 DEF Total
  <2>11. ASSUME NEW i \in Nat \ {0} PROVE At(i)' = At(i + s)
    BY <1>2, <2>5, <2>11 DEF At
  <2>12. ASSUME NEW k \in (h + 1)..l, NEW j \in 1..SizeOf[accepted[k]]
         PROVE  At(off[k] - off[h + 1] + j)' = <<accepted[k], j>>
    <3>1. PICK i : i = off[k] - off[h + 1] + j
      OBVIOUS
    <3>2. i \in Nat \ {0} /\ i + s = off[k] - off[h] + j /\ k \in h..l
      <4>1. off[k] \in Nat /\ SizeOf[accepted[k]] \in Nat /\ i \in 1..end /\ j \in Nat
        BY <2>8, <3>1
      <4>2. i \in Nat \ {0} /\ k \in h..l
        <5>1. i \in Nat \ {0}
          BY <2>8, <4>1
        <5>2. k \in h..l
          BY <1>4
        <5> QED BY <5>1, <5>2
      <4>3. i + s = off[k] - off[h] + j
        <5>1. PICK a, b, c : a = off[k] /\ b = off[h] /\ c = off[h + 1]
          OBVIOUS
        <5>2. a \in Nat /\ b \in Nat /\ c \in Nat /\ c = b + s /\ i = a - c + j
          BY <2>6, <2>8, <3>1, <4>1, <5>1
        <5>3. i + s = a - b + j
          BY <2>5, <4>1, <5>2
        <5> QED BY <5>1, <5>3
      <4> QED BY <4>2, <4>3
    <3>3. At(i)' = At(i + s)
      BY <2>11, <3>2
    <3>4. At(off[k] - off[h] + j) = <<accepted[k], j>>
      BY <2>9, <3>2
    <3> QED BY <3>1, <3>2, <3>3, <3>4
  <2>13. ASSUME torn, NEW j \in 1..(Total' - end) PROVE At(end + j)'[2] \in 1..j
    <3>1. PICK i : i = end + j
      OBVIOUS
    <3>2. i \in Nat \ {0} /\ i + s = end + s + j /\ j \in 1..(Total - (end + s))
      BY <2>5, <2>8, <2>10, <3>1
    <3>3. At(i)' = At(i + s)
      BY <2>11, <3>2
    <3>4. At(end + s + j)[2] \in 1..j
      BY <2>9, <2>13, <3>2
    <3> QED BY <3>1, <3>2, <3>3, <3>4
  <2>14. IF torn THEN Total' >= end ELSE Total' = end
    BY <2>5, <2>8, <2>9, <2>10
  <2>15. StreamOK(off, h + 1)'
    <3>1. Len(accepted') = l /\ accepted' = accepted /\ torn' = torn
      BY <1>2, <1>3
    <3> QED BY <2>7, <2>12, <2>13, <2>14, <3>1 DEF StreamOK
  <2> QED BY <2>15
<1> QED BY <1>5, <1>6, <1>7, <1>8 DEF LinkInv

\* The bytes that write() takes go to the end of the stream.
LEMMA WriteAppends ==
    ASSUME TypeOK, NEW p \in Packet, NEW b \in Seq(Packet \X Nat),
           \A j \in 1..Len(b) : b[j] = <<p, j>>,
           buffer' = buffer \o b, UNCHANGED data
    PROVE  /\ buffer' \in Seq(Packet \X Nat) /\ Len(b) \in Nat
           /\ Total \in Nat /\ Total' = Total + Len(b)
           /\ \A i \in 1..Total : At(i)' = At(i)
           /\ \A j \in 1..Len(b) : \A i : i = Total + j => At(i)' = <<p, j>>
<1>1. PICK r, m, n : r = buffer' /\ m = Len(buffer) /\ n = Len(b)
  OBVIOUS
<1>2. /\ buffer \in Seq(Packet \X Nat) /\ m \in Nat /\ n \in Nat /\ Len(data) \in Nat
  BY <1>1 DEF TypeOK
<1>3. /\ r \in Seq(Packet \X Nat) /\ Len(r) = m + n
      /\ \A i \in 1..(m + n) : r[i] = IF i <= m THEN buffer[i] ELSE b[i - m]
  BY <1>1, <1>2, ConcatProperties
<1>4. Total = Len(data) + m /\ Total \in Nat /\ Total' = Total + n
  <2>1. Total = Len(data) + m /\ Total' = Len(data) + Len(r)
    BY <1>1 DEF Total
  <2> QED BY <1>2, <1>3, <2>1
<1>5. ASSUME NEW i \in 1..Total PROVE At(i)' = At(i)
  <2>1. CASE i <= Len(data)
    BY <2>1 DEF At
  <2>2. CASE ~(i <= Len(data))
    <3>1. i - Len(data) \in 1..(m + n) /\ i - Len(data) <= m
      BY <1>2, <1>4, <2>2
    <3>2. r[i - Len(data)] = buffer[i - Len(data)]
      BY <1>3, <3>1
    <3> QED BY <1>1, <2>2, <3>2 DEF At
  <2> QED BY <2>1, <2>2
<1>6. ASSUME NEW j \in 1..n, NEW i, i = Total + j PROVE At(i)' = <<p, j>>
  <2>1. ~(i <= Len(data)) /\ i - Len(data) \in 1..(m + n) /\ ~(i - Len(data) <= m)
        /\ i - Len(data) - m = j
    BY <1>2, <1>4, <1>6
  <2>2. r[i - Len(data)] = b[j]
    BY <1>3, <2>1
  <2>3. At(i)' = r[i - Len(data)]
    BY <1>1, <2>1 DEF At
  <2> QED BY <1>1, <1>6, <2>2, <2>3
<1> QED BY <1>1, <1>2, <1>3, <1>4, <1>5, <1>6

\* A packet is accepted: the offsets go on after it.
LEMMA StreamGrows ==
    ASSUME LinkInv, NEW p \in Packet, ~torn, ~torn', accepted' = Append(accepted, p),
           buffer' = buffer \o Bytes(p), UNCHANGED <<data, handling, handled>>
    PROVE  /\ StreamIsFollowed'
           /\ ~handling /\ Len(handled) = Len(accepted) => Len(data) = 0
<1>1. TypeOK /\ HandledOK /\ StreamIsFollowed
  BY DEF LinkInv
<1>2. PICK l, c, s, q : l = Len(accepted) /\ c = Current /\ s = SizeOf[p] /\ q = Append(accepted, p)
  OBVIOUS
<1>3. /\ l \in Nat /\ accepted \in Seq(Packet) /\ Len(handled) \in Nat /\ Len(handled) <= l
      /\ s \in Nat /\ Len(Bytes(p)) = s /\ Bytes(p) \in Seq(Packet \X Nat)
      /\ \A k \in 1..s : Bytes(p)[k] = <<p, k>>
      /\ Len(data) \in Nat /\ Len(buffer) \in Nat
  <2>1. l \in Nat /\ accepted \in Seq(Packet) /\ Len(data) \in Nat /\ Len(buffer) \in Nat
    BY <1>1, <1>2 DEF TypeOK
  <2>2. Len(handled) \in Nat
    BY <1>1 DEF HandledOK
  <2>3. ~(Len(handled) > l)
    BY <1>1, <1>2 DEF HandledOK
  <2>4. Len(handled) <= l
    BY <2>1, <2>2, <2>3
  <2>5. s \in Nat /\ SizeOf[p] = s
    BY <1>2, Sizes
  <2> QED BY <2>1, <2>2, <2>4, <2>5, BytesOf
<1>4. c \in 1..(l + 1) /\ Current' = c
  <2>1. handling => Len(handled) # 0
    BY <1>1 DEF HandledOK
  <2> QED BY <1>2, <1>3, <2>1 DEF Current
<1>5. PICK off \in Offsets(accepted) : StreamOK(off, c)
  BY <1>1, <1>2, <1>4 DEF StreamIsFollowed
<1>6. PICK end : end = off[l + 1] - off[c]
  OBVIOUS
<1>7. /\ off[c] \in Nat /\ off[l + 1] \in Nat /\ end \in Nat
      /\ \A k \in c..l : \A j \in 1..SizeOf[accepted[k]] : off[k] - off[c] + j \in 1..end
  <2>1. /\ off[c] \in Nat /\ off[l + 1] \in Nat /\ off[c] <= off[l + 1]
        /\ \A k \in c..l : \A j \in 1..SizeOf[accepted[k]] :
              off[k] - off[c] + j \in 1..(off[l + 1] - off[c])
    BY <1>2, <1>3, <1>4, <1>5, Between
  <2>2. off[l + 1] - off[c] \in Nat
    BY <2>1
  <2> QED BY <1>6, <2>1, <2>2
<1>8. /\ Total = end
      /\ \A k \in c..l : \A j \in 1..SizeOf[accepted[k]] :
             At(off[k] - off[c] + j) = <<accepted[k], j>>
  BY <1>2, <1>5, <1>6 DEF StreamOK
<1>9. /\ Total' = Total + s /\ \A i \in 1..Total : At(i)' = At(i)
      /\ \A j \in 1..s : \A i : i = Total + j => At(i)' = <<p, j>>
  BY <1>1, <1>3, WriteAppends
<1>10. /\ q \in Seq(Packet) /\ Len(q) = l + 1 /\ q[l + 1] = p
       /\ \A k \in 1..l : q[k] = accepted[k]
  BY <1>2, <1>3, AppendProperties
<1>11. PICK new : new = [i \in 1..(l + 2) |-> IF i <= l + 1 THEN off[i] ELSE off[l + 1] + s]
  OBVIOUS
<1>12. /\ off \in [1..(l + 1) -> Nat]
       /\ \A k \in 1..l :
            /\ off[k + 1] = off[k] + SizeOf[accepted[k]]
            /\ \A m \in (k + 1)..(l + 1) : off[k] + SizeOf[accepted[k]] <= off[m]
  BY <1>2, <1>5 DEF Offsets
<1>13. /\ new \in [1..(l + 2) -> Nat] /\ new[l + 2] = off[l + 1] + s
       /\ \A i \in 1..(l + 1) : new[i] = off[i]
  <2>1. \A i \in 1..(l + 2) : (IF i <= l + 1 THEN off[i] ELSE off[l + 1] + s) \in Nat
    BY <1>3, <1>7, <1>12
  <2>2. l + 2 \in 1..(l + 2) /\ ~(l + 2 <= l + 1)
        /\ \A i \in 1..(l + 1) : i \in 1..(l + 2) /\ i <= l + 1
    BY <1>3
  <2> QED BY <1>11, <2>1, <2>2
<1>14. ASSUME NEW k \in 1..(l + 1)
       PROVE  /\ new[k + 1] = new[k] + SizeOf[q[k]]
              /\ \A m \in (k + 1)..(l + 2) : new[k] + SizeOf[q[k]] <= new[m]
  <2>1. CASE k = l + 1
    <3>1. new[k] = off[l + 1] /\ SizeOf[q[k]] = s /\ new[k + 1] = off[l + 1] + s
      <4>1. k \in 1..(l + 1) /\ k + 1 = l + 2
        BY <1>3, <2>1
      <4> QED BY <1>2, <1>10, <1>13, <2>1, <4>1
    <3>2. \A m \in (k + 1)..(l + 2) : m = k + 1
      BY <1>3, <2>1
    <3> QED BY <1>3, <1>7, <3>1, <3>2
  <2>2. CASE k # l + 1
    <3>1. k \in 1..l /\ k + 1 \in 1..(l + 1) /\ l + 1 \in (k + 1)..(l + 1)
      BY <1>3, <2>2
    <3>2. new[k] = off[k] /\ new[k + 1] = off[k + 1] /\ q[k] = accepted[k]
      BY <1>10, <1>13, <3>1
    <3>3. off[k] \in Nat /\ SizeOf[accepted[k]] \in Nat
      BY <1>2, <1>3, <1>12, <3>1, ElementOfSeq, Sizes
    <3>4. ASSUME NEW m \in (k + 1)..(l + 2) PROVE off[k] + SizeOf[accepted[k]] <= new[m]
      <4>1. CASE m = l + 2
        <5>1. off[k] + SizeOf[accepted[k]] <= off[l + 1]
          BY <1>12, <3>1
        <5>2. PICK a, b, e : a = off[k] /\ b = off[l + 1] /\ e = SizeOf[accepted[k]]
          OBVIOUS
        <5>3. a \in Nat /\ b \in Nat /\ e \in Nat /\ a + e <= b /\ new[m] = b + s
          BY <1>7, <1>13, <3>3, <4>1, <5>1, <5>2
        <5>4. a + e <= b + s
          BY <1>3, <5>3
        <5> QED BY <5>2, <5>3, <5>4
      <4>2. CASE m # l + 2
        <5>1. m \in (k + 1)..(l + 1) /\ m \in 1..(l + 1)
          BY <1>3, <3>1, <4>2
        <5> QED BY <1>12, <1>13, <3>1, <5>1
      <4> QED BY <4>1, <4>2
    <3> QED BY <1>12, <3>1, <3>2, <3>4
  <2> QED BY <2>1, <2>2
<1>15. new \in Offsets(q)
  <2>1. Len(q) + 1 = l + 2
    BY <1>3, <1>10
  <2> QED BY <1>10, <1>13, <1>14, <2>1 DEF Offsets
<1>16. ASSUME NEW k \in c..(l + 1), NEW j \in 1..SizeOf[q[k]], NEW i,
              i = new[k] - new[c] + j
       PROVE  At(i)' = <<q[k], j>>
  <2>1. k \in 1..(l + 1) /\ new[k] = off[k] /\ new[c] = off[c]
    BY <1>3, <1>4, <1>13
  <2>2. CASE k = l + 1
    <3>1. q[k] = p /\ j \in 1..s /\ i = Total + j
      BY <1>2, <1>6, <1>8, <1>10, <1>16, <2>1, <2>2
    <3> QED BY <1>9, <3>1
  <2>3. CASE k # l + 1
    <3>1. k \in c..l /\ k \in 1..l
      BY <1>3, <1>4, <2>3
    <3>2. q[k] = accepted[k]
      BY <1>10, <3>1
    <3>3. i \in 1..Total /\ At(i) = <<accepted[k], j>>
      BY <1>7, <1>8, <1>16, <2>1, <3>1, <3>2
    <3> QED BY <1>9, <3>2, <3>3
  <2> QED BY <2>2, <2>3
<1>17. StreamOK(new, c)'
  <2>1. new[l + 2] - new[c] = Total'
    <3>1. PICK a, b : a = off[c] /\ b = off[l + 1]
      OBVIOUS
    <3>2. new[c] = a /\ new[l + 2] = b + s
      BY <1>4, <1>13, <3>1
    <3>3. Total' = b - a + s
      BY <1>6, <1>8, <1>9, <3>1
    <3>4. a \in Nat /\ b \in Nat
      BY <1>7, <3>1
    <3>5. (b + s) - a = b - a + s
      BY <1>3, <3>4
    <3> QED BY <3>2, <3>3, <3>5
  <2>2. accepted' = q /\ Len(accepted') = l + 1
    BY <1>2, <1>10
  <2>3. Total' = new[Len(accepted') + 1] - new[c]
    <3>1. l + 1 + 1 = l + 2
      BY <1>3
    <3> QED BY <2>1, <2>2, <3>1
  <2>4. \A k \in c..Len(accepted') : \A j \in 1..SizeOf[accepted'[k]] :
            At(new[k] - new[c] + j)' = <<accepted'[k], j>>
    BY <1>16, <2>2
  <2> QED BY <2>3, <2>4 DEF StreamOK
<1>18. StreamIsFollowed'
  <2>1. accepted' = q
    BY <1>2
  <2>2. \E f \in Offsets(q) : StreamOK(f, c)'
    BY <1>15, <1>17
  <2> QED BY <1>4, <2>1, <2>2 DEF StreamIsFollowed, StreamOK, Offsets
<1>19. ASSUME ~handling, Len(handled) = l PROVE Len(data) = 0
  <2>1. c = l + 1
    BY <1>2, <1>19 DEF Current
  <2>2. end = 0
    BY <1>6, <1>7, <2>1
  <2> QED BY <1>3, <1>8, <2>2 DEF Total
<1> QED BY <1>2, <1>18, <1>19

\* The beginning of a packet, or a packet after such a beginning, is written.
LEMMA StreamTears ==
    ASSUME LinkInv, NEW p \in Packet, NEW b \in Seq(Packet \X Nat),
           \A j \in 1..Len(b) : b[j] = <<p, j>>, buffer' = buffer \o b,
           UNCHANGED <<data, handling, handled, accepted>>,
           torn => torn', ~torn' => Len(b) = 0
    PROVE  StreamIsFollowed'
<1>1. TypeOK /\ HandledOK /\ StreamIsFollowed
  BY DEF LinkInv
<1>2. PICK l, c, n : l = Len(accepted) /\ c = Current /\ n = Len(b)
  OBVIOUS
<1>3. l \in Nat /\ accepted \in Seq(Packet) /\ Len(handled) \in Nat
  <2>1. l \in Nat /\ accepted \in Seq(Packet)
    BY <1>1, <1>2 DEF TypeOK
  <2>2. Len(handled) \in Nat
    BY <1>1 DEF HandledOK
  <2> QED BY <2>1, <2>2
<1>4. c \in Nat \ {0} /\ Current' = c
  <2>1. handling => Len(handled) # 0
    BY <1>1 DEF HandledOK
  <2> QED BY <1>2, <1>3, <2>1 DEF Current
<1>5. SUFFICES ASSUME c <= l + 1
               PROVE  \E off \in Offsets(accepted) : StreamOK(off, c)'
  BY <1>2, <1>4, SMTT(30) DEF StreamIsFollowed, StreamOK, Offsets
<1>6. c \in 1..(l + 1)
  BY <1>3, <1>4, <1>5
<1>7. PICK off \in Offsets(accepted) : StreamOK(off, c)
  BY <1>1, <1>2, <1>6 DEF StreamIsFollowed
<1>8. PICK end : end = off[l + 1] - off[c]
  OBVIOUS
<1>9. /\ end \in Nat
      /\ \A k \in c..l : \A j \in 1..SizeOf[accepted[k]] : off[k] - off[c] + j \in 1..end
  <2>1. /\ off[c] \in Nat /\ off[l + 1] \in Nat /\ off[c] <= off[l + 1]
        /\ \A k \in c..l : \A j \in 1..SizeOf[accepted[k]] :
              off[k] - off[c] + j \in 1..(off[l + 1] - off[c])
    BY <1>2, <1>3, <1>6, <1>7, Between
  <2> QED BY <1>8, <2>1
<1>10. /\ torn => Total >= end /\ \A j \in 1..(Total - end) : At(end + j)[2] \in 1..j
       /\ ~torn => Total = end
       /\ \A k \in c..l : \A j \in 1..SizeOf[accepted[k]] :
             At(off[k] - off[c] + j) = <<accepted[k], j>>
  BY <1>2, <1>7, <1>8 DEF StreamOK
<1>11. /\ Total \in Nat /\ n \in Nat /\ Total' = Total + n
       /\ \A i \in 1..Total : At(i)' = At(i)
       /\ \A j \in 1..n : \A i : i = Total + j => At(i)' = <<p, j>>
  BY <1>1, <1>2, WriteAppends
<1>12. Total >= end
  BY <1>9, <1>10, <1>11
<1>13. ASSUME NEW k \in c..l, NEW j \in 1..SizeOf[accepted[k]], NEW i,
              i = off[k] - off[c] + j
       PROVE  At(i)' = <<accepted[k], j>>
  <2>1. i \in 1..Total /\ At(i) = <<accepted[k], j>>
    BY <1>9, <1>10, <1>11, <1>12, <1>13
  <2> QED BY <1>11, <2>1
<1>14. ASSUME NEW j \in 1..(Total' - end), NEW i, i = end + j
       PROVE  At(i)'[2] \in 1..j
  <2>1. CASE i <= Total
    <3>1. i \in 1..Total /\ j \in 1..(Total - end) /\ torn
      BY <1>9, <1>10, <1>11, <1>12, <1>14, <2>1
    <3>2. At(i)' = At(i) /\ At(i)[2] \in 1..j
      BY <1>10, <1>11, <1>14, <3>1
    <3> QED BY <3>2
  <2>2. CASE ~(i <= Total)
    <3>1. PICK m : m = i - Total
      OBVIOUS
    <3>2. m \in 1..n /\ i = Total + m /\ m \in 1..j
      BY <1>9, <1>11, <1>12, <1>14, <2>2, <3>1
    <3>3. At(i)' = <<p, m>>
      BY <1>11, <3>2
    <3> QED BY <3>2, <3>3
  <2> QED BY <2>1, <2>2
<1>15. IF torn' THEN Total' >= end ELSE Total' = end
  BY <1>2, <1>9, <1>10, <1>11, <1>12
<1>16. StreamOK(off, c)'
  <2>1. accepted' = accepted /\ Len(accepted') = l
    BY <1>2
  <2>2. \A k \in c..l : \A j \in 1..SizeOf[accepted[k]] :
            At(off[k] - off[c] + j)' = <<accepted[k], j>>
    BY <1>13
  <2>3. \A j \in 1..(Total' - end) : At(end + j)'[2] \in 1..j
    BY <1>14
  <2> QED BY <1>8, <1>15, <2>1, <2>2, <2>3 DEF StreamOK
<1> QED BY <1>7, <1>16

\* The bounds are numbers.
LEMMA Bounds == Capacity \in Nat /\ MaxWrites \in Nat
BY LinkAssumption, SMT DEF LinkAssumption

\* A packet, or a part of it, is written; whatever of it is taken is a beginning.
LEMMA WriteCases ==
    ASSUME LinkInv, NEW p \in Packet, Write(p)
    PROVE  /\ writes' \in 0..MaxWrites
           /\ UNCHANGED <<position, data, handling, handled>> /\ torn' \in BOOLEAN
           /\ \/ /\ ~torn /\ ~torn' /\ buffer' = buffer \o Bytes(p)
                 /\ accepted' = Append(accepted, p)
              \/ /\ (torn => torn') /\ accepted' = accepted
                 /\ \E b \in Seq(Packet \X Nat) :
                       /\ buffer' = buffer \o b /\ (~torn' => Len(b) = 0)
                       /\ \A j \in 1..Len(b) : b[j] = <<p, j>>
<1>1. TypeOK
  BY DEF LinkInv
<1>2. PICK room, s : room = Capacity - Len(buffer) /\ s = SizeOf[p]
  OBVIOUS
<1>3. /\ room \in Int /\ s \in Nat /\ torn \in BOOLEAN
      /\ Bytes(p) \in Seq(Packet \X Nat) /\ Len(Bytes(p)) = s
      /\ \A k \in 1..s : Bytes(p)[k] = <<p, k>>
  <2>1. Len(buffer) \in Nat /\ torn \in BOOLEAN
    BY <1>1 DEF TypeOK
  <2>2. room \in Int
    BY <1>2, <2>1, Bounds
  <2> QED BY <1>2, <2>1, <2>2, Sizes, BytesOf
<1>4. writes' \in 0..MaxWrites /\ UNCHANGED <<position, data, handling, handled>>
  <2>1. writes \in Nat /\ writes < MaxWrites /\ writes' = writes + 1
    BY <1>1 DEF TypeOK, Write
  <2> QED BY <2>1, Bounds DEF Write
<1>5. CASE s <= room
  <2>1. /\ buffer' = buffer \o Bytes(p) /\ torn' = torn
        /\ accepted' = IF torn THEN accepted ELSE Append(accepted, p)
    BY <1>2, <1>5 DEF Write
  <2>2. CASE torn
    <3>1. torn' = TRUE /\ accepted' = accepted
      BY <1>3, <2>1, <2>2
    <3>2. /\ Bytes(p) \in Seq(Packet \X Nat)
          /\ \A j \in 1..Len(Bytes(p)) : Bytes(p)[j] = <<p, j>>
      BY <1>3
    <3> QED BY <1>4, <2>1, <3>1, <3>2
  <2>3. CASE ~torn
    <3>1. ~torn' /\ torn' \in BOOLEAN /\ accepted' = Append(accepted, p)
      BY <1>3, <2>1, <2>3
    <3> QED BY <1>4, <2>1, <2>3, <3>1
  <2> QED BY <2>2, <2>3
<1>6. CASE ~(s <= room)
  <2>1. PICK k \in 0..room : /\ buffer' = buffer \o SubSeq(Bytes(p), 1, k)
                             /\ torn' = (torn \/ k > 0) /\ accepted' = accepted
    BY <1>2, <1>6 DEF Write
  <2>2. PICK b : b = SubSeq(Bytes(p), 1, k)
    OBVIOUS
  <2>3. k \in 0..s /\ k \in Int
    BY <1>3, <1>6
  <2>4. \A i \in 1..k : Bytes(p)[i] \in Packet \X Nat
    <3>1. \A i \in 1..k : i \in 1..s /\ Bytes(p)[i] = <<p, i>>
      BY <1>3, <2>3
    <3> QED BY <3>1
  <2>5. b \in Seq(Packet \X Nat) /\ Len(b) = k /\ \A i \in 1..k : b[i] = Bytes(p)[i]
    BY <2>2, <2>3, <2>4, SubSeqProperties
  <2>6. \A j \in 1..Len(b) : b[j] = <<p, j>>
    BY <1>3, <2>3, <2>5
  <2>7. torn' \in BOOLEAN /\ (torn => torn') /\ (~torn' => Len(b) = 0)
    <3>1. CASE k > 0
      <4>1. torn' = TRUE
        BY <2>1, <3>1
      <4> QED BY <4>1
    <3>2. CASE ~(k > 0)
      <4>1. torn' = torn
        BY <1>3, <2>1, <3>2
      <4>2. Len(b) = 0
        BY <2>3, <2>5, <3>2
      <4> QED BY <1>3, <4>1, <4>2
    <3> QED BY <3>1, <3>2
  <2> QED BY <1>4, <2>1, <2>2, <2>5, <2>6, <2>7
<1> QED BY <1>5, <1>6

LEMMA WriteKeeps ==
    ASSUME LinkInv, NEW p \in Packet, Write(p)
    PROVE  LinkInv'
<1>1. TypeOK /\ HandledOK /\ ReadingOK
  BY DEF LinkInv
<1>2. /\ writes' \in 0..MaxWrites /\ torn' \in BOOLEAN
      /\ UNCHANGED <<position, data, handling, handled>>
  BY WriteCases
<1>3. TargetSize' = TargetSize
  <2>1. SizeIn(data') = SizeIn(data)
    BY <1>2
  <2> QED BY <1>2, <2>1, SizeInData DEF TargetSize
<1>4. CASE /\ ~torn /\ ~torn' /\ buffer' = buffer \o Bytes(p)
           /\ accepted' = Append(accepted, p)
  <2>1. PICK l, q : l = Len(accepted) /\ q = Append(accepted, p)
    OBVIOUS
  <2>2. l \in Nat /\ accepted \in Seq(Packet)
    BY <1>1, <2>1 DEF TypeOK
  <2>3. /\ q \in Seq(Packet) /\ Len(q) = l + 1 /\ q[l + 1] = p
        /\ \A k \in 1..l : q[k] = accepted[k]
    BY <2>1, <2>2, AppendProperties
  <2>4. Len(handled) \in 0..l
    <3>1. Len(handled) \in Nat /\ ~(Len(handled) > l)
      BY <1>1, <1>4, <2>1 DEF HandledOK
    <3> QED BY <2>2, <3>1
  <2>5. StreamIsFollowed' /\ (~handling /\ Len(handled) = l => Len(data) = 0)
    BY <1>2, <1>4, <2>1, StreamGrows
  <2>6. TypeOK'
    <3>1. buffer' \in Seq(Packet \X Nat)
      BY <1>1, <1>2, <1>4, BytesOf, WriteAppends, Sizes
    <3>2. accepted' \in Seq(Packet) /\ torn' \in BOOLEAN
      BY <1>2, <1>4, <2>1, <2>3
    <3>3. /\ data' \in Seq(Packet \X Nat) /\ position' = Len(data')
          /\ handling' \in BOOLEAN
      BY <1>1, <1>2 DEF TypeOK
    <3> QED BY <1>2, <3>1, <3>2, <3>3 DEF TypeOK
  <2>7. HandledOK'
    <3>1. \A k \in 1..Len(handled) : k \in 1..l /\ q[k] = accepted[k]
      BY <2>2, <2>3, <2>4
    <3>2. ~(Len(handled) > l + 1)
      BY <2>2, <2>4
    <3>3. \A k \in 1..Len(handled) : handled[k] = Bytes(q[k])
      BY <1>1, <2>1, <3>1 DEF HandledOK
    <3>4. ASSUME handling PROVE handled # <<>> /\ data = Bytes(q[Len(handled)])
      <4>1. handled # <<>> /\ Len(handled) # 0
        BY <1>1, <3>4 DEF HandledOK
      <4>2. Len(handled) \in 1..Len(handled) /\ Len(handled) <= l
        BY <2>2, <2>4, <4>1
      <4> QED BY <1>1, <2>1, <3>1, <3>4, <4>1, <4>2 DEF HandledOK
    <3>5. accepted' = q /\ Len(accepted') = l + 1 /\ handled' = handled
          /\ handling' = handling /\ data' = data
      BY <1>2, <1>4, <2>1, <2>3
    <3> QED BY <1>1, <3>2, <3>3, <3>4, <3>5 DEF HandledOK, Bytes
  <2>8. ReadingOK'
    <3>1. ASSUME ~handling PROVE Len(data) < SizeOf[q[Len(handled) + 1]]
      <4>1. CASE Len(handled) = l
        BY <2>3, <2>5, <3>1, <4>1, Sizes
      <4>2. CASE Len(handled) # l
        <5>1. Len(handled) + 1 \in 1..l /\ Len(handled) < l
          BY <2>2, <2>4, <4>2
        <5> QED BY <1>1, <2>1, <2>3, <3>1, <5>1 DEF ReadingOK
      <4> QED BY <4>1, <4>2
    <3>2. accepted' = q
      BY <1>4, <2>1
    <3> QED BY <1>1, <1>2, <1>3, <3>1, <3>2 DEF ReadingOK
  <2> QED BY <2>5, <2>6, <2>7, <2>8 DEF LinkInv
<1>5. CASE /\ (torn => torn') /\ accepted' = accepted
           /\ \E b \in Seq(Packet \X Nat) :
                 /\ buffer' = buffer \o b /\ (~torn' => Len(b) = 0)
                 /\ \A j \in 1..Len(b) : b[j] = <<p, j>>
  <2>1. PICK b \in Seq(Packet \X Nat) :
                 /\ buffer' = buffer \o b /\ (~torn' => Len(b) = 0)
                 /\ \A j \in 1..Len(b) : b[j] = <<p, j>>
    BY <1>5
  <2>2. StreamIsFollowed'
    BY <1>2, <1>5, <2>1, StreamTears
  <2>3. TypeOK'
    <3>1. buffer' \in Seq(Packet \X Nat)
      BY <1>1, <1>2, <2>1, WriteAppends
    <3> QED BY <1>1, <1>2, <1>5, <3>1 DEF TypeOK
  <2>4. HandledOK'
    BY <1>1, <1>2, <1>5 DEF HandledOK, Bytes
  <2>5. ReadingOK'
    BY <1>1, <1>2, <1>3, <1>5 DEF ReadingOK
  <2> QED BY <2>2, <2>3, <2>4, <2>5 DEF LinkInv
<1> QED BY <1>4, <1>5, WriteCases

LEMMA InitLinkInv == Init => LinkInv
<1> SUFFICES ASSUME Init PROVE LinkInv
  OBVIOUS
<1>1. /\ buffer = <<>> /\ position = 0 /\ data = <<>> /\ handling = FALSE
      /\ torn = FALSE /\ accepted = <<>> /\ handled = <<>> /\ writes = 0
  BY DEF Init
<1>2. TypeOK
  <2>1. buffer \in Seq(Packet \X Nat) /\ data \in Seq(Packet \X Nat) /\ position = Len(data)
        /\ accepted \in Seq(Packet)
    BY <1>1
  <2>2. handling \in BOOLEAN /\ torn \in BOOLEAN
    BY <1>1
  <2>3. writes \in 0..MaxWrites
    BY <1>1, Bounds
  <2> QED BY <2>1, <2>2, <2>3 DEF TypeOK
<1>3. HandledOK
  BY <1>1 DEF HandledOK
<1>4. ReadingOK
  BY <1>1 DEF ReadingOK, TargetSize
<1>5. StreamIsFollowed
  <2>1. PICK off : off = [k \in 1..1 |-> 0]
    OBVIOUS
  <2>2. Len(accepted) = 0 /\ Current = 1 /\ Total = 0
    BY <1>1 DEF Current, Total
  <2>3. off \in Offsets(accepted)
    BY <2>1, <2>2 DEF Offsets
  <2>4. StreamOK(off, 1)
    BY <1>1, <2>1, <2>2 DEF StreamOK
  <2> QED BY <2>2, <2>3, <2>4 DEF StreamIsFollowed
<1> QED BY <1>2, <1>3, <1>4, <1>5 DEF LinkInv

LEMMA NextLinkInv == LinkInv /\ [Next]_vars => LinkInv'
<1> SUFFICES ASSUME LinkInv, [Next]_vars PROVE LinkInv'
  OBVIOUS
<1>1. ASSUME NEW p \in Packet, Write(p) PROVE LinkInv'
  BY <1>1, WriteKeeps
<1>2. CASE ReadSome
  BY <1>2, ReadKeeps DEF ReadSome
<1>3. CASE Return
  BY <1>3, ReturnKeeps
<1>4. CASE UNCHANGED vars
  <2>1. UNCHANGED <<buffer, position, data, handling, torn, accepted, handled, writes>>
    BY <1>4 DEF vars
  <2>2. TypeOK /\ HandledOK /\ ReadingOK /\ StreamIsFollowed
    BY DEF LinkInv
  <2>3. TypeOK'
    BY <2>1, <2>2 DEF TypeOK
  <2>4. HandledOK'
    BY <2>1, <2>2 DEF HandledOK, Bytes
  <2>5. ReadingOK'
    BY <2>1, <2>2, SizeInData DEF ReadingOK, TargetSize, SizeIn
  <2>6. StreamIsFollowed'
    <3>1. Total' = Total /\ \A k \in 1..Total : At(k)' = At(k)
      BY <2>1 DEF Total, At
    <3>2. Current \in Nat \ {0} /\ Current' = Current
      <4>1. Len(handled) \in Nat /\ (handling => Len(handled) # 0)
        BY <2>2 DEF HandledOK
      <4> QED BY <2>1, <4>1 DEF Current
    <3> QED BY <2>1, <2>2, <3>1, <3>2, StreamStays
  <2> QED BY <2>3, <2>4, <2>5, <2>6 DEF LinkInv
<1> QED BY <1>1, <1>2, <1>3, <1>4 DEF Next

LEMMA StreamInvariant == Spec => []LinkInv
BY InitLinkInv, NextLinkInv, PTL DEF Spec

-----------------------------------------------------------------------------
(* The theorems. *)

\* Connection's position is the number of bytes read of the packet, and no more
\* than MaxWrites packets are written: the types of Connection and its socket.
THEOREM LinkTypeCorrect == Spec => []TypeOK
<1>1. LinkInv => TypeOK
  BY DEF LinkInv
<1> QED BY <1>1, StreamInvariant, PTL

\* However write() and read() cut the stream, HandlePacket gets the packets that
\* write() took, whole and in order, up to the first that it took a part of.
THEOREM PacketsArrive == Spec => []PacketsArriveWhole
<1>1. ASSUME LinkInv PROVE PacketsArriveWhole
  <2>1. HandledOK /\ TypeOK
    BY <1>1 DEF LinkInv
  <2>2. PICK h, l : h = Len(handled) /\ l = Len(accepted)
    OBVIOUS
  <2>3. h \in Nat /\ l \in Nat
    <3>1. h \in Nat
      BY <2>1, <2>2 DEF HandledOK
    <3>2. l \in Nat
      BY <2>1, <2>2 DEF TypeOK
    <3> QED BY <3>1, <3>2
  <2>4. Min({h, l}) \in {h, l} /\ Min({h, l}) <= h /\ Min({h, l}) <= l
    <3>1. \E x \in {h, l} : \A y \in {h, l} : x <= y
      BY <2>3
    <3> QED BY <3>1 DEF Min
  <2>5. \A k \in 1..Min({h, l}) : k \in 1..h /\ k <= l
    BY <2>3, <2>4
  <2> QED BY <2>1, <2>2, <2>5 DEF HandledOK, PacketsArriveWhole
<1> QED BY <1>1, StreamInvariant, PTL

\* The assertion of Connection::Read holds, and without a short write the bytes
\* read never run over the end of the packet whose header they began with.
THEOREM ReadsStayInside == Spec => []ReadStaysInside
<1>1. ASSUME LinkInv PROVE ReadStaysInside
  <2>1. TypeOK /\ HandledOK /\ ReadingOK /\ StreamIsFollowed
    BY <1>1 DEF LinkInv
  <2>2. SUFFICES ASSUME NEW p \in Packet, ~torn, data # <<>>, data[1][1] = p
                 PROVE  Len(data) <= SizeOf[p]
    BY <2>1 DEF ReadStaysInside, ReadingOK
  <2>3. PICK h, l : h = Len(handled) /\ l = Len(accepted)
    OBVIOUS
  <2>4. h \in Nat /\ l \in Nat /\ h <= l /\ accepted \in Seq(Packet) /\ Len(data) \in Nat
        /\ Len(buffer) \in Nat /\ Len(data) # 0 /\ SizeOf[p] \in Nat /\ SizeOf[p] >= 12
    <3>1. h \in Nat /\ ~(h > l)
      BY <2>1, <2>2, <2>3 DEF HandledOK
    <3>2. l \in Nat /\ accepted \in Seq(Packet) /\ Len(data) \in Nat /\ Len(buffer) \in Nat
          /\ Len(data) # 0
      BY <2>1, <2>2, <2>3 DEF TypeOK
    <3>3. SizeOf[p] \in Nat /\ SizeOf[p] >= 12
      BY Sizes
    <3> QED BY <3>1, <3>2, <3>3
  <2>5. CASE handling
    <3>1. h \in 1..l /\ data = Bytes(accepted[h])
      BY <1>1, <2>3, <2>4, <2>5, HandledIsWhole
    <3>2. PICK q : q = accepted[h]
      OBVIOUS
    <3>3. q \in Packet
      BY <2>3, <2>4, <3>1, <3>2, ElementOfSeq
    <3>4. SizeOf[q] \in Nat /\ SizeOf[q] >= 12 /\ Len(data) = SizeOf[q] /\ data[1] = <<q, 1>>
      <4>1. SizeOf[q] \in Nat /\ SizeOf[q] >= 12
        BY <3>3, Sizes
      <4>2. 1 \in 1..SizeOf[q]
        BY <4>1
      <4> QED BY <3>1, <3>2, <3>3, <4>1, <4>2, BytesOf
    <3> QED BY <2>2, <3>4
  <2>6. CASE ~handling
    <3>1. Current = h + 1 /\ h + 1 \in 1..(l + 1)
      BY <2>3, <2>4, <2>6 DEF Current
    <3>2. PICK off \in Offsets(accepted) : StreamOK(off, h + 1)
      BY <2>1, <2>3, <2>4, <3>1 DEF StreamIsFollowed
    <3>3. /\ off[h + 1] \in Nat
          /\ \A k \in (h + 1)..l : \A j \in 1..SizeOf[accepted[k]] :
                At(off[k] - off[h + 1] + j) = <<accepted[k], j>>
          /\ Total = off[l + 1] - off[h + 1]
      BY <2>2, <2>3, <2>4, <3>1, <3>2, Between DEF StreamOK
    <3>4. Total = Len(data) + Len(buffer)
      BY DEF Total
    <3>5. h < l
      <4>1. h = l => Total = 0
        BY <3>3
      <4> QED BY <2>4, <3>4, <4>1
    <3>6. PICK q : q = accepted[h + 1]
      OBVIOUS
    <3>7. q \in Packet /\ h + 1 \in (h + 1)..l
      <4>1. h + 1 \in 1..l /\ h + 1 \in (h + 1)..l
        BY <2>4, <3>5
      <4> QED BY <2>3, <2>4, <3>6, <4>1, ElementOfSeq
    <3>8. SizeOf[q] \in Nat /\ 1 \in 1..SizeOf[q]
      BY <3>7, Sizes
    <3>9. data[1] = <<q, 1>>
      <4>1. At(off[h + 1] - off[h + 1] + 1) = <<q, 1>>
        BY <3>3, <3>6, <3>7, <3>8
      <4>2. off[h + 1] - off[h + 1] + 1 = 1
        BY <3>3
      <4>3. At(1) = data[1]
        BY <2>4 DEF At
      <4> QED BY <4>1, <4>2, <4>3
    <3>10. Len(data) < SizeOf[q]
      BY <2>1, <2>3, <2>6, <3>5, <3>6 DEF ReadingOK
    <3> QED BY <2>2, <2>4, <3>9, <3>10
  <2> QED BY <2>5, <2>6
<1> QED BY <1>1, StreamInvariant, PTL

\* A handler that runs the run loop finds its packet unchanged: the Parse nested
\* in it reads nothing of a packet that is whole.
THEOREM HandledIsStable == Spec => HandledPacketIsStable
<1>1. ASSUME LinkInv, [Next]_vars
      PROVE  [handling /\ handling' => data' = data]_vars
  <2>1. CASE ReadSome
    BY <1>1, <2>1, ReadKeeps DEF ReadSome
  <2>2. CASE Return
    BY <2>2 DEF Return
  <2>3. ASSUME NEW p \in Packet, Write(p) PROVE data' = data
    BY <2>3 DEF Write
  <2> QED BY <1>1, <2>1, <2>2, <2>3 DEF Next
<1> QED BY <1>1, StreamInvariant, PTL DEF Spec, HandledPacketIsStable

-----------------------------------------------------------------------------
(* The packet queue. *)

\* As many packets as two sequences have in common.
LEMMA Fewer ==
    ASSUME NEW m \in Nat, NEW n \in Nat
    PROVE  Min({m, n}) = IF m <= n THEN m ELSE n
<1>1. CASE m <= n
  <2>1. \E x \in {m, n} : x = m /\ \A y \in {m, n} : x <= y
    BY <1>1
  <2>2. \A x \in {m, n} : (\A y \in {m, n} : x <= y) => x = m
    BY <1>1
  <2> QED BY <1>1, <2>1, <2>2 DEF Min
<1>2. CASE ~(m <= n)
  <2>1. \E x \in {m, n} : x = n /\ \A y \in {m, n} : x <= y
    BY <1>2
  <2>2. \A x \in {m, n} : (\A y \in {m, n} : x <= y) => x = n
    BY <1>2
  <2> QED BY <1>2, <2>1, <2>2 DEF Min
<1> QED BY <1>1, <1>2

\* The packets of acc after the first n, as bytes.
Rest(acc, n) == [k \in 1..(Len(acc) - n) |-> Bytes(acc[n + k])]

LEMMA RestIsSeq ==
    ASSUME NEW acc \in Seq(Packet), NEW n \in 0..Len(acc)
    PROVE  /\ Rest(acc, n) \in Seq(Seq(Packet \X Nat))
           /\ Len(Rest(acc, n)) = Len(acc) - n
           /\ \A k \in 1..(Len(acc) - n) : Rest(acc, n)[k] = Bytes(acc[n + k])
<1>1. PICK m, r : m = Len(acc) - n /\ r = Rest(acc, n)
  OBVIOUS
<1>2. m \in Nat /\ n \in Nat
  BY <1>1
<1>3. ASSUME NEW k \in 1..m PROVE Bytes(acc[n + k]) \in Seq(Packet \X Nat)
  <2>1. n + k \in 1..Len(acc)
    BY <1>1, <1>2
  <2> QED BY <2>1, ElementOfSeq, BytesOf
<1>4. r = [k \in 1..m |-> Bytes(acc[n + k])]
  BY <1>1 DEF Rest
<1>5. r \in [1..m -> Seq(Packet \X Nat)] /\ DOMAIN r = 1..m
      /\ \A k \in 1..m : r[k] = Bytes(acc[n + k])
  BY <1>3, <1>4
<1>6. r \in Seq(Seq(Packet \X Nat))
  BY <1>2, <1>5
<1>7. Len(r) = m
  BY <1>2, <1>5, <1>6, LenProperties
<1> QED BY <1>1, <1>5, <1>6, <1>7

\* A packet that is accepted goes to the end of the queue.
LEMMA RestGrows ==
    ASSUME NEW acc \in Seq(Packet), NEW n \in 0..Len(acc), NEW p \in Packet
    PROVE  Rest(Append(acc, p), n) = Append(Rest(acc, n), Bytes(p))
<1>1. PICK new, r, b, l : /\ new = Append(acc, p) /\ r = Rest(acc, n) /\ b = Bytes(p)
                          /\ l = Len(acc)
  OBVIOUS
<1>2. /\ new \in Seq(Packet) /\ Len(new) = l + 1 /\ new[l + 1] = p
      /\ \A k \in 1..l : new[k] = acc[k]
  BY <1>1, AppendProperties
<1>3. l \in Nat /\ n \in 0..l /\ n \in 0..(l + 1)
  BY <1>1
<1>4. /\ r \in Seq(Seq(Packet \X Nat)) /\ Len(r) = l - n
      /\ \A k \in 1..(l - n) : r[k] = Bytes(acc[n + k])
  BY <1>1, <1>3, RestIsSeq
<1>5. PICK t : t = Rest(new, n)
  OBVIOUS
<1>6. /\ t \in Seq(Seq(Packet \X Nat)) /\ Len(t) = l + 1 - n
      /\ \A k \in 1..(l + 1 - n) : t[k] = Bytes(new[n + k])
  <2>1. n \in 0..Len(new)
    BY <1>2, <1>3
  <2>2. /\ t \in Seq(Seq(Packet \X Nat)) /\ Len(t) = Len(new) - n
        /\ \A k \in 1..(Len(new) - n) : t[k] = Bytes(new[n + k])
    BY <1>2, <1>5, <2>1, RestIsSeq
  <2>3. Len(new) - n = l + 1 - n
    BY <1>2, <1>3
  <2> QED BY <2>2, <2>3, Zenon
<1>7. PICK u : u = Append(r, b)
  OBVIOUS
<1>8. /\ u \in Seq(Seq(Packet \X Nat)) /\ Len(u) = (l - n) + 1 /\ u[(l - n) + 1] = b
      /\ \A k \in 1..(l - n) : u[k] = r[k]
  <2>1. b \in Seq(Packet \X Nat)
    BY <1>1, BytesOf
  <2> QED BY <1>4, <1>7, <2>1, AppendProperties
<1>9. ASSUME NEW k \in 1..(l + 1 - n) PROVE t[k] = u[k]
  <2>1. CASE k = (l - n) + 1
    <3>1. n + k = l + 1
      BY <1>3, <2>1
    <3> QED BY <1>1, <1>2, <1>6, <1>8, <2>1, <3>1
  <2>2. CASE k # (l - n) + 1
    <3>1. k \in 1..(l - n) /\ n + k \in 1..l
      BY <1>3, <2>2
    <3>2. t[k] = Bytes(new[n + k]) /\ new[n + k] = acc[n + k]
      BY <1>2, <1>6, <3>1
    <3> QED BY <1>4, <1>8, <3>1, <3>2
  <2> QED BY <2>1, <2>2
<1>10. t = u
  <2>1. Len(t) = Len(u)
    BY <1>3, <1>6, <1>8
  <2> QED BY <1>6, <1>8, <1>9, <2>1, SeqEqual
<1> QED BY <1>1, <1>5, <1>7, <1>10

\* A packet that is handed over leaves at the front of it.
LEMMA RestShrinks ==
    ASSUME NEW acc \in Seq(Packet), NEW n \in Nat, n < Len(acc)
    PROVE  /\ Rest(acc, n) # <<>> /\ Head(Rest(acc, n)) = Bytes(acc[n + 1])
           /\ Tail(Rest(acc, n)) = Rest(acc, n + 1)
<1>1. PICK l, r, t : l = Len(acc) /\ r = Rest(acc, n) /\ t = Rest(acc, n + 1)
  OBVIOUS
<1>2. l \in Nat /\ n \in 0..l /\ n + 1 \in 0..l
  BY <1>1
<1>3. /\ r \in Seq(Seq(Packet \X Nat)) /\ Len(r) = l - n
      /\ \A k \in 1..(l - n) : r[k] = Bytes(acc[n + k])
  BY <1>1, <1>2, RestIsSeq
<1>4. /\ t \in Seq(Seq(Packet \X Nat)) /\ Len(t) = l - (n + 1)
      /\ \A k \in 1..(l - (n + 1)) : t[k] = Bytes(acc[n + 1 + k])
  BY <1>1, <1>2, RestIsSeq
<1>5. r # <<>> /\ Len(r) # 0
  BY <1>1, <1>2, <1>3
<1>6. Head(r) = Bytes(acc[n + 1])
  BY <1>1, <1>2, <1>3, <1>5
<1>7. /\ Tail(r) \in Seq(Seq(Packet \X Nat)) /\ Len(Tail(r)) = Len(r) - 1
      /\ \A i \in 1..Len(Tail(r)) : Tail(r)[i] = r[i + 1]
  BY <1>3, <1>5, HeadTailProperties
<1>8. Len(Tail(r)) = Len(t)
  BY <1>2, <1>3, <1>4, <1>7
<1>9. ASSUME NEW i \in 1..Len(t) PROVE Tail(r)[i] = t[i]
  <2>1. i + 1 \in 1..(l - n) /\ n + (i + 1) = n + 1 + i /\ i \in 1..(l - (n + 1))
    BY <1>2, <1>4
  <2> QED BY <1>3, <1>4, <1>7, <1>8, <2>1
<1>10. Tail(r) = t
  BY <1>4, <1>7, <1>8, <1>9, SeqEqual
<1> QED BY <1>1, <1>5, <1>6, <1>10

\* The state of the queue in terms of Rest.
LEMMA QueueIs ==
    ASSUME NEW S, NEW g \in Seq(S), NEW l \in Nat
    PROVE  /\ Len(g) <= l => SubSeq(g, 1, Min({Len(g), l})) = g
           /\ Len(g) >= l => /\ Len(SubSeq(g, 1, Min({Len(g), l}))) = l
                             /\ SubSeq(g, 1, Min({Len(g), l})) = SubSeq(g, 1, l)
<1>1. CASE Len(g) <= l
  <2>1. Min({Len(g), l}) = Len(g)
    BY <1>1, Fewer
  <2>2. SubSeq(g, 1, Len(g)) = g
    BY SubSeqFull
  <2>3. Len(g) >= l => Len(g) = l
    BY <1>1
  <2> QED BY <1>1, <2>1, <2>2, <2>3
<1>2. CASE ~(Len(g) <= l)
  <2>1. Min({Len(g), l}) = l
    BY <1>2, Fewer
  <2>2. \A i \in 1..l : g[i] \in S
    <3>1. \A i \in 1..l : i \in 1..Len(g)
      BY <1>2
    <3> QED BY <3>1, ElementOfSeq
  <2>3. Len(SubSeq(g, 1, l)) = l
    BY <2>2, SubSeqProperties
  <2> QED BY <1>2, <2>1, <2>3
<1> QED BY <1>1, <1>2

\* What is handed over past the accepted packets is not received.
LEMMA NothingMoreReceived ==
    ASSUME NEW S, NEW g \in Seq(S), NEW x \in S
    PROVE  SubSeq(Append(g, x), 1, Len(g)) = g
<1>1. PICK n, a : n = Len(g) /\ a = Append(g, x)
  OBVIOUS
<1>2. /\ n \in Nat /\ a \in Seq(S) /\ \A i \in 1..n : a[i] = g[i] /\ g[i] \in S
  BY <1>1, AppendProperties, ElementOfSeq
<1>3. /\ SubSeq(a, 1, n) \in Seq(S) /\ Len(SubSeq(a, 1, n)) = n
      /\ \A i \in 1..n : SubSeq(a, 1, n)[i] = a[i]
  <2>1. \A i \in 1..n : a[i] \in S
    BY <1>2
  <2>2. /\ SubSeq(a, 1, n) \in Seq(S) /\ Len(SubSeq(a, 1, n)) = IF 1 <= n THEN n - 1 + 1 ELSE 0
        /\ \A i \in 1..(n - 1 + 1) : SubSeq(a, 1, n)[i] = a[1 + i - 1]
    BY <1>2, <2>1, SubSeqProperties
  <2> QED BY <1>2, <2>2
<1>4. SubSeq(a, 1, n) = g
  BY <1>1, <1>2, <1>3, SeqEqual
<1> QED BY <1>1, <1>4

\* The packets that wait, in the terms of the queue.
Waiting == Rest(accepted, Len(Received))

\* A step of Link that does to what waits and what was received as Channel does.
LEMMA ChannelSteps ==
    ASSUME \/ Waiting' = Waiting /\ Received' = Received
           \/ \E p \in Packet : /\ Waiting' = Append(Waiting, Bytes(p))
                                /\ Received' = Received
           \/ /\ Waiting # <<>> /\ Waiting' = Tail(Waiting)
              /\ Received' = Append(Received, Head(Waiting))
    PROVE  [Channel!Next]_(Channel!vars)
<1>1. CASE Waiting' = Waiting /\ Received' = Received
  BY <1>1 DEF Waiting, Rest, Channel!vars, Bytes
<1>2. ASSUME NEW p \in Packet, Waiting' = Append(Waiting, Bytes(p)), Received' = Received
      PROVE  Channel!Next
  <2>1. Channel!Put(Bytes(p))
    BY <1>2 DEF Channel!Put, Waiting, Rest
  <2> QED BY <2>1 DEF Channel!Next
<1>3. CASE /\ Waiting # <<>> /\ Waiting' = Tail(Waiting)
           /\ Received' = Append(Received, Head(Waiting))
  BY <1>3 DEF Channel!Next, Channel!Take, Waiting, Rest
<1> QED BY <1>1, <1>2, <1>3

LEMMA NextIsChannel ==
    ASSUME LinkInv, [Next]_vars
    PROVE  [Channel!Next]_(Channel!vars)
<1>1. TypeOK /\ HandledOK /\ LinkInv'
  BY NextLinkInv DEF LinkInv
<1>2. PICK g, acc, l : g = handled /\ acc = accepted /\ l = Len(accepted)
  OBVIOUS
<1>3. g \in Seq(Seq(Packet \X Nat)) /\ acc \in Seq(Packet) /\ l \in Nat /\ Len(g) \in Nat
  <2>1. acc \in Seq(Packet)
    BY <1>1, <1>2 DEF TypeOK
  <2>2. g \in Seq(Seq(Packet \X Nat))
    BY <1>1, <1>2 DEF HandledOK
  <2> QED BY <1>2, <2>1, <2>2
<1>4. CASE UNCHANGED <<handled, accepted>>
  <2>1. Received' = Received
    BY <1>4 DEF Received
  <2>2. Waiting' = Waiting
    BY <1>4, <2>1 DEF Waiting, Rest, Bytes
  <2> QED BY <2>1, <2>2, ChannelSteps
<1>5. ASSUME NEW p \in Packet, Write(p) PROVE [Channel!Next]_(Channel!vars)
  <2>1. CASE accepted' = accepted
    BY <1>4, <1>5, <2>1 DEF Write
  <2>2. CASE ~torn /\ accepted' = Append(accepted, p) /\ handled' = handled
    <3>1. Len(g) <= l /\ Len(g) <= l + 1
      <4>1. ~(Len(g) > l)
        BY <1>1, <1>2, <2>2 DEF HandledOK
      <4> QED BY <1>3, <4>1
    <3>2. Received = g
      BY <1>2, <1>3, <3>1, QueueIs DEF Received
    <3>3. Received' = g
      <4>1. accepted' = Append(acc, p) /\ Len(Append(acc, p)) = l + 1 /\ handled' = g
        BY <1>2, <1>3, <2>2, AppendProperties
      <4>2. l + 1 \in Nat
        BY <1>3
      <4> QED BY <1>3, <3>1, <4>1, <4>2, QueueIs DEF Received
    <3>4. Rest(Append(acc, p), Len(g)) = Append(Rest(acc, Len(g)), Bytes(p))
      <4>1. Len(g) \in 0..Len(acc)
        BY <1>2, <1>3, <3>1
      <4> QED BY <1>3, <4>1, RestGrows
    <3>5. Waiting = Rest(acc, Len(g)) /\ Waiting' = Rest(Append(acc, p), Len(g))
      <4>1. Waiting = Rest(acc, Len(g))
        BY <1>2, <3>2 DEF Waiting
      <4>2. accepted' = Append(acc, p)
        BY <1>2, <2>2
      <4> QED BY <3>3, <4>1, <4>2 DEF Waiting, Rest, Bytes
    <3> QED BY <3>2, <3>3, <3>4, <3>5, ChannelSteps
  <2> QED BY <1>5, <2>1, <2>2, WriteCases
<1>6. ASSUME NEW n \in 1..Len(buffer), Read(n) PROVE [Channel!Next]_(Channel!vars)
  <2>1. /\ Len(g) <= l /\ accepted' = acc /\ Len(acc) = l
        /\ handled' = g \/ handled' = Append(g, data')
    BY <1>1, <1>2, <1>6, ReadAppends
  <2>2. CASE handled' = g
    BY <1>2, <1>4, <2>1, <2>2
  <2>3. CASE handled' = Append(g, data')
    <3>1. data' \in Seq(Packet \X Nat)
      BY <1>1 DEF LinkInv, TypeOK
    <3>2. PICK x, a : x = data' /\ a = Append(g, x)
      OBVIOUS
    <3>3. /\ x \in Seq(Packet \X Nat) /\ a \in Seq(Seq(Packet \X Nat))
          /\ Len(a) = Len(g) + 1 /\ a[Len(g) + 1] = x /\ handled' = a
      BY <1>3, <2>3, <3>1, <3>2, AppendProperties
    <3>4. Received = g /\ Waiting = Rest(acc, Len(g))
      <4>1. Received = g
        BY <1>2, <1>3, <2>1, QueueIs DEF Received
      <4> QED BY <1>2, <4>1 DEF Waiting
    <3>5. CASE Len(g) < l
      <4>1. Len(a) <= l
        BY <1>3, <3>3, <3>5
      <4>2. Received' = a
        BY <1>3, <2>1, <3>3, <4>1, QueueIs DEF Received
      <4>3. x = Bytes(acc[Len(g) + 1])
        <5>1. \A k \in 1..Len(a) : k <= l => a[k] = Bytes(acc[k])
          <6>1. HandledOK'
            BY <1>1 DEF LinkInv
          <6>2. \A k \in 1..Len(handled') :
                   k <= Len(accepted') => handled'[k] = Bytes(accepted'[k])
            BY <6>1 DEF HandledOK, Bytes
          <6> QED BY <2>1, <3>3, <6>2
        <5>2. Len(g) + 1 \in 1..Len(a) /\ Len(g) + 1 <= l
          BY <1>3, <3>3, <4>1
        <5> QED BY <3>3, <5>1, <5>2
      <4>4. /\ Rest(acc, Len(g)) # <<>> /\ Head(Rest(acc, Len(g))) = x
            /\ Tail(Rest(acc, Len(g))) = Rest(acc, Len(g) + 1)
        BY <1>3, <2>1, <3>5, <4>3, RestShrinks
      <4>5. Waiting' = Rest(acc, Len(g) + 1)
        BY <2>1, <3>3, <4>2 DEF Waiting, Rest, Bytes
      <4> QED BY <3>2, <3>4, <4>2, <4>4, <4>5, ChannelSteps
    <3>6. CASE ~(Len(g) < l)
      <4>1. Len(g) = l /\ Len(a) >= l
        BY <1>3, <2>1, <3>3, <3>6
      <4>2. SubSeq(a, 1, Min({Len(a), l})) = SubSeq(a, 1, l)
        BY <1>3, <3>3, <4>1, QueueIs
      <4>3. SubSeq(a, 1, l) = g
        BY <1>3, <3>2, <3>3, <4>1, NothingMoreReceived
      <4>4. Received' = g
        BY <2>1, <3>3, <4>2, <4>3 DEF Received
      <4>5. Waiting' = Rest(acc, Len(g))
        BY <2>1, <4>4 DEF Waiting, Rest, Bytes
      <4> QED BY <3>4, <4>4, <4>5, ChannelSteps
    <3> QED BY <3>5, <3>6
  <2> QED BY <2>1, <2>2, <2>3
<1>7. CASE Return
  BY <1>4, <1>7 DEF Return
<1>8. CASE UNCHANGED vars
  BY <1>4, <1>8 DEF vars
<1> QED BY <1>5, <1>6, <1>7, <1>8 DEF Next, ReadSome

\* The Send functions and Parse together are the packet queue of PacketChannel,
\* for the packets written before the first short write: its safety, that is.
\* That each of them arrives in the end is IsAPacketChannel, which TLC checks.
THEOREM LinkIsAQueue == Spec => Channel!Init /\ [][Channel!Next]_(Channel!vars)
<1>1. Init => Channel!Init
  <2> SUFFICES ASSUME Init PROVE Channel!Init
    OBVIOUS
  <2>1. handled = <<>> /\ accepted = <<>>
    BY DEF Init
  <2>2. Received = <<>>
    <3>1. Len(handled) = 0 /\ Len(accepted) = 0
      BY <2>1
    <3>2. Min({Len(handled), Len(accepted)}) = 0
      BY <3>1, Fewer
    <3> QED BY <3>2, SubSeqEmpty DEF Received
  <2>3. Waiting = <<>>
    <3>1. accepted \in Seq(Packet) /\ Len(accepted) = 0 /\ Len(Received) = 0
      BY <2>1, <2>2
    <3>2. PICK acc : acc = accepted
      OBVIOUS
    <3>3. acc \in Seq(Packet) /\ 0 \in 0..Len(acc) /\ Len(acc) = 0
      BY <3>1, <3>2
    <3>4. Rest(acc, 0) \in Seq(Seq(Packet \X Nat)) /\ Len(Rest(acc, 0)) = 0
      <4>1. /\ Rest(acc, 0) \in Seq(Seq(Packet \X Nat))
            /\ Len(Rest(acc, 0)) = Len(acc) - 0
        BY <3>3, RestIsSeq
      <4> QED BY <3>3, <4>1
    <3> QED BY <3>1, <3>2, <3>4 DEF Waiting
  <2> QED BY <2>2, <2>3 DEF Channel!Init, Waiting, Rest
<1> QED BY <1>1, NextIsChannel, StreamInvariant, PTL DEF Spec
=============================================================================
