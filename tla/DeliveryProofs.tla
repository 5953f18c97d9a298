--------------------------- MODULE DeliveryProofs ---------------------------
(***************************************************************************)
(* Proofs about Delivery, for any group addresses, interfaces and           *)
(* additional information and any values of the types it knows (Direct).    *)
(***************************************************************************)
EXTENDS Delivery, FiniteSetTheorems, SequenceTheorems, WellFoundedInduction, TLAPS

Octet == 0..255
Highest == 65535
Word16 == 0..Highest

(* (The provers need to be told where a large interval ends.)               *)
LEMMA WordBounds == \A n : n \in Word16 <=> n \in Nat /\ n < 65536
<1>1. Highest \in Nat
  BY SMT DEF Highest
<1>2. \A n \in Int : n <= Highest <=> n < 65536
  BY SMT DEF Highest
<1> QED BY <1>1, <1>2, SMT DEF Word16

-----------------------------------------------------------------------------
(* Numbers in two octets, and group addresses in three parts.               *)
LEMMA Remainder ==
  ASSUME NEW n \in Nat
  PROVE  /\ (n % 256) \in Octet /\ (n \div 256) \in Nat
         /\ n = 256 * (n \div 256) + (n % 256)
<1>1. (n % 256) \in 0..255 /\ (n \div 256) \in Nat
  BY SMT
<1>2. n = 256 * (n \div 256) + (n % 256)
  BY <1>1, SMT
<1> QED BY <1>1, <1>2 DEF Octet

LEMMA WordOf ==
  ASSUME NEW n \in Word16
  PROVE  High(n) \in Octet /\ Low(n) \in Octet /\ n = 256 * High(n) + Low(n)
<1> DEFINE q == n \div 256
           r == n % 256
<1>1. n \in Nat /\ n < 65536
  BY WordBounds, SMT
<1>2. n = 256 * q + r /\ r \in Octet /\ q \in Nat
  BY <1>1, Remainder
<1> HIDE DEF q, r
<1>3. q \in Octet /\ q % 256 = q
  BY <1>1, <1>2, SMT DEF Octet
<1> QED BY <1>2, <1>3, SMT DEF High, Low, q, r

LEMMA Triple ==
  ASSUME NEW A, NEW B, NEW C, NEW g \in A \X B \X C
  PROVE  \E a \in A, b \in B, c \in C : g = <<a, b, c>>
OBVIOUS

Main == 0..31
Middle == 0..7
LEMMA AddressKept ==
  ASSUME NEW a \in Main, NEW b \in Middle, NEW c \in Octet
  PROVE  \E n \in Word16 : /\ ParseGroupAddress(<<a, b, c>>) = n
                           /\ FormattedGroupAddress(n) = <<a, b, c>>
<1>1. a \in 0..31 /\ b \in 0..7 /\ c \in 0..255
  BY DEF Main, Middle, Octet
<1>2. a * 2048 + b * 256 + c \in Nat
  BY <1>1, SMT
<1>3. PICK n \in Nat : n = a * 2048 + b * 256 + c
  BY <1>2
<1>4. n < 65536 /\ n \div 2048 = a /\ n % 256 = c
  BY <1>1, <1>3, SMT
<1>5. n \in Word16
  BY <1>4, WordBounds, SMT
<1>6. n \div 256 = 8 * a + b
  BY <1>1, <1>3, SMT
<1>7. (8 * a + b) % 8 = b
  BY <1>1, SMT
<1>8. FormattedGroupAddress(n) = <<a, b, c>>
  BY <1>4, <1>6, <1>7, SMT DEF FormattedGroupAddress
<1>9. a % 32 = a /\ b % 8 = b /\ c % 256 = c /\ Len(<<a, b, c>>) = 3
  BY <1>1, SMT
<1>10. ParseGroupAddress(<<a, b, c>>) = n
  BY <1>3, <1>9, SMT DEF ParseGroupAddress
<1> QED BY <1>5, <1>8, <1>10

LEMMA GroupKept ==
  ASSUME NEW g \in Groups
  PROVE  /\ ParseGroupAddress(g) \in Word16
         /\ FormattedGroupAddress(ParseGroupAddress(g)) = g
<1>1. Groups \subseteq Main \X Middle \X Octet
  BY GroupsAssumption DEF GroupsAssumption, Main, Middle, Octet
<1>2. PICK a \in Main, b \in Middle, c \in Octet : g = <<a, b, c>>
  BY <1>1, Triple
<1>3. PICK n \in Word16 : /\ ParseGroupAddress(<<a, b, c>>) = n
                          /\ FormattedGroupAddress(n) = <<a, b, c>>
  BY AddressKept
<1> QED BY <1>2, <1>3

LEMMA JoinedKept ==
  ASSUME NEW top \in 0..3, NEW octet \in 0..63
  PROVE  /\ Joined(top, octet) \in Octet
         /\ Joined(top, octet) \div 64 = top /\ Joined(top, octet) % 64 = octet
BY SMT DEF Joined, Octet

-----------------------------------------------------------------------------
(* Sequences put together: what is in front, what is behind.                *)
LEMMA Joint ==
  ASSUME NEW S, NEW s \in Seq(S), NEW t \in Seq(S)
  PROVE  s \o t \in Seq(S) /\ Len(s \o t) = Len(s) + Len(t)
BY ConcatProperties

LEMMA Before ==
  ASSUME NEW S, NEW s \in Seq(S), NEW t \in Seq(S), NEW i \in 1..Len(s)
  PROVE  (s \o t)[i] = s[i]
<1>1. Len(s) \in Nat /\ Len(t) \in Nat
  OBVIOUS
<1>2. i \in 1..(Len(s) + Len(t)) /\ i <= Len(s)
  BY <1>1, SMT
<1> QED BY <1>2, ConcatProperties

LEMMA After ==
  ASSUME NEW S, NEW s \in Seq(S), NEW t \in Seq(S), NEW i \in 1..Len(t)
  PROVE  (s \o t)[Len(s) + i] = t[i]
<1>1. Len(s) \in Nat /\ Len(t) \in Nat
  OBVIOUS
<1>2. PICK k \in 1..(Len(s) + Len(t)) : k = Len(s) + i
  BY <1>1, SMT
<1>3. ~(k <= Len(s)) /\ k - Len(s) = i
  BY <1>1, <1>2, SMT
<1>4. (s \o t)[k] = IF k <= Len(s) THEN s[k] ELSE t[k - Len(s)]
  BY ConcatProperties
<1> QED BY <1>2, <1>3, <1>4

LEMMA RestOf ==
  ASSUME NEW S, NEW s \in Seq(S), NEW t \in Seq(S)
  PROVE  SubSeq(s \o t, Len(s) + 1, Len(s \o t)) = t
<1> DEFINE u == SubSeq(s \o t, Len(s) + 1, Len(s \o t))
<1>1. Len(s) \in Nat /\ Len(t) \in Nat /\ Len(s \o t) = Len(s) + Len(t) /\ s \o t \in Seq(S)
  BY ConcatProperties
<1>2. \A i \in (Len(s) + 1)..Len(s \o t) : (s \o t)[i] \in S
  BY <1>1, ElementOfSeq
<1>3. /\ u \in Seq(S)
      /\ Len(u) = IF Len(s) + 1 <= Len(s \o t) THEN Len(s \o t) - (Len(s) + 1) + 1 ELSE 0
      /\ \A i \in 1..(Len(s \o t) - (Len(s) + 1) + 1) :
           u[i] = (s \o t)[(Len(s) + 1) + i - 1]
  BY <1>1, <1>2, SubSeqProperties, SMT
<1>4. Len(u) = Len(t)
  BY <1>1, <1>3, SMT
<1>5. \A i \in 1..Len(t) : u[i] = (s \o t)[Len(s) + i]
  BY <1>1, <1>3, SMT
<1>6. \A i \in 1..Len(t) : u[i] = t[i]
  BY <1>5, After
<1> HIDE DEF u
<1>7. u = t
  BY <1>3, <1>4, <1>6, SeqEqual
<1> QED BY <1>7 DEF u

LEMMA Tenfold ==
  ASSUME NEW S, NEW a \in S, NEW b \in S, NEW c \in S, NEW d \in S, NEW e \in S,
         NEW f \in S, NEW g \in S, NEW h \in S, NEW i \in S, NEW j \in S
  PROVE  /\ <<a, b, c, d, e, f, g, h, i, j>> \in Seq(S)
         /\ Len(<<a, b, c, d, e, f, g, h, i, j>>) = 10
OBVIOUS

(* How long a payload, and with its operation the data of a frame, may be.  *)
Sizes == 1..254
Lengths == 1..255
LEMMA LengthBounds ==
  /\ 1 \in Lengths
  /\ \A n \in Sizes : n \in Nat /\ n >= 1 /\ 1 + n \in Lengths
  /\ \A l \in Lengths : l \in Octet /\ Low(l) = l /\ l \in Nat /\ l > 0
BY SMT DEF Sizes, Lengths, Octet, Low

(* The second part of a frame: the operation, and the payload with it or    *)
(* behind it.                                                              *)
TailOf(fits, op, payload) ==
  IF fits THEN <<Joined(op, payload[1])>> ELSE <<op * 64>> \o payload
LengthOf(fits, payload) == IF fits THEN 1 ELSE 1 + Len(payload)
IsPayload(payload, fits) ==
  /\ payload \in Seq(Octet) /\ Len(payload) \in Sizes
  /\ fits => Len(payload) = 1 /\ payload[1] \in 0..63
IsTail(tail, fits, op, payload) ==
  /\ tail \in Seq(Octet) /\ Len(tail) = LengthOf(fits, payload)
  /\ tail[1] \div 64 = op
  /\ fits => tail[1] % 64 = payload[1]
  /\ ~fits => \A k \in 1..Len(payload) : tail[1 + k] = payload[k]

LEMMA TailOctets ==
  ASSUME NEW fits \in BOOLEAN, NEW op \in {1, 2}, NEW payload, IsPayload(payload, fits)
  PROVE  /\ LengthOf(fits, payload) \in Lengths
         /\ IsTail(TailOf(fits, op, payload), fits, op, payload)
<1>1. CASE fits
  <2>1. PICK own \in 0..63 : own = payload[1]
    BY <1>1 DEF IsPayload
  <2>2. op \in 0..3
    BY SMT
  <2>3. PICK j \in Octet : j = Joined(op, own) /\ j \div 64 = op /\ j % 64 = own
    BY <2>2, JoinedKept
  <2>4. <<j>> \in Seq(Octet) /\ Len(<<j>>) = 1 /\ <<j>>[1] = j
    OBVIOUS
  <2>5. TailOf(fits, op, payload) = <<j>> /\ LengthOf(fits, payload) = 1
    BY <1>1, <2>1, <2>3 DEF TailOf, LengthOf
  <2> QED BY <1>1, <2>1, <2>3, <2>4, <2>5, LengthBounds DEF IsTail
<1>2. CASE ~fits
  <2>1. op * 64 \in Octet /\ (op * 64) \div 64 = op
    BY SMT DEF Octet
  <2>2. PICK j \in Octet : j = op * 64 /\ j \div 64 = op
    BY <2>1
  <2>3. <<j>> \in Seq(Octet) /\ Len(<<j>>) = 1 /\ <<j>>[1] = j
    OBVIOUS
  <2>4. payload \in Seq(Octet) /\ 1 + Len(payload) \in Lengths
    BY LengthBounds DEF IsPayload
  <2>5. /\ TailOf(fits, op, payload) = <<j>> \o payload
        /\ LengthOf(fits, payload) = 1 + Len(payload)
    BY <1>2, <2>2 DEF TailOf, LengthOf
  <2>6. <<j>> \o payload \in Seq(Octet) /\ Len(<<j>> \o payload) = 1 + Len(payload)
    BY <2>3, <2>4, ConcatProperties
  <2>7. (<<j>> \o payload)[1] = j
    BY <2>3, <2>4, Before
  <2>8. \A k \in 1..Len(payload) : (<<j>> \o payload)[1 + k] = payload[k]
    BY <2>3, <2>4, After
  <2> QED BY <1>2, <2>2, <2>4, <2>5, <2>6, <2>7, <2>8 DEF IsTail
<1> QED BY <1>1, <1>2

-----------------------------------------------------------------------------
(* A frame as it is sent: what its octets are.                              *)
FrameSet(payload) ==
  [operation : {GroupValueWrite, GroupValueResponse}, source : Word16, destination : Word16,
   fits : BOOLEAN, payload : {payload}, tpci : {0}, raw : Seq(Octet)]
HeadOf(s, d, length) ==
  <<LDataReq, 0, 180, 224, High(s), Low(s), High(d), Low(d), length, 0>>
(* The frame, in general: c is that of f, or the same with another code.    *)
IsBinary(c, f) ==
  /\ c \in Seq(Octet) /\ Len(c) = 10 + LengthOf(f.fits, f.payload)
  /\ LengthOf(f.fits, f.payload) \in Lengths
  /\ c[9] = LengthOf(f.fits, f.payload) /\ c[10] = 0
  /\ Word(c, 5) = f.source /\ Word(c, 7) = f.destination
  /\ c[11] \div 64 = f.operation
  /\ f.fits => c[11] % 64 = f.payload[1]
  /\ ~f.fits => \A k \in 1..Len(f.payload) : c[11 + k] = f.payload[k]

LEMMA HeadOctets ==
  ASSUME NEW s \in Word16, NEW d \in Word16, NEW length \in Octet
  PROVE  LET head == HeadOf(s, d, length)
         IN  /\ head \in Seq(Octet) /\ Len(head) = 10
             /\ head[9] = length /\ head[10] = 0
             /\ Word(head, 5) = s /\ Word(head, 7) = d
<1>1. PICK sh \in Octet, sl \in Octet, dh \in Octet, dl \in Octet :
        /\ sh = High(s) /\ sl = Low(s) /\ dh = High(d) /\ dl = Low(d)
        /\ s = 256 * sh + sl /\ d = 256 * dh + dl
  BY WordOf
<1>2. 17 \in Octet /\ 0 \in Octet /\ 180 \in Octet /\ 224 \in Octet
  BY SMT DEF Octet
<1> DEFINE head == <<17, 0, 180, 224, sh, sl, dh, dl, length, 0>>
<1>3. HeadOf(s, d, length) = head
  BY <1>1 DEF HeadOf, LDataReq
<1>4. head \in Seq(Octet) /\ Len(head) = 10
  BY <1>2, Tenfold
<1>5. /\ head[5] = sh /\ head[6] = sl /\ head[7] = dh /\ head[8] = dl
      /\ head[9] = length /\ head[10] = 0
  BY SMT
<1> HIDE DEF head
<1>6. Word(head, 5) = 256 * head[5] + head[6] /\ Word(head, 7) = 256 * head[7] + head[8]
  BY DEF Word
<1> QED BY <1>1, <1>3, <1>4, <1>5, <1>6

LEMMA CemiOctets ==
  ASSUME NEW payload, NEW f \in FrameSet(payload), IsPayload(payload, f.fits)
  PROVE  IsBinary(CemiBinary(f), f)
<1>1. /\ f.operation \in {1, 2} /\ f.source \in Word16 /\ f.destination \in Word16
      /\ f.fits \in BOOLEAN /\ f.payload = payload /\ f.tpci = 0
  BY DEF FrameSet, GroupValueWrite, GroupValueResponse
<1>2. PICK s \in Word16, d \in Word16, op \in {1, 2}, fits \in BOOLEAN :
        s = f.source /\ d = f.destination /\ op = f.operation /\ fits = f.fits
  BY <1>1
<1>3. PICK length \in Lengths : length = LengthOf(fits, payload)
  BY <1>2, TailOctets
<1>4. PICK tail : tail = TailOf(fits, op, payload) /\ IsTail(tail, fits, op, payload)
  BY <1>2, TailOctets
<1>5. PICK head : /\ head = HeadOf(s, d, length)
                  /\ head \in Seq(Octet) /\ Len(head) = 10
                  /\ head[9] = length /\ head[10] = 0
                  /\ Word(head, 5) = s /\ Word(head, 7) = d
  BY HeadOctets, LengthBounds
<1>6. CemiBinary(f) = head \o tail
  <2>1. op % 4 = op /\ 0 + (op \div 4) = 0
    BY SMT
  <2>2. Low(IF fits THEN 1 ELSE 1 + Len(payload)) = length
    BY <1>3, LengthBounds DEF LengthOf
  <2>3. CemiBinary(f) =
          <<LDataReq, 0, 180, 224, High(f.source), Low(f.source), High(f.destination),
            Low(f.destination), Low(IF f.fits THEN 1 ELSE 1 + Len(f.payload)),
            f.tpci + (f.operation \div 4)>>
          \o (IF f.fits THEN <<Joined(f.operation % 4, f.payload[1])>>
              ELSE <<(f.operation % 4) * 64>> \o f.payload)
    BY DEF CemiBinary
  <2>4. /\ f.source = s /\ f.destination = d /\ f.fits = fits /\ f.payload = payload
        /\ f.tpci + (f.operation \div 4) = 0 /\ f.operation % 4 = op
    BY <1>1, <1>2, <2>1
  <2>5. CemiBinary(f) =
          <<LDataReq, 0, 180, 224, High(s), Low(s), High(d), Low(d),
            Low(IF fits THEN 1 ELSE 1 + Len(payload)), 0>>
          \o (IF fits THEN <<Joined(op, payload[1])>> ELSE <<op * 64>> \o payload)
    BY <2>3, <2>4, SMTT(40)
  <2>6. CemiBinary(f) = HeadOf(s, d, length) \o TailOf(fits, op, payload)
    BY <2>2, <2>5 DEF HeadOf, TailOf
  <2> QED BY <1>4, <1>5, <2>6
<1>7. PICK c : c = head \o tail /\ c \in Seq(Octet) /\ Len(c) = 10 + length
  <2>1. tail \in Seq(Octet) /\ Len(tail) = length
    BY <1>3, <1>4 DEF IsTail
  <2>2. head \o tail \in Seq(Octet) /\ Len(head \o tail) = Len(head) + Len(tail)
    BY <1>5, <2>1, ConcatProperties
  <2> QED BY <1>5, <2>1, <2>2
<1>8. \A i \in 1..10 : c[i] = head[i]
  <2>1. tail \in Seq(Octet)
    BY <1>4 DEF IsTail
  <2>2. \A i \in 1..Len(head) : (head \o tail)[i] = head[i]
    BY <1>5, <2>1, Before
  <2> QED BY <1>5, <1>7, <2>2
<1>9. \A i \in 1..length : c[10 + i] = tail[i]
  BY <1>3, <1>4, <1>5, <1>7, After DEF IsTail
<1>10. c[9] = length /\ c[10] = 0
  BY <1>5, <1>8, SMT
<1>11. c[11] = tail[1]
  <2>1. 1 \in 1..length /\ 10 + 1 = 11
    BY LengthBounds, SMT
  <2> QED BY <1>9, <2>1
<1>12. ~fits => \A k \in 1..Len(payload) : c[11 + k] = payload[k]
  <2> SUFFICES ASSUME ~fits, NEW k \in 1..Len(payload) PROVE c[11 + k] = payload[k]
    OBVIOUS
  <2>1. PICK n \in Nat : n = Len(payload)
    BY DEF IsPayload
  <2>2. length = 1 + n
    BY <1>3, <2>1 DEF LengthOf
  <2>3. k \in 1..n
    BY <2>1
  <2>4. 1 + k \in 1..length /\ 10 + (1 + k) = 11 + k
    BY <2>2, <2>3, SMT
  <2>5. c[11 + k] = tail[1 + k]
    BY <1>9, <2>4
  <2> QED BY <1>4, <2>5 DEF IsTail
<1>13. Word(c, 5) = s /\ Word(c, 7) = d
  <2>1. c[5] = head[5] /\ c[6] = head[6] /\ c[7] = head[7] /\ c[8] = head[8]
    BY <1>8, SMT
  <2>2. 5 + 1 = 6 /\ 7 + 1 = 8
    BY SMT
  <2> QED BY <1>5, <2>1, <2>2, ZenonT(40) DEF Word
<1>14. IsBinary(c, f)
  BY <1>1, <1>2, <1>3, <1>4, <1>7, <1>10, <1>11, <1>12, <1>13 DEF IsBinary, IsTail
<1> QED BY <1>6, <1>7, <1>14

-----------------------------------------------------------------------------
(* A packet around a frame.                                                 *)
SentLengths == 11..265
FrameLengths == 11..600
Extras == 0..200
LEMMA FrameBounds ==
  /\ \A l \in Lengths : 10 + l \in SentLengths
  /\ \A m \in SentLengths, n \in Extras : m \in FrameLengths /\ n + m \in FrameLengths
  /\ \A m \in FrameLengths : m \in Nat /\ 10 + m \in Word16 /\ 10 + m >= 10 /\ m >= 11
  /\ 0 \in Extras /\ \A n \in Extras : n \in Nat
<1>1. \A l \in Lengths : 10 + l \in SentLengths
  BY SMT DEF Lengths, SentLengths
<1>2. \A m \in SentLengths : m \in FrameLengths
  BY SMT DEF SentLengths, FrameLengths
<1>3. ASSUME NEW m \in SentLengths, NEW n \in Extras PROVE n + m \in FrameLengths
  BY SMT DEF SentLengths, Extras, FrameLengths
<1>4. \A m \in FrameLengths : /\ m \in Nat /\ 10 + m \in Nat /\ 10 + m < 65536
                              /\ 10 + m >= 10 /\ m >= 11
  BY SMT DEF FrameLengths
<1>5. 0 \in Extras /\ \A n \in Extras : n \in Nat
  BY SMT DEF Extras
<1> QED BY <1>1, <1>2, <1>3, <1>4, <1>5, WordBounds

IsPacket(p, c) ==
  /\ p \in Seq(Octet) /\ Len(p) = 10 + Len(c)
  /\ p[1] = 6 /\ p[2] = 16 /\ Word(p, 3) = 1056 /\ Word(p, 5) = Len(p) /\ p[7] = 4
  /\ \A i \in 1..Len(c) : p[10 + i] = c[i]
  /\ SubSeq(p, 11, Len(p)) = c

LEMMA PacketOctets ==
  ASSUME NEW channel \in Octet, NEW counter \in Octet,
         NEW c \in Seq(Octet), Len(c) \in FrameLengths
  PROVE  IsPacket(TunnelingRequestBinary(channel, counter, c), c)
<1>1. PICK n \in FrameLengths : n = Len(c)
  OBVIOUS
<1>2. PICK total \in Word16 : total = 10 + n /\ total = 10 + Len(c)
  BY <1>1, FrameBounds
<1>3. PICK high \in Octet, low \in Octet :
        high = High(total) /\ low = Low(total) /\ total = 256 * high + low
  BY WordOf
<1>4. High(1056) = 4 /\ Low(1056) = 32
  BY SMT DEF High, Low
<1>5. 6 \in Octet /\ 16 \in Octet /\ 4 \in Octet /\ 32 \in Octet /\ 0 \in Octet
  BY SMT DEF Octet
<1> DEFINE first == <<6, 16, 4, 32, high, low>>
           second == <<4, channel, counter, 0>>
<1>6. TunnelingRequestBinary(channel, counter, c) = first \o second \o c
  <2>1. Header(1056, 10 + Len(c)) = first
    BY <1>2, <1>3, <1>4 DEF Header
  <2> HIDE DEF first
  <2> QED BY <2>1 DEF TunnelingRequestBinary, TunnelingRequest
<1>7. first \in Seq(Octet) /\ Len(first) = 6
  BY <1>5
<1>8. second \in Seq(Octet) /\ Len(second) = 4
  BY <1>5
<1>9. /\ first[1] = 6 /\ first[2] = 16 /\ first[3] = 4 /\ first[4] = 32
      /\ first[5] = high /\ first[6] = low /\ second[1] = 4
  BY SMT
<1> HIDE DEF first, second
<1>10. PICK head : head = first \o second /\ head \in Seq(Octet) /\ Len(head) = 10
  <2>1. first \o second \in Seq(Octet) /\ Len(first \o second) = Len(first) + Len(second)
    BY <1>7, <1>8, Joint
  <2>2. 6 + 4 = 10
    BY SMT
  <2> QED BY <1>7, <1>8, <2>1, <2>2, Zenon
<1>11. \A i \in 1..6 : head[i] = first[i]
  <2>1. \A i \in 1..Len(first) : (first \o second)[i] = first[i]
    <3>1. first \in Seq(Octet) /\ second \in Seq(Octet)
      BY <1>7, <1>8, Zenon
    <3> QED BY <3>1, Before, Zenon
  <2> QED BY <1>7, <1>10, <2>1
<1>12. \A i \in 1..4 : head[6 + i] = second[i]
  <2>1. \A i \in 1..Len(second) : (first \o second)[Len(first) + i] = second[i]
    <3>1. first \in Seq(Octet) /\ second \in Seq(Octet)
      BY <1>7, <1>8
    <3> QED BY <3>1, After
  <2> QED BY <1>7, <1>8, <1>10, <2>1
<1>13. PICK p : p = head \o c /\ p \in Seq(Octet) /\ Len(p) = 10 + Len(c)
  <2>1. head \o c \in Seq(Octet) /\ Len(head \o c) = Len(head) + Len(c)
    BY <1>10, Joint
  <2> QED BY <1>10, <2>1
<1>14. \A i \in 1..10 : p[i] = head[i]
  BY <1>10, <1>13, Before
<1>15. \A i \in 1..Len(c) : p[10 + i] = c[i]
  BY <1>10, <1>13, After
<1>16. SubSeq(p, 11, Len(p)) = c
  <2>1. SubSeq(head \o c, Len(head) + 1, Len(head \o c)) = c
    BY <1>10, RestOf
  <2> QED BY <1>10, <1>13, <2>1
<1>17. head[7] = 4
  <2>1. 1 \in 1..4 /\ 6 + 1 = 7
    BY SMT
  <2> QED BY <1>9, <1>12, <2>1
<1>18. /\ p[1] = 6 /\ p[2] = 16 /\ p[3] = 4 /\ p[4] = 32 /\ p[5] = high /\ p[6] = low
       /\ p[7] = 4
  BY <1>9, <1>11, <1>14, <1>17, SMT
<1>19. Word(p, 3) = 1056 /\ Word(p, 5) = Len(p)
  <2>1. Word(p, 3) = 256 * p[3] + p[4] /\ Word(p, 5) = 256 * p[5] + p[6]
    BY DEF Word
  <2>2. 256 * 4 + 32 = 1056
    BY SMT
  <2> QED BY <1>2, <1>3, <1>13, <1>18, <2>1, <2>2
<1>20. TunnelingRequestBinary(channel, counter, c) = p
  BY <1>6, <1>10, <1>13
<1> QED BY <1>13, <1>15, <1>16, <1>18, <1>19, <1>20, SMTT(40) DEF IsPacket

(* A frame as it comes back: another code, additional information.          *)
IsIndication(o, c, n) ==
  /\ o \in Seq(Octet) /\ Len(o) = n + Len(c)
  /\ o[1] = 41 /\ o[2] = n
  /\ \A k \in 3..Len(c) : o[n + k] = c[k]

LEMMA IndicationOctets ==
  ASSUME NEW c \in Seq(Octet), Len(c) \in FrameLengths, NEW n \in Extras,
         NEW p, IsPacket(p, c)
  PROVE  IsIndication(Indication(p, n), c, n)
<1>1. PICK m \in FrameLengths : m = Len(c)
  OBVIOUS
<1>2. m \in Nat /\ m >= 11 /\ n \in Nat
  BY <1>1, FrameBounds
<1> DEFINE first == <<41, n>>
           second == [i \in 1..n |-> i]
           rest == SubSeq(c, 3, Len(c))
<1>3. Indication(p, n) = first \o second \o rest
  BY DEF Indication, IsPacket, LDataInd
<1>4. first \in Seq(Octet) /\ Len(first) = 2 /\ first[1] = 41 /\ first[2] = n
  <2>1. 41 \in Octet /\ n \in Octet
    BY SMT DEF Octet, Extras
  <2> QED BY <2>1
<1>5. second \in Seq(Octet) /\ Len(second) = n
  <2>1. n \in Nat /\ \A i \in 1..n : i \in Octet
    BY SMT DEF Octet, Extras
  <2> QED BY <2>1
<1>6. rest \in Seq(Octet) /\ Len(rest) = m - 2 /\ \A i \in 1..(m - 2) : rest[i] = c[2 + i]
  <2>1. \A i \in 3..m : c[i] \in Octet
    <3>1. \A i \in 3..m : i \in 1..m
      BY <1>2, SMT
    <3> QED BY <1>1, <3>1, ElementOfSeq
  <2>2. /\ SubSeq(c, 3, m) \in Seq(Octet)
        /\ Len(SubSeq(c, 3, m)) = IF 3 <= m THEN m - 3 + 1 ELSE 0
        /\ \A i \in 1..(m - 3 + 1) : SubSeq(c, 3, m)[i] = c[3 + i - 1]
    BY <1>2, <2>1, SubSeqProperties
  <2>3. 3 <= m /\ m - 3 + 1 = m - 2 /\ \A i \in Int : 3 + i - 1 = 2 + i
    BY <1>2, SMT
  <2> HIDE DEF rest
  <2>4. rest = SubSeq(c, 3, m)
    BY <1>1 DEF rest
  <2> QED BY <2>2, <2>3, <2>4
<1> HIDE DEF first, second, rest
<1>7. PICK head : head = first \o second /\ head \in Seq(Octet) /\ Len(head) = 2 + n
  <2>1. first \o second \in Seq(Octet) /\ Len(first \o second) = Len(first) + Len(second)
    BY <1>4, <1>5, Joint
  <2> QED BY <1>4, <1>5, <2>1
<1>8. PICK o : o = head \o rest /\ o \in Seq(Octet) /\ Len(o) = Len(head) + Len(rest)
  BY <1>6, <1>7, Joint
<1>9. Len(o) = n + Len(c)
  <2>1. (2 + n) + (m - 2) = n + m
    BY <1>2, SMT
  <2> QED BY <1>1, <1>6, <1>7, <1>8, <2>1
<1>10. o[1] = 41 /\ o[2] = n
  <2>1. \A i \in 1..Len(first) : (first \o second)[i] = first[i]
    <3>1. first \in Seq(Octet) /\ second \in Seq(Octet)
      BY <1>4, <1>5, Zenon
    <3> QED BY <3>1, Before, Zenon
  <2>2. \A i \in 1..Len(head) : (head \o rest)[i] = head[i]
    <3>1. head \in Seq(Octet) /\ rest \in Seq(Octet)
      BY <1>6, <1>7, Zenon
    <3> QED BY <3>1, Before, Zenon
  <2>3. 1 \in 1..2 /\ 2 \in 1..2 /\ 1 \in 1..(2 + n) /\ 2 \in 1..(2 + n)
    BY <1>2, SMT
  <2> QED BY <1>4, <1>7, <1>8, <2>1, <2>2, <2>3
<1>11. ASSUME NEW k \in 3..m PROVE o[n + k] = c[k]
  <2>1. PICK i \in 1..(m - 2) : i = k - 2
    BY <1>2, SMT
  <2>2. (2 + n) + i = n + k /\ 2 + i = k
    BY <1>2, <2>1, SMT
  <2>3. \A j \in 1..Len(rest) : (head \o rest)[Len(head) + j] = rest[j]
    <3>1. head \in Seq(Octet) /\ rest \in Seq(Octet)
      BY <1>6, <1>7
    <3> QED BY <3>1, After
  <2>4. o[(2 + n) + i] = rest[i]
    BY <1>6, <1>7, <1>8, <2>3
  <2>5. rest[i] = c[2 + i]
    BY <1>6
  <2> QED BY <2>2, <2>4, <2>5
<1>12. Indication(p, n) = o
  BY <1>3, <1>7, <1>8
<1> QED BY <1>1, <1>8, <1>9, <1>10, <1>11, <1>12 DEF IsIndication

-----------------------------------------------------------------------------
(* What ParseCemi has of a frame that came back is what was sent.           *)
LEMMA PayloadKept ==
  ASSUME NEW c, NEW payload, NEW f \in FrameSet(payload), IsPayload(payload, f.fits),
         IsBinary(c, f), NEW data \in Seq(Octet), Len(data) = Len(c),
         \A k \in 3..Len(c) : data[k] = c[k]
  PROVE  (IF Len(data) = 11 THEN <<data[11] % 64>> ELSE SubSeq(data, 12, Len(data))) = payload
<1>1. f.payload = payload /\ f.fits \in BOOLEAN
  BY DEF FrameSet
<1>2. payload \in Seq(Octet)
  BY DEF IsPayload
<1>3. CASE f.fits
  <2>1. Len(payload) = 1
    BY <1>3 DEF IsPayload
  <2>2. Len(c) = 11
    <3>1. LengthOf(f.fits, f.payload) = 1 /\ 10 + 1 = 11
      BY <1>3, SMT DEF LengthOf
    <3> QED BY <3>1 DEF IsBinary
  <2>3. data[11] = c[11]
    <3>1. 11 \in 3..11
      BY SMT
    <3> QED BY <2>2, <3>1
  <2>4. c[11] % 64 = payload[1]
    BY <1>1, <1>3 DEF IsBinary
  <2>5. payload[1] \in Octet
    <3>1. 1 \in 1..1
      BY SMT
    <3> QED BY <1>2, <2>1, <3>1, ElementOfSeq
  <2>6. <<payload[1]>> = payload
    <3>1. <<payload[1]>> \in Seq(Octet) /\ Len(<<payload[1]>>) = 1
      BY <2>5
    <3>2. \A i \in 1..1 : <<payload[1]>>[i] = payload[i]
      BY SMT
    <3> QED BY <1>2, <2>1, <3>1, <3>2, SeqEqual
  <2> QED BY <2>2, <2>3, <2>4, <2>6
<1>4. CASE ~f.fits
  <2>1. PICK n \in Sizes : n = Len(payload)
    BY DEF IsPayload
  <2>2. n \in Nat /\ n >= 1
    BY LengthBounds
  <2>3. PICK m \in Nat : m = 11 + n /\ m = Len(c)
    <3>1. LengthOf(f.fits, f.payload) = 1 + n
      BY <1>1, <1>4, <2>1 DEF LengthOf
    <3>2. 10 + (1 + n) = 11 + n /\ 11 + n \in Nat
      BY <2>2, SMT
    <3> QED BY <3>1, <3>2 DEF IsBinary
  <2>4. m # 11 /\ 12 <= m /\ m - 12 + 1 = n
    BY <2>2, <2>3, SMT
  <2> DEFINE u == SubSeq(data, 12, m)
  <2>5. /\ u \in Seq(Octet) /\ Len(u) = n
        /\ \A i \in 1..n : u[i] = data[12 + i - 1]
    <3>1. \A i \in 12..m : data[i] \in Octet
      <4>1. \A i \in 12..m : i \in 1..m
        BY SMT
      <4> QED BY <2>3, <4>1, ElementOfSeq
    <3>2. /\ u \in Seq(Octet) /\ Len(u) = IF 12 <= m THEN m - 12 + 1 ELSE 0
          /\ \A i \in 1..(m - 12 + 1) : u[i] = data[12 + i - 1]
      BY <3>1, SubSeqProperties
    <3> HIDE DEF u
    <3> QED BY <2>4, <3>2
  <2> HIDE DEF u
  <2>6. ASSUME NEW i \in 1..n PROVE u[i] = payload[i]
    <3>1. 12 + i - 1 = 11 + i /\ 11 + i \in 3..m
      BY <2>2, <2>3, SMT
    <3>2. data[11 + i] = c[11 + i]
      BY <2>3, <3>1
    <3>3. c[11 + i] = payload[i]
      BY <1>1, <1>4, <2>1 DEF IsBinary
    <3> QED BY <2>5, <3>1, <3>2, <3>3
  <2>7. u = payload
    BY <1>2, <2>1, <2>5, <2>6, SeqEqual
  <2> QED BY <2>3, <2>4, <2>7 DEF u
<1> QED BY <1>1, <1>3, <1>4

IsParsed(x, f) ==
  /\ ~x.fails /\ x.source = f.source /\ x.destination = f.destination
  /\ x.operation = f.operation /\ x.payload = f.payload

LEMMA CemiKept ==
  ASSUME NEW c, NEW payload, NEW f \in FrameSet(payload), IsPayload(payload, f.fits),
         IsBinary(c, f), Len(c) \in FrameLengths,
         NEW n \in Extras, NEW o, IsIndication(o, c, n)
  PROVE  IsParsed(ParseCemi(o), f)
<1>1. PICK m \in FrameLengths : m = Len(c)
  OBVIOUS
<1>2. m \in Nat /\ m >= 11 /\ n \in Nat
  BY <1>1, FrameBounds
<1>3. PICK l \in Nat : l = n + m /\ l = Len(o)
  BY <1>1, <1>2 DEF IsIndication
<1>4. l > 1 /\ l >= 11 /\ ~(l < 11) /\ ~(l < 11 + n) /\ l # 0 /\ l - (n + 1) + 1 = m /\ n + 1 <= l
  BY <1>2, <1>3, SMT
<1>5. o \in Seq(Octet) /\ o[1] = 41 /\ o[2] = n
  BY DEF IsIndication
<1>6. PICK data \in Seq(Octet) : /\ data = SubSeq(o, n + 1, Len(o)) /\ Len(data) = m
                                 /\ \A k \in 1..m : data[k] = o[n + k]
  <2>1. \A i \in (n + 1)..l : o[i] \in Octet
    <3>1. \A i \in (n + 1)..l : i \in 1..l
      BY <1>2, SMT
    <3> QED BY <1>3, <1>5, <3>1, ElementOfSeq
  <2> DEFINE u == SubSeq(o, n + 1, l)
  <2>2. /\ u \in Seq(Octet) /\ Len(u) = IF n + 1 <= l THEN l - (n + 1) + 1 ELSE 0
        /\ \A k \in 1..(l - (n + 1) + 1) : u[k] = o[(n + 1) + k - 1]
    <3>1. n + 1 \in Int /\ l \in Int
      BY <1>2
    <3> QED BY <2>1, <3>1, SubSeqProperties
  <2> HIDE DEF u
  <2>3. Len(u) = m /\ \A k \in 1..m : u[k] = o[(n + 1) + k - 1]
    BY <1>4, <2>2
  <2>4. \A k \in 1..m : (n + 1) + k - 1 = n + k
    BY <1>2, SMT
  <2>5. u = SubSeq(o, n + 1, Len(o))
    BY <1>3 DEF u
  <2>6. \A k \in 1..m : u[k] = o[n + k]
    BY <2>3, <2>4
  <2>7. u \in Seq(Octet) /\ Len(u) = m
    BY <2>2, <2>3
  <2> QED BY <2>5, <2>6, <2>7, Zenon
<1>7. \A k \in 3..m : data[k] = c[k]
  <2>1. \A k \in 3..m : k \in 1..m
    BY SMT
  <2> QED BY <1>1, <1>6, <2>1 DEF IsIndication
<1> DEFINE x == [fails |-> FALSE, code |-> o[1],
                 source |-> Word(data, 5), destination |-> Word(data, 7),
                 operation |-> 4 * (data[10] % 4) + (data[11] \div 64),
                 payload |-> IF Len(data) = 11 THEN <<data[11] % 64>>
                             ELSE SubSeq(data, 12, Len(data))]
<1>8. ParseCemi(o) = x
  <2>1. o # <<>>
    BY <1>3, <1>4
  <2>2. o[1] \in {LDataReq, LDataInd}
    BY <1>5 DEF LDataInd
  <2>3. (IF Len(o) > 1 THEN o[2] ELSE 0) = n
    BY <1>3, <1>4, <1>5
  <2>4. ~(Len(o) < 11) /\ ~(Len(o) < 11 + n)
    BY <1>3, <1>4
  <2>5. SubSeq(o, n + 1, Len(o)) = data
    BY <1>6
  <2> QED BY <2>1, <2>2, <2>3, <2>4, <2>5 DEF ParseCemi
<1>9. \A k \in 5..11 : data[k] = c[k]
  <2>1. \A k \in 5..11 : k \in 3..m
    BY <1>2, SMT
  <2> QED BY <1>7, <2>1
<1>10. Word(data, 5) = f.source /\ Word(data, 7) = f.destination
  <2>1. /\ data[5] = c[5] /\ data[5 + 1] = c[5 + 1]
        /\ data[7] = c[7] /\ data[7 + 1] = c[7 + 1]
    BY <1>9, SMT
  <2> QED BY <2>1 DEF Word, IsBinary
<1>11. 4 * (data[10] % 4) + (data[11] \div 64) = f.operation
  <2>1. data[10] = 0 /\ data[11] \div 64 = f.operation
    <3>1. data[10] = c[10] /\ data[11] = c[11]
      BY <1>9, SMT
    <3> QED BY <3>1 DEF IsBinary
  <2>2. f.operation \in {1, 2}
    BY DEF FrameSet, GroupValueWrite, GroupValueResponse
  <2>3. PICK op \in {1, 2} : op = f.operation
    BY <2>2
  <2>4. 4 * (0 % 4) + op = op
    BY SMT
  <2> QED BY <2>1, <2>3, <2>4
<1>12. (IF Len(data) = 11 THEN <<data[11] % 64>> ELSE SubSeq(data, 12, Len(data))) = f.payload
  <2>1. f.payload = payload
    BY DEF FrameSet
  <2> QED BY <1>1, <1>6, <1>7, <2>1, PayloadKept, ZenonT(40)
<1>13. /\ ~x.fails /\ x.source = Word(data, 5) /\ x.destination = Word(data, 7)
       /\ x.operation = 4 * (data[10] % 4) + (data[11] \div 64)
       /\ x.payload = IF Len(data) = 11 THEN <<data[11] % 64>>
                      ELSE SubSeq(data, 12, Len(data))
  BY Zenon
<1> HIDE DEF x
<1> QED BY <1>8, <1>10, <1>11, <1>12, <1>13 DEF IsParsed

LEMMA PacketKept ==
  ASSUME NEW c, NEW payload, NEW f \in FrameSet(payload), IsPayload(payload, f.fits),
         IsBinary(c, f), Len(c) \in FrameLengths,
         NEW n \in Extras, NEW o, IsIndication(o, c, n),
         NEW p, IsPacket(p, o)
  PROVE  ~ParsePacket(p).fails /\ IsParsed(ParsePacket(p).cemi, f)
<1>1. PICK m \in FrameLengths : m = Len(c)
  OBVIOUS
<1>2. m \in Nat /\ m >= 11 /\ n \in Nat
  BY <1>1, FrameBounds
<1>3. PICK l \in Nat : l = 10 + (n + m) /\ l = Len(p)
  BY <1>1, <1>2 DEF IsPacket, IsIndication
<1>4. ~(l < 8) /\ ~(l < 10)
  BY <1>2, <1>3, SMT
<1>5. ~ParseConnection(p).fails
  <2>1. ParseConnection(p).fails <=> Len(p) < 10 \/ p[7] # 4
    BY DEF ParseConnection
  <2>2. ~(Len(p) < 10) /\ p[7] = 4
    BY <1>3, <1>4 DEF IsPacket
  <2> QED BY <2>1, <2>2
<1>6. PICK x : x = ParseCemi(o) /\ IsParsed(x, f)
  BY CemiKept
<1>7. ParseRequest(p) = [fails |-> FALSE, channel |-> p[8], counter |-> p[9], cemi |-> x]
  <2>1. ParseCemi(SubSeq(p, 11, Len(p))) = x
    BY <1>6 DEF IsPacket
  <2>2. ~x.fails
    BY <1>6 DEF IsParsed
  <2> QED BY <1>5, <2>1, <2>2, Zenon DEF ParseRequest
<1>8. ParsePacket(p) = ParseRequest(p)
  <2>1. /\ ~(Len(p) < 8) /\ p[1] = 6 /\ p[2] = 16 /\ Word(p, 5) = Len(p)
        /\ Word(p, 3) = 1056
    BY <1>3, <1>4 DEF IsPacket
  <2>2. 1056 \in {TunnelingRequest, ConfigRequest}
    BY DEF TunnelingRequest
  <2>3. /\ 1056 \notin {DisconnectRequest, ConnectionStateRequest}
        /\ 1056 \notin {DisconnectResponse, ConnectionStateResponse}
        /\ 1056 # TunnelingAck /\ 1056 # ConnectRequest /\ 1056 # ConnectResponse
    BY SMT DEF DisconnectRequest, ConnectionStateRequest, DisconnectResponse,
               ConnectionStateResponse, TunnelingAck, ConnectRequest, ConnectResponse
  <2> QED BY <2>1, <2>2, <2>3, SMT DEF ParsePacket
<1> QED BY <1>6, <1>7, <1>8

-----------------------------------------------------------------------------
(* The types whose values are octets: what getDpt takes from the lower end  *)
(* of a number getVariable puts there.                                     *)
OctetTypes == Basic \cup Standard \cup Functional
IsOctetType(type) == type[1] \in OctetTypes /\ type # <<4, 1>> /\ ~Scaled(type)
SignedTypes == {6, 13, 15, 27, 241}
(* The number of some octets, as a type of main type n has it.              *)
NumberOf(n, octets) == IF n \in SignedTypes THEN Signed(octets) ELSE Unsigned(octets)
First(n, octets) == SubSeq(octets, 1, WidthOf(n))

LEMMA OctetGetDpt ==
  ASSUME NEW type, IsOctetType(type), NEW v, NEW invert
  PROVE  GetDpt(type, v, invert) = Lowest(WidthOf(type[1]), v.value)
<1>1. PICK n \in OctetTypes : n = type[1]
  BY DEF IsOctetType
<1>2. /\ n # 1 /\ n \notin {2, 23} /\ n # 3 /\ n # 9 /\ n # 14 /\ n # 16
  BY SMT DEF OctetTypes, Basic, Standard, Functional
<1> QED BY <1>1, <1>2, SMT DEF GetDpt, OctetTypes, IsOctetType

LEMMA BasicWidth ==
  ASSUME NEW n \in Basic
  PROVE  WidthOf(n) = IF n \in {4, 5, 6} THEN 1 ELSE 2
BY SMT DEF WidthOf, Basic, Standard, Functional, WidthBasic

LEMMA StandardWidth ==
  ASSUME NEW n \in Standard
  PROVE  /\ n \in {17, 18, 20, 21, 25, 26} => WidthOf(n) = 1
         /\ n = 22 => WidthOf(n) = 2
         /\ n \in {10, 11, 30} => WidthOf(n) = 3
         /\ n \in {12, 13, 15, 27} => WidthOf(n) = 4
         /\ n \in {19, 29} => WidthOf(n) = 8
BY SMT DEF WidthOf, Basic, Standard, Functional, WidthStandard

LEMMA FunctionalWidth ==
  ASSUME NEW n \in Functional
  PROVE  /\ n = 238 => WidthOf(n) = 1
         /\ n \in {217, 234, 237, 244} => WidthOf(n) = 2
         /\ n \in {206, 232, 240, 250} => WidthOf(n) = 3
         /\ n = 241 => WidthOf(n) = 4
         /\ n \in {219, 222, 229, 245, 249, 251} => WidthOf(n) = 6
         /\ n = 230 => WidthOf(n) = 8
BY SMT DEF WidthOf, Basic, Standard, Functional, WidthFunctional

LEMMA GetBasic ==
  ASSUME NEW type, NEW n \in Basic, n = type[1], IsOctetType(type), NEW octets
  PROVE  GetVariableBasic(type, octets) = NumberOf(n, First(n, octets))
<1>1. CASE n \in {4, 5}
  BY <1>1, BasicWidth, SMT DEF GetVariableBasic, SignedTypes, NumberOf, First, IsOctetType
<1>2. CASE n = 6
  BY <1>2, BasicWidth, SMT DEF GetVariableBasic, SignedTypes, NumberOf, First, IsOctetType
<1>3. CASE n \in {7, 8}
  BY <1>3, BasicWidth, SMT DEF GetVariableBasic, SignedTypes, NumberOf, First, IsOctetType
<1> QED BY <1>1, <1>2, <1>3, SMT DEF Basic

LEMMA GetStandard ==
  ASSUME NEW n \in Standard, NEW octets, WidthOf(n) = 8 => Unsigned(First(n, octets)) = First(n, octets)
  PROVE  GetVariableStandard(n, octets) = NumberOf(n, First(n, octets))
<1>1. CASE n \in {17, 18, 20, 21, 25, 26}
  BY <1>1, StandardWidth, SMT DEF GetVariableStandard, SignedTypes, NumberOf, First
<1>2. CASE n = 22
  BY <1>2, StandardWidth, SMT DEF GetVariableStandard, SignedTypes, NumberOf, First
<1>3. CASE n \in {10, 11, 30}
  BY <1>3, StandardWidth, SMTT(40) DEF GetVariableStandard, SignedTypes, NumberOf, First
<1>4. CASE n \in {13, 15, 27}
  BY <1>4, StandardWidth, SMT DEF GetVariableStandard, SignedTypes, NumberOf, First
<1>5. CASE n = 12
  BY <1>5, StandardWidth, SMT DEF GetVariableStandard, SignedTypes, NumberOf, First
<1>6. CASE n \in {19, 29}
  <2>1. WidthOf(n) = 8 /\ n \notin SignedTypes
    BY <1>6, StandardWidth, SMT DEF SignedTypes
  <2>2. GetVariableStandard(n, octets) = First(n, octets)
    BY <1>6, <2>1, SMT DEF GetVariableStandard, First
  <2> QED BY <2>1, <2>2 DEF NumberOf
<1> QED BY <1>1, <1>2, <1>3, <1>4, <1>5, <1>6, SMT DEF Standard

LEMMA GetFunctional ==
  ASSUME NEW n \in Functional, NEW octets, WidthOf(n) = 8 => Unsigned(First(n, octets)) = First(n, octets)
  PROVE  GetVariableFunctional(n, octets) = NumberOf(n, First(n, octets))
<1>1. CASE n = 238
  BY <1>1, FunctionalWidth, SMT DEF GetVariableFunctional, SignedTypes, NumberOf, First
<1>2. CASE n \in {217, 234, 237, 244}
  BY <1>2, FunctionalWidth, SMT DEF GetVariableFunctional, SignedTypes, NumberOf, First
<1>3. CASE n \in {206, 232, 240, 250}
  BY <1>3, FunctionalWidth, SMT DEF GetVariableFunctional, SignedTypes, NumberOf, First
<1>4. CASE n = 241
  BY <1>4, FunctionalWidth, SMT DEF GetVariableFunctional, SignedTypes, NumberOf, First
<1>5. CASE n \in {219, 222, 229, 245, 249, 251}
  BY <1>5, FunctionalWidth, SMTT(40) DEF GetVariableFunctional, SignedTypes, NumberOf, First
<1>6. CASE n = 230
  <2>1. WidthOf(n) = 8 /\ n \notin SignedTypes
    BY <1>6, FunctionalWidth, SMT DEF SignedTypes
  <2>2. GetVariableFunctional(n, octets) = First(n, octets)
    BY <1>6, <2>1, SMT DEF GetVariableFunctional, First
  <2> QED BY <2>1, <2>2 DEF NumberOf
<1> QED BY <1>1, <1>2, <1>3, <1>4, <1>5, <1>6, SMT DEF Functional

WidthRange == 1..8
LEMMA WidthInRange ==
  ASSUME NEW n \in OctetTypes
  PROVE  WidthOf(n) \in WidthRange
<1>1. CASE n \in Basic
  BY <1>1, BasicWidth, SMT DEF WidthRange
<1>2. CASE n \in Standard
  BY <1>2, StandardWidth, SMT DEF WidthRange, Standard
<1>3. CASE n \in Functional
  BY <1>3, FunctionalWidth, SMT DEF WidthRange, Functional
<1> QED BY <1>1, <1>2, <1>3 DEF OctetTypes

(* Of the octets a number was widened from, the lower end is all.           *)
LEMMA LowerEnd ==
  ASSUME NEW w \in WidthRange, NEW octets \in Seq(Octet), Len(octets) = w, NEW filler \in Octet
  PROVE  Lowest(w, Widened(octets, filler)) = octets
<1> DEFINE front == [i \in 1..(8 - w) |-> filler]
<1>1. w \in Nat /\ 8 - w \in Nat /\ (8 - w) + 1 = 9 - w /\ (8 - w) + w = 8
  BY SMT DEF WidthRange
<1>2. front \in Seq(Octet) /\ Len(front) = 8 - w
  BY <1>1
<1>3. Widened(octets, filler) = front \o octets
  BY DEF Widened
<1> HIDE DEF front
<1>4. SubSeq(front \o octets, Len(front) + 1, Len(front \o octets)) = octets
  BY <1>2, RestOf
<1>5. Len(front \o octets) = Len(front) + Len(octets)
  BY <1>2, Joint
<1>6. Len(front) + 1 = 9 - w /\ Len(front \o octets) = 8
  BY <1>1, <1>2, <1>5
<1> QED BY <1>3, <1>4, <1>6, Zenon DEF Lowest

LEMMA LowerEndOfNumber ==
  ASSUME NEW w \in WidthRange, NEW octets \in Seq(Octet), Len(octets) = w
  PROVE  /\ Lowest(w, Unsigned(octets)) = octets
         /\ Lowest(w, Signed(octets)) = octets
<1>1. 0 \in Octet /\ 255 \in Octet
  BY SMT DEF Octet
<1>2. (IF octets[1] >= 128 THEN 255 ELSE 0) \in Octet
  BY <1>1
<1> QED BY <1>1, <1>2, LowerEnd DEF Unsigned, Signed

(* Eight octets are a number as they are.                                   *)
LEMMA EightOctets ==
  ASSUME NEW octets \in Seq(Octet), Len(octets) = 8
  PROVE  Unsigned(octets) = octets
<1>1. 8 - 8 = 0 /\ 1..0 = {}
  BY SMT
<1>2. [i \in 1..0 |-> 0] = <<>>
  BY <1>1
<1>3. Unsigned(octets) = [i \in 1..0 |-> 0] \o octets
  BY <1>1 DEF Unsigned, Widened
<1> QED BY <1>2, <1>3, ConcatEmptySeq

LEMMA Disjoint ==
  ASSUME NEW n
  PROVE  /\ n \in Basic => n \notin Standard /\ n \notin Functional
         /\ n \in Standard => n \notin Functional
BY SMT DEF Basic, Standard, Functional

LEMMA OctetGetVariable ==
  ASSUME NEW type, IsOctetType(type), NEW octets \in Seq(Octet),
         Len(octets) = WidthOf(type[1]), NEW invert
  PROVE  GetVariable(type, octets, invert) = Integer(NumberOf(type[1], octets))
<1>1. PICK n \in OctetTypes : n = type[1]
  BY DEF IsOctetType
<1>2. n # 1 /\ n \notin {1, 2, 3, 23} /\ n \notin {2, 23} /\ n # 3 /\ n # 9 /\ n # 14 /\ n # 16
  BY SMT DEF OctetTypes, Basic, Standard, Functional
<1>3. PICK w \in WidthRange : w = WidthOf(n)
  BY WidthInRange
<1>4. w \in Nat /\ ~(w < w) /\ 8 \in WidthRange
  BY SMT DEF WidthRange
<1>5. ~TooSmall(n, octets)
  BY <1>1, <1>2, <1>3, <1>4 DEF TooSmall
<1>6. First(n, octets) = octets
  BY <1>1, <1>3, SubSeqFull DEF First
<1>7. w = 8 => Unsigned(First(n, octets)) = First(n, octets)
  BY <1>1, <1>3, <1>6, EightOctets
<1>8. CASE n \in Basic
  <2>1. GetVariable(type, octets, invert) = Integer(GetVariableBasic(type, octets))
    BY <1>1, <1>2, <1>5, <1>8, Disjoint, SMT DEF GetVariable
  <2> QED BY <1>1, <1>6, <1>8, <2>1, GetBasic
<1>9. CASE n \in Standard
  <2>1. GetVariable(type, octets, invert) = Integer(GetVariableStandard(n, octets))
    BY <1>1, <1>2, <1>5, <1>9, Disjoint, SMT DEF GetVariable
  <2> QED BY <1>1, <1>3, <1>6, <1>7, <1>9, <2>1, GetStandard
<1>10. CASE n \in Functional
  <2>1. GetVariable(type, octets, invert) = Integer(GetVariableFunctional(n, octets))
    BY <1>1, <1>2, <1>5, <1>10, Disjoint, SMT DEF GetVariable
  <2> QED BY <1>1, <1>3, <1>6, <1>7, <1>10, <2>1, GetFunctional
<1> QED BY <1>8, <1>9, <1>10 DEF OctetTypes

(* Values whose conversion is octets put together: those of the types above *)
(* (of DPT-8, and of DPT-12 for a DPT-13, also with the sign they lose),    *)
(* those of some bits of one octet, flags, and the patterns of DPT-14.      *)
OctetSample(s) ==
  /\ IsOctetType(s.type)
  /\ \E octets \in Seq(Octet) :
       /\ Len(octets) = WidthOf(s.type[1])
       /\ \/ s.value = Integer(NumberOf(s.type[1], octets))
          \/ SignLost(s.type) /\ s.value = Integer(Signed(octets))
Limit(type) == CASE type[1] \in {2, 23} -> 4 [] type[1] = 3 -> 16 [] type = <<4, 1>> -> 128
BitsSample(s) ==
  /\ s.type[1] \in {2, 3, 23} \/ s.type = <<4, 1>>
  /\ \E octet \in Octet : octet < Limit(s.type) /\ s.value = Integer(Unsigned(<<octet>>))
FlagSample(s) ==
  s.type[1] = 1 /\ s.value \in {Boolean(TRUE), Boolean(FALSE)} /\ s.invert \in BOOLEAN
Binary32Sample(s) ==
  s.type[1] = 14 /\ \E octets \in Seq(Octet) : Len(octets) = 4 /\ s.value = Binary32(octets)
TextSample(s) ==
  s.type[1] = 16 /\ \E text \in Seq(1..255) : Len(text) <= 14 /\ s.value = Text(text)

(* What the proofs need of a conversion, DPT-9 included.                    *)
ConvertsWell(s) ==
  Converts(s) /\ Faithful(s, GetVariable(s.type, GetDpt(s.type, s.value, s.invert), s.invert))
AllConvertWell == \A s \in Samples : ConvertsWell(s)

(* The same, with a payload of which the facts are known.                   *)
LEMMA ConvertsByPayload ==
  ASSUME NEW s, NEW payload \in Seq(Octet), payload = GetDpt(s.type, s.value, s.invert),
         NEW n \in Sizes, n = Len(payload),
         FitsInFirstByte(s.type) => n = 1 /\ payload[1] < 64,
         Kept(s, GetVariable(s.type, payload, s.invert)),
         s.type[1] # 9 \/ Faithful(s, GetVariable(s.type, payload, s.invert))
  PROVE  ConvertsWell(s)
<1>1. Faithful(s, GetVariable(s.type, payload, s.invert))
  BY Zenon DEF Faithful
<1> QED BY <1>1, Zenon DEF ConvertsWell, Converts, Octet, Sizes

LEMMA WidthIsSize == \A w \in WidthRange : w \in Sizes
BY SMT DEF WidthRange, Sizes

LEMMA OctetSamplesConvert ==
  ASSUME NEW s, OctetSample(s)
  PROVE  ConvertsWell(s)
<1>1. IsOctetType(s.type)
  BY DEF OctetSample
<1>2. PICK n \in OctetTypes : n = s.type[1]
  BY <1>1 DEF IsOctetType
<1>3. PICK w \in WidthRange : w = WidthOf(n)
  BY WidthInRange
<1>4. PICK octets \in Seq(Octet) :
        /\ Len(octets) = w
        /\ \/ s.value = Integer(NumberOf(n, octets))
           \/ SignLost(s.type) /\ s.value = Integer(Signed(octets))
  BY <1>2, <1>3 DEF OctetSample
<1>5. /\ s.value.kind = "integer" /\ Lowest(w, s.value.value) = octets
      /\ ~SignLost(s.type) => s.value.value = NumberOf(n, octets)
  BY <1>4, LowerEndOfNumber DEF Integer, NumberOf
<1>6. GetDpt(s.type, s.value, s.invert) = octets
  BY <1>1, <1>2, <1>3, <1>5, OctetGetDpt
<1>7. GetVariable(s.type, octets, s.invert) = Integer(NumberOf(n, octets))
  BY <1>1, <1>2, <1>3, <1>4, OctetGetVariable
<1>8. ~FitsInFirstByte(s.type) /\ s.type[1] # 9
  <2>1. n \notin {1, 2, 3, 23} /\ n # 9
    BY SMT DEF OctetTypes, Basic, Standard, Functional
  <2> QED BY <1>2, <2>1 DEF FitsInFirstByte
<1>9. PICK v : v = Integer(NumberOf(n, octets))
  OBVIOUS
<1>10. /\ v.kind = "integer" /\ v.value = NumberOf(n, octets)
       /\ Lowest(w, v.value) = octets
  BY <1>4, <1>9, LowerEndOfNumber DEF NumberOf, Integer
<1>11. s.type # <<5, 3>>
  BY <1>1 DEF IsOctetType, Scaled
<1>12. Same(s.type, v.value, s.value.value)
  <2>1. CASE SignLost(s.type)
    BY <1>2, <1>3, <1>5, <1>10, <1>11, <2>1 DEF Same
  <2>2. CASE ~SignLost(s.type)
    BY <1>5, <1>10, <1>11, <2>2 DEF Same
  <2> QED BY <2>1, <2>2
<1>13. Kept(s, GetVariable(s.type, octets, s.invert))
  BY <1>5, <1>7, <1>9, <1>10, <1>12 DEF Kept
<1> QED BY <1>3, <1>4, <1>6, <1>8, <1>13, WidthIsSize, ConvertsByPayload

(* The octet of a number of one octet is its last.                          *)
LEMMA LastOctet ==
  ASSUME NEW octet \in Octet
  PROVE  Unsigned(<<octet>>)[8] = octet
<1> DEFINE front == [i \in 1..7 |-> 0]
<1>1. 0 \in Octet /\ 7 \in Nat /\ 8 - 1 = 7 /\ 7 + 1 = 8
  BY SMT DEF Octet
<1>2. front \in Seq(Octet) /\ Len(front) = 7
  BY <1>1
<1>3. Unsigned(<<octet>>) = front \o <<octet>>
  BY <1>1 DEF Unsigned, Widened
<1> HIDE DEF front
<1>4. <<octet>> \in Seq(Octet) /\ Len(<<octet>>) = 1 /\ <<octet>>[1] = octet /\ 1 \in 1..1
  OBVIOUS
<1>5. (front \o <<octet>>)[Len(front) + 1] = <<octet>>[1]
  <2>1. PICK end \in Seq(Octet) : end = <<octet>> /\ 1 \in 1..Len(end)
    BY <1>4
  <2>2. (front \o end)[Len(front) + 1] = end[1]
    <3>1. front \in Seq(Octet)
      BY <1>2
    <3>2. \A i \in 1..Len(end) : (front \o end)[Len(front) + i] = end[i]
      BY <3>1, After
    <3> QED BY <2>1, <3>2
  <2> QED BY <2>1, <2>2
<1> QED BY <1>1, <1>2, <1>3, <1>4, <1>5

LEMMA OneOctet ==
  ASSUME NEW octet \in Octet
  PROVE  <<octet>> \in Seq(Octet) /\ 1 = Len(<<octet>>) /\ <<octet>>[1] = octet /\ 1 \in Sizes
<1>1. 1 \in Sizes
  BY SMT DEF Sizes
<1> QED BY <1>1

(* (CASE leaves open which of several guards that hold is taken.)           *)
LEMMA NotOctets ==
  ASSUME NEW type, type[1] \in {1, 2, 3, 23, 14, 16}
  PROVE  /\ ~Scaled(type) /\ type # <<4, 1>> /\ type # <<5, 3>> /\ ~SignLost(type)
         /\ type[1] \notin Basic /\ type[1] \notin Standard /\ type[1] \notin Functional
         /\ type[1] \notin (Basic \cup Standard \cup Functional)
BY SMT DEF Scaled, SignLost, Basic, Standard, Functional

LEMMA BitsSamplesConvert ==
  ASSUME NEW s, BitsSample(s)
  PROVE  ConvertsWell(s)
<1>1. PICK octet \in Octet : octet < Limit(s.type) /\ s.value = Integer(Unsigned(<<octet>>))
  BY DEF BitsSample
<1>2. s.value.kind = "integer" /\ s.value.value = Unsigned(<<octet>>) /\ s.value.value[8] = octet
  BY <1>1, LastOctet DEF Integer
<1>3. PICK type : type = s.type
  OBVIOUS
<1>4. ASSUME type[1] \in {2, 3, 23}, NEW limit \in {4, 16},
             limit = IF type[1] = 3 THEN 16 ELSE 4
      PROVE  ConvertsWell(s)
  <2>1. Limit(type) = limit
    BY <1>4, SMT DEF Limit
  <2>2. octet % limit = octet /\ octet < 64
    BY <1>1, <1>3, <2>1, SMT DEF Octet
  <2>3. GetDpt(type, s.value, s.invert) = <<octet % limit>>
    <3>1. CASE type[1] = 3
      BY <1>2, <1>4, <3>1, NotOctets, SMT DEF GetDpt
    <3>2. CASE type[1] \in {2, 23}
      <4>1. limit = 4
        BY <1>4, <3>2, SMT
      <4>2. GetDpt(type, s.value, s.invert) = <<octet % 4>>
        BY <1>2, <3>2, NotOctets, SMTT(40) DEF GetDpt
      <4> QED BY <4>1, <4>2
    <3> QED BY <1>4, <3>1, <3>2
  <2>4. <<octet>> # <<>>
    OBVIOUS
  <2>5. ~TooSmall(type[1], <<octet>>)
    BY <1>4, <2>4, NotOctets, SMT DEF TooSmall
  <2>6. GetVariable(type, <<octet>>, s.invert) = Integer(Unsigned(<<octet % limit>>))
    <3>1. CASE type[1] = 3
      BY <1>4, <2>5, <3>1, NotOctets, SMT DEF GetVariable
    <3>2. CASE type[1] \in {2, 23}
      BY <1>4, <2>5, <3>2, NotOctets, SMT DEF GetVariable
    <3> QED BY <1>4, <3>1, <3>2
  <2>7. type # <<5, 3>> /\ ~SignLost(type) /\ type[1] # 9
    BY <1>4, NotOctets, SMT
  <2>8. Kept(s, GetVariable(type, <<octet>>, s.invert))
    BY <1>2, <1>3, <2>2, <2>6, <2>7 DEF Kept, Same, Integer
  <2> QED BY <1>3, <2>2, <2>3, <2>7, <2>8, OneOctet, ConvertsByPayload
<1>5. CASE type = <<4, 1>>
  <2>1. type[1] = 4 /\ ~Scaled(type) /\ type # <<5, 3>> /\ ~SignLost(type) /\ Limit(type) = 128
    BY <1>5, SMT DEF Scaled, SignLost, Limit
  <2>2. octet % 128 = octet
    BY <1>1, <1>3, <2>1, SMT DEF Octet
  <2>3. GetDpt(type, s.value, s.invert) = <<octet % 128>>
    BY <1>2, <1>5, <2>1, SMT DEF GetDpt
  <2>4. 4 \in Basic /\ 4 \notin Standard /\ 4 \notin Functional
    BY SMT DEF Basic, Standard, Functional
  <2>5. ~TooSmall(4, <<octet>>)
    BY <2>4, BasicWidth, SMT DEF TooSmall
  <2>6. GetVariable(type, <<octet>>, s.invert) = Integer(GetVariableBasic(type, <<octet>>))
    BY <2>1, <2>4, <2>5, SMT DEF GetVariable
  <2>7. GetVariableBasic(type, <<octet>>) = Unsigned(<<octet % 128>>)
    BY <1>5, <2>1, SMT DEF GetVariableBasic
  <2>8. Kept(s, GetVariable(type, <<octet>>, s.invert))
    BY <1>2, <1>3, <2>1, <2>2, <2>6, <2>7 DEF Kept, Same, Integer
  <2>9. ~FitsInFirstByte(type) /\ type[1] # 9
    BY <2>1, SMT DEF FitsInFirstByte
  <2> QED BY <1>3, <2>2, <2>3, <2>8, <2>9, OneOctet, ConvertsByPayload
<1> QED BY <1>3, <1>4, <1>5 DEF BitsSample

LEMMA FlagSamplesConvert ==
  ASSUME NEW s, FlagSample(s)
  PROVE  ConvertsWell(s)
<1>1. s.type[1] = 1 /\ s.invert \in BOOLEAN
  BY DEF FlagSample
<1>2. PICK b \in BOOLEAN : s.value = Boolean(b)
  BY DEF FlagSample
<1>3. PICK octet \in Octet : octet = (IF b <=> s.invert THEN 0 ELSE 1) /\ octet \in {0, 1}
  BY SMT DEF Octet
<1>4. s.value.kind = "boolean" /\ ((s.value.value = <<1>>) <=> b)
  BY <1>2 DEF Boolean
<1>5. GetDpt(s.type, s.value, s.invert) = <<octet>>
  <2>1. GetDpt(s.type, s.value, s.invert) =
          <<IF (s.value.value = <<1>>) <=> s.invert THEN 0 ELSE 1>>
    BY <1>1, NotOctets, SMT DEF GetDpt
  <2>2. (IF (s.value.value = <<1>>) <=> s.invert THEN 0 ELSE 1) = octet
    BY <1>3, <1>4
  <2> QED BY <2>1, <2>2
<1>6. ~TooSmall(s.type[1], <<octet>>)
  BY <1>1, NotOctets, SMT DEF TooSmall
<1>7. GetVariable(s.type, <<octet>>, s.invert) = Boolean(~((octet % 2 = 1) <=> s.invert))
  BY <1>1, <1>6, NotOctets, SMT DEF GetVariable
<1>8. ~((octet % 2 = 1) <=> s.invert) <=> b
  <2>1. 0 % 2 = 0 /\ 1 % 2 = 1
    BY SMT
  <2> QED BY <1>1, <1>3, <2>1
<1>9. GetVariable(s.type, <<octet>>, s.invert) = s.value
  BY <1>2, <1>7, <1>8 DEF Boolean
<1>10. Kept(s, GetVariable(s.type, <<octet>>, s.invert))
  BY <1>1, <1>9, NotOctets DEF Kept, Same
<1>11. octet < 64 /\ s.type[1] # 9
  BY <1>1, <1>3, SMT
<1> QED BY <1>5, <1>10, <1>11, OneOctet, ConvertsByPayload

LEMMA Binary32SamplesConvert ==
  ASSUME NEW s, Binary32Sample(s)
  PROVE  ConvertsWell(s)
<1>1. PICK octets \in Seq(Octet) : Len(octets) = 4 /\ s.value = Binary32(octets)
  BY DEF Binary32Sample
<1>2. s.type[1] = 14 /\ s.value.kind = "binary32" /\ s.value.value = octets
  BY <1>1 DEF Binary32, Binary32Sample
<1>3. ~FitsInFirstByte(s.type) /\ s.type[1] # 9 /\ 4 \in Sizes
  BY <1>2, SMT DEF FitsInFirstByte, Sizes
<1>4. s.type # <<5, 3>> /\ ~SignLost(s.type)
  BY <1>2, NotOctets
<1>5. GetDpt(s.type, s.value, s.invert) = octets
  BY <1>2, NotOctets, SMT DEF GetDpt
<1>6. ~TooSmall(14, octets)
  BY <1>1, <1>2, NotOctets, SMT DEF TooSmall
<1>7. GetVariable(s.type, octets, s.invert) = Binary32(octets)
  <2>1. SubSeq(octets, 1, 4) = octets
    BY <1>1, SubSeqFull
  <2>2. GetVariable(s.type, octets, s.invert) = Binary32(SubSeq(octets, 1, 4))
    BY <1>2, <1>6, NotOctets, SMT DEF GetVariable
  <2> QED BY <2>1, <2>2
<1>8. Kept(s, GetVariable(s.type, octets, s.invert))
  BY <1>1, <1>4, <1>7 DEF Kept, Same
<1> QED BY <1>1, <1>3, <1>5, <1>8, ConvertsByPayload

(* A text is filled up with zeros, and is what is left without them.         *)
Filled(text) == [i \in 1..14 |-> IF i <= Len(text) THEN text[i] ELSE 0]
LEMMA CountTo == \A m \in Nat : Cardinality(1..m) = m
BY FS_Interval

LEMMA SequenceOf ==
  ASSUME NEW S, NEW m \in Nat, NEW f \in [1..m -> S]
  PROVE  f \in Seq(S) /\ Len(f) = m
OBVIOUS

LEMMA CharactersOfFilled ==
  ASSUME NEW text \in Seq(1..255), Len(text) <= 14, NEW octets, octets = Filled(text)
  PROVE  octets \in Seq(Octet) /\ Len(octets) = 14 /\ Characters(octets) = text
<1>1. PICK n \in Nat : n = Len(text) /\ n <= 14
  OBVIOUS
<1>2. text \in [1..n -> 1..255]
  BY <1>1, LenProperties
<1>3. ASSUME NEW i \in 1..14
      PROVE  octets[i] \in Octet /\ (i \in 1..n <=> octets[i] # 0) /\ (i <= n => octets[i] = text[i])
  <2>1. octets[i] = IF i <= n THEN text[i] ELSE 0
    BY <1>1, Zenon DEF Filled
  <2>2. i <= n => i \in 1..n
    BY <1>1, SMT
  <2>3. i <= n => text[i] \in 1..255
    BY <1>2, <2>2
  <2>4. i \in 1..n => i <= n
    BY <1>1, SMT
  <2>5. CASE i <= n
    <3>1. octets[i] = text[i] /\ text[i] \in 1..255
      BY <2>1, <2>2, <2>3, <2>5
    <3>2. \A c \in 1..255 : c \in Octet /\ c # 0
      BY SMT DEF Octet
    <3> QED BY <2>2, <2>5, <3>1, <3>2, Zenon
  <2>6. CASE ~(i <= n)
    <3>1. octets[i] = 0
      BY <2>1, <2>6
    <3>2. 0 \in Octet
      BY SMT DEF Octet
    <3> QED BY <2>4, <2>6, <3>1, <3>2, Zenon
  <2> QED BY <2>5, <2>6
<1>4. DOMAIN octets = 1..14 /\ octets = [i \in 1..14 |-> octets[i]]
  BY Zenon DEF Filled
<1>5. octets \in [1..14 -> Octet]
  BY <1>3, <1>4, Zenon
<1>6. octets \in Seq(Octet) /\ Len(octets) = 14
  <2>1. 14 \in Nat
    BY SMT
  <2> QED BY <1>5, <2>1, SequenceOf, Zenon
<1> DEFINE shown == {i \in DOMAIN octets : octets[i] # 0}
<1>7. Characters(octets) =
        [k \in 1..Cardinality(shown) |->
           octets[CHOOSE i \in shown : Cardinality({j \in shown : j <= i}) = k]]
  BY Zenon DEF Characters
<1>8. shown = 1..n
  <2>1. 1..n \subseteq 1..14
    BY <1>1, SMT
  <2> QED BY <1>3, <1>4, <2>1, Zenon
<1> HIDE DEF shown
<1>9. Cardinality(shown) = n
  <2>1. Cardinality(1..n) = n
    BY CountTo
  <2> QED BY <1>8, <2>1
<1>10. ASSUME NEW i \in 1..n PROVE Cardinality({j \in shown : j <= i}) = i
  <2>1. i \in Nat
    BY <1>1, SMT
  <2>2. {j \in shown : j <= i} = 1..i
    BY <1>1, <1>8, <2>1, SMT
  <2>3. Cardinality(1..i) = i
    BY <2>1, CountTo
  <2> QED BY <2>2, <2>3
<1>11. ASSUME NEW k \in 1..n
       PROVE  octets[CHOOSE i \in shown : Cardinality({j \in shown : j <= i}) = k] = text[k]
  <2>1. PICK i : i = CHOOSE l \in shown : Cardinality({j \in shown : j <= l}) = k
    OBVIOUS
  <2>2. \E i0 \in shown : Cardinality({j \in shown : j <= i0}) = k
    BY <1>8, <1>10, Zenon
  <2>3. i \in shown /\ Cardinality({j \in shown : j <= i}) = k
    BY <2>1, <2>2, Zenon
  <2>4. i = k
    BY <1>8, <1>10, <2>3, Zenon
  <2>5. k \in 1..14 /\ k <= n
    BY <1>1, SMT
  <2> QED BY <1>3, <2>1, <2>4, <2>5, Zenon
<1>12. Characters(octets) =
         [k \in 1..n |-> octets[CHOOSE i \in shown : Cardinality({j \in shown : j <= i}) = k]]
  BY <1>7, <1>9, Zenon
<1>13. Characters(octets) = [k \in 1..n |-> text[k]]
  BY <1>11, <1>12, Zenon
<1>14. text = [k \in 1..n |-> text[k]]
  BY <1>2, Zenon
<1> QED BY <1>6, <1>13, <1>14, Zenon

LEMMA TextSamplesConvert ==
  ASSUME NEW s, TextSample(s)
  PROVE  ConvertsWell(s)
<1>1. PICK text \in Seq(1..255) : Len(text) <= 14 /\ s.value = Text(text)
  BY DEF TextSample
<1>2. s.type[1] = 16 /\ s.value.kind = "text" /\ s.value.value = text
  BY <1>1 DEF Text, TextSample
<1>3. ~FitsInFirstByte(s.type) /\ s.type[1] # 9 /\ 14 \in Sizes
  BY <1>2, SMT DEF FitsInFirstByte, Sizes
<1>4. s.type # <<5, 3>> /\ ~SignLost(s.type)
  BY <1>2, NotOctets
<1>5. PICK octets : octets = Filled(text)
  OBVIOUS
<1>6. octets \in Seq(Octet) /\ Len(octets) = 14 /\ Characters(octets) = text
  BY <1>1, <1>5, CharactersOfFilled
<1>7. GetDpt(s.type, s.value, s.invert) = octets
  BY <1>2, <1>5, NotOctets, SMT DEF GetDpt, Filled
<1>8. ~TooSmall(s.type[1], octets)
  BY <1>2, NotOctets, SMT DEF TooSmall
<1>9. GetVariable(s.type, octets, s.invert) = Text(Characters(octets))
  BY <1>2, <1>8, NotOctets, SMT DEF GetVariable
<1>10. Kept(s, GetVariable(s.type, octets, s.invert))
  BY <1>1, <1>4, <1>6, <1>9 DEF Kept, Same
<1> QED BY <1>3, <1>6, <1>7, <1>10, ConvertsByPayload

-----------------------------------------------------------------------------
(* DPT-9: eleven bits and a sign, times a power of two.                     *)
Exponents == 0..15
(* p is the power of two of the exponent e.                                 *)
PowerTable(e, p) ==
  \/ (e = 0 /\ p = 1) \/ (e = 1 /\ p = 2) \/ (e = 2 /\ p = 4) \/ (e = 3 /\ p = 8)
  \/ (e = 4 /\ p = 16) \/ (e = 5 /\ p = 32) \/ (e = 6 /\ p = 64)
  \/ (e = 7 /\ p = 128) \/ (e = 8 /\ p = 256) \/ (e = 9 /\ p = 512)
  \/ (e = 10 /\ p = 1024) \/ (e = 11 /\ p = 2048) \/ (e = 12 /\ p = 4096)
  \/ (e = 13 /\ p = 8192) \/ (e = 14 /\ p = 16384) \/ (e = 15 /\ p = 32768)

LEMMA PowerIs ==
  ASSUME NEW e \in Exponents
  PROVE  PowerTable(e, 2^e)
<1>1. PICK p : p = 2^e
  OBVIOUS
<1>2. e = 0 => p = 1
  BY <1>1, SMT
<1>3. e = 1 => p = 2
  BY <1>1, SMT
<1>4. e = 2 => p = 4
  BY <1>1, SMT
<1>5. e = 3 => p = 8
  BY <1>1, SMT
<1>6. e = 4 => p = 16
  BY <1>1, SMT
<1>7. e = 5 => p = 32
  BY <1>1, SMT
<1>8. e = 6 => p = 64
  BY <1>1, SMT
<1>9. e = 7 => p = 128
  BY <1>1, SMT
<1>10. e = 8 => p = 256
  BY <1>1, SMT
<1>11. e = 9 => p = 512
  BY <1>1, SMT
<1>12. e = 10 => p = 1024
  BY <1>1, SMT
<1>13. e = 11 => p = 2048
  BY <1>1, SMT
<1>14. e = 12 => p = 4096
  BY <1>1, SMT
<1>15. e = 13 => p = 8192
  BY <1>1, SMT
<1>16. e = 14 => p = 16384
  BY <1>1, SMT
<1>17. e = 15 => p = 32768
  BY <1>1, SMT
<1>18. PowerTable(e, p)
  BY <1>2, <1>3, <1>4, <1>5, <1>6, <1>7, <1>8, <1>9, <1>10, <1>11, <1>12, <1>13, <1>14, <1>15,
     <1>16, <1>17, SMT DEF Exponents, PowerTable
<1> QED BY <1>1, <1>18

LEMMA PowerRatio ==
  ASSUME NEW e \in Exponents, NEW f \in Exponents, NEW p, NEW q,
         PowerTable(e, p), PowerTable(f, q), e <= f
  PROVE  \E r \in Nat : q = r * p
<1>1. f - e \in Exponents
  BY SMT DEF Exponents
<1>2. PICK r : r = 2^(f - e) /\ PowerTable(f - e, r)
  BY <1>1, PowerIs
<1>3. r \in Nat
  BY <1>2, SMT DEF PowerTable
<1>4. q = r * p
  BY <1>2, SMTT(60) DEF PowerTable, Exponents
<1> QED BY <1>3, <1>4

LEMMA PowerLess ==
  ASSUME NEW e \in Exponents, NEW f \in Exponents, NEW p, NEW q,
         PowerTable(e, p), PowerTable(f, q), f < e
  PROVE  /\ e - 1 \in Exponents
         /\ \E h \in Nat : p = 2 * h /\ q <= h /\ q > 0 /\ h = 2^(e - 1)
<1>1. e - 1 \in Exponents
  BY SMT DEF Exponents
<1>2. PICK h : h = 2^(e - 1) /\ PowerTable(e - 1, h)
  BY <1>1, PowerIs
<1>3. h \in Nat
  BY <1>2, SMT DEF PowerTable
<1>4. p = 2 * h /\ q <= h /\ q > 0
  BY <1>2, SMTT(60) DEF PowerTable, Exponents
<1> QED BY <1>1, <1>2, <1>3, <1>4

(* A number the format has room for: the halvings end at the first power    *)
(* that fits.                                                              *)
FitsPower(h, p) == h <= 2047 * p /\ h >= -2048 * p

LEMMA ExponentFits ==
  ASSUME NEW h \in Int, FitsPower(h, 2^15)
  PROVE  /\ Exponent(h) \in Exponents
         /\ FitsPower(h, 2^Exponent(h))
         /\ \A d \in 0..Exponent(h) - 1 : ~FitsPower(h, 2^d)
<1> DEFINE Room == {e \in Exponents : FitsPower(h, 2^e)}
<1>1. 15 \in Exponents /\ Exponents \subseteq Nat
  BY SMT DEF Exponents
<1>2. PICK e \in Room : \A d \in Room : ~(d < e)
  <2>1. Room \subseteq Nat /\ Room # {}
    BY <1>1
  <2>2. PICK e \in Room : \A d \in Room : ~(<<d, e>> \in OpToRel(<, Nat))
    <3> HIDE DEF Room
    <3> QED BY <2>1, NatLessThanWellFounded, WFMin
  <2>3. \A d \in Room : d < e => <<d, e>> \in OpToRel(<, Nat)
    BY <2>1 DEF OpToRel
  <2> QED BY <2>2, <2>3
<1> DEFINE Chosen(x) == /\ h <= 2047 * 2^x /\ h >= -2048 * 2^x
                        /\ \A d \in 0..x - 1 : h > 2047 * 2^d \/ h < -2048 * 2^d
<1>3. Exponent(h) = CHOOSE x \in 0..16 : Chosen(x)
  BY DEF Exponent
<1>4. ASSUME NEW x \in 0..16
      PROVE  Chosen(x) <=> FitsPower(h, 2^x) /\ \A d \in 0..x - 1 : ~FitsPower(h, 2^d)
  <2>1. ASSUME NEW d \in 0..x - 1
        PROVE (h > 2047 * 2^d \/ h < -2048 * 2^d) <=> ~FitsPower(h, 2^d)
    <3>1. d \in Exponents
      BY SMT DEF Exponents
    <3>2. PICK p : p = 2^d /\ PowerTable(d, p)
      BY <3>1, PowerIs
    <3>3. p \in Nat
      BY <3>2, SMT DEF PowerTable
    <3>4. (h > 2047 * p \/ h < -2048 * p) <=> ~FitsPower(h, p)
      BY <3>3, SMT DEF FitsPower
    <3> QED BY <3>2, <3>4
  <2> QED BY <2>1 DEF FitsPower
<1> HIDE DEF Chosen
<1>5. PICK c : c = Exponent(h)
  OBVIOUS
<1>6. /\ c \in 0..16 /\ FitsPower(h, 2^c)
      /\ \A d \in 0..c - 1 : ~FitsPower(h, 2^d)
  <2>1. e \in 0..16 /\ \A d \in 0..e - 1 : d \in Exponents /\ d < e
    BY SMT DEF Exponents
  <2>2. e \in 0..16 /\ Chosen(e)
    <3>1. \A d \in 0..e - 1 : ~FitsPower(h, 2^d)
      BY <1>2, <2>1
    <3> QED BY <1>2, <1>4, <2>1, <3>1
  <2>3. c \in 0..16 /\ Chosen(c)
    <3> QED BY <1>3, <1>5, <2>2
  <2> QED BY <1>4, <2>3
<1>7. c # 16
  <2>1. 15 \in 0..16 - 1
    BY SMT
  <2> QED BY <1>6, <2>1
<1>8. c \in Exponents
  BY <1>6, <1>7, SMT DEF Exponents
<1> QED BY <1>5, <1>6, <1>8

LEMMA QuotientBounds ==
  ASSUME NEW a \in Int, NEW b \in Int, b > 0, NEW q, q = a \div b
  PROVE  q \in Int /\ b * q <= a /\ a < b * q + b
  BY SMT

LEMMA Halves ==
  ASSUME NEW p \in Int, p > 0, NEW q \in Int, NEW a \in Int,
         (2 * p) * q <= a, a < (2 * p) * q + 2 * p
  PROVE  2 * (q * p) <= a /\ a < 2 * (q * p) + 2 * p
<1>1. (2 * p) * q = 2 * (q * p)
  BY SMT
<1>2. q * p \in Int
  BY SMT
<1> QED BY <1>1, <1>2, SMT

LEMMA AtMost ==
  ASSUME NEW p \in Int, p > 0, NEW q \in Int, NEW k \in Int, q * p < (k + 1) * p
  PROVE  q <= k
<1>1. ~(q >= k + 1)
  BY SMT
<1> QED BY <1>1, SMT

LEMMA NearestMantissa ==
  ASSUME NEW e \in Exponents, NEW p, PowerTable(e, p), NEW h \in Int, FitsPower(h, p)
  PROVE  /\ Nearest(h, p) \in Mantissas
         /\ 2 * h - 2 * (Nearest(h, p) * p) <= p
         /\ 2 * (Nearest(h, p) * p) - 2 * h <= p
<1>1. p \in Int /\ p > 0
  BY SMT DEF PowerTable
<1>2. h <= 2047 * p /\ h >= -2048 * p
  BY DEF FitsPower
<1>3. CASE h >= 0
  <2>1. PICK q : q = (2 * h + p) \div (2 * p)
    OBVIOUS
  <2>2. Nearest(h, p) = q
    BY <1>3, <2>1 DEF Nearest
  <2>3. q \in Int /\ (2 * p) * q <= 2 * h + p /\ 2 * h + p < (2 * p) * q + 2 * p
    <3>1. 2 * h + p \in Int /\ 2 * p \in Int /\ 2 * p > 0
      BY <1>1, SMT
    <3> QED BY <2>1, <3>1, QuotientBounds, Zenon
  <2>4. 2 * (q * p) <= 2 * h + p /\ 2 * h + p < 2 * (q * p) + 2 * p
    <3>1. 2 * h + p \in Int
      BY <1>1, SMT
    <3> QED BY <1>1, <2>3, <3>1, Halves, Zenon
  <2>5. PICK x \in Int : x = q * p
    BY <1>1, <2>3, SMT
  <2>6. x < 2048 * p /\ x > -p
    BY <1>1, <1>2, <1>3, <2>4, <2>5, SMT
  <2>7. q <= 2047
    <3>1. q * p < (2047 + 1) * p
      BY <2>5, <2>6, SMT
    <3> QED BY <1>1, <2>3, <3>1, AtMost, SMT
  <2>8. -q <= 0
    <3>1. (-q) * p < (0 + 1) * p
      BY <1>1, <2>3, <2>5, <2>6, SMT
    <3>2. -q \in Int
      BY <2>3, SMT
    <3> QED BY <1>1, <3>1, <3>2, AtMost, SMT
  <2>9. q \in Mantissas
    BY <2>3, <2>7, <2>8, SMT DEF Mantissas
  <2>10. 2 * h - 2 * (q * p) <= p /\ 2 * (q * p) - 2 * h <= p
    BY <1>1, <2>4, <2>5, SMT
  <2> QED BY <2>2, <2>9, <2>10
<1>4. CASE h < 0
  <2>1. PICK q : q = (p - 2 * h) \div (2 * p)
    OBVIOUS
  <2>2. Nearest(h, p) = -q
    <3>1. ~(h >= 0)
      BY <1>4, SMT
    <3> QED BY <2>1, <3>1 DEF Nearest
  <2>3. q \in Int /\ (2 * p) * q <= p - 2 * h /\ p - 2 * h < (2 * p) * q + 2 * p
    <3>1. p - 2 * h \in Int /\ 2 * p \in Int /\ 2 * p > 0
      BY <1>1, SMT
    <3> QED BY <2>1, <3>1, QuotientBounds, Zenon
  <2>4. 2 * (q * p) <= p - 2 * h /\ p - 2 * h < 2 * (q * p) + 2 * p
    <3>1. p - 2 * h \in Int
      BY <1>1, SMT
    <3> QED BY <1>1, <2>3, <3>1, Halves, Zenon
  <2>5. PICK x \in Int : x = q * p
    BY <1>1, <2>3, SMT
  <2>6. x < 2049 * p /\ x > -p
    BY <1>1, <1>2, <1>4, <2>4, <2>5, SMT
  <2>7. q <= 2048
    <3>1. q * p < (2048 + 1) * p
      BY <2>5, <2>6, SMT
    <3> QED BY <1>1, <2>3, <3>1, AtMost, SMT
  <2>8. -q <= 0
    <3>1. (-q) * p < (0 + 1) * p
      BY <1>1, <2>3, <2>5, <2>6, SMT
    <3>2. -q \in Int
      BY <2>3, SMT
    <3> QED BY <1>1, <3>1, <3>2, AtMost, SMT
  <2>9. -q \in Mantissas
    BY <2>3, <2>7, <2>8, SMT DEF Mantissas
  <2>10. 2 * h - 2 * ((-q) * p) <= p /\ 2 * ((-q) * p) - 2 * h <= p
    <3>1. (-q) * p = -x
      BY <1>1, <2>3, <2>5, SMT
    <3> QED BY <1>1, <2>4, <2>5, <3>1, SMT
  <2> QED BY <2>2, <2>9, <2>10
<1>5. h >= 0 \/ h < 0
  BY SMT
<1> QED BY <1>3, <1>4, <1>5

LEMMA FloatOctets ==
  ASSUME NEW e \in Exponents, NEW m \in Mantissas, NEW a, NEW b,
         a = (IF m < 0 THEN 128 ELSE 0) + 8 * e + (m % 2048) \div 256, b = m % 256
  PROVE  /\ a \in Octet /\ b \in Octet /\ (a \div 8) % 16 = e
         /\ (IF a >= 128 THEN -(2048 - (256 * (a % 8) + b)) ELSE 256 * (a % 8) + b) = m
<1>1. PICK x : x = m % 2048
  OBVIOUS
<1>2. x = IF m < 0 THEN m + 2048 ELSE m
  BY <1>1, SMT DEF Mantissas
<1>3. x \in 0..2047
  BY <1>2, SMT DEF Mantissas
<1>4. x % 256 = b
  BY <1>2, SMT DEF Mantissas
<1>5. PICK t \in 0..7 : t = x \div 256 /\ x = 256 * t + b
  <2>1. x \div 256 \in 0..7 /\ x = 256 * (x \div 256) + (x % 256)
    BY <1>3, SMT
  <2> QED BY <1>4, <2>1
<1>6. b \in 0..255
  BY SMT DEF Mantissas
<1>7. PICK c \in 0..31 : c = (IF m < 0 THEN 16 + e ELSE e) /\ a = 8 * c + t
  <2>1. a = (IF m < 0 THEN 128 ELSE 0) + 8 * e + t
    BY <1>1, <1>5
  <2>2. CASE m < 0
    BY <2>1, <2>2, SMT DEF Exponents
  <2>3. CASE ~(m < 0)
    BY <2>1, <2>3, SMT DEF Exponents
  <2> QED BY <2>2, <2>3
<1>8. a \in 0..255 /\ a \div 8 = c /\ a % 8 = t /\ (a >= 128 <=> c >= 16)
  BY <1>7, SMT
<1>9. c % 16 = e /\ (c >= 16 <=> m < 0)
  BY <1>7, SMT DEF Exponents
<1>10. (IF a >= 128 THEN -(2048 - (256 * (a % 8) + b)) ELSE 256 * (a % 8) + b)
         = (IF m < 0 THEN -(2048 - x) ELSE x)
  BY <1>5, <1>8, <1>9
<1>11. (IF m < 0 THEN -(2048 - x) ELSE x) = m
  BY <1>2, SMT DEF Mantissas
<1> QED BY <1>6, <1>8, <1>9, <1>10, <1>11 DEF Octet

(* Of the numbers with the same or a greater exponent, none is between a    *)
(* number and what it is rounded to.                                       *)
LEMMA CoarserGrid ==
  ASSUME NEW e \in Exponents, NEW f \in Exponents, NEW p, NEW q,
         PowerTable(e, p), PowerTable(f, q), e <= f, NEW h \in Int, NEW m \in Int, NEW k \in Int,
         2 * h - 2 * (m * p) <= p, 2 * (m * p) - 2 * h <= p
  PROVE  ~StrictlyNearer(k * q, h, m * p)
<1>1. PICK r \in Nat : q = r * p
  BY PowerRatio
<1>2. p \in Nat /\ p > 0
  BY SMT DEF PowerTable
<1>3. PICK j \in Int : j = k * r
  BY SMT
<1>4. k * q = j * p
  BY <1>1, <1>2, <1>3, SMT
<1>5. ASSUME NEW x \in Int, x * p > 0 PROVE x * p >= p
  BY <1>2, <1>5, SMT
<1>6. PICK u \in Int, v \in Int : u = j * p /\ v = m * p /\ (m - j) * p = v - u /\ (j - m) * p = u - v
  BY <1>2, <1>3, SMT
<1>7. (v > u => v - u >= p) /\ (u > v => u - v >= p)
  BY <1>2, <1>3, <1>5, <1>6, SMT
<1>8. ~((h <= u /\ u < v) \/ (v < u /\ u <= h))
  BY <1>2, <1>6, <1>7, SMT
<1> QED BY <1>4, <1>6, <1>8 DEF StrictlyNearer

(* Of those with a smaller exponent, neither: they end before the number.  *)
LEMMA FinerGrid ==
  ASSUME NEW e \in Exponents, NEW f \in Exponents, NEW p, NEW q,
         PowerTable(e, p), PowerTable(f, q), f < e, NEW h \in Int, NEW m \in Int, NEW k \in Mantissas,
         ~FitsPower(h, 2^(e - 1)),
         2 * h - 2 * (m * p) <= p, 2 * (m * p) - 2 * h <= p
  PROVE  ~StrictlyNearer(k * q, h, m * p)
<1>1. PICK g \in Nat : p = 2 * g /\ q <= g /\ q > 0 /\ g = 2^(e - 1)
  BY PowerLess
<1>2. q \in Nat
  BY SMT DEF PowerTable
<1>3. PICK u \in Int, v \in Int : u = k * q /\ v = m * p /\ v = 2 * (m * g)
  BY <1>1, <1>2, SMT DEF Mantissas
<1>4. u <= 2047 * g /\ u >= -2048 * g
  <2>1. u <= 2047 * q /\ u >= -2048 * q
    BY <1>2, <1>3, SMT DEF Mantissas
  <2> QED BY <1>1, <1>2, <2>1, SMT
<1>5. h > 2047 * g \/ h < -2048 * g
  <2>1. ~FitsPower(h, g)
    BY <1>1
  <2> QED BY <2>1, SMT DEF FitsPower
<1>6. CASE h > 2047 * g
  <2>1. m * g > 1023 * g
    BY <1>1, <1>3, <1>6, SMT
  <2>2. m > 1023
    BY <1>1, <1>2, <2>1, SMT
  <2>3. v >= 2048 * g
    BY <1>1, <1>2, <1>3, <2>2, SMT
  <2>4. ~((h <= u /\ u < v) \/ (v < u /\ u <= h))
    BY <1>1, <1>2, <1>4, <1>6, <2>3, SMT
  <2> QED BY <1>3, <2>4 DEF StrictlyNearer
<1>7. CASE h < -2048 * g
  <2>1. 2 * (m * g) < -2047 * g
    BY <1>1, <1>3, <1>7, SMT
  <2>2. m <= -1024
    BY <1>1, <1>2, <2>1, SMT
  <2>3. v <= -2048 * g
    BY <1>1, <1>2, <1>3, <2>2, SMT
  <2>4. ~((h <= u /\ u < v) \/ (v < u /\ u <= h))
    BY <1>1, <1>2, <1>4, <1>7, <2>3, SMT
  <2> QED BY <1>3, <2>4 DEF StrictlyNearer
<1> QED BY <1>5, <1>6, <1>7

(* Greater numbers, of one more halving, are sent as the greatest.          *)
Largest == 2047 * 2^15
Octet7F == 127
OctetFF == 255
TooLarge(h) == h > Largest /\ h <= 2047 * 2^16

LEMMA LargestFloat ==
  ASSUME NEW h \in Int, TooLarge(h)
  PROVE  /\ GetFloat16(h) = <<Octet7F, OctetFF>>
         /\ GetVariableFloat16(<<Octet7F, OctetFF>>) = Float(Largest)
<1>1. 2^15 = 32768 /\ 2^16 = 65536
  BY SMT
<1>2. h > 2047 * 32768 /\ h <= 2047 * 65536
  BY <1>1, SMT DEF TooLarge, Largest
<1> DEFINE Chosen(x) == /\ h <= 2047 * 2^x /\ h >= -2048 * 2^x
                        /\ \A d \in 0..x - 1 : h > 2047 * 2^d \/ h < -2048 * 2^d
<1>3. Exponent(h) = CHOOSE x \in 0..16 : Chosen(x)
  BY DEF Exponent
<1>4. ASSUME NEW d \in 0..15 PROVE h > 2047 * 2^d
  <2>1. PICK p : p = 2^d /\ PowerTable(d, p)
    BY PowerIs DEF Exponents
  <2>2. p \in Nat /\ p <= 32768
    BY <2>1, SMT DEF PowerTable
  <2>3. h > 2047 * p
    BY <1>2, <2>2, SMT
  <2> QED BY <2>1, <2>3
<1>5. 16 \in 0..16 /\ Chosen(16)
  <2>1. h <= 2047 * 2^16 /\ h >= -2048 * 2^16
    BY <1>1, <1>2, SMT
  <2>2. 16 - 1 = 15 /\ 16 \in 0..16
    BY SMT
  <2> QED BY <1>4, <2>1, <2>2
<1>6. \A x \in 0..15 : ~Chosen(x)
  <2> SUFFICES ASSUME NEW x \in 0..15 PROVE ~Chosen(x)
    OBVIOUS
  <2>1. PICK p : p = 2^x /\ PowerTable(x, p)
    BY PowerIs DEF Exponents
  <2>2. p \in Nat /\ p <= 32768
    BY <2>1, SMT DEF PowerTable
  <2>3. ~(h <= 2047 * p)
    BY <1>2, <2>2, SMT
  <2> QED BY <2>1, <2>3
<1> HIDE DEF Chosen
<1>7. PICK e : e = Exponent(h)
  OBVIOUS
<1>8. e \in 0..16 /\ Chosen(e)
  BY <1>3, <1>5, <1>7
<1>9. e > 15
  <2>1. e \notin 0..15
    BY <1>6, <1>8
  <2> QED BY <1>8, <2>1, SMT
<1>10. GetFloat16(h) = <<Octet7F, OctetFF>>
  BY <1>7, <1>9, SMT DEF GetFloat16, Octet7F, OctetFF
<1>11. GetVariableFloat16(<<Octet7F, OctetFF>>) = Float(Largest)
  <2>1. PICK o : o = <<Octet7F, OctetFF>>
    OBVIOUS
  <2>2. o[1] = 127 /\ o[2] = 255
    BY <2>1, SMT DEF Octet7F, OctetFF
  <2>3. 256 * (127 % 8) + 255 = 2047 /\ (127 \div 8) % 16 = 15 /\ ~(127 >= 128)
    BY SMT
  <2>4. GetVariableFloat16(o) = Float(Largest)
    BY <2>2, <2>3, SMT DEF GetVariableFloat16, Largest
  <2> QED BY <2>1, <2>4
<1> QED BY <1>10, <1>11

LEMMA NoneBeyondLargest ==
  ASSUME NEW h \in Int, TooLarge(h), NEW f \in Exponents, NEW k \in Mantissas
  PROVE  ~StrictlyNearer(k * 2^f, h, Largest)
<1>1. 2^15 = 32768
  BY SMT
<1>2. PICK q : q = 2^f /\ PowerTable(f, q)
  BY PowerIs
<1>3. q \in Nat /\ q <= 32768
  BY <1>2, SMT DEF PowerTable
<1>4. PICK u \in Int : u = k * q
  BY <1>3, SMT DEF Mantissas
<1>5. u <= 2047 * 32768
  <2>1. u <= 2047 * q
    BY <1>3, <1>4, SMT DEF Mantissas
  <2> QED BY <1>3, <2>1, SMT
<1>6. h > 2047 * 32768
  BY <1>1, SMT DEF TooLarge, Largest
<1>7. ~((h <= u /\ u < 2047 * 32768) \/ (2047 * 32768 < u /\ u <= h))
  BY <1>5, <1>6, SMT
<1>8. Largest = 2047 * 32768
  BY <1>1, SMT DEF Largest
<1> QED BY <1>2, <1>4, <1>7, <1>8, SMT DEF StrictlyNearer

FloatSample(s) ==
  s.type[1] = 9 /\ \E h \in Int : (FitsPower(h, 2^15) \/ TooLarge(h)) /\ s.value = Float(h)

LEMMA FloatGetDpt ==
  ASSUME NEW type, type[1] = 9, NEW v, NEW invert
  PROVE  GetDpt(type, v, invert) = GetFloat16(v.value[1])
<1>1. ~Scaled(type) /\ type # <<4, 1>>
  BY SMT DEF Scaled
<1>2. 9 \notin Basic /\ 9 \notin Standard /\ 9 \notin Functional
  BY SMT DEF Basic, Standard, Functional
<1> QED BY <1>1, <1>2, SMT DEF GetDpt

LEMMA FloatGetVariable ==
  ASSUME NEW type, type[1] = 9, NEW a, NEW b, NEW invert
  PROVE  GetVariable(type, <<a, b>>, invert) = GetVariableFloat16(<<a, b>>)
<1>1. 9 \notin Basic /\ 9 \notin Standard /\ 9 \notin Functional
  BY SMT DEF Basic, Standard, Functional
<1>2. ~TooSmall(9, <<a, b>>)
  BY <1>1, SMT DEF TooSmall
<1> QED BY <1>1, <1>2, SMT DEF GetVariable

LEMMA FloatsWithinConvert ==
  ASSUME NEW s, s.type[1] = 9, NEW h \in Int, FitsPower(h, 2^15), s.value = Float(h)
  PROVE  ConvertsWell(s)
<1>1. FitsPower(h, 2^15)
  OBVIOUS
<1>2. s.type[1] = 9 /\ s.value.value[1] = h
  BY DEF Float
<1>3. PICK e \in Exponents : e = Exponent(h) /\ FitsPower(h, 2^e) /\ \A d \in 0..e - 1 : ~FitsPower(h, 2^d)
  BY <1>1, ExponentFits
<1>4. PICK p : p = 2^e /\ PowerTable(e, p)
  BY <1>3, PowerIs
<1>5. PICK m \in Mantissas :
        m = Nearest(h, p) /\ 2 * h - 2 * (m * p) <= p /\ 2 * (m * p) - 2 * h <= p
  BY <1>3, <1>4, NearestMantissa
<1>6. PICK a, b : /\ a = (IF m < 0 THEN 128 ELSE 0) + 8 * e + (m % 2048) \div 256
                  /\ b = m % 256
  OBVIOUS
<1>7. /\ a \in Octet /\ b \in Octet /\ (a \div 8) % 16 = e
      /\ (IF a >= 128 THEN -(2048 - (256 * (a % 8) + b)) ELSE 256 * (a % 8) + b) = m
  BY <1>6, FloatOctets
<1>8. GetDpt(s.type, s.value, s.invert) = <<a, b>>
  <2>1. ~(e > 15)
    BY SMT DEF Exponents
  <2>2. GetFloat16(h) = <<a, b>>
    BY <1>3, <1>4, <1>5, <1>6, <2>1, SMT DEF GetFloat16
  <2> QED BY <1>2, <2>2, FloatGetDpt
<1>9. GetVariable(s.type, <<a, b>>, s.invert) = Float(m * p)
  <2>1. GetVariableFloat16(<<a, b>>) = Float(m * p)
    <3>1. PICK o : o = <<a, b>>
      OBVIOUS
    <3>2. o[1] = a /\ o[2] = b
      BY <3>1
    <3>3. GetVariableFloat16(o) =
            Float((IF a >= 128 THEN -(2048 - (256 * (a % 8) + b)) ELSE 256 * (a % 8) + b) * 2^e)
      BY <1>7, <3>2, SMT DEF GetVariableFloat16
    <3> QED BY <1>4, <1>7, <3>1, <3>3
  <2> QED BY <1>2, <2>1, FloatGetVariable
<1> PICK v : v = Float(m * p)
  OBVIOUS
<1>10. v = Float(m * p) /\ v.value[1] = m * p
  BY DEF Float
<1>11. Faithful(s, v)
  <2> SUFFICES ASSUME NEW f \in 0..15, NEW x \in NextTo(h, f)
      PROVE  ~StrictlyNearer(x, h, m * p)
    BY <1>2, <1>10, Zenon DEF Faithful
  <2>1. PICK k \in Mantissas : x = k * 2^f
    BY Zenon DEF NextTo
  <2>2. f \in Exponents
    BY DEF Exponents
  <2>3. PICK q : q = 2^f /\ PowerTable(f, q)
    BY <2>2, PowerIs
  <2>4. m \in Int /\ k \in Int
    BY SMT DEF Mantissas
  <2>5. CASE e <= f
    BY <1>4, <1>5, <2>1, <2>2, <2>3, <2>4, <2>5, CoarserGrid
  <2>6. CASE f < e
    <3>1. e - 1 \in 0..e - 1
      BY <2>2, <2>6, SMT DEF Exponents
    <3>2. ~FitsPower(h, 2^(e - 1))
      BY <1>3, <3>1
    <3> QED BY <1>4, <1>5, <2>1, <2>2, <2>3, <2>4, <2>6, <3>2, FinerGrid
  <2>7. e <= f \/ f < e
    BY <2>2, SMT DEF Exponents
  <2> QED BY <2>5, <2>6, <2>7
<1>12. Kept(s, v)
  BY <1>2 DEF Kept
<1>13. ~FitsInFirstByte(s.type)
  BY <1>2, SMT DEF FitsInFirstByte
<1>14. <<a, b>> \in Seq(Octet) /\ 2 = Len(<<a, b>>) /\ 2 \in Sizes
  <2>1. 2 \in Sizes
    BY SMT DEF Sizes
  <2> QED BY <1>7, <2>1
<1> QED BY <1>8, <1>9, <1>10, <1>11, <1>12, <1>13, <1>14, ConvertsByPayload

LEMMA LargeFloatsConvert ==
  ASSUME NEW s, s.type[1] = 9, NEW h \in Int, TooLarge(h), s.value = Float(h)
  PROVE  ConvertsWell(s)
<1>1. s.value.value[1] = h
  BY DEF Float
<1>2. GetDpt(s.type, s.value, s.invert) = <<Octet7F, OctetFF>>
  <2>1. GetDpt(s.type, s.value, s.invert) = GetFloat16(s.value.value[1])
    BY FloatGetDpt, Zenon
  <2>2. GetFloat16(h) = <<Octet7F, OctetFF>>
    BY LargestFloat, Zenon
  <2> QED BY <1>1, <2>1, <2>2, Zenon
<1>3. PICK v : v = Float(Largest)
  OBVIOUS
<1>4. GetVariable(s.type, <<Octet7F, OctetFF>>, s.invert) = v /\ v.value[1] = Largest
  <2>1. GetVariable(s.type, <<Octet7F, OctetFF>>, s.invert)
          = GetVariableFloat16(<<Octet7F, OctetFF>>)
    BY FloatGetVariable, SMTT(40)
  <2>2. GetVariableFloat16(<<Octet7F, OctetFF>>) = Float(Largest)
    BY LargestFloat, Zenon
  <2>3. Float(Largest).value[1] = Largest
    BY DEF Float
  <2> QED BY <1>3, <2>1, <2>2, <2>3, Zenon
<1>5. Faithful(s, v)
  <2> SUFFICES \A f \in 0..15 : \A x \in NextTo(h, f) : ~StrictlyNearer(x, h, Largest)
    <3>1. v.value[1] = Largest
      BY <1>4
    <3> QED BY <1>1, <3>1, Zenon DEF Faithful
  <2> TAKE f \in 0..15
  <2> TAKE x \in NextTo(h, f)
  <2>1. PICK k \in Mantissas : x = k * 2^f
    BY Zenon DEF NextTo
  <2>2. f \in Exponents
    BY DEF Exponents
  <2> QED BY <2>1, <2>2, NoneBeyondLargest, Zenon
<1>6. Kept(s, v)
  BY DEF Kept
<1>7. ~FitsInFirstByte(s.type)
  BY SMT DEF FitsInFirstByte
<1>8. <<Octet7F, OctetFF>> \in Seq(Octet) /\ 2 = Len(<<Octet7F, OctetFF>>) /\ 2 \in Sizes
  <2>1. 2 \in Sizes /\ Octet7F \in Octet /\ OctetFF \in Octet
    BY SMT DEF Sizes, Octet, Octet7F, OctetFF
  <2> QED BY <2>1
<1> QED BY <1>2, <1>4, <1>5, <1>6, <1>7, <1>8, ConvertsByPayload

LEMMA FloatSamplesConvert ==
  ASSUME NEW s, FloatSample(s)
  PROVE  ConvertsWell(s)
BY FloatsWithinConvert, LargeFloatsConvert, Zenon DEF FloatSample

-----------------------------------------------------------------------------
(* Percentages and angles, stretched to an octet.                           *)
LEMMA LowEnd ==
  ASSUME NEW n \in 0..360
  PROVE  Low16(Octets(n)) = n
<1>1. PICK o : o = Octets(n)
  OBVIOUS
<1>2. o[7] = (n \div 256^1) % 256 /\ o[8] = (n \div 256^0) % 256
  <2>1. 7 \in 1..8 /\ 8 \in 1..8 /\ 7 > 4 /\ 8 > 4 /\ 8 - 7 = 1 /\ 8 - 8 = 0
    BY SMT
  <2> QED BY <1>1, <2>1, SMT DEF Octets
<1>3. o[7] = (n \div 256) % 256 /\ o[8] = n % 256
  <2>1. 256^1 = 256 /\ 256^0 = 1
    BY SMT
  <2>2. n \div 1 = n
    BY SMT
  <2> QED BY <1>2, <2>1, <2>2, SMT
<1>4. 256 * o[7] + o[8] = n
  <2>1. 256 * ((n \div 256) % 256) + (n % 256) = n
    BY SMT
  <2> QED BY <1>3, <2>1
<1> QED BY <1>1, <1>4 DEF Low16

PercentSample(s) ==
  s.type = <<5, 1>> /\ \E n \in 0..100 : s.value = Integer(Octets(n))
AngleSample(s) ==
  s.type = <<5, 3>> /\ \E n \in 0..360 : s.value = Integer(Octets(n))

LEMMA PercentKept ==
  ASSUME NEW n \in 0..100
  PROVE  \E o \in Octet : Percent(n) % 256 = o /\ Nearest(100 * o, 255) = n
<1>1. PICK o : o = Percent(n)
  OBVIOUS
<1>2. o \in Octet /\ o % 256 = o /\ Nearest(100 * o, 255) = n
  <2>1. CASE n = 50
    BY <1>1, <2>1, SMT DEF Percent, Nearest, Octet
  <2>2. CASE n = 90
    BY <1>1, <2>2, SMT DEF Percent, Nearest, Octet
  <2>3. CASE n \notin {50, 90}
    <3>1. o = (510 * n + 100) \div 200
      BY <1>1, <2>3, SMT DEF Percent, Nearest
    <3>2. o \in 0..255 /\ 200 * o <= 510 * n + 100 /\ 510 * n + 100 < 200 * o + 200
      BY <3>1, SMT
    <3>3. Nearest(100 * o, 255) = (200 * o + 255) \div 510
      BY <3>2, SMT DEF Nearest
    <3>4. (200 * o + 255) \div 510 = n
      BY <3>2, SMT
    <3>5. o % 256 = o
      BY <3>2, SMT
    <3> QED BY <3>2, <3>3, <3>4, <3>5 DEF Octet
  <2> QED BY <2>1, <2>2, <2>3
<1> QED BY <1>1, <1>2

LEMMA AngleKept ==
  ASSUME NEW n \in 0..360
  PROVE  \E o \in Octet : /\ Nearest(255 * n, 360) % 256 = o
                          /\ \E w \in 0..360 : Nearest(360 * o, 255) = w /\ n - w \in -1..1
                                             /\ w - n \in -1..1
<1>1. PICK o : o = Nearest(255 * n, 360)
  OBVIOUS
<1>2. o = (510 * n + 360) \div 720
  BY <1>1, SMT DEF Nearest
<1>3. o \in 0..255 /\ 720 * o <= 510 * n + 360 /\ 510 * n + 360 < 720 * o + 720
  BY <1>2, SMT
<1>4. PICK w : w = Nearest(360 * o, 255)
  OBVIOUS
<1>5. w = (720 * o + 255) \div 510
  BY <1>3, <1>4, SMT DEF Nearest
<1>6. w \in 0..360 /\ 510 * w <= 720 * o + 255 /\ 720 * o + 255 < 510 * w + 510
  BY <1>3, <1>5, SMT
<1>7. n - w \in -1..1 /\ w - n \in -1..1
  BY <1>3, <1>6, SMT
<1>8. o % 256 = o
  BY <1>3, SMT
<1>9. o \in Octet
  BY <1>3 DEF Octet
<1>10. w \in 0..360
  BY <1>6
<1>11. Nearest(255 * n, 360) % 256 = o
  BY <1>1, <1>8, Zenon
<1>12. Nearest(360 * o, 255) = w
  BY <1>4, Zenon
<1> QED BY <1>7, <1>9, <1>10, <1>11, <1>12

LEMMA ScaledConversions ==
  ASSUME NEW type, Scaled(type), NEW v, NEW o, NEW invert
  PROVE  /\ GetDpt(type, v, invert) = <<GetScaled(type, Low16(v.value))>>
         /\ GetVariable(type, <<o>>, invert) = Integer(Octets(GetVariableScaled(type, o)))
         /\ type[1] # 9 /\ ~SignLost(type) /\ ~FitsInFirstByte(type)
<1>1. type[1] = 5 /\ type # <<4, 1>>
  BY SMT DEF Scaled
<1>2. ~SignLost(type) /\ ~FitsInFirstByte(type) /\ type[1] # 9
  BY <1>1, SMT DEF SignLost, FitsInFirstByte
<1>3. 5 \in Basic /\ 5 \notin Standard /\ 5 \notin Functional
  BY SMT DEF Basic, Standard, Functional
<1>4. GetDpt(type, v, invert) = <<GetScaled(type, Low16(v.value))>>
  BY <1>1, <1>3, SMT DEF GetDpt
<1>5. ~TooSmall(5, <<o>>)
  BY <1>3, BasicWidth, SMT DEF TooSmall
<1>6. GetVariable(type, <<o>>, invert) = Integer(GetVariableBasic(type, <<o>>))
  BY <1>1, <1>3, <1>5, SMT DEF GetVariable
<1>7. GetVariableBasic(type, <<o>>) = Octets(GetVariableScaled(type, o))
  BY <1>1, SMT DEF GetVariableBasic
<1> QED BY <1>2, <1>4, <1>6, <1>7

LEMMA ScaledSamplesConvert ==
  ASSUME NEW s, PercentSample(s) \/ AngleSample(s)
  PROVE  ConvertsWell(s)
<1>1. Scaled(s.type)
  BY SMT DEF PercentSample, AngleSample, Scaled
<1>2. PICK n \in 0..360 : s.value = Integer(Octets(n)) /\ (s.type = <<5, 1>> => n \in 0..100)
  <2>1. \A n \in 0..100 : n \in 0..360
    BY SMT
  <2>2. <<5, 1>> # <<5, 3>>
    BY SMT
  <2>3. CASE PercentSample(s)
    BY <2>1, <2>3 DEF PercentSample
  <2>4. CASE AngleSample(s)
    BY <2>2, <2>4 DEF AngleSample
  <2> QED BY <2>3, <2>4
<1>3. s.value.kind = "integer" /\ s.value.value = Octets(n) /\ Low16(s.value.value) = n
  BY <1>2, LowEnd DEF Integer
<1>4. PICK o \in Octet : /\ GetScaled(s.type, n) = o
                         /\ \E w \in 0..360 : /\ GetVariableScaled(s.type, o) = w
                                              /\ w - n \in -1..1 /\ (s.type = <<5, 1>> => w = n)
  <2>1. CASE s.type = <<5, 1>>
    <3>1. PICK o \in Octet : Percent(n) % 256 = o /\ Nearest(100 * o, 255) = n
      BY <1>2, <2>1, PercentKept
    <3>2. GetScaled(s.type, n) = o /\ GetVariableScaled(s.type, o) = n
      BY <2>1, <3>1, SMT DEF GetScaled, GetVariableScaled
    <3>3. n - n \in -1..1
      BY SMT
    <3> QED BY <3>2, <3>3
  <2>2. CASE s.type = <<5, 3>>
    <3>1. PICK o \in Octet :
            /\ Nearest(255 * n, 360) % 256 = o
            /\ \E w \in 0..360 : Nearest(360 * o, 255) = w /\ n - w \in -1..1 /\ w - n \in -1..1
      BY AngleKept
    <3>2. PICK w \in 0..360 : Nearest(360 * o, 255) = w /\ w - n \in -1..1
      BY <3>1, SMTT(40)
    <3>3. GetScaled(s.type, n) = o /\ GetVariableScaled(s.type, o) = w /\ s.type # <<5, 1>>
      BY <2>2, <3>1, <3>2, SMT DEF GetScaled, GetVariableScaled
    <3> QED BY <3>2, <3>3, ZenonT(40)
  <2> QED BY <2>1, <2>2 DEF PercentSample, AngleSample
<1>5. PICK w \in 0..360 : /\ GetVariableScaled(s.type, o) = w
                          /\ w - n \in -1..1 /\ (s.type = <<5, 1>> => w = n)
  BY <1>4
<1>6. /\ GetDpt(s.type, s.value, s.invert) = <<o>>
      /\ GetVariable(s.type, <<o>>, s.invert) = Integer(Octets(w))
  BY <1>1, <1>3, <1>4, <1>5, ScaledConversions
<1> PICK v : v = Integer(Octets(w))
  OBVIOUS
<1>7. v.kind = "integer" /\ v.value = Octets(w) /\ Low16(v.value) = w
  BY LowEnd DEF Integer
<1>8. ~SignLost(s.type) /\ s.type[1] # 9 /\ ~FitsInFirstByte(s.type)
  BY <1>1, ScaledConversions
<1>9. Same(s.type, v.value, s.value.value)
  <2>1. CASE s.type = <<5, 3>>
    BY <1>3, <1>5, <1>7, <1>8, <2>1, Zenon DEF Same
  <2>2. CASE s.type # <<5, 3>>
    <3>1. s.type = <<5, 1>>
      BY <1>1, <2>2 DEF Scaled
    <3> QED BY <1>3, <1>5, <1>7, <1>8, <2>2, <3>1, Zenon DEF Same
  <2> QED BY <2>1, <2>2
<1>10. Kept(s, v)
  BY <1>3, <1>7, <1>9 DEF Kept
<1> QED BY <1>6, <1>8, <1>10, OneOctet, ConvertsByPayload

-----------------------------------------------------------------------------
(* The values of all types.                                                 *)
Direct(s) ==
  \/ OctetSample(s) \/ BitsSample(s) \/ FlagSample(s) \/ Binary32Sample(s)
  \/ FloatSample(s) \/ PercentSample(s) \/ AngleSample(s) \/ TextSample(s)

(* getVariable undoes getDpt for every such value, where the run has some   *)
(* of each type: the 2^64 numbers of eight octets, the 2^27 hundredths of    *)
(* DPT-9, each percentage.                                                 *)
THEOREM DirectValuesConvert ==
  \A s : Direct(s) => ConvertsWell(s)
BY OctetSamplesConvert, BitsSamplesConvert, FlagSamplesConvert, Binary32SamplesConvert,
   FloatSamplesConvert, ScaledSamplesConvert, TextSamplesConvert, Zenon DEF Direct

(* The assumption of the theorems below: only texts have to be looked at.   *)
SamplesKnown == \A s \in Samples : Direct(s) \/ (s.type[1] # 9 /\ Converts(s))
LEMMA KnownConvert == SamplesKnown => AllConvertWell
<1> SUFFICES ASSUME SamplesKnown, NEW s \in Samples PROVE ConvertsWell(s)
  BY DEF AllConvertWell
<1>1. CASE Direct(s)
  BY <1>1, DirectValuesConvert
<1>2. CASE s.type[1] # 9 /\ Converts(s)
  BY <1>2, Zenon DEF ConvertsWell, Faithful
<1> QED BY <1>1, <1>2 DEF SamplesKnown

-----------------------------------------------------------------------------
(* The frame is made for one sample, operation and group, and differs from  *)
(* interface to interface only by its source.                               *)
Payload(s) == GetDpt(s.type, s.value, s.invert)
Operations == {GroupValueWrite, GroupValueResponse}
Framed(f, s, op, g) ==
  /\ f \in FrameSet(Payload(s)) /\ f.fits = FitsInFirstByte(s.type)
  /\ f.operation = op /\ f.destination = ParseGroupAddress(g)
IsSent(p, a, s, op, g) ==
  \E c, f : /\ Framed(f, s, op, g) /\ f.source = a /\ IsBinary(c, f)
            /\ Len(c) \in SentLengths /\ IsPacket(p, c)
IsBack(p, s, op, g) ==
  \E n \in Extras : \E f, c, o :
    /\ Framed(f, s, op, g) /\ f.source \in Elements(Addresses) /\ IsBinary(c, f)
    /\ Len(c) \in SentLengths /\ IsIndication(o, c, n) /\ IsPacket(p, o)

DeliveryInv ==
  /\ sample \in Samples /\ operation \in Operations /\ group \in Groups
  /\ stage = "convert" => sent = <<>>
  /\ stage \in {"send", "relay", "parse", "end"} => Framed(frame, sample, operation, group)
  /\ sent \in Seq(Seq(Octet)) /\ Len(sent) <= Len(Addresses)
  /\ stage = "send" => Len(sent) < Len(Addresses)
  /\ stage = "relay" => Len(sent) = Len(Addresses)
  /\ \A i \in 1..Len(sent) : IsSent(sent[i], Addresses[i], sample, operation, group)
  /\ stage = "parse" => IsBack(arrived, sample, operation, group)
  /\ Delivered /\ FaithfulFloat

LEMMA SamplesConvert ==
  ASSUME AllConvertWell, NEW s \in Samples
  PROVE  IsPayload(Payload(s), FitsInFirstByte(s.type))
<1>1. PICK payload : payload = Payload(s)
  OBVIOUS
<1>2. /\ payload \in Seq(0..255) /\ Len(payload) \in 1..254
      /\ FitsInFirstByte(s.type) => Len(payload) = 1 /\ payload[1] < 64
  BY <1>1 DEF AllConvertWell, ConvertsWell, Converts, Payload
<1>3. payload \in Seq(Octet) /\ Len(payload) \in Sizes
  BY <1>2 DEF Octet, Sizes
<1>4. ASSUME FitsInFirstByte(s.type) PROVE payload[1] \in 0..63
  <2>1. 1 \in 1..1
    BY SMT
  <2>2. PICK own \in Octet : own = payload[1]
    BY <1>2, <1>3, <1>4, <2>1, ElementOfSeq
  <2>3. own < 64
    BY <1>2, <1>4, <2>2
  <2>4. own \in 0..63
    BY <2>3, SMT DEF Octet
  <2> QED BY <2>2, <2>4
<1> QED BY <1>1, <1>2, <1>3, <1>4 DEF IsPayload

LEMMA AddressFacts ==
  /\ Len(Addresses) \in Nat /\ Len(Addresses) > 0 /\ DOMAIN Addresses = 1..Len(Addresses)
  /\ \A i \in 1..Len(Addresses) : Addresses[i] \in Word16
<1>1. /\ Len(Addresses) \in Nat /\ Len(Addresses) > 0 /\ DOMAIN Addresses = 1..Len(Addresses)
      /\ \A i \in 1..Len(Addresses) : Addresses[i] \in Nat
  BY AddressesAssumption, SMT DEF AddressesAssumption
<1>2. \A i \in 1..Len(Addresses) : Addresses[i] < 65536
  BY <1>1, AddressesAssumption, SMT DEF AddressesAssumption
<1> QED BY <1>1, <1>2, WordBounds, SMT

LEMMA DeliveryInit == Init => DeliveryInv
<1> SUFFICES ASSUME Init PROVE DeliveryInv
  OBVIOUS
<1>1. Len(Addresses) \in Nat /\ Len(sent) = 0 /\ sent \in Seq(Seq(Octet))
  BY AddressFacts DEF Init
<1>2. 1..0 = {} /\ 0 <= Len(Addresses)
  BY <1>1, SMT
<1> QED BY <1>1, <1>2 DEF Init, DeliveryInv, Delivered, FaithfulFloat, Operations

LEMMA WriteStep ==
  ASSUME AllConvertWell, DeliveryInv, Write
  PROVE  DeliveryInv'
<1>1. PICK s \in Samples, op \in Operations, g \in Groups :
        s = sample /\ op = operation /\ g = group
  BY DEF DeliveryInv
<1>2. sample' = s /\ operation' = op /\ group' = g /\ sent = <<>> /\ sent' = <<>> /\ stage' = "send"
  BY <1>1 DEF Write, DeliveryInv
<1>3. IsPayload(Payload(s), FitsInFirstByte(s.type))
  BY SamplesConvert
<1>4. Payload(s) # <<>>
  <2>1. Len(Payload(s)) # 0
    <3>1. 0 \notin Sizes
      BY SMT DEF Sizes
    <3> QED BY <1>3, <3>1 DEF IsPayload
  <2> QED BY <2>1
<1>5. frame' = [operation |-> op, source |-> 0, destination |-> ParseGroupAddress(g),
                fits |-> FitsInFirstByte(s.type), payload |-> Payload(s),
                tpci |-> 0, raw |-> <<>>]
  BY <1>1, <1>4 DEF Write, Frame, Payload, FitsInFirstByte
<1>6. /\ ParseGroupAddress(g) \in Word16 /\ 0 \in Word16 /\ <<>> \in Seq(Octet)
      /\ FitsInFirstByte(s.type) \in BOOLEAN
  <2>1. 0 \in Word16
    BY WordBounds, SMT
  <2> QED BY <2>1, GroupKept DEF FitsInFirstByte
<1>7. Framed(frame', s, op, g)
  BY <1>5, <1>6 DEF Framed, FrameSet, Operations
<1>8. Len(Addresses) \in Nat /\ Len(Addresses) > 0 /\ Len(sent') = 0
  BY <1>2, AddressFacts
<1>9. 1..0 = {} /\ 0 <= Len(Addresses) /\ 0 < Len(Addresses)
  BY <1>8, SMT
<1> QED BY <1>2, <1>7, <1>8, <1>9 DEF DeliveryInv, Delivered, FaithfulFloat

LEMMA SendStep ==
  ASSUME AllConvertWell, DeliveryInv, SendPacket
  PROVE  DeliveryInv'
<1>1. PICK s \in Samples, op \in Operations, g \in Groups :
        s = sample /\ op = operation /\ g = group
  BY DEF DeliveryInv
<1>2. sample' = s /\ operation' = op /\ group' = g
  BY <1>1 DEF SendPacket
<1>3. IsPayload(Payload(s), FitsInFirstByte(s.type))
  BY SamplesConvert
<1>4. Framed(frame, s, op, g) /\ sent \in Seq(Seq(Octet)) /\ Len(sent) < Len(Addresses)
  BY <1>1 DEF SendPacket, DeliveryInv
<1>5. Len(sent) \in Nat /\ Len(Addresses) \in Nat
  BY <1>4, AddressFacts
<1>6. PICK i \in 1..Len(Addresses) : i = Len(sent) + 1
  BY <1>4, <1>5, SMT
<1>7. Addresses[i] \in Word16
  BY AddressFacts
<1>8. PICK own : own = SetSourceAddress(frame, Addresses[i])
  OBVIOUS
<1>9. /\ own \in FrameSet(Payload(s)) /\ own.raw = <<>> /\ own.source = Addresses[i]
      /\ Framed(own, s, op, g)
  <2>1. PICK a \in Word16 : a = Addresses[i]
    BY <1>7
  <2> DEFINE f == frame
  <2>2. /\ f \in FrameSet(Payload(s)) /\ f.fits = FitsInFirstByte(s.type)
        /\ f.operation = op /\ f.destination = ParseGroupAddress(g)
    BY <1>4 DEF Framed
  <2> HIDE DEF f
  <2>3. PICK h : h = [f EXCEPT !.source = a]
    OBVIOUS
  <2>4. /\ h \in FrameSet(Payload(s)) /\ h.source = a
        /\ h.fits = f.fits /\ h.operation = f.operation /\ h.destination = f.destination
    BY <2>2, <2>3 DEF FrameSet
  <2>5. own = [h EXCEPT !.raw = <<>>]
    BY <1>8, <2>1, <2>2, <2>3 DEF SetSourceAddress, f, FrameSet
  <2>6. /\ own \in FrameSet(Payload(s)) /\ own.raw = <<>> /\ own.source = h.source
        /\ own.fits = h.fits /\ own.operation = h.operation /\ own.destination = h.destination
    <3>1. <<>> \in Seq(Octet)
      OBVIOUS
    <3> QED BY <2>4, <2>5, <3>1 DEF FrameSet
  <2> QED BY <2>1, <2>2, <2>4, <2>6 DEF Framed
<1>10. PICK c : c = CemiBinary(own) /\ IsBinary(c, own)
  BY <1>3, <1>9, CemiOctets DEF Framed
<1>11. GetBinary(own) = c
  BY <1>9, <1>10 DEF GetBinary
<1>12. Len(c) \in SentLengths
  BY <1>10, FrameBounds DEF IsBinary
<1>13. frame' = [own EXCEPT !.raw = c]
  BY <1>6, <1>8, <1>11 DEF SendPacket
<1>14. Framed(frame', s, op, g)
  <2>1. c \in Seq(Octet)
    BY <1>10 DEF IsBinary
  <2> QED BY <1>9, <1>13, <2>1 DEF Framed, FrameSet
<1>15. PICK p : /\ p = TunnelingRequestBinary(i % 256, (10 * i) % 256, c)
                /\ IsPacket(p, c)
  <2>1. i \in Nat /\ 10 * i \in Nat
    BY SMT
  <2>2. i % 256 \in Octet /\ (10 * i) % 256 \in Octet
    BY <2>1, Remainder
  <2>3. c \in Seq(Octet) /\ Len(c) \in FrameLengths
    BY <1>10, <1>12, FrameBounds DEF IsBinary
  <2> QED BY <2>2, <2>3, PacketOctets
<1>16. sent' = Append(sent, p)
  BY <1>6, <1>8, <1>11, <1>15 DEF SendPacket
<1>17. /\ sent' \in Seq(Seq(Octet)) /\ Len(sent') = Len(sent) + 1
       /\ \A k \in 1..Len(sent) : sent'[k] = sent[k]
       /\ sent'[Len(sent) + 1] = p
  <2>1. p \in Seq(Octet)
    BY <1>15 DEF IsPacket
  <2> QED BY <1>4, <1>16, <2>1, AppendProperties
<1>18. ASSUME NEW k \in 1..Len(sent') PROVE IsSent(sent'[k], Addresses[k], s, op, g)
  <2>1. CASE k = i
    <3>1. IsSent(p, Addresses[i], s, op, g)
      BY <1>9, <1>10, <1>12, <1>15 DEF IsSent
    <3> QED BY <1>6, <1>17, <2>1, <3>1
  <2>2. CASE k # i
    <3>1. k \in 1..Len(sent)
      BY <1>5, <1>6, <1>17, <2>2, SMT
    <3> QED BY <1>1, <1>17, <3>1 DEF DeliveryInv
  <2> QED BY <2>1, <2>2
<1>19. /\ stage' \in {"send", "relay"} /\ Len(sent') = i
       /\ stage' = IF i = Len(Addresses) THEN "relay" ELSE "send"
  BY <1>6, <1>17 DEF SendPacket
<1>20. i <= Len(Addresses) /\ (i # Len(Addresses) => i < Len(Addresses))
  BY <1>5, SMT
<1> QED BY <1>2, <1>14, <1>17, <1>18, <1>19, <1>20 DEF DeliveryInv, Delivered, FaithfulFloat

LEMMA RelayStep ==
  ASSUME DeliveryInv, NEW i \in DOMAIN Addresses, NEW n \in Informations, Relay(i, n)
  PROVE  DeliveryInv'
<1>1. PICK s \in Samples, op \in Operations, g \in Groups :
        s = sample /\ op = operation /\ g = group
  BY DEF DeliveryInv
<1>2. /\ sample' = s /\ operation' = op /\ group' = g /\ frame' = frame /\ sent' = sent
      /\ stage = "relay" /\ stage' = "parse"
  BY <1>1 DEF Relay
<1>3. i \in 1..Len(Addresses) /\ n \in Extras
  BY AddressFacts, InformationsAssumption DEF InformationsAssumption, Extras
<1>4. Len(sent) = Len(Addresses)
  BY <1>2 DEF DeliveryInv
<1>5. IsSent(sent[i], Addresses[i], s, op, g)
  BY <1>1, <1>3, <1>4 DEF DeliveryInv
<1>6. PICK c, f : /\ Framed(f, s, op, g) /\ f.source = Addresses[i] /\ IsBinary(c, f)
                  /\ Len(c) \in SentLengths /\ IsPacket(sent[i], c)
  BY <1>5 DEF IsSent
<1>7. PICK m \in SentLengths : m = Len(c)
  BY <1>6
<1>8. m \in FrameLengths /\ n + m \in FrameLengths
  BY <1>3, FrameBounds
<1>9. PICK o : o = Indication(sent[i], n) /\ IsIndication(o, c, n)
  BY <1>3, <1>6, <1>7, <1>8, IndicationOctets DEF IsBinary
<1>10. 7 \in Octet /\ 0 \in Octet
  BY SMT DEF Octet
<1>11. o \in Seq(Octet) /\ Len(o) \in FrameLengths
  BY <1>7, <1>8, <1>9 DEF IsIndication
<1>12. IsPacket(arrived', o)
  BY <1>9, <1>10, <1>11, PacketOctets DEF Relay
<1>13. f.source \in Elements(Addresses)
  BY <1>6 DEF Elements
<1>14. IsBack(arrived', s, op, g)
  BY <1>3, <1>6, <1>9, <1>12, <1>13 DEF IsBack
<1>15. Framed(frame', s, op, g)
  BY <1>1, <1>2 DEF DeliveryInv
<1> QED BY <1>1, <1>2, <1>14, <1>15 DEF DeliveryInv, Delivered, FaithfulFloat

LEMMA ReceiveStep ==
  ASSUME AllConvertWell, DeliveryInv, Receive
  PROVE  DeliveryInv'
<1>1. PICK s \in Samples, op \in Operations, g \in Groups :
        s = sample /\ op = operation /\ g = group
  BY DEF DeliveryInv
<1>2. /\ sample' = s /\ operation' = op /\ group' = g /\ frame' = frame /\ sent' = sent
      /\ stage = "parse" /\ stage' = "end"
  BY <1>1 DEF Receive
<1>3. IsBack(arrived, s, op, g)
  BY <1>1, <1>2 DEF DeliveryInv
<1>4. PICK n \in Extras : \E f, c, o :
        /\ Framed(f, s, op, g) /\ f.source \in Elements(Addresses) /\ IsBinary(c, f)
        /\ Len(c) \in SentLengths /\ IsIndication(o, c, n) /\ IsPacket(arrived, o)
  BY <1>3 DEF IsBack
<1>5. PICK f, c, o :
        /\ Framed(f, s, op, g) /\ f.source \in Elements(Addresses) /\ IsBinary(c, f)
        /\ Len(c) \in SentLengths /\ IsIndication(o, c, n) /\ IsPacket(arrived, o)
  BY <1>4
<1>6. f \in FrameSet(Payload(s)) /\ IsPayload(Payload(s), f.fits) /\ Len(c) \in FrameLengths
  BY <1>5, SamplesConvert, FrameBounds DEF Framed
<1>7. ~ParsePacket(arrived).fails /\ IsParsed(ParsePacket(arrived).cemi, f)
  BY <1>5, <1>6, PacketKept
<1>8. parsed' = ParsePacket(arrived)
  BY DEF Receive
<1>9. /\ ~parsed'.fails
      /\ parsed'.cemi.operation = op /\ parsed'.cemi.destination = ParseGroupAddress(g)
      /\ parsed'.cemi.source \in Elements(Addresses) /\ parsed'.cemi.payload = Payload(s)
  BY <1>5, <1>7, <1>8 DEF IsParsed, Framed, FrameSet
<1>10. value' = GetVariable(s.type, Payload(s), s.invert)
  BY <1>1, <1>9 DEF Receive
<1>11. Kept(s, value')
  BY <1>10 DEF AllConvertWell, ConvertsWell, Converts, Payload
<1>12. Delivered'
  BY <1>2, <1>9, <1>11, GroupKept DEF Delivered
<1>13. FaithfulFloat'
  <2>1. Faithful(s, value')
    BY <1>10 DEF AllConvertWell, ConvertsWell, Converts, Payload
  <2> QED BY <1>2, <2>1 DEF FaithfulFloat
<1>14. Framed(frame', s, op, g)
  BY <1>1, <1>2 DEF DeliveryInv
<1> QED BY <1>1, <1>2, <1>12, <1>13, <1>14 DEF DeliveryInv

LEMMA InvGivesWellFormed ==
  ASSUME DeliveryInv
  PROVE  WellFormed
<1> SUFFICES ASSUME NEW i \in 1..Len(sent)
    PROVE  /\ IsOctets(sent[i]) /\ Word(sent[i], 5) = Len(sent[i])
           /\ sent[i][19] = Len(sent[i]) - 20
           /\ Word(sent[i], 15) = Addresses[i]
  <2>1. DOMAIN sent = 1..Len(sent)
    BY DEF DeliveryInv
  <2> QED BY <2>1, Zenon DEF WellFormed
<1>1. PICK s, op, g : s = sample /\ op = operation /\ g = group
  OBVIOUS
<1>2. IsSent(sent[i], Addresses[i], s, op, g)
  BY <1>1 DEF DeliveryInv
<1>3. PICK p : p = sent[i]
  OBVIOUS
<1>4. PICK c, f : /\ f.source = Addresses[i] /\ IsBinary(c, f)
                  /\ Len(c) \in SentLengths /\ IsPacket(p, c)
  BY <1>2, <1>3 DEF IsSent
<1>5. PICK m \in SentLengths : m = Len(c)
  BY <1>4
<1>6. m \in Nat /\ m >= 11
  BY SMT DEF SentLengths
<1>7. IsOctets(p)
  <2>1. \A k \in DOMAIN p : p[k] \in Octet
    BY <1>4 DEF IsPacket
  <2> QED BY <2>1, Zenon DEF IsOctets, Octet
<1>8. \A k \in 5..9 : p[10 + k] = c[k]
  <2>1. \A k \in 5..9 : k \in 1..m
    BY <1>6, SMT
  <2> QED BY <1>4, <1>5, <2>1, SMTT(40) DEF IsPacket
<1>9. p[15] = c[5] /\ p[16] = c[6] /\ p[19] = c[9]
  <2>1. p[10 + 5] = c[5] /\ p[10 + 6] = c[6] /\ p[10 + 9] = c[9]
    <3>1. 5 \in 5..9 /\ 6 \in 5..9 /\ 9 \in 5..9
      BY SMT
    <3> QED BY <1>8, <3>1
  <2>2. 10 + 5 = 15 /\ 10 + 6 = 16 /\ 10 + 9 = 19
    BY SMT
  <2> QED BY <2>1, <2>2, Zenon
<1>10. Word(p, 15) = f.source
  <2>1. Word(p, 15) = 256 * p[15] + p[16] /\ Word(c, 5) = 256 * c[5] + c[6]
    BY SMT DEF Word
  <2> QED BY <1>4, <1>9, <2>1 DEF IsBinary
<1>11. p[19] = Len(p) - 20
  <2>1. PICK l : l = LengthOf(f.fits, f.payload) /\ c[9] = l /\ m = 10 + l
    BY <1>4, <1>5 DEF IsBinary
  <2>2. Len(p) = 10 + m
    BY <1>4, <1>5 DEF IsPacket
  <2>3. l \in Nat
    BY <1>4, <2>1, LengthBounds DEF IsBinary
  <2>4. l = (10 + (10 + l)) - 20
    BY <2>3, SMT
  <2> QED BY <1>9, <2>1, <2>2, <2>4
<1> QED BY <1>3, <1>4, <1>7, <1>10, <1>11 DEF IsPacket

(* DeliveryInv is inductive.                                                *)
THEOREM DeliveryInductive ==
  ASSUME SamplesKnown
  PROVE  Spec => []DeliveryInv
<1>1. AllConvertWell
  BY KnownConvert
<1>2. DeliveryInv /\ [Next]_vars => DeliveryInv'
  <2> SUFFICES ASSUME DeliveryInv, [Next]_vars PROVE DeliveryInv'
    OBVIOUS
  <2>1. CASE Write
    BY <1>1, <2>1, WriteStep
  <2>2. CASE SendPacket
    BY <1>1, <2>2, SendStep
  <2>3. CASE Receive
    BY <1>1, <2>3, ReceiveStep
  <2>4. ASSUME NEW i \in DOMAIN Addresses, NEW n \in Informations, Relay(i, n)
        PROVE  DeliveryInv'
    BY <2>4, RelayStep
  <2>5. CASE UNCHANGED vars
    BY <2>5, Zenon DEF vars, DeliveryInv, Delivered, FaithfulFloat
  <2> QED BY <2>1, <2>2, <2>3, <2>4, <2>5 DEF Next
<1> QED BY <1>2, DeliveryInit, PTL DEF Spec

(* Every packet sent is well formed, however many interfaces share the      *)
(* frame and keep its octets: Cemi::getBinary, KnxIpPacket::getBinary and   *)
(* Cemi::setSourceAddress.                                                 *)
THEOREM PacketsWellFormed ==
  ASSUME SamplesKnown
  PROVE  Spec => []WellFormed
BY DeliveryInductive, InvGivesWellFormed, PTL

(* What is written to any group address arrives, as the value, operation    *)
(* and address it was, through any interface and with any additional        *)
(* information.                                                            *)
THEOREM ValuesAreDelivered ==
  ASSUME SamplesKnown
  PROVE  Spec => []Delivered
<1>1. DeliveryInv => Delivered
  BY DEF DeliveryInv
<1> QED BY <1>1, DeliveryInductive, PTL

(* A number of DPT-9 arrives as itself when the format has it, and as a     *)
(* neighbour there otherwise: the halving of getDpt's exponent, its         *)
(* rounding and its packing of sign, exponent and mantissa never step over   *)
(* another number of the format.                                           *)
THEOREM FloatsAreFaithful ==
  ASSUME SamplesKnown
  PROVE  Spec => []FaithfulFloat
<1>1. DeliveryInv => FaithfulFloat
  BY DEF DeliveryInv
<1> QED BY <1>1, DeliveryInductive, PTL
=============================================================================
