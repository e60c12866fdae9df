---------------------------- MODULE CodecProofs ----------------------------
(***************************************************************************)
(* What is written as bytes is read back, for every packet and every event *)
(* that the types of C++ can hold.                                         *)
(***************************************************************************)
EXTENDS Codec, SequenceTheorems, TLAPS

(* A byte cut off and pushed again gives the number back.                  *)
LEMMA ShrLow ==
  ASSUME NEW n \in Int
  PROVE  /\ Push(Shr(n), Low(n)) = n
         /\ Shr(n) \in Int /\ Low(n) \in Byte
         /\ n \in Nat => Shr(n) \in Nat
BY DEF Push, Shr, Low, Byte

(* What shifts and masks leave of an integer is an integer.                *)
LEMMA PartsAreNumbers ==
  ASSUME NEW n \in Int
  PROVE  Low(n) \in Int /\ Shr(n) \in Int /\ Shr2(n) \in Int /\ Shr4(n) \in Int
BY ShrLow DEF Shr, Low, Shr2, Shr4

(* Four bytes pushed after what is above them.                             *)
LEMMA Push4 ==
  ASSUME NEW n \in Int
  PROVE  Push(Push(Push(Push(Shr4(n), Low(Shr(Shr2(n)))), Low(Shr2(n))), Low(Shr(n))), Low(n)) = n
<1>1. Push(Shr4(n), Low(Shr(Shr2(n)))) = Shr(Shr2(n))
  BY ShrLow, PartsAreNumbers DEF Shr2, Shr4
<1>2. Push(Shr(Shr2(n)), Low(Shr2(n))) = Shr2(n)
  BY ShrLow, PartsAreNumbers
<1>3. Push(Shr2(n), Low(Shr(n))) = Shr(n)
  BY ShrLow DEF Shr2
<1>4. QED
  BY <1>1, <1>2, <1>3, ShrLow

(* fromBytes reads back the uint32 that toBytes wrote, ...                 *)
LEMMA FourBytesReadBack ==
  ASSUME NEW n \in UInt32Range, NEW s, NEW o \in Nat,
         \A i \in 1 .. 4 : s[o + i] = Big4(n)[i]
  PROVE  BigAt4(s, o) = n
<1>1. n \in Nat /\ Shr4(n) = 0
  BY DEF UInt32Range
<1>2. /\ s[o + 1] = Low(Shr(Shr2(n))) /\ s[o + 2] = Low(Shr2(n))
      /\ s[o + 3] = Low(Shr(n)) /\ s[o + 4] = Low(n)
  BY DEF Big4, Big2
<1>3. Push(0, s[o + 1]) = s[o + 1]
  <2>1. Low(Shr(Shr2(n))) \in Int
    BY <1>1, ShrLow, PartsAreNumbers DEF Byte
  <2>2. QED
    BY <1>2, <2>1 DEF Push
<1>4. QED
  BY <1>1, <1>2, <1>3, Push4 DEF BigAt4

(* ... and the uint64.                                                     *)
LEMMA EightBytesReadBack ==
  ASSUME NEW n \in UInt64Range, NEW s, NEW o \in Nat,
         \A i \in 1 .. 8 : s[o + i] = Big8(n)[i]
  PROVE  BigAt8(s, o) = n
<1>1. n \in Nat /\ Shr4(n) \in Nat /\ Shr4(n) \in UInt32Range
  BY ShrLow DEF UInt64Range, UInt32Range, Shr2, Shr4
<1>2. \A i \in 1 .. 4 : s[o + i] = Big4(Shr4(n))[i]
  BY DEF Big8, Big4, Big2
<1>3. BigAt4(s, o) = Shr4(n)
  BY <1>1, <1>2, FourBytesReadBack
<1>4. /\ s[o + 5] = Low(Shr(Shr2(n))) /\ s[o + 6] = Low(Shr2(n))
      /\ s[o + 7] = Low(Shr(n)) /\ s[o + 8] = Low(n)
  BY DEF Big8, Big4, Big2
<1>5. QED
  BY <1>1, <1>3, <1>4, Push4 DEF BigAt8

(* Where the parts of a sequence are.                                      *)
LEMMA ThreeParts ==
  ASSUME NEW S, NEW h \in Seq(S), NEW p \in Seq(S), NEW r \in Seq(S)
  PROVE  /\ \A i \in 1 .. Len(h) : ((h \o p) \o r)[i] = h[i]
         /\ \A i \in 1 .. Len(p) : ((h \o p) \o r)[Len(h) + i] = p[i]
<1> DEFINE s == (h \o p) \o r
<1>1. /\ h \o p \in Seq(S) /\ Len(h \o p) = Len(h) + Len(p)
      /\ \A i \in 1 .. Len(h) + Len(p) : (h \o p)[i] = IF i <= Len(h) THEN h[i] ELSE p[i - Len(h)]
  BY ConcatProperties
<1>2. Len(p) \in Nat /\ Len(h) \in Nat /\ Len(r) \in Nat
  BY LenProperties
<1>3. PICK q \in Seq(S) : q = h \o p
  BY <1>1
<1>4. \A i \in 1 .. Len(q) + Len(r) : s[i] = IF i <= Len(q) THEN q[i] ELSE r[i - Len(q)]
  BY <1>3, ConcatProperties
<1>5. Len(q) = Len(h) + Len(p)
  BY <1>1, <1>3
<1>6. \A i \in 1 .. Len(h) + Len(p) : s[i] = IF i <= Len(h) THEN h[i] ELSE p[i - Len(h)]
  BY <1>1, <1>2, <1>3, <1>4, <1>5
<1>7. ASSUME NEW i \in 1 .. Len(h) PROVE s[i] = h[i]
  BY <1>2, <1>6
<1>8. ASSUME NEW i \in 1 .. Len(p) PROVE s[Len(h) + i] = p[i]
  <2>1. Len(h) + i \in 1 .. Len(h) + Len(p) /\ ~(Len(h) + i <= Len(h)) /\ (Len(h) + i) - Len(h) = i
    BY <1>2
  <2>2. QED
    BY <1>6, <2>1
<1>9. QED
  BY <1>7, <1>8

(* The sizes of the fields of the header.                                  *)
LEMMA BytesOfNumbers ==
  ASSUME NEW n \in Int
  PROVE  Big4(n) \in Seq(Byte) /\ Len(Big4(n)) = 4 /\ Big8(n) \in Seq(Byte) /\ Len(Big8(n)) = 8
<1>1. ASSUME NEW k \in Int PROVE Big2(k) \in Seq(Byte) /\ Len(Big2(k)) = 2
  BY ShrLow DEF Big2
<1>2. ASSUME NEW k \in Int PROVE Big4(k) \in Seq(Byte) /\ Len(Big4(k)) = 4
  <2>1. /\ Big2(k) \in Seq(Byte) /\ Len(Big2(k)) = 2
        /\ Big2(Shr2(k)) \in Seq(Byte) /\ Len(Big2(Shr2(k))) = 2
    BY <1>1, PartsAreNumbers
  <2>2. /\ Big4(k) \in Seq(Byte)
        /\ Len(Big4(k)) = Len(Big2(Shr2(k))) + Len(Big2(k))
    BY <2>1, ConcatProperties, Zenon DEF Big4
  <2>3. QED
    BY <2>1, <2>2
<1>3. /\ Big4(n) \in Seq(Byte) /\ Len(Big4(n)) = 4
      /\ Big4(Shr4(n)) \in Seq(Byte) /\ Len(Big4(Shr4(n))) = 4
  BY <1>2, PartsAreNumbers
<1>4. Big8(n) \in Seq(Byte) /\ Len(Big8(n)) = Len(Big4(Shr4(n))) + Len(Big4(n))
  BY <1>3, ConcatProperties, Zenon DEF Big8
<1>5. QED
  BY <1>3, <1>4

(* A packet is read back from a buffer that begins with its bytes: what    *)
(* follows, up to the end of the buffer, makes no difference.              *)
THEOREM PacketReadBack ==
  ASSUME NEW pkt \in EventPackets, pkt.payloadSize = Len(pkt.payload), NEW rest \in Seq(Byte)
  PROVE  PacketFromBytes(PacketToBytes(pkt) \o rest) = pkt
<1> DEFINE s == PacketToBytes(pkt) \o rest
<1>1. /\ pkt.type \in Byte /\ pkt.timestamp \in UInt64Range /\ pkt.payloadSize \in UInt32Range
      /\ pkt.payload \in Seq(Byte) /\ pkt.timestamp \in Int /\ pkt.payloadSize \in Int
  BY DEF EventPackets, UInt64Range, UInt32Range
<1>2. s = <<pkt.type>> \o Big8(pkt.timestamp) \o Big4(pkt.payloadSize) \o pkt.payload \o rest
  BY DEF PacketToBytes
<1> DEFINE h == <<pkt.type>> \o Big8(pkt.timestamp) \o Big4(pkt.payloadSize)
<1>3. /\ s[1] = pkt.type
      /\ \A i \in 1 .. 8 : s[1 + i] = Big8(pkt.timestamp)[i]
      /\ \A i \in 1 .. 4 : s[9 + i] = Big4(pkt.payloadSize)[i]
      /\ \A i \in 1 .. Len(pkt.payload) : s[13 + i] = pkt.payload[i]
  <2>2. h \in Seq(Byte) /\ Len(h) = 13
    <3>1. /\ <<pkt.type>> \in Seq(Byte) /\ Len(<<pkt.type>>) = 1
          /\ Big8(pkt.timestamp) \in Seq(Byte) /\ Len(Big8(pkt.timestamp)) = 8
          /\ Big4(pkt.payloadSize) \in Seq(Byte) /\ Len(Big4(pkt.payloadSize)) = 4
      BY <1>1, BytesOfNumbers
    <3> DEFINE front == <<pkt.type>> \o Big8(pkt.timestamp)
    <3>2. front \in Seq(Byte) /\ Len(front) = Len(<<pkt.type>>) + Len(Big8(pkt.timestamp))
      BY <3>1, ConcatProperties, Zenon
    <3> HIDE DEF front
    <3>3. h \in Seq(Byte) /\ Len(h) = Len(front) + Len(Big4(pkt.payloadSize))
      BY <3>1, <3>2, ConcatProperties, Zenon DEF front
    <3> HIDE DEF h
    <3>4. QED
      BY <3>1, <3>2, <3>3
  <2>3. /\ h[1] = pkt.type
        /\ \A i \in 1 .. 8 : h[1 + i] = Big8(pkt.timestamp)[i]
        /\ \A i \in 1 .. 4 : h[9 + i] = Big4(pkt.payloadSize)[i]
    BY DEF Big8, Big4, Big2
  <2> HIDE DEF h
  <2>4. s = (h \o pkt.payload) \o rest
    BY <1>2 DEF h
  <2> HIDE DEF s
  <2>5. /\ \A i \in 1 .. 13 : s[i] = h[i]
        /\ \A i \in 1 .. Len(pkt.payload) : s[13 + i] = pkt.payload[i]
    <3>1. /\ \A i \in 1 .. Len(h) : s[i] = h[i]
          /\ \A i \in 1 .. Len(pkt.payload) : s[Len(h) + i] = pkt.payload[i]
      <4>1. PICK p \in Seq(Byte), k \in Seq(Byte) : p = pkt.payload /\ k = h
        BY <1>1, <2>2
      <4>2. /\ \A i \in 1 .. Len(k) : ((k \o p) \o rest)[i] = k[i]
            /\ \A i \in 1 .. Len(p) : ((k \o p) \o rest)[Len(k) + i] = p[i]
        BY ThreeParts, Z3
      <4>3. s = (k \o p) \o rest
        BY <2>4, <4>1
      <4>4. QED
        BY <4>1, <4>2, <4>3, Zenon
    <3>2. QED
      BY <2>2, <3>1
  <2>6. QED
    BY <2>3, <2>5
<1> HIDE DEF s
<1>4. BigAt8(s, 1) = pkt.timestamp
  BY <1>1, <1>3, EightBytesReadBack
<1>5. BigAt4(s, 9) = pkt.payloadSize
  <2>1. 9 \in Nat
    OBVIOUS
  <2>2. QED
    BY <1>1, <1>3, <2>1, FourBytesReadBack, Zenon
<1>6. [i \in 1 .. pkt.payloadSize |-> s[13 + i]] = pkt.payload
  <2>1. pkt.payload = [i \in 1 .. Len(pkt.payload) |-> pkt.payload[i]]
    BY <1>1
  <2>2. QED
    BY <1>3, <2>1
<1>7. PacketFromBytes(s) = pkt
  BY <1>3, <1>4, <1>5, <1>6 DEF PacketFromBytes, EventPackets
<1>8. QED
  BY <1>7 DEF s

-----------------------------------------------------------------------------
(* Two bytes hold a number up to what is above them, which is its sign.    *)
LEMMA TwoBytes ==
  ASSUME NEW n \in Int, NEW s, NEW o \in Nat, s[o + 1] = Low(n), s[o + 2] = Low(Shr(n))
  PROVE  LittleAt2(s, o) = n - 256 * (256 * Shr2(n))
<1>1. 256 * Shr(n) + Low(n) = n /\ 256 * Shr2(n) + Low(Shr(n)) = Shr(n)
  BY ShrLow DEF Push, Shr2
<1>2. Shr(n) \in Int /\ Shr2(n) \in Int /\ Low(n) \in Int /\ Low(Shr(n)) \in Int
  BY PartsAreNumbers
<1>3. QED
  BY <1>1, <1>2 DEF LittleAt2, Push

(* An uint16 is read back, as nothing is above it ...                      *)
LEMMA UnsignedReadBack ==
  ASSUME NEW n \in UInt16Range, NEW s, NEW o \in Nat,
         s[o + 1] = Low(n), s[o + 2] = Low(Shr(n))
  PROVE  LittleAt2(s, o) = n
<1>1. n \in Int /\ Shr2(n) = 0
  BY DEF UInt16Range
<1>2. LittleAt2(s, o) = n - 256 * (256 * Shr2(n))
  BY <1>1, TwoBytes
<1>3. QED
  BY <1>1, <1>2

(* ... and so is an int16: what is above it comes back with the sign.      *)
LEMMA SignedReadBack ==
  ASSUME NEW n \in Int16Range, NEW s, NEW o \in Nat,
         s[o + 1] = Low(n), s[o + 2] = Low(Shr(n))
  PROVE  Signed(LittleAt2(s, o), Two16) = n
<1>1. n \in Int /\ Shr2(2 * n) \in {0, -1}
  BY DEF Int16Range
<1>2. LittleAt2(s, o) = n - 256 * (256 * Shr2(n))
  BY <1>1, TwoBytes
<1>3. IF n >= 0 THEN Shr2(n) = 0 /\ 2 * n < 256 * 256
                ELSE Shr2(n) = -1 /\ 2 * n >= -(256 * 256)
  BY <1>1 DEF Shr2, Shr
<1>4. QED
  BY <1>1, <1>2, <1>3 DEF Signed, Two16

(* Eight bytes hold a number up to what is above them.                     *)
LEMMA EightBytes ==
  ASSUME NEW n \in Int, NEW s, NEW o \in Nat, \A i \in 1 .. 8 : s[o + i] = Little8(n)[i]
  PROVE  LittleAt8(s, o) = n - Two64 * Shr4(Shr4(n))
<1>1. PICK m \in Int : m = Shr4(n)
  BY PartsAreNumbers
<1>2. PICK k \in Int : k = Shr4(m)
  BY PartsAreNumbers
<1>3. /\ s[o + 1] = Low(n) /\ s[o + 2] = Low(Shr(n))
      /\ s[o + 3] = Low(Shr2(n)) /\ s[o + 4] = Low(Shr(Shr2(n)))
      /\ s[o + 5] = Low(m) /\ s[o + 6] = Low(Shr(m))
      /\ s[o + 7] = Low(Shr2(m)) /\ s[o + 8] = Low(Shr(Shr2(m)))
  BY <1>1 DEF Little8, Little2
<1>4. /\ Low(n) \in Int /\ Low(Shr(n)) \in Int /\ Low(Shr2(n)) \in Int
      /\ Low(Shr(Shr2(n))) \in Int
      /\ Low(m) \in Int /\ Low(Shr(m)) \in Int /\ Low(Shr2(m)) \in Int
      /\ Low(Shr(Shr2(m))) \in Int
  BY PartsAreNumbers
<1>5. Push(Push(Push(Push(k, s[o + 8]), s[o + 7]), s[o + 6]), s[o + 5]) = m
  BY <1>2, <1>3, Push4
<1>6. Push(Push(Push(Push(m, s[o + 4]), s[o + 3]), s[o + 2]), s[o + 1]) = n
  BY <1>1, <1>3, Push4
<1>7. s[o + 8] = Push(k - k, s[o + 8])
  BY <1>3, <1>4 DEF Push
<1>8. PICK high \in Int : high = m - Two16 * (Two16 * k)
  BY DEF Two16
<1>9. PICK b1 \in Int, b2 \in Int, b3 \in Int, b4 \in Int :
        b1 = s[o + 1] /\ b2 = s[o + 2] /\ b3 = s[o + 3] /\ b4 = s[o + 4]
  BY <1>3, <1>4
<1>10. PICK b5 \in Int, b6 \in Int, b7 \in Int, b8 \in Int :
        b5 = s[o + 5] /\ b6 = s[o + 6] /\ b7 = s[o + 7] /\ b8 = s[o + 8]
  BY <1>3, <1>4
<1>11. Push(Push(LittleAt2(s, o + 6), s[o + 6]), s[o + 5]) = high
  <2>1. LittleAt2(s, o + 6) = Push(Push(k - k, b8), b7)
    BY <1>7, <1>10 DEF LittleAt2
  <2>2. Push(Push(Push(Push(k - k, b8), b7), b6), b5)
         = Push(Push(Push(Push(k, b8), b7), b6), b5) - Two16 * (Two16 * k)
    BY DEF Push, Two16
  <2>3. QED
    BY <1>5, <1>8, <1>10, <2>1, <2>2
<1>12. PICK d \in Int : d = m - high /\ high = m - d
  OBVIOUS
<1>13. Push(Push(Push(Push(m - d, b4), b3), b2), b1)
        = Push(Push(Push(Push(m, b4), b3), b2), b1) - Two16 * (Two16 * d)
  BY DEF Push, Two16
<1>14. LittleAt8(s, o) = n - Two16 * (Two16 * d)
  BY <1>6, <1>9, <1>11, <1>12, <1>13 DEF LittleAt8
<1>15. Two16 * (Two16 * d) = Two64 * k
  <2>1. PICK t \in Int : t = 256 * 256
    OBVIOUS
  <2>2. d = t * (t * k)
    BY <1>8, <1>12, <2>1 DEF Two16
  <2>3. t * (t * (t * (t * k))) = (t * (t * (t * t))) * k
    OBVIOUS
  <2>4. QED
    BY <2>1, <2>2, <2>3 DEF Two16, Two64
<1>16. QED
  BY <1>1, <1>2, <1>14, <1>15

(* What is above four bytes is the number divided by 2^32, rounded down, ... *)
LEMMA FourBytesAbove ==
  ASSUME NEW n \in Int
  PROVE  Two16 * (Two16 * Shr4(n)) <= n /\ n < Two16 * (Two16 * (Shr4(n) + 1))
<1>1. \A j \in Int : 256 * Shr(j) <= j /\ j < 256 * (Shr(j) + 1) /\ Shr(j) \in Int
  BY DEF Shr
<1>2. PICK a \in Int : a = Shr(n)
  BY <1>1
<1>3. PICK b \in Int : b = Shr(a)
  BY <1>1
<1>4. PICK c \in Int : c = Shr(b)
  BY <1>1
<1>5. PICK d \in Int : d = Shr(c)
  BY <1>1
<1>6. Shr4(n) = d
  BY <1>2, <1>3, <1>4, <1>5 DEF Shr4, Shr2
<1>7. /\ 256 * a <= n /\ n < 256 * (a + 1) /\ 256 * b <= a /\ a < 256 * (b + 1)
      /\ 256 * c <= b /\ b < 256 * (c + 1) /\ 256 * d <= c /\ c < 256 * (d + 1)
  BY <1>1, <1>2, <1>3, <1>4, <1>5
<1>8. QED
  BY <1>6, <1>7 DEF Two16

(* ... and above eight bytes by 2^64.                                      *)
LEMMA EightBytesAbove ==
  ASSUME NEW n \in Int
  PROVE  /\ Two64 * Shr4(Shr4(n)) <= n /\ n < Two64 * (Shr4(Shr4(n)) + 1)
         /\ Shr4(Shr4(n)) \in Int
<1>1. PICK a \in Int : a = Shr4(n)
  BY PartsAreNumbers
<1>2. PICK b \in Int : b = Shr4(a)
  BY PartsAreNumbers
<1>3. PICK t \in Int : t = 256 * 256
  OBVIOUS
<1>4. /\ t * (t * a) <= n /\ n < t * (t * (a + 1)) /\ t * (t * b) <= a /\ a < t * (t * (b + 1))
  BY <1>1, <1>2, <1>3, FourBytesAbove DEF Two16
<1>5. t * (t * (t * (t * b))) <= n /\ n < t * (t * (t * (t * (b + 1))))
  BY <1>3, <1>4
<1>6. /\ t * (t * (t * (t * b))) = (t * (t * (t * t))) * b
      /\ t * (t * (t * (t * (b + 1)))) = (t * (t * (t * t))) * (b + 1)
  OBVIOUS
<1>7. QED
  BY <1>1, <1>2, <1>3, <1>5, <1>6 DEF Two16, Two64

(* The time in milliseconds is read back with its sign.                    *)
LEMMA TimeReadBack ==
  ASSUME NEW n \in Int64Range, NEW s, NEW o \in Nat, \A i \in 1 .. 8 : s[o + i] = Little8(n)[i]
  PROVE  Signed(LittleAt8(s, o), Two64) = n
<1>1. n \in Int /\ 2 * n \in Int /\ Shr4(Shr4(2 * n)) \in {0, -1}
  BY DEF Int64Range
<1>2. LittleAt8(s, o) = n - Two64 * Shr4(Shr4(n))
  BY <1>1, EightBytes
<1>3. PICK size \in Int : size = Two64 /\ size > 1
  <2>1. PICK t \in Int : t = Two16 /\ t > 1
    BY DEF Two16
  <2>2. PICK t2 \in Int : t2 = t * t /\ t2 > 1
    BY <2>1
  <2>3. PICK t3 \in Int : t3 = t * t2 /\ t3 > 1
    BY <2>1, <2>2
  <2>4. PICK t4 \in Int : t4 = t * t3 /\ t4 > 1
    BY <2>1, <2>3
  <2>5. QED
    BY <2>1, <2>2, <2>3, <2>4 DEF Two64
<1>4. PICK q \in Int : q = Shr4(Shr4(n)) /\ size * q <= n /\ n < size * (q + 1)
  BY <1>1, <1>3, EightBytesAbove
<1>5. -size <= 2 * n /\ 2 * n < size
  BY <1>1, <1>3, EightBytesAbove
<1>6. q = IF n >= 0 THEN 0 ELSE -1
  <2>1. q > 0 => size * q >= size
    BY <1>3
  <2>2. q < -1 => size * (q + 1) <= -size
    BY <1>3
  <2>3. q \in {0, -1}
    BY <1>1, <1>4, <1>5, <2>1, <2>2, <1>3
  <2>4. QED
    BY <1>1, <1>4, <2>3, <1>3
<1>7. QED
  BY <1>1, <1>2, <1>3, <1>4, <1>5, <1>6 DEF Signed

(* An event is read back as it was, its time cut to milliseconds, from     *)
(* exactly as many bytes as fromBytes asks for.                            *)
THEOREM EventReadBack ==
  ASSUME NEW e \in Events
  PROVE  /\ Len(EventToBytes(e)) = MinimumSize
         /\ EventFromBytes(EventToBytes(e))
              = [e EXCEPT !.timestamp = TicksPerMs * Milliseconds(e.timestamp)]
<1> DEFINE s == EventToBytes(e)
           ms == Milliseconds(e.timestamp)
<1>1. /\ ms \in Int64Range /\ e.keycode \in UInt16Range /\ e.modifiers \in UInt16Range
      /\ e.x \in Int16Range /\ e.y \in Int16Range /\ e.wheel_delta \in Int16Range
  BY DEF Events
<1>2. /\ Len(s) = 19 /\ s[1] = e.type
      /\ \A i \in 1 .. 8 : s[1 + i] = Little8(ms)[i]
      /\ s[9 + 1] = Low(e.keycode) /\ s[9 + 2] = Low(Shr(e.keycode))
      /\ s[11 + 1] = Low(e.modifiers) /\ s[11 + 2] = Low(Shr(e.modifiers))
      /\ s[13 + 1] = Low(e.x) /\ s[13 + 2] = Low(Shr(e.x))
      /\ s[15 + 1] = Low(e.y) /\ s[15 + 2] = Low(Shr(e.y))
      /\ s[17 + 1] = Low(e.wheel_delta) /\ s[17 + 2] = Low(Shr(e.wheel_delta))
  BY DEF EventToBytes, Little8, Little2
<1> HIDE DEF s, ms
<1>3. Signed(LittleAt8(s, 1), Two64) = ms
  BY <1>1, <1>2, TimeReadBack
<1>4. LittleAt2(s, 9) = e.keycode /\ LittleAt2(s, 11) = e.modifiers
  BY <1>1, <1>2, UnsignedReadBack
<1>5. /\ Signed(LittleAt2(s, 13), Two16) = e.x
      /\ Signed(LittleAt2(s, 15), Two16) = e.y
      /\ Signed(LittleAt2(s, 17), Two16) = e.wheel_delta
  BY <1>1, <1>2, SignedReadBack
<1>6. EventFromBytes(s) = [e EXCEPT !.timestamp = TicksPerMs * ms]
  BY <1>2, <1>3, <1>4, <1>5 DEF EventFromBytes, Events
<1>7. QED
  BY <1>2, <1>6 DEF s, ms, MinimumSize
=============================================================================
