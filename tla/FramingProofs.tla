--------------------------- MODULE FramingProofs ---------------------------
(***************************************************************************)
(* Proofs about Framing, for every number of writes of the client.         *)
(***************************************************************************)
EXTENDS Framing, TLAPS

(* Packets lie in the stream one after the other.                          *)
Growing == \A i, j \in 0 .. Len(sent) : i < j => Offset(i) < Offset(j)
Adjacent == \A i \in 1 .. Len(sent) : Offset(i) = Offset(i - 1) + WireSize(sent[i])

(* Unless reads cut it anywhere, the next byte is the first of a packet.   *)
AtPacket == boundary # "any" => \E i \in 0 .. Len(sent) : pos = Offset(i)

(* The first byte of each packet injected has been read.                   *)
Behind ==
  \A k \in 1 .. Len(injected) :
    injected[k] # Garbled => injected[k] \in 1 .. Len(sent) /\ Offset(injected[k] - 1) < pos

(* One record after the other.                                             *)
OneByOne == ExactDelivery /\ (boundary = "record" => Len(injected) <= Len(sent))

Layout == TypeOK /\ Growing /\ Adjacent

-----------------------------------------------------------------------------
LEMMA PacketsHaveHeaders ==
  ASSUME NEW t \in EventType
  PROVE  WireSize(t) \in Nat /\ WireSize(t) >= HeaderSize /\ HeaderSize > 0
BY DEF WireSize, HeaderSize, PayloadSize, EventType, KeyType, ButtonType

LEMMA OffsetsAreNumbers ==
  ASSUME TypeOK
  PROVE  \A i \in 0 .. Len(sent) : Offset(i) \in Nat
BY DEF TypeOK, Offset

(* A write moves no packet.                                                *)
LEMMA OffsetsStay ==
  ASSUME TypeOK, NEW t \in EventType, WritePacket(t)
  PROVE  /\ Len(sent') = Len(sent) + 1
         /\ \A i \in 0 .. Len(sent') :
              Offset(i)' = IF i <= Len(sent) THEN Offset(i) ELSE Offset(Len(sent)) + WireSize(t)
         /\ Offset(Len(sent))' = Offset(Len(sent)) + WireSize(t)
<1>1. ends \in Seq(Nat) /\ Len(ends) = Len(sent) /\ sent \in Seq(EventType)
  BY DEF TypeOK
<1>2. Offset(Len(sent)) + WireSize(t) \in Nat
  BY <1>1, OffsetsAreNumbers, PacketsHaveHeaders
<1>3. ends' = Append(ends, Offset(Len(sent)) + WireSize(t)) /\ sent' = Append(sent, t)
  BY DEF WritePacket
<1>4. /\ Len(sent') = Len(sent) + 1
      /\ \A i \in 1 .. Len(sent) : ends'[i] = ends[i]
      /\ ends'[Len(sent) + 1] = Offset(Len(sent)) + WireSize(t)
  BY <1>1, <1>2, <1>3
<1>5. QED
  BY <1>1, <1>4 DEF Offset

(* What a read takes is there, and in records or writes ends with a packet. *)
LEMMA ReadsStayInside ==
  ASSUME TypeOK, NEW n \in ReadLengths
  PROVE  /\ n \in Nat /\ n > 0
         /\ pos + n <= Offset(Len(sent))
         /\ boundary # "any" => \E i \in 1 .. Len(sent) : pos + n = Offset(i)
<1>1. pos \in Nat /\ Offset(Len(sent)) \in Nat /\ boundary \in Boundaries
  BY OffsetsAreNumbers DEF TypeOK
<1>2. n \in 1 .. (Offset(Len(sent)) - pos) /\ MayReturn(n)
  BY DEF ReadLengths
<1>3. boundary # "any" => pos + n \in Ends
  BY <1>1, <1>2 DEF MayReturn
<1>4. QED
  BY <1>1, <1>2, <1>3 DEF Ends

(* A packet's first byte tells which packet it is.                         *)
LEMMA OnePacketAtAnOffset ==
  ASSUME Layout, NEW i \in 0 .. Len(sent), NEW j \in 0 .. Len(sent)
  PROVE  /\ Offset(i) = Offset(j) => i = j
         /\ Offset(i) < Offset(j) => i < j
         /\ i <= j => Offset(i) <= Offset(j)
<1>1. Offset(i) \in Nat /\ Offset(j) \in Nat
  BY OffsetsAreNumbers DEF Layout
<1>2. (i < j => Offset(i) < Offset(j)) /\ (j < i => Offset(j) < Offset(i))
  BY DEF Layout, Growing
<1>3. QED
  BY <1>1, <1>2

(* Of records and whole writes, a read takes all of the next packet.       *)
LEMMA ReadsWholePackets ==
  ASSUME Layout, AtPacket, boundary # "any", NEW n \in ReadLengths
  PROVE  \E i \in 1 .. Len(sent) : Offset(i - 1) = pos /\ n >= WireSize(sent[i])
<1>1. PICK i \in 0 .. Len(sent) : pos = Offset(i)
  BY DEF AtPacket
<1>2. PICK j \in 1 .. Len(sent) : pos + n = Offset(j)
  BY ReadsStayInside DEF Layout
<1>3. i < j
  BY <1>1, <1>2, ReadsStayInside, OnePacketAtAnOffset, OffsetsAreNumbers DEF Layout
<1>4. i + 1 \in 1 .. Len(sent) /\ Offset(i + 1) <= Offset(j)
  BY <1>3, OnePacketAtAnOffset
<1>5. Offset(i + 1) = Offset(i) + WireSize(sent[i + 1])
  BY <1>4 DEF Layout, Adjacent
<1>6. WireSize(sent[i + 1]) \in Nat
  BY <1>4, PacketsHaveHeaders DEF Layout, TypeOK
<1>7. n >= WireSize(sent[i + 1])
  BY <1>1, <1>2, <1>4, <1>5, <1>6, ReadsStayInside, OffsetsAreNumbers DEF Layout, TypeOK
<1>8. QED
  BY <1>1, <1>4, <1>7

(* What one turn of the loop does to the history and to the server.        *)
LEMMA ReadOutcomes ==
  ASSUME TypeOK, NEW n \in ReadLengths, Read(n)
  PROVE  \/ injected' = injected /\ server' = server
         \/ injected' = Append(injected, Garbled) /\ server' = server
         \/ injected' = injected /\ server' \in {"rejected", "crashed"}
         \/ \E i \in 1 .. Len(sent) :
              Offset(i - 1) = pos /\ injected' = Append(injected, i) /\ server' = server
BY DEF Read, HandlePacket, HandleGarbage, Skip, Inject, Fail

(* Of records and whole writes, it is the first packet that is injected.   *)
LEMMA FirstPacketInjected ==
  ASSUME Layout, AtPacket, boundary # "any", NEW n \in ReadLengths, Read(n)
  PROVE  \E i \in 1 .. Len(sent) :
           Offset(i - 1) = pos /\ injected' = Append(injected, i) /\ server' = server
<1>1. PICK i \in 1 .. Len(sent) : Offset(i - 1) = pos /\ n >= WireSize(sent[i])
  BY ReadsWholePackets
<1>2. n >= HeaderSize /\ n \in Nat /\ HeaderSize \in Nat /\ WireSize(sent[i]) \in Nat
  BY <1>1, PacketsHaveHeaders, ReadsStayInside DEF Layout, TypeOK, HeaderSize
<1>3. PICK j \in 1 .. Len(sent) : Offset(j - 1) = pos /\ HandlePacket(j, n)
  BY <1>1, <1>2 DEF Read
<1>4. i - 1 = j - 1
  BY <1>1, <1>3, OnePacketAtAnOffset
<1>5. j = i
  BY <1>4
<1>6. HandlePacket(i, n)
  BY <1>3, <1>5
<1>7. Inject(i)
  BY <1>1, <1>2, <1>6 DEF HandlePacket
<1>8. QED
  BY <1>1, <1>7 DEF Inject

-----------------------------------------------------------------------------
(* The type invariant of the read loop.                                    *)
LEMMA TypeStep ==
  ASSUME TypeOK, [Next]_vars
  PROVE  TypeOK'
<1> USE FramingAssumption
<1>0. MaxSent[boundary] \in Nat /\ Len(sent) \in Nat /\ pos \in Nat /\ Offset(Len(sent)) \in Nat
  BY OffsetsAreNumbers DEF TypeOK
<1>1. ASSUME NEW t \in EventType, WritePacket(t) PROVE TypeOK'
  <2>1. Offset(Len(sent)) + WireSize(t) \in Nat
    BY <1>0, PacketsHaveHeaders
  <2>2. ends' \in Seq(Nat) /\ Len(ends') = Len(sent') /\ sent' \in Seq(EventType)
    <3>1. ends \in Seq(Nat) /\ Len(ends) = Len(sent) /\ sent \in Seq(EventType)
      BY DEF TypeOK
    <3>2. ends' = Append(ends, Offset(Len(sent)) + WireSize(t)) /\ sent' = Append(sent, t)
      BY <1>1 DEF WritePacket
    <3>3. ends' \in Seq(Nat) /\ Len(ends') = Len(ends) + 1
      BY <2>1, <3>1, <3>2
    <3>4. sent' \in Seq(EventType) /\ Len(sent') = Len(sent) + 1
      BY <3>1, <3>2
    <3>5. QED
      BY <3>1, <3>3, <3>4
  <2>3. Len(sent') <= MaxSent[boundary]
    BY <1>0, <1>1, OffsetsStay DEF WritePacket
  <2>4. pos' \in 0 .. Offset(Len(sent))'
    <3>1. Offset(Len(sent))' = Offset(Len(sent)) + WireSize(t)
      BY <1>1, OffsetsStay
    <3>2. QED
      BY <1>0, <1>1, <3>1, PacketsHaveHeaders DEF WritePacket, TypeOK
  <2>5. QED
    BY <1>1, <2>2, <2>3, <2>4 DEF WritePacket, TypeOK
<1>2. CASE ClientExits
  BY <1>2 DEF ClientExits, TypeOK, Offset
<1>3. ASSUME NEW n \in ReadLengths, Read(n) PROVE TypeOK'
  <2>1. /\ UNCHANGED <<boundary, sent, ends, client>>
        /\ pos' = pos + n
    BY <1>3 DEF Read
  <2>2. pos' \in 0 .. Offset(Len(sent))'
    BY <1>0, <1>3, <2>1, ReadsStayInside DEF Offset
  <2>3. \A i \in 0 .. Len(sent) : i \in 0 .. MaxSent[boundary]
    BY <1>0 DEF TypeOK
  <2>4. /\ injected' \in Seq(0 .. MaxSent[boundary])
        /\ server' \in {"serving", "closed", "rejected", "crashed"}
    <3>1. /\ injected \in Seq(0 .. MaxSent[boundary])
          /\ server \in {"serving", "closed", "rejected", "crashed"}
      BY DEF TypeOK
    <3>2. \/ injected' = injected
          \/ \E i \in 0 .. Len(sent) : injected' = Append(injected, i)
      BY <1>0, <1>3, ReadOutcomes DEF Garbled
    <3>3. server' \in {server, "rejected", "crashed"}
      BY <1>3, ReadOutcomes
    <3>4. injected' \in Seq(0 .. MaxSent[boundary])
      <4>1. \A S, i, q : q \in Seq(S) /\ i \in S => Append(q, i) \in Seq(S)
        BY SMT
      <4>2. QED
        BY <2>3, <3>1, <3>2, <4>1
    <3>5. QED
      BY <3>1, <3>3, <3>4
  <2>5. QED
    BY <2>1, <2>2, <2>4 DEF TypeOK
<1>4. CASE EndOfStream
  BY <1>4 DEF EndOfStream, Fail, TypeOK, Offset
<1>5. CASE UNCHANGED vars
  BY <1>5 DEF vars, TypeOK, Offset
<1>6. QED
  BY <1>1, <1>2, <1>3, <1>4, <1>5 DEF Next, ReadSome, Finished

LEMMA TypeInit == Init => TypeOK
<1> SUFFICES ASSUME Init PROVE TypeOK
  OBVIOUS
<1>1. MaxSent[boundary] \in Nat /\ Offset(Len(sent)) = 0
  BY FramingAssumption DEF Init, Offset
<1>2. QED
  BY <1>1 DEF Init, TypeOK

THEOREM TypeCorrect == Spec => []TypeOK
BY TypeInit, TypeStep, PTL DEF Spec
-----------------------------------------------------------------------------
(* What the three invariants rest on: how packets lie in the stream, and   *)
(* where the reader is in it.                                              *)
StreamInv == Layout /\ AtPacket /\ Behind /\ NoReplay /\ NeverGarbled /\ OneByOne

LEMMA StreamInit == Init => StreamInv
<1> SUFFICES ASSUME Init PROVE StreamInv
  OBVIOUS
<1>1. TypeOK
  BY TypeInit
<1>2. Len(sent) = 0 /\ Len(injected) = 0 /\ pos = Offset(0) /\ server = "serving"
  BY DEF Init, Offset
<1>3. Growing /\ Adjacent /\ AtPacket /\ Behind
  BY <1>2 DEF Growing, Adjacent, AtPacket, Behind
<1>4. NoReplay /\ NeverGarbled /\ OneByOne
  BY <1>2 DEF NoReplay, NeverGarbled, OneByOne, ExactDelivery
<1>5. QED
  BY <1>1, <1>3, <1>4 DEF StreamInv, Layout

LEMMA StreamWrite ==
  ASSUME StreamInv, NEW t \in EventType, WritePacket(t)
  PROVE  StreamInv'
<1>1. TypeOK /\ TypeOK'
  BY TypeStep DEF StreamInv, Layout, Next
<1>2. UNCHANGED <<boundary, client, pos, injected, server>>
  BY DEF WritePacket
<1>3. Len(sent) \in Nat /\ sent' = Append(sent, t) /\ sent \in Seq(EventType)
  BY <1>1 DEF WritePacket, TypeOK
<1>4. /\ Len(sent') = Len(sent) + 1
      /\ \A i \in 1 .. Len(sent) : sent'[i] = sent[i]
      /\ sent'[Len(sent) + 1] = t
  BY <1>3
<1>5. /\ \A i \in 0 .. Len(sent) : Offset(i)' = Offset(i) /\ Offset(i) \in Nat
      /\ \A i \in 0 .. Len(sent') : i > Len(sent) => Offset(i)' = Offset(Len(sent)) + WireSize(t)
  BY <1>1, <1>3, <1>4, OffsetsStay, OffsetsAreNumbers
<1>6. WireSize(t) \in Nat /\ WireSize(t) > 0
  BY PacketsHaveHeaders DEF HeaderSize
<1>7. Growing'
  <2> SUFFICES ASSUME NEW i \in 0 .. Len(sent'), NEW j \in 0 .. Len(sent'), i < j
               PROVE  Offset(i)' < Offset(j)'
    BY DEF Growing
  <2>1. i \in 0 .. Len(sent)
    BY <1>3, <1>4
  <2>2. CASE j \in 0 .. Len(sent)
    BY <1>5, <2>1, <2>2 DEF StreamInv, Layout, Growing
  <2>3. CASE j > Len(sent)
    <3>1. Offset(i) <= Offset(Len(sent))
      BY <1>3, <2>1, OnePacketAtAnOffset DEF StreamInv
    <3>2. Offset(i)' = Offset(i) /\ Offset(j)' = Offset(Len(sent)) + WireSize(t)
      BY <1>5, <2>1, <2>3
    <3>3. Offset(i) \in Nat /\ Offset(Len(sent)) \in Nat
      BY <1>3, <1>5, <2>1
    <3>4. QED
      BY <1>6, <3>1, <3>2, <3>3
  <2>4. QED
    BY <1>3, <2>2, <2>3
<1>8. Adjacent'
  <2> SUFFICES ASSUME NEW i \in 1 .. Len(sent')
               PROVE  Offset(i)' = Offset(i - 1)' + WireSize(sent'[i])
    BY DEF Adjacent
  <2>1. i - 1 \in 0 .. Len(sent) /\ i \in 0 .. Len(sent')
    BY <1>3, <1>4
  <2>2. CASE i \in 1 .. Len(sent)
    BY <1>4, <1>5, <2>1, <2>2 DEF StreamInv, Layout, Adjacent
  <2>3. CASE i = Len(sent) + 1
    BY <1>3, <1>4, <1>5, <2>1, <2>3
  <2>4. QED
    BY <1>3, <1>4, <2>2, <2>3
<1>9. AtPacket'
  BY <1>2, <1>3, <1>4, <1>5 DEF StreamInv, AtPacket
<1>10. Behind'
  <2> SUFFICES ASSUME NEW k \in 1 .. Len(injected), NEW i, i = injected[k], i # Garbled
               PROVE  i \in 1 .. Len(sent') /\ Offset(i - 1)' < pos
    BY <1>2 DEF Behind
  <2>1. i \in 1 .. Len(sent) /\ Offset(i - 1) < pos
    BY DEF StreamInv, Behind
  <2>2. i - 1 \in 0 .. Len(sent)
    BY <1>3, <2>1
  <2>3. QED
    BY <1>3, <1>4, <1>5, <2>1, <2>2
<1>11. NoReplay' /\ NeverGarbled'
  BY <1>2 DEF StreamInv, NoReplay, NeverGarbled
<1>12. OneByOne'
  BY <1>1, <1>2, <1>3, <1>4, <1>5 DEF StreamInv, OneByOne, ExactDelivery, TypeOK
<1>13. QED
  BY <1>1, <1>7, <1>8, <1>9, <1>10, <1>11, <1>12 DEF StreamInv, Layout

(* A turn of the loop: nothing is injected, or one more entry.             *)
LEMMA StreamRead ==
  ASSUME StreamInv, NEW n \in ReadLengths, Read(n)
  PROVE  StreamInv'
<1>1. TypeOK /\ TypeOK' /\ Layout
  BY TypeStep DEF StreamInv, Layout, Next, ReadSome
<1>2. UNCHANGED <<boundary, sent, ends, client>> /\ pos' = pos + n
  BY DEF Read
<1>3. /\ n \in Nat /\ n > 0 /\ pos \in Nat /\ Len(sent) \in Nat /\ Len(injected) \in Nat
      /\ \A i \in 0 .. Len(sent) : Offset(i) \in Nat /\ Offset(i)' = Offset(i)
  BY <1>1, <1>2, ReadsStayInside, OffsetsAreNumbers DEF TypeOK, Offset
<1>4. Growing' /\ Adjacent'
  BY <1>1, <1>2 DEF Layout, Growing, Adjacent, Offset
<1>5. AtPacket'
  BY <1>1, <1>2, <1>3, ReadsStayInside DEF AtPacket
<1>6. \A x : injected' = Append(injected, x) =>
        /\ Len(injected') = Len(injected) + 1
        /\ injected'[Len(injected) + 1] = x
        /\ \A k \in 1 .. Len(injected) : injected'[k] = injected[k]
  BY <1>1 DEF TypeOK
<1>7. Behind'
  <2> SUFFICES ASSUME NEW k \in 1 .. Len(injected'), NEW i, i = injected'[k], i # Garbled
               PROVE  i \in 1 .. Len(sent) /\ Offset(i - 1)' < pos'
    BY <1>2 DEF Behind
  <2>1. i \in 1 .. Len(sent) /\ Offset(i - 1) <= pos
    <3>1. CASE k \in 1 .. Len(injected) /\ injected'[k] = injected[k]
      BY <1>3, <3>1 DEF StreamInv, Behind
    <3>2. CASE k = Len(injected) + 1
      BY <1>1, <1>3, <1>6, <3>2, ReadOutcomes DEF Garbled
    <3>3. QED
      BY <1>1, <1>3, <1>6, <3>1, <3>2, ReadOutcomes
  <2>2. i - 1 \in 0 .. Len(sent)
    BY <1>3, <2>1
  <2>3. QED
    BY <1>2, <1>3, <2>1, <2>2
<1>8. NoReplay'
  <2> SUFFICES ASSUME NEW k \in 1 .. Len(injected'), NEW l \in 1 .. Len(injected'), k < l,
                      injected'[k] # Garbled, injected'[l] # Garbled
               PROVE  injected'[k] < injected'[l]
    BY DEF NoReplay
  <2>1. CASE injected' = injected
    BY <2>1 DEF StreamInv, NoReplay
  <2>2. ASSUME NEW x, injected' = Append(injected, x),
               x # Garbled => x \in 1 .. Len(sent) /\ Offset(x - 1) = pos
        PROVE  injected'[k] < injected'[l]
    <3>1. k \in 1 .. Len(injected) /\ injected'[k] = injected[k]
      BY <1>3, <1>6, <2>2
    <3>2. CASE l \in 1 .. Len(injected)
      BY <1>6, <2>2, <3>1, <3>2 DEF StreamInv, NoReplay
    <3>3. CASE l = Len(injected) + 1
      <4>1. injected'[l] = x /\ x \in 1 .. Len(sent) /\ Offset(x - 1) = pos
        BY <1>6, <2>2, <3>3
      <4>2. injected[k] \in 1 .. Len(sent) /\ Offset(injected[k] - 1) < pos
        BY <3>1 DEF StreamInv, Behind
      <4>3. injected[k] - 1 \in 0 .. Len(sent) /\ x - 1 \in 0 .. Len(sent)
        BY <1>3, <4>1, <4>2
      <4>4. injected[k] - 1 < x - 1
        BY <1>1, <4>1, <4>2, <4>3, OnePacketAtAnOffset
      <4>5. QED
        BY <1>3, <3>1, <4>1, <4>2, <4>4
    <3>4. l \in 1 .. Len(injected) \/ l = Len(injected) + 1
      <4>1. Len(injected') = Len(injected) + 1
        BY <1>6, <2>2
      <4>2. l \in 1 .. (Len(injected) + 1) /\ Len(injected) \in Nat
        BY <1>3, <4>1
      <4>3. QED
        BY <4>2
    <3>5. QED
      BY <3>2, <3>3, <3>4
  <2>3. QED
    BY <1>1, <2>1, <2>2, ReadOutcomes
<1>9. NeverGarbled'
  <2> SUFFICES ASSUME boundary # "any"
               PROVE  /\ \A k \in 1 .. Len(injected') : injected'[k] # Garbled
                      /\ server' \in {"serving", "closed"}
    BY <1>2 DEF NeverGarbled
  <2>1. PICK i \in 1 .. Len(sent) :
          Offset(i - 1) = pos /\ injected' = Append(injected, i) /\ server' = server
    BY <1>1, FirstPacketInjected DEF StreamInv
  <2>2. i # Garbled
    BY <1>3 DEF Garbled
  <2>3. \A k \in 1 .. Len(injected) : injected[k] # Garbled
    BY DEF StreamInv, NeverGarbled
  <2>4. \A k \in 1 .. Len(injected') : injected'[k] # Garbled
    BY <1>3, <1>6, <2>1, <2>2, <2>3
  <2>5. QED
    BY <2>1, <2>4 DEF StreamInv, NeverGarbled
<1>10. OneByOne'
  <2> SUFFICES ASSUME boundary = "record"
               PROVE  /\ pos' = Offset(Len(injected))'
                      /\ \A k \in 1 .. Len(injected') : injected'[k] = k
                      /\ server' \in {"serving", "closed"}
                      /\ Len(injected') <= Len(sent)
    BY <1>2 DEF OneByOne, ExactDelivery
  <2> DEFINE next == Len(injected) + 1
  <2>1. PICK i \in 1 .. Len(sent) :
          Offset(i - 1) = pos /\ injected' = Append(injected, i) /\ server' = server
    BY <1>1, FirstPacketInjected DEF StreamInv
  <2>2. /\ pos = Offset(Len(injected)) /\ Len(injected) \in 0 .. Len(sent)
        /\ \A k \in 1 .. Len(injected) : injected[k] = k
        /\ server \in {"serving", "closed"}
    BY <1>3 DEF StreamInv, OneByOne, ExactDelivery
  <2>3. i - 1 = Len(injected)
    BY <1>1, <1>3, <2>1, <2>2, OnePacketAtAnOffset
  <2>4. i = next
    BY <1>3, <2>3
  <2>5. Len(injected') = next /\ \A k \in 1 .. Len(injected') : injected'[k] = k
    BY <1>3, <1>6, <2>1, <2>2, <2>4
  <2>6. pos + n = Offset(next)
    <3>1. MayReturn(n)
      BY DEF ReadLengths
    <3>2. pos + n \in Ends /\ \A e \in Ends : e > pos => pos + n <= e
      BY <3>1 DEF MayReturn
    <3>3. Offset(next) \in Ends /\ Offset(next) > pos
      BY <1>1, <1>3, <2>1, <2>2, <2>4 DEF Ends, Layout, Growing
    <3>4. PICK j \in 1 .. Len(sent) : pos + n = Offset(j)
      BY <3>2 DEF Ends
    <3>5. j > Len(injected)
      BY <1>1, <1>3, <2>2, <3>4, OnePacketAtAnOffset
    <3>6. next <= j
      BY <1>3, <3>5
    <3>7. Offset(next) <= Offset(j)
      BY <1>1, <1>3, <2>1, <2>4, <3>6, OnePacketAtAnOffset
    <3>8. QED
      BY <1>3, <2>1, <2>4, <3>2, <3>3, <3>4, <3>7
  <2>7. \A l \in 0 .. Len(sent) : l = Len(injected') => Offset(l)' = Offset(Len(injected))'
    OBVIOUS
  <2>8. QED
    BY <1>2, <1>3, <2>1, <2>2, <2>4, <2>5, <2>6, <2>7
<1>11. QED
  BY <1>1, <1>4, <1>5, <1>7, <1>8, <1>9, <1>10 DEF StreamInv, Layout

LEMMA StreamStep == StreamInv /\ [Next]_vars => StreamInv'
<1> SUFFICES ASSUME StreamInv, [Next]_vars PROVE StreamInv'
  OBVIOUS
<1>1. TypeOK'
  BY TypeStep DEF StreamInv, Layout
<1>2. ASSUME NEW t \in EventType, WritePacket(t) PROVE StreamInv'
  BY <1>2, StreamWrite
<1>3. ASSUME NEW n \in ReadLengths, Read(n) PROVE StreamInv'
  BY <1>3, StreamRead
<1>4. ASSUME UNCHANGED <<boundary, sent, ends, pos, injected>>,
             server' = server \/ server' = "closed"
      PROVE  StreamInv'
  BY <1>1, <1>4 DEF StreamInv, Layout, Growing, Adjacent, AtPacket, Behind, NoReplay,
                    NeverGarbled, OneByOne, ExactDelivery, Offset
<1>5. CASE ClientExits
  BY <1>4, <1>5 DEF ClientExits
<1>6. CASE EndOfStream
  BY <1>4, <1>6 DEF EndOfStream, Fail
<1>7. CASE UNCHANGED vars
  BY <1>4, <1>7 DEF vars
<1>8. QED
  BY <1>2, <1>3, <1>5, <1>6, <1>7 DEF Next, ReadSome, Finished

LEMMA StreamIsWell == Spec => []StreamInv
BY StreamInit, StreamStep, PTL DEF Spec

(* When a read returns one record, the packets injected are those whose    *)
(* bytes have been read, each once, in order and unchanged.                *)
THEOREM DeliveryIsExact == Spec => []ExactDelivery
<1>1. StreamInv => ExactDelivery
  BY DEF StreamInv, OneByOne
<1>2. QED
  BY <1>1, StreamIsWell, PTL

(* As long as reads return whole writes, the loop never injects anything   *)
(* else than packets that were written, and never fails on one.            *)
THEOREM WholeWritesAreSafe == Spec => []NeverGarbled
<1>1. StreamInv => NeverGarbled
  BY DEF StreamInv
<1>2. QED
  BY <1>1, StreamIsWell, PTL

(* However reads cut the stream, no packet is injected twice, or after a   *)
(* later one.                                                              *)
THEOREM NothingIsReplayed == Spec => []NoReplay
<1>1. StreamInv => NoReplay
  BY DEF StreamInv
<1>2. QED
  BY <1>1, StreamIsWell, PTL
-----------------------------------------------------------------------------
(* What one turn of the loop takes, as long as a read ends where a write   *)
(* ended: all of packet i, up to the end of packet j, and of records       *)
(* packet i alone.                                                         *)
Takes(i, j) ==
  /\ i <= j
  /\ pos = Offset(i - 1) /\ pos' = Offset(j)
  /\ injected' = Append(injected, i)
  /\ boundary = "record" => i = j

LEMMA ReadTakes ==
  ASSUME StreamInv, boundary # "any", NEW n \in ReadLengths, Read(n)
  PROVE  \E i, j \in 1 .. Len(sent) : Takes(i, j)
<1>1. StreamInv' /\ UNCHANGED <<boundary, sent, ends>> /\ pos' = pos + n
  BY StreamRead DEF Read
<1>2. PICK i \in 1 .. Len(sent) : Offset(i - 1) = pos /\ injected' = Append(injected, i)
  BY FirstPacketInjected DEF StreamInv
<1>3. PICK j \in 1 .. Len(sent) : pos + n = Offset(j)
  BY ReadsStayInside DEF StreamInv, Layout
<1>4. /\ n \in Nat /\ n > 0 /\ pos \in Nat
      /\ Len(sent) \in Nat /\ injected \in Seq(0 .. MaxSent[boundary])
  BY ReadsStayInside DEF StreamInv, Layout, TypeOK
<1>5. i - 1 < j
  BY <1>2, <1>3, <1>4, OnePacketAtAnOffset DEF StreamInv
<1>6. ASSUME boundary = "record" PROVE i = j
  <2>1. /\ pos' = Offset(Len(injected))'
        /\ \A k \in 1 .. Len(injected') : injected'[k] = k
    BY <1>1, <1>6 DEF StreamInv, OneByOne, ExactDelivery
  <2>2. Len(injected') = Len(injected) + 1 /\ injected'[Len(injected) + 1] = i
    BY <1>2, <1>4
  <2>3. Len(injected') = i
    BY <1>4, <2>1, <2>2
  <2>4. pos' = Offset(i)
    BY <1>1, <2>1, <2>3 DEF Offset
  <2>5. QED
    BY <1>1, <1>3, <1>4, <2>4, OnePacketAtAnOffset DEF StreamInv
<1>7. QED
  BY <1>1, <1>2, <1>3, <1>4, <1>5, <1>6 DEF Takes

(* The comment in the loop, "Validate payload size matches declared size", *)
(* holds of a connection whose reads return one record each: what is       *)
(* injected was one packet, all of it and no more.                         *)
THEOREM RecordsAreNotMismatched ==
  Spec /\ boundary = "record" => MismatchedPayloadSkipped
<1> DEFINE OnePacket ==
      injected' # injected => \E i \in 1 .. Len(sent) : pos = Offset(i - 1) /\ pos' = Offset(i)
           Record == boundary = "record"
<1>1. ASSUME StreamInv, Record, [Next]_vars PROVE [OnePacket]_vars
  <2> SUFFICES ASSUME injected' # injected PROVE OnePacket
    OBVIOUS
  <2>1. PICK n \in ReadLengths : Read(n)
    BY <1>1 DEF Next, ReadSome, WritePacket, ClientExits, EndOfStream, Fail, Finished, vars
  <2>2. QED
    BY <1>1, <2>1, ReadTakes DEF Takes
<1>2. Record /\ [Next]_vars => Record'
  BY DEF Next, ReadSome, Read, WritePacket, ClientExits, EndOfStream, Finished, vars
<1> HIDE DEF OnePacket, Record
<1>3. Spec /\ Record => [][OnePacket]_vars
  BY <1>1, <1>2, StreamIsWell, PTL DEF Spec
<1>4. QED
  BY <1>3 DEF OnePacket, Record, MismatchedPayloadSkipped
-----------------------------------------------------------------------------
(* The read loop as the receiver of PacketStream.                          *)
TakenIsThere == \A i \in 0 .. Len(sent) : pos = Offset(i) => Taken = i

LEMMA TakenIsUnique == Layout => TakenIsThere
BY OnePacketAtAnOffset DEF TakenIsThere, Taken

(* A write, or a packet injected, as it shows in Received.                 *)
LEMMA ReceivedStays ==
  ASSUME StreamInv, NEW t \in EventType, WritePacket(t)
  PROVE  Received' = Received
<1>1. injected' = injected /\ sent' = Append(sent, t) /\ sent \in Seq(EventType)
  BY DEF WritePacket, StreamInv, Layout, TypeOK
<1>2. Len(sent') = Len(sent) + 1 /\ \A i \in 1 .. Len(sent) : sent'[i] = sent[i]
  BY <1>1
<1>3. \A k \in 1 .. Len(injected) :
        injected[k] \in 1 .. Len(sent) \/ injected[k] = Garbled
  BY DEF StreamInv, Behind
<1>4. \A k \in 1 .. Len(injected) :
        (IF injected[k] \in 1 .. Len(sent) THEN sent[injected[k]] ELSE "garbled")
          = (IF injected[k] \in 1 .. Len(sent') THEN sent'[injected[k]] ELSE "garbled")
  BY <1>1, <1>2, <1>3 DEF Garbled
<1>5. QED
  BY <1>1, <1>4 DEF Received

LEMMA ReceivedGrows ==
  ASSUME StreamInv, NEW i \in 1 .. Len(sent),
         injected' = Append(injected, i), sent' = sent
  PROVE  Received' = Append(Received, sent[i])
<1>1. injected \in Seq(0 .. MaxSent[boundary]) /\ Len(injected) \in Nat
  BY DEF StreamInv, Layout, TypeOK
<1>2. /\ Len(injected') = Len(injected) + 1
      /\ injected'[Len(injected) + 1] = i
      /\ \A k \in 1 .. Len(injected) : injected'[k] = injected[k]
  BY <1>1
<1> DEFINE Entry(x) == IF x \in 1 .. Len(sent) THEN sent[x] ELSE "garbled"
<1>3. Received = [k \in 1 .. Len(injected) |-> Entry(injected[k])]
  BY DEF Received
<1>4. Received' = [k \in 1 .. Len(injected) + 1 |-> Entry(injected'[k])]
  BY <1>2 DEF Received
<1>5. Entry(i) = sent[i]
  OBVIOUS
<1> HIDE DEF Entry
<1>6. Len(Received) = Len(injected)
  BY <1>1, <1>3
<1>7. Append(Received, sent[i])
        = [k \in 1 .. Len(injected) + 1 |->
             IF k = Len(injected) + 1 THEN sent[i] ELSE Received[k]]
  BY <1>1, <1>6
<1>8. \A k \in 1 .. Len(injected) + 1 :
        Entry(injected'[k]) = IF k = Len(injected) + 1 THEN sent[i] ELSE Received[k]
  BY <1>1, <1>2, <1>3, <1>5
<1>9. QED
  BY <1>4, <1>7, <1>8

LEMMA StreamStarts == Init /\ boundary # "any" => Stream!Init
<1> SUFFICES ASSUME Init PROVE Stream!Init
  OBVIOUS
<1>1. sent = <<>> /\ injected = <<>> /\ pos = Offset(0)
  BY DEF Init, Offset
<1>2. Taken = 0
  BY <1>1, StreamInit, TakenIsUnique DEF TakenIsThere, StreamInv
<1>3. Received = <<>>
  BY <1>1 DEF Received
<1>4. QED
  BY <1>1, <1>2, <1>3 DEF Stream!Init, Init

LEMMA StreamGoesOn ==
  ASSUME StreamInv, boundary # "any", [Next]_vars
  PROVE  Stream!Next \/ UNCHANGED Stream!vars
<1>0. StreamInv' /\ TakenIsThere /\ TakenIsThere'
  <2>1. StreamInv'
    BY StreamStep
  <2>2. (Layout => TakenIsThere)'
    BY TakenIsUnique, PTL
  <2>3. QED
    BY <2>1, <2>2, TakenIsUnique DEF StreamInv
<1>1. PICK at \in 0 .. Len(sent) : pos = Offset(at) /\ Taken = at
  BY <1>0 DEF StreamInv, AtPacket, TakenIsThere
<1>2. Len(sent) \in Nat
  BY DEF StreamInv, Layout, TypeOK
<1>3. ASSUME UNCHANGED <<sent, ends, pos>> PROVE Taken' = Taken
  BY <1>3 DEF Taken, Offset
<1>4. ASSUME UNCHANGED <<sent, injected>> PROVE Received' = Received
  BY <1>4 DEF Received
<1>5. ASSUME NEW t \in EventType, WritePacket(t) PROVE Stream!Send(t)
  <2>1. Taken' = Taken
    <3>1. at \in 0 .. Len(sent') /\ Offset(at)' = Offset(at)
      BY <1>1, <1>2, <1>5, OffsetsStay DEF StreamInv, Layout
    <3>2. pos' = Offset(at)'
      BY <1>1, <1>5, <3>1 DEF WritePacket
    <3>3. QED
      BY <1>0, <1>1, <3>1, <3>2 DEF TakenIsThere
  <2>2. Received' = Received
    BY <1>5, ReceivedStays
  <2>3. QED
    BY <1>5, <2>1, <2>2 DEF WritePacket, Stream!Send
<1>6. ASSUME ClientExits PROVE Stream!HangUp
  BY <1>3, <1>4, <1>6 DEF ClientExits, Stream!HangUp
<1>7. ASSUME NEW n \in ReadLengths, Read(n) PROVE Stream!Receive
  <2>1. PICK i \in 1 .. Len(sent), j \in 1 .. Len(sent) : Takes(i, j)
    BY <1>7, ReadTakes
  <2>2. /\ UNCHANGED <<boundary, sent, ends, client>>
        /\ server = "serving" /\ server' = "serving"
    <3>1. UNCHANGED <<boundary, sent, ends, client>> /\ server = "serving"
      BY <1>7 DEF Read
    <3>2. server' = server
      BY <1>7, FirstPacketInjected DEF StreamInv
    <3>3. QED
      BY <3>1, <3>2
  <2>3. Taken = i - 1
    BY <1>0, <1>2, <2>1 DEF Takes, TakenIsThere
  <2>4. Taken' = j
    <3>1. pos' = Offset(j)' /\ j \in 0 .. Len(sent')
      BY <1>2, <2>1, <2>2 DEF Takes, Offset
    <3>2. QED
      BY <1>0, <3>1 DEF TakenIsThere
  <2>5. Received' = Append(Received, sent[i])
    BY <2>1, <2>2, ReceivedGrows DEF Takes
  <2>6. Taken + 1 = i
    BY <1>2, <2>3
  <2>7. j \in i .. Len(sent) /\ (boundary = "whole" \/ j = i)
    BY <1>2, <2>1 DEF Takes, StreamInv, Layout, TypeOK, Boundaries
  <2>8. QED
    BY <2>2, <2>4, <2>5, <2>6, <2>7 DEF Stream!Receive
<1>8. ASSUME EndOfStream PROVE Stream!End
  <2>1. Taken = Len(sent)
    BY <1>0, <1>2, <1>8 DEF EndOfStream, TakenIsThere
  <2>2. QED
    BY <1>3, <1>4, <1>8, <2>1 DEF EndOfStream, Fail, Stream!End
<1>9. ASSUME UNCHANGED vars PROVE UNCHANGED Stream!vars
  BY <1>3, <1>4, <1>9 DEF vars, Stream!vars
<1>10. QED
  BY <1>5, <1>6, <1>7, <1>8, <1>9 DEF Next, ReadSome, Finished, Stream!Next

(* However many packets are written: as long as a read ends where a write  *)
(* ended, the loop loses packets only to a read that returned several, and *)
(* ends only after the client has, with nothing left to read.              *)
THEOREM TheLoopIsAReceiver == Spec => ImplementsStream
<1> DEFINE Goes == boundary # "any" => Stream!Next \/ UNCHANGED Stream!vars
<1>1. StreamInv /\ [Next]_vars => [Goes]_vars
  BY StreamGoesOn
<1> HIDE DEF Goes
<1>2. Spec => [][Goes]_vars
  BY <1>1, StreamIsWell, PTL DEF Spec
<1>3. Spec => (boundary # "any" => Stream!Init)
  BY StreamStarts DEF Spec
<1>4. QED
  BY <1>2, <1>3 DEF Goes, ImplementsStream

(* And the same as a refinement of the whole specification.                *)
THEOREM TheLoopImplementsPacketStream ==
  Spec /\ boundary # "any" => Stream!Spec
<1> DEFINE Cut == boundary # "any"
<1>1. Cut /\ [Next]_vars => Cut'
  BY DEF Next, ReadSome, Read, WritePacket, ClientExits, EndOfStream, Finished, vars
<1>2. StreamInv /\ Cut /\ [Next]_vars => [Stream!Next]_(Stream!vars)
  BY StreamGoesOn
<1>3. Init /\ Cut => Stream!Init
  BY StreamStarts
<1> HIDE DEF Cut
<1>4. Spec /\ Cut => Stream!Spec
  BY <1>1, <1>2, <1>3, StreamIsWell, PTL DEF Spec, Stream!Spec
<1>5. QED
  BY <1>4 DEF Cut
=============================================================================
