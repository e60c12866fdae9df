---------------------------- MODULE MirrorProofs ----------------------------
(***************************************************************************)
(* Proofs that the desktop of the peer follows the input of the host: the  *)
(* invariants of Sameness that speak of what the desktop will be after the *)
(* packets on the way.  Two facts carry them.  A packet is only ever added *)
(* behind the pending ones, and then it decides what it is about; and the  *)
(* injection of the first pending packet leaves the outlook as it is.  The *)
(* same two facts make the session an implementation of RemoteDesk.        *)
(***************************************************************************)
EXTENDS SamenessProofs, WellFoundedInduction

-----------------------------------------------------------------------------
(* The last packet of a sequence.                                          *)

LEMMA LargestExists ==
  ASSUME NEW n \in Nat, NEW S \in SUBSET (1 .. n), S # {}
  PROVE  \E i \in S : \A j \in S : j <= i
<1> DEFINE Below == {n - i : i \in S}
<1>1. Below \subseteq Nat /\ Below # {}
  <2>1. \A i \in S : n - i \in Nat
    OBVIOUS
  <2>2. QED
    BY <2>1
<1>2. \E x \in Below : \A y \in Below : ~(<<y, x>> \in OpToRel(<, Nat))
  BY <1>1, WFMin, NatLessThanWellFounded
<1>3. PICK x \in Below : \A y \in Below : ~(y < x)
  BY <1>1, <1>2 DEF OpToRel
<1>4. PICK i \in S : x = n - i
  OBVIOUS
<1>5. ASSUME NEW j \in S PROVE j <= i
  <2>1. n - j \in Below
    OBVIOUS
  <2>2. ~(n - j < n - i)
    BY <1>3, <1>4, <2>1
  <2>3. i \in Int /\ j \in Int
    OBVIOUS
  <2>4. QED
    BY <2>2, <2>3
<1>6. QED
  BY <1>5

LEMMA LastEmpty ==
  ASSUME NEW T, NEW q \in Seq(T), NEW S, Last(q, S) = {}
  PROVE  \A i \in DOMAIN q : q[i] \notin S
<1> DEFINE Hits == {i \in DOMAIN q : q[i] \in S}
<1>1. SUFFICES ASSUME Hits # {} PROVE FALSE
  OBVIOUS
<1>2. DOMAIN q = 1 .. Len(q) /\ Len(q) \in Nat
  BY LenProperties
<1>3. PICK i \in Hits : \A j \in Hits : j <= i
  BY <1>1, <1>2, LargestExists
<1>4. \A j \in DOMAIN q : j > i => q[j] \notin S
  BY <1>2, <1>3
<1>5. QED
  BY <1>3, <1>4 DEF Last

LEMMA LastOfAppend ==
  ASSUME NEW T, NEW q \in Seq(T), NEW p \in T, NEW S
  PROVE  /\ p \in S => /\ Last(q \o <<p>>, S) = {Len(q) + 1}
                       /\ (q \o <<p>>)[Len(q) + 1] = p
         /\ p \notin S => Last(q \o <<p>>, S) = Last(q, S)
<1> DEFINE r == q \o <<p>>
<1>1. <<p>> \in Seq(T) /\ Len(<<p>>) = 1 /\ <<p>>[1] = p
  OBVIOUS
<1>2. /\ DOMAIN q = 1 .. Len(q) /\ Len(q) \in Nat
      /\ DOMAIN r = 1 .. Len(q) + 1
  BY <1>1, ConcatProperties, LenProperties
<1>3. \A i \in 1 .. Len(q) + 1 : r[i] = IF i <= Len(q) THEN q[i] ELSE <<p>>[i - Len(q)]
  BY <1>1, ConcatProperties
<1>4. r[Len(q) + 1] = p /\ \A i \in 1 .. Len(q) : r[i] = q[i]
  BY <1>1, <1>2, <1>3
<1> HIDE DEF r
<1>5. ASSUME p \in S PROVE Last(r, S) = {Len(q) + 1}
  BY <1>2, <1>4, <1>5 DEF Last
<1>6. ASSUME p \notin S PROVE Last(r, S) = Last(q, S)
  BY <1>2, <1>4, <1>6 DEF Last
<1>7. QED
  BY <1>4, <1>5, <1>6 DEF r

LEMMA LastOfTail ==
  ASSUME NEW T, NEW q \in Seq(T), q # <<>>, NEW S
  PROVE  LET rest == Last(Tail(q), S)
         IN /\ rest # {} => /\ Last(q, S) = {i + 1 : i \in rest}
                            /\ \A i \in rest : q[i + 1] = Tail(q)[i]
            /\ rest = {} /\ Head(q) \in S => /\ Last(q, S) = {1}
                                             /\ q[1] = Head(q)
            /\ rest = {} /\ Head(q) \notin S => Last(q, S) = {}
<1> DEFINE t == Tail(q)
<1>1. /\ DOMAIN q = 1 .. Len(q) /\ Len(q) \in Nat \ {0}
      /\ q[1] = Head(q)
  BY LenProperties, EmptySeq
<1>2. /\ t \in Seq(T)
      /\ DOMAIN t = 1 .. Len(q) - 1
      /\ \A i \in 1 .. Len(q) - 1 : t[i] = q[i + 1]
  BY <1>1, HeadTailProperties, LenProperties
<1> HIDE DEF t
<1>3. ASSUME Last(t, S) # {}
      PROVE  Last(q, S) = {i + 1 : i \in Last(t, S)}
  <2>1. PICK k \in Last(t, S) : TRUE
    BY <1>3
  <2>2. k \in 1 .. Len(q) - 1 /\ q[k + 1] \in S
    BY <1>2 DEF Last
  <2>3. ASSUME NEW j \in 1 .. Len(q), j > 1
        PROVE  j - 1 \in 1 .. Len(q) - 1 /\ t[j - 1] = q[j]
    BY <1>1, <1>2, <2>3
  <2>4. ASSUME NEW i \in Last(q, S) PROVE i - 1 \in Last(t, S)
    <3>1. i \in 1 .. Len(q) /\ q[i] \in S
      BY <1>1 DEF Last
    <3>2. i > 1
      BY <1>1, <2>2, <3>1 DEF Last
    <3>3. i - 1 \in DOMAIN t /\ t[i - 1] \in S
      BY <1>2, <2>3, <3>1, <3>2
    <3>4. ASSUME NEW j \in DOMAIN t, j > i - 1 PROVE t[j] \notin S
      BY <1>1, <1>2, <3>1, <3>4 DEF Last
    <3>5. QED
      BY <3>3, <3>4 DEF Last
  <2>5. ASSUME NEW i \in Last(t, S) PROVE i + 1 \in Last(q, S)
    <3>1. i \in 1 .. Len(q) - 1 /\ t[i] \in S
      BY <1>2 DEF Last
    <3>2. i + 1 \in DOMAIN q /\ q[i + 1] \in S
      BY <1>1, <1>2, <3>1
    <3>3. ASSUME NEW j \in DOMAIN q, j > i + 1 PROVE q[j] \notin S
      <4>1. j - 1 \in DOMAIN t /\ t[j - 1] = q[j] /\ j - 1 > i
        BY <1>1, <1>2, <2>3, <3>1, <3>3
      <4>2. QED
        BY <4>1 DEF Last
    <3>4. QED
      BY <3>2, <3>3 DEF Last
  <2>6. \A i \in Last(q, S) : i \in Int /\ i = (i - 1) + 1
    BY <1>1 DEF Last
  <2>7. QED
    BY <2>4, <2>5, <2>6
<1>4. \A i \in Last(t, S) : q[i + 1] = t[i]
  BY <1>2 DEF Last
<1>5. ASSUME Last(t, S) = {}
      PROVE  \A j \in DOMAIN q : j > 1 => q[j] \notin S
  <2>1. \A i \in DOMAIN t : t[i] \notin S
    BY <1>2, <1>5, LastEmpty
  <2>2. ASSUME NEW j \in DOMAIN q, j > 1 PROVE q[j] \notin S
    <3>1. j - 1 \in 1 .. Len(q) - 1 /\ t[j - 1] = q[j]
      BY <1>1, <1>2, <2>2
    <3>2. QED
      BY <1>2, <2>1, <3>1
  <2>3. QED
    BY <2>2
<1>6. ASSUME Last(t, S) = {}, Head(q) \in S PROVE Last(q, S) = {1}
  BY <1>1, <1>5, <1>6 DEF Last
<1>7. ASSUME Last(t, S) = {}, Head(q) \notin S PROVE Last(q, S) = {}
  BY <1>1, <1>5, <1>7 DEF Last
<1>8. QED
  BY <1>1, <1>3, <1>4, <1>6, <1>7 DEF t

-----------------------------------------------------------------------------
(* A packet added behind the others decides what it is about.              *)

LEMMA AfterAppend ==
  ASSUME NEW q \in Seq(Events), NEW p \in Events, NEW d \in Desk
  PROVE  /\ \A k \in Keys :
              KeyAfter(k, q \o <<p>>, d) <=>
                IF p \in About(k) THEN p.type = "KeyPress" ELSE KeyAfter(k, q, d)
         /\ LeftAfter(q \o <<p>>, d) <=>
              IF p \in Clicks THEN p.type = "MouseButtonPress" ELSE LeftAfter(q, d)
         /\ \A sx : PointerAfter(q \o <<p>>, d, sx) <=>
              IF p \in MouseEvents THEN ScreenX(p.x) = sx ELSE PointerAfter(q, d, sx)
<1> DEFINE r == q \o <<p>>
           n == Len(q) + 1
<1>1. \A S : p \in S => Last(r, S) = {n} /\ r[n] = p
  BY LastOfAppend
<1>2. ASSUME NEW S, p \notin S
      PROVE  Last(r, S) = Last(q, S) /\ \A i \in Last(q, S) : r[i] = q[i]
  <2>1. Last(r, S) = Last(q, S)
    BY <1>2, LastOfAppend
  <2>2. \A i \in Last(q, S) : r[i] = q[i]
    <3>1. <<p>> \in Seq(Events) /\ Len(<<p>>) = 1
      OBVIOUS
    <3>2. DOMAIN q = 1 .. Len(q) /\ Len(q) \in Nat
      BY LenProperties
    <3>3. \A i \in 1 .. Len(q) : r[i] = q[i]
      BY <3>1, <3>2, ConcatProperties
    <3>4. QED
      BY <3>2, <3>3 DEF Last
  <2>3. QED
    BY <2>1, <2>2
<1> HIDE DEF r, n
<1>3. ASSUME NEW k \in Keys
      PROVE  KeyAfter(k, r, d) <=>
               IF p \in About(k) THEN p.type = "KeyPress" ELSE KeyAfter(k, q, d)
  <2>1. CASE p \in About(k)
    <3>1. Last(r, About(k)) = {n} /\ r[n] = p
      BY <1>1, <2>1
    <3>2. QED
      BY <2>1, <3>1 DEF KeyAfter
  <2>2. CASE p \notin About(k)
    <3>1. Last(r, About(k)) = Last(q, About(k)) /\ \A i \in Last(q, About(k)) : r[i] = q[i]
      BY <1>2, <2>2
    <3>2. QED
      BY <2>2, <3>1 DEF KeyAfter
  <2>3. QED
    BY <2>1, <2>2
<1>4. LeftAfter(r, d) <=>
        IF p \in Clicks THEN p.type = "MouseButtonPress" ELSE LeftAfter(q, d)
  <2>1. CASE p \in Clicks
    <3>1. Last(r, Clicks) = {n} /\ r[n] = p
      BY <1>1, <2>1
    <3>2. QED
      BY <2>1, <3>1 DEF LeftAfter
  <2>2. CASE p \notin Clicks
    <3>1. Last(r, Clicks) = Last(q, Clicks) /\ \A i \in Last(q, Clicks) : r[i] = q[i]
      BY <1>2, <2>2
    <3>2. QED
      BY <2>2, <3>1 DEF LeftAfter
  <2>3. QED
    BY <2>1, <2>2
<1>5. ASSUME NEW sx
      PROVE  PointerAfter(r, d, sx) <=>
               IF p \in MouseEvents THEN ScreenX(p.x) = sx ELSE PointerAfter(q, d, sx)
  <2>1. CASE p \in MouseEvents
    <3>1. Last(r, MouseEvents) = {n} /\ r[n] = p
      BY <1>1, <2>1
    <3>2. QED
      BY <2>1, <3>1 DEF PointerAfter
  <2>2. CASE p \notin MouseEvents
    <3>1. Last(r, MouseEvents) = Last(q, MouseEvents) /\ \A i \in Last(q, MouseEvents) : r[i] = q[i]
      BY <1>2, <2>2
    <3>2. QED
      BY <2>2, <3>1 DEF PointerAfter
  <2>3. QED
    BY <2>1, <2>2
<1>6. QED
  BY <1>3, <1>4, <1>5 DEF r

-----------------------------------------------------------------------------
(* The injection of the first packet leaves the outlook as it is.          *)

LEMMA EffectOnKeys ==
  ASSUME NEW p \in Events, NEW d \in Desk, NEW k \in Keys
  PROVE  k \in Effect(d, p).keys <=>
           IF p \in About(k) THEN p.type = "KeyPress" ELSE k \in d.keys
<1>1. k \in Nat /\ CGKeyCode(k) = k
  BY KeyCodes
<1>2. ASSUME p.type \in KeyType PROVE CGKeyCode(p.code) = p.code
  <2>1. p.code \in Keys
    BY <1>2 DEF Events, KeyType, ButtonType
  <2>2. QED
    BY <2>1, KeyCodes
<1>3. Effect(d, p).keys = (d.keys \cup KeyOf("KeyPress", p)) \ KeyOf("KeyRelease", p)
  BY DEF Effect
<1>4. CASE p.type \notin KeyType
  BY <1>3, <1>4 DEF KeyOf, KeyType, About
<1>5. CASE p.type = "KeyPress"
  BY <1>2, <1>3, <1>5 DEF KeyOf, KeyType, About
<1>6. CASE p.type = "KeyRelease"
  BY <1>2, <1>3, <1>6 DEF KeyOf, KeyType, About
<1>7. QED
  BY <1>4, <1>5, <1>6 DEF KeyType

LEMMA AfterTail ==
  ASSUME NEW q \in Seq(Events), q # <<>>, NEW d \in Desk
  PROVE  /\ \A k \in Keys : KeyAfter(k, Tail(q), Effect(d, Head(q))) <=> KeyAfter(k, q, d)
         /\ LeftAfter(Tail(q), Effect(d, Head(q))) <=> LeftAfter(q, d)
         /\ \A sx : PointerAfter(Tail(q), Effect(d, Head(q)), sx) <=> PointerAfter(q, d, sx)
<1> DEFINE p == Head(q)
           t == Tail(q)
           d1 == Effect(d, p)
<1>1. p \in Events
  BY HeadTailProperties
<1>2. \A S : Last(t, S) # {} => /\ Last(q, S) = {i + 1 : i \in Last(t, S)}
                                /\ \A i \in Last(t, S) : q[i + 1] = t[i]
  BY LastOfTail
<1>3. \A S : Last(t, S) = {} /\ p \in S => Last(q, S) = {1} /\ q[1] = p
  BY LastOfTail
<1>4. \A S : Last(t, S) = {} /\ p \notin S => Last(q, S) = {}
  BY LastOfTail
<1>5. \A k \in Keys :
        k \in d1.keys <=> IF p \in About(k) THEN p.type = "KeyPress" ELSE k \in d.keys
  BY <1>1, EffectOnKeys
<1>6. d1.left <=> IF p \in Clicks THEN p.type = "MouseButtonPress" ELSE d.left
  BY <1>1 DEF Effect, Clicks
<1>7. d1.x = IF p \in MouseEvents THEN ScreenX(p.x) ELSE d.x
  BY <1>1 DEF Effect, MouseEvents
<1> HIDE DEF p, t, d1
<1>8. ASSUME NEW k \in Keys
      PROVE  KeyAfter(k, t, d1) <=> KeyAfter(k, q, d)
  <2>1. CASE Last(t, About(k)) # {}
    <3>1. /\ Last(q, About(k)) = {i + 1 : i \in Last(t, About(k))}
          /\ \A i \in Last(t, About(k)) : q[i + 1] = t[i]
      BY <1>2, <2>1
    <3>2. QED
      BY <2>1, <3>1 DEF KeyAfter
  <2>2. CASE Last(t, About(k)) = {} /\ p \in About(k)
    <3>1. Last(q, About(k)) = {1} /\ q[1] = p
      BY <1>3, <2>2
    <3>2. QED
      BY <1>5, <2>2, <3>1 DEF KeyAfter
  <2>3. CASE Last(t, About(k)) = {} /\ p \notin About(k)
    <3>1. Last(q, About(k)) = {}
      BY <1>4, <2>3
    <3>2. QED
      BY <1>5, <2>3, <3>1 DEF KeyAfter
  <2>4. QED
    BY <2>1, <2>2, <2>3
<1>9. LeftAfter(t, d1) <=> LeftAfter(q, d)
  <2>1. CASE Last(t, Clicks) # {}
    <3>1. /\ Last(q, Clicks) = {i + 1 : i \in Last(t, Clicks)}
          /\ \A i \in Last(t, Clicks) : q[i + 1] = t[i]
      BY <1>2, <2>1
    <3>2. QED
      BY <2>1, <3>1 DEF LeftAfter
  <2>2. CASE Last(t, Clicks) = {} /\ p \in Clicks
    <3>1. Last(q, Clicks) = {1} /\ q[1] = p
      BY <1>3, <2>2
    <3>2. QED
      BY <1>6, <2>2, <3>1 DEF LeftAfter
  <2>3. CASE Last(t, Clicks) = {} /\ p \notin Clicks
    <3>1. Last(q, Clicks) = {}
      BY <1>4, <2>3
    <3>2. QED
      BY <1>6, <2>3, <3>1 DEF LeftAfter
  <2>4. QED
    BY <2>1, <2>2, <2>3
<1>10. ASSUME NEW sx
      PROVE  PointerAfter(t, d1, sx) <=> PointerAfter(q, d, sx)
  <2>1. CASE Last(t, MouseEvents) # {}
    <3>1. /\ Last(q, MouseEvents) = {i + 1 : i \in Last(t, MouseEvents)}
          /\ \A i \in Last(t, MouseEvents) : q[i + 1] = t[i]
      BY <1>2, <2>1
    <3>2. QED
      BY <2>1, <3>1 DEF PointerAfter
  <2>2. CASE Last(t, MouseEvents) = {} /\ p \in MouseEvents
    <3>1. Last(q, MouseEvents) = {1} /\ q[1] = p
      BY <1>3, <2>2
    <3>2. QED
      BY <1>7, <2>2, <3>1 DEF PointerAfter
  <2>3. CASE Last(t, MouseEvents) = {} /\ p \notin MouseEvents
    <3>1. Last(q, MouseEvents) = {}
      BY <1>4, <2>3
    <3>2. QED
      BY <1>7, <2>3, <3>1 DEF PointerAfter
  <2>4. QED
    BY <2>1, <2>2, <2>3
<1>11. QED
  BY <1>8, <1>9, <1>10 DEF p, t, d1

-----------------------------------------------------------------------------
(* What the steps do to the pending packets.                               *)

LEMMA PendingIsSeq == TypeOK => Pending \in Seq(Events)
BY ConcatProperties DEF TypeOK, Pending

LEMMA IgnoreKeepsPending == Ignore => Pending' = Pending
BY DEF Ignore, channelVars, Pending

LEMMA ThrowCloses == Throw => conn' # "up"
BY DEF Throw, CloseClientEnd

LEMMA ForwardAppends ==
  ASSUME TypeOK, writing = <<>>, NEW p \in Events, Forward(p)
  PROVE  Pending' = Pending \o <<p>>
<1>1. Pending = wire
  BY ConcatEmptySeq DEF TypeOK, Pending
<1>2. QED
  BY <1>1 DEF Forward, channelVars, Pending

LEMMA ReadTakesFirst ==
  ASSUME TypeOK, ReadPacket, conn' = "up", UNCHANGED writing
  PROVE  /\ Pending # <<>>
         /\ Pending' = Tail(Pending)
         /\ desk' = Effect(desk, Head(Pending))
<1>1. /\ wire \in Seq(Events) /\ writing \in Seq(Events) /\ wire # <<>>
      /\ Len(wire) \in Nat \ {0} /\ Len(writing) \in Nat
  BY EmptySeq, LenProperties DEF TypeOK, ReadPacket
<1>2. /\ wire' = Tail(wire)
      /\ desk' = Effect(desk, Head(wire))
  BY DEF ReadPacket, CloseServerEnd
<1>3. /\ Pending \in Seq(Events) /\ Len(Pending) = Len(wire) + Len(writing)
      /\ \A i \in 1 .. Len(wire) + Len(writing) :
           Pending[i] = IF i <= Len(wire) THEN wire[i] ELSE writing[i - Len(wire)]
  BY <1>1, ConcatProperties DEF Pending
<1>4. Pending # <<>> /\ Head(Pending) = Head(wire)
  <2>1. Pending # <<>>
    BY <1>1, <1>3, EmptySeq
  <2>2. Head(Pending) = Pending[1] /\ Head(wire) = wire[1]
    BY <1>1, <1>3, <2>1
  <2>3. QED
    BY <1>1, <1>3, <2>1, <2>2
<1>5. Tail(Pending) = Tail(wire) \o writing
  <2>1. /\ Tail(wire) \in Seq(Events) /\ Len(Tail(wire)) = Len(wire) - 1
        /\ \A i \in 1 .. Len(wire) - 1 : Tail(wire)[i] = wire[i + 1]
    BY <1>1, HeadTailProperties
  <2>2. /\ Tail(Pending) \in Seq(Events)
        /\ Len(Tail(Pending)) = Len(wire) + Len(writing) - 1
        /\ \A i \in 1 .. Len(wire) + Len(writing) - 1 : Tail(Pending)[i] = Pending[i + 1]
    BY <1>1, <1>3, <1>4, HeadTailProperties
  <2>3. /\ Tail(wire) \o writing \in Seq(Events)
        /\ Len(Tail(wire) \o writing) = Len(wire) - 1 + Len(writing)
        /\ \A i \in 1 .. Len(wire) - 1 + Len(writing) :
             (Tail(wire) \o writing)[i]
               = IF i <= Len(wire) - 1 THEN Tail(wire)[i] ELSE writing[i - (Len(wire) - 1)]
    BY <1>1, <2>1, ConcatProperties
  <2>4. ASSUME NEW i \in 1 .. Len(wire) + Len(writing) - 1
        PROVE  Tail(Pending)[i] = (Tail(wire) \o writing)[i]
    <3>1. CASE i <= Len(wire) - 1
      <4>1. i \in 1 .. Len(wire) - 1 /\ i + 1 \in 1 .. Len(wire) + Len(writing) /\ i + 1 <= Len(wire)
        BY <1>1, <3>1
      <4>2. Pending[i + 1] = wire[i + 1] /\ Tail(wire)[i] = wire[i + 1]
        BY <1>3, <2>1, <4>1
      <4>3. (Tail(wire) \o writing)[i] = Tail(wire)[i]
        BY <1>1, <2>3, <3>1
      <4>4. QED
        BY <2>2, <4>2, <4>3
    <3>2. CASE i > Len(wire) - 1
      <4>1. i + 1 \in 1 .. Len(wire) + Len(writing) /\ ~(i + 1 <= Len(wire))
        BY <1>1, <3>2
      <4>2. Pending[i + 1] = writing[(i + 1) - Len(wire)]
        BY <1>3, <4>1
      <4>3. (Tail(wire) \o writing)[i] = writing[i - (Len(wire) - 1)]
        BY <1>1, <2>3, <3>2
      <4>4. (i + 1) - Len(wire) = i - (Len(wire) - 1)
        BY <1>1
      <4>5. QED
        BY <2>2, <4>2, <4>3, <4>4
    <3>3. i <= Len(wire) - 1 \/ i > Len(wire) - 1
      BY <1>1
    <3>4. QED
      BY <3>1, <3>2, <3>3
  <2>5. Len(Tail(Pending)) = Len(Tail(wire) \o writing)
    BY <1>1, <2>2, <2>3
  <2>6. QED
    BY <2>2, <2>3, <2>4, <2>5, SeqEqual
<1>6. QED
  BY <1>2, <1>4, <1>5 DEF Pending

(* The steps that are no event of the user move packets along, one at a    *)
(* time, as long as the connection is up.                                  *)
Moves ==
  /\ UNCHANGED <<control, pointer, keys, buttons, unsent>>
  /\ \/ Pending' = Pending /\ desk' = desk
     \/ /\ Pending # <<>>
        /\ Pending' = Tail(Pending)
        /\ desk' = Effect(desk, Head(Pending))

LEMMA UpSteps ==
  ASSUME TypeOK, [Next]_vars, conn' = "up"
  PROVE  /\ conn = "up"
         /\ Moves \/ (UserEvent /\ RecordUnsent /\ desk' = desk)
<1>1. CASE ClientStep /\ UserEvent
  <2>1. Outcome
    BY <1>1, UserEventOutcome
  <2>2. conn = "up"
    BY <2>1 DEF Outcome, Ignore, Throw, Forward, CloseClientEnd, channelVars
  <2>3. QED
    BY <1>1, <2>2 DEF ClientStep, serverVars
<1>2. CASE ClientStep /\ WriteReturns
  <2>1. conn' = conn
    BY <1>2, TransmitTypes DEF WriteReturns, TypeOK, SendingOK
  <2>2. wire' = wire \o writing
    BY <1>2, <2>1 DEF WriteReturns, Transmit, Swallows
  <2>3. wire \o writing \in Seq(Events)
    BY ConcatProperties DEF TypeOK
  <2>4. Pending' = Pending
    BY <1>2, <2>2, <2>3, ConcatEmptySeq DEF WriteReturns, Pending
  <2>5. unsent' = unsent
    BY <1>2 DEF ClientStep, WriteReturns, RecordUnsent, JustChanged, JustForwarded
  <2>6. QED
    BY <1>2, <2>1, <2>4, <2>5 DEF ClientStep, WriteReturns, Moves, serverVars
<1>3. CASE ClientStep /\ (WriteFails \/ ClientKilled)
  BY <1>3, ThrowCloses DEF WriteFails, ClientKilled
<1>4. CASE ServerStep /\ ReadPacket
  <2>1. UNCHANGED <<control, pointer, keys, buttons, writing, unsent>>
    BY <1>4 DEF ServerStep, clientVars
  <2>2. conn = "up"
    BY <1>4 DEF ReadPacket, CloseServerEnd
  <2>3. QED
    BY <1>4, <2>1, <2>2, ReadTakesFirst DEF Moves
<1>5. CASE ServerStep /\ (InjectionFails \/ EndOfStream)
  BY <1>5 DEF InjectionFails, EndOfStream, CloseServerEnd
<1>6. CASE NetworkStep
  BY <1>6 DEF NetworkStep, NetworkFails, ResetArrives
<1>7. CASE UNCHANGED vars
  BY <1>7 DEF vars, clientVars, serverVars, Moves, Pending
<1>8. QED
  BY <1>1, <1>2, <1>3, <1>4, <1>5, <1>6, <1>7
     DEF Next, ClientStep, ClientNext, ServerStep, ServerNext, Finished

-----------------------------------------------------------------------------
(* The three invariants.                                                   *)

(* With no button down, or the host in control, the left button of the     *)
(* peer is going to be up.  NoStuckButton alone is not inductive: a button *)
(* pressed while the host was in control, and whose press was not          *)
(* forwarded, is released without a packet as well.                        *)
ButtonFree ==
  conn = "up" /\ (buttons = {} \/ control = "HOST") => ~LeftAfter(Pending, desk)

Outlook == ButtonFree /\ PointerTracksHost /\ Mirror

LEMMA InitOutlook == Init => Outlook
<1> SUFFICES ASSUME Init PROVE Outlook
  OBVIOUS
<1>1. Pending = <<>>
  BY ConcatEmptySeq, EmptySeq DEF Init, ChannelInit, ClientInit, Pending
<1>2. \A S : Last(<<>>, S) = {}
  BY DEF Last
<1>3. ButtonFree
  BY <1>1, <1>2 DEF Init, ServerInit, ButtonFree, LeftAfter
<1>4. PointerTracksHost
  BY DEF Init, ClientInit, PointerTracksHost
<1>5. Mirror
  BY <1>1, <1>2 DEF Init, ServerInit, Mirror, KeyAfter
<1>6. QED
  BY <1>3, <1>4, <1>5 DEF Outlook

LEMMA MovesKeepOutlook ==
  ASSUME TypeOK, Outlook, conn = "up", Moves
  PROVE  Outlook'
<1>1. /\ LeftAfter(Pending', desk') <=> LeftAfter(Pending, desk)
      /\ \A k \in Keys : KeyAfter(k, Pending', desk') <=> KeyAfter(k, Pending, desk)
      /\ \A sx : PointerAfter(Pending', desk', sx) <=> PointerAfter(Pending, desk, sx)
  <2>1. CASE Pending' = Pending /\ desk' = desk
    BY <2>1
  <2>2. CASE /\ Pending # <<>>
             /\ Pending' = Tail(Pending)
             /\ desk' = Effect(desk, Head(Pending))
    <3>1. Pending \in Seq(Events) /\ desk \in Desk
      BY PendingIsSeq DEF TypeOK
    <3>2. QED
      BY <2>2, <3>1, AfterTail
  <2>3. QED
    BY <2>1, <2>2 DEF Moves
<1>2. ButtonFree'
  BY <1>1 DEF Moves, Outlook, ButtonFree
<1>3. PointerTracksHost'
  BY <1>1 DEF Moves, Outlook, PointerTracksHost
<1>4. Mirror'
  BY <1>1 DEF Moves, Outlook, Mirror
<1>5. QED
  BY <1>2, <1>3, <1>4 DEF Outlook

(* An event of the user that is not forwarded.                             *)
LEMMA IgnoredOutlook ==
  ASSUME Ignore, desk' = desk
  PROVE  /\ LeftAfter(Pending', desk') <=> LeftAfter(Pending, desk)
         /\ \A k \in Keys : KeyAfter(k, Pending', desk') <=> KeyAfter(k, Pending, desk)
         /\ \A sx : PointerAfter(Pending', desk', sx) <=> PointerAfter(Pending, desk, sx)
         /\ JustForwarded = {}
BY IgnoreKeepsPending DEF Ignore, JustForwarded

(* An event that is.                                                       *)
LEMMA ForwardedOutlook ==
  ASSUME TypeOK, writing = <<>>, NEW p \in Events, Forward(p), desk' = desk
  PROVE  /\ LeftAfter(Pending', desk') <=>
              IF p \in Clicks THEN p.type = "MouseButtonPress" ELSE LeftAfter(Pending, desk)
         /\ \A k \in Keys :
              KeyAfter(k, Pending', desk') <=>
                IF p \in About(k) THEN p.type = "KeyPress" ELSE KeyAfter(k, Pending, desk)
         /\ \A sx :
              PointerAfter(Pending', desk', sx) <=>
                IF p \in MouseEvents THEN ScreenX(p.x) = sx ELSE PointerAfter(Pending, desk, sx)
         /\ JustForwarded = IF p.type \in KeyType THEN {p.code} ELSE {}
<1>1. Pending \in Seq(Events) /\ desk \in Desk
  BY PendingIsSeq DEF TypeOK
<1>2. Pending' = Pending \o <<p>>
  BY ForwardAppends
<1>3. writing' = <<p>> /\ writing'[1] = p /\ writing' # <<>>
  BY DEF Forward
<1>4. JustForwarded = IF p.type \in KeyType THEN {p.code} ELSE {}
  BY <1>3 DEF JustForwarded
<1>5. QED
  BY <1>1, <1>2, <1>4, AfterAppend

LEMMA MouseMovedKeepsOutlook ==
  ASSUME TypeOK, Outlook, conn = "up", conn' = "up", RecordUnsent, desk' = desk,
         NEW x \in Positions, MouseMoved(x)
  PROVE  Outlook'
<1>1. /\ writing = <<>> /\ buttons = {} /\ buttons' = {}
      /\ pointer' = x /\ keys' = keys
  BY DEF MouseMoved, Listening
<1>2. x >= 0 /\ ForwardMove(x)
  BY ThrowCloses DEF MouseMoved
<1>3. CASE control' = "CLIENT"
  <2> DEFINE p == MovePacket(Relative(x))
  <2>1. p \in Events /\ p.type = "MouseMove" /\ p.x = Relative(x)
    BY <1>2, MovePacketIsEvent DEF MovePacket
  <2>2. Forward(p)
    BY <1>2, <1>3 DEF ForwardMove
  <2>3. p \notin Clicks /\ p \in MouseEvents /\ \A k \in Keys : p \notin About(k)
    BY <2>1 DEF Clicks, MouseEvents, About, KeyType, ButtonType
  <2> HIDE DEF p
  <2>4. /\ LeftAfter(Pending', desk') <=> LeftAfter(Pending, desk)
        /\ \A k \in Keys : KeyAfter(k, Pending', desk') <=> KeyAfter(k, Pending, desk)
        /\ PointerAfter(Pending', desk', ScreenX(Relative(x)))
        /\ JustForwarded = {}
    BY <1>1, <2>1, <2>2, <2>3, ForwardedOutlook DEF KeyType
  <2>5. unsent' = unsent
    BY <1>1, <2>4 DEF RecordUnsent, JustChanged
  <2>6. ButtonFree' /\ PointerTracksHost' /\ Mirror'
    BY <1>1, <2>4, <2>5 DEF Outlook, ButtonFree, PointerTracksHost, Mirror
  <2>7. QED
    BY <2>6 DEF Outlook
<1>4. CASE control' # "CLIENT"
  <2>1. Ignore
    BY <1>2, <1>4 DEF ForwardMove
  <2>2. /\ LeftAfter(Pending', desk') <=> LeftAfter(Pending, desk)
        /\ \A k \in Keys : KeyAfter(k, Pending', desk') <=> KeyAfter(k, Pending, desk)
        /\ JustForwarded = {}
    BY <2>1, IgnoredOutlook
  <2>3. unsent' = unsent
    BY <1>1, <2>2 DEF RecordUnsent, JustChanged
  <2>4. ButtonFree' /\ PointerTracksHost' /\ Mirror'
    BY <1>1, <1>4, <2>2, <2>3 DEF Outlook, ButtonFree, PointerTracksHost, Mirror
  <2>5. QED
    BY <2>4 DEF Outlook
<1>5. QED
  BY <1>3, <1>4

LEMMA MouseDraggedKeepsOutlook ==
  ASSUME TypeOK, Outlook, conn = "up", RecordUnsent, desk' = desk,
         NEW x \in Positions, MouseDragged(x)
  PROVE  Outlook'
<1>1. /\ buttons # {} /\ Ignore
      /\ UNCHANGED <<control, keys, buttons>>
  BY DEF MouseDragged
<1>2. /\ LeftAfter(Pending', desk') <=> LeftAfter(Pending, desk)
      /\ \A k \in Keys : KeyAfter(k, Pending', desk') <=> KeyAfter(k, Pending, desk)
      /\ JustForwarded = {}
  BY <1>1, IgnoredOutlook
<1>3. unsent' = unsent
  BY <1>1, <1>2 DEF RecordUnsent, JustChanged
<1>4. ButtonFree' /\ PointerTracksHost' /\ Mirror'
  BY <1>1, <1>2, <1>3 DEF Outlook, ButtonFree, PointerTracksHost, Mirror
<1>5. QED
  BY <1>4 DEF Outlook

(* A key event, and the key is down afterwards or is not.                  *)
LEMMA KeyEventKeepsOutlook ==
  ASSUME TypeOK, Outlook, conn = "up", conn' = "up", RecordUnsent, desk' = desk,
         NEW type \in KeyType, NEW k \in Keys, writing = <<>>,
         ForwardKey(type, k),
         keys' = IF type = "KeyPress" THEN keys \cup {k} ELSE keys \ {k},
         UNCHANGED <<control, pointer, buttons>>
  PROVE  Outlook'
<1>1. CASE Ignore
  <2>1. /\ LeftAfter(Pending', desk') <=> LeftAfter(Pending, desk)
        /\ \A j \in Keys : KeyAfter(j, Pending', desk') <=> KeyAfter(j, Pending, desk)
        /\ \A sx : PointerAfter(Pending', desk', sx) <=> PointerAfter(Pending, desk, sx)
        /\ JustForwarded = {}
    BY <1>1, IgnoredOutlook
  <2>2. \A j \in Keys \ unsent' : j \notin unsent /\ (j \in keys' <=> j \in keys)
    BY <2>1 DEF RecordUnsent, JustChanged
  <2>3. Mirror'
    BY <2>1, <2>2 DEF Outlook, Mirror
  <2>4. ButtonFree' /\ PointerTracksHost'
    BY <2>1 DEF Outlook, ButtonFree, PointerTracksHost
  <2>5. QED
    BY <2>3, <2>4 DEF Outlook
<1>2. CASE k # Undefined /\ Forward(KeyPacket(type, k))
  <2> DEFINE p == KeyPacket(type, k)
  <2>1. p \in Events /\ p.type = type /\ p.code = k
    BY <1>2, KeyPacketIsEvent DEF KeyPacket
  <2>2. /\ p \notin Clicks /\ p \notin MouseEvents
        /\ \A j \in Keys : p \in About(j) <=> j = k
    BY <2>1 DEF Clicks, MouseEvents, About, KeyType, ButtonType
  <2>3. Forward(p)
    BY <1>2
  <2> HIDE DEF p
  <2>4. /\ LeftAfter(Pending', desk') <=> LeftAfter(Pending, desk)
        /\ \A j \in Keys :
             KeyAfter(j, Pending', desk') <=>
               IF j = k THEN type = "KeyPress" ELSE KeyAfter(j, Pending, desk)
        /\ \A sx : PointerAfter(Pending', desk', sx) <=> PointerAfter(Pending, desk, sx)
        /\ JustForwarded = {k}
    BY <2>1, <2>2, <2>3, ForwardedOutlook
  <2>5. \A j \in Keys \ unsent' : j # k => j \notin unsent /\ (j \in keys' <=> j \in keys)
    BY <2>4 DEF RecordUnsent, JustChanged
  <2>6. k \in keys' <=> type = "KeyPress"
    OBVIOUS
  <2>7. Mirror'
    BY <2>4, <2>5, <2>6 DEF Outlook, Mirror
  <2>8. ButtonFree' /\ PointerTracksHost'
    BY <2>4 DEF Outlook, ButtonFree, PointerTracksHost
  <2>9. QED
    BY <2>7, <2>8 DEF Outlook
<1>3. QED
  BY <1>1, <1>2, ThrowCloses DEF ForwardKey

(* A button event, and the button is down afterwards or is not.            *)
LEMMA ButtonEventKeepsOutlook ==
  ASSUME TypeOK, Outlook, conn = "up", conn' = "up", RecordUnsent, desk' = desk,
         NEW type \in ButtonType, NEW b \in Buttons, writing = <<>>,
         ForwardButton(type, b),
         type = "MouseButtonPress" => buttons' # {},
         type = "MouseButtonRelease" => buttons # {},
         UNCHANGED <<control, pointer, keys>>
  PROVE  Outlook'
<1>1. CASE control = "HOST" /\ Ignore
  <2>1. /\ LeftAfter(Pending', desk') <=> LeftAfter(Pending, desk)
        /\ \A j \in Keys : KeyAfter(j, Pending', desk') <=> KeyAfter(j, Pending, desk)
        /\ JustForwarded = {}
    BY <1>1, IgnoredOutlook
  <2>2. unsent' = unsent
    BY <2>1 DEF RecordUnsent, JustChanged
  <2>3. ButtonFree' /\ PointerTracksHost' /\ Mirror'
    BY <1>1, <2>1, <2>2 DEF Outlook, ButtonFree, PointerTracksHost, Mirror
  <2>4. QED
    BY <2>3 DEF Outlook
<1>2. CASE /\ control = "CLIENT" /\ pointer >= 0
           /\ Forward(ButtonPacket(type, b, Relative(pointer)))
  <2> DEFINE p == ButtonPacket(type, b, Relative(pointer))
  <2>1. p \in Events /\ p.type = type /\ p.x = Relative(pointer)
    BY <1>2, ButtonPacketIsEvent DEF ButtonPacket, TypeOK
  <2>2. /\ p \in Clicks /\ p \in MouseEvents
        /\ \A j \in Keys : p \notin About(j)
    BY <2>1 DEF Clicks, MouseEvents, About, KeyType, ButtonType
  <2>3. Forward(p)
    BY <1>2
  <2> HIDE DEF p
  <2>4. /\ LeftAfter(Pending', desk') <=> type = "MouseButtonPress"
        /\ \A j \in Keys : KeyAfter(j, Pending', desk') <=> KeyAfter(j, Pending, desk)
        /\ PointerAfter(Pending', desk', ScreenX(Relative(pointer)))
        /\ JustForwarded = {}
    BY <2>1, <2>2, <2>3, ForwardedOutlook DEF ButtonType, KeyType
  <2>5. unsent' = unsent
    BY <2>4 DEF RecordUnsent, JustChanged
  <2>6. ButtonFree'
    BY <1>2, <2>4 DEF ButtonFree
  <2>7. PointerTracksHost' /\ Mirror'
    BY <2>4, <2>5 DEF Outlook, PointerTracksHost, Mirror
  <2>8. QED
    BY <2>6, <2>7 DEF Outlook
<1>3. QED
  BY <1>1, <1>2, ThrowCloses DEF ForwardButton

LEMMA NextOutlook ==
  ASSUME TypeOK, Outlook, [Next]_vars
  PROVE  Outlook'
<1>1. CASE conn' # "up"
  BY <1>1 DEF Outlook, ButtonFree, PointerTracksHost, Mirror
<1>2. CASE conn' = "up"
  <2>1. conn = "up" /\ (Moves \/ (UserEvent /\ RecordUnsent /\ desk' = desk))
    BY <1>2, UpSteps
  <2>2. CASE Moves
    BY <2>1, <2>2, MovesKeepOutlook
  <2>3. CASE UserEvent /\ RecordUnsent /\ desk' = desk
    <3>1. ASSUME NEW x \in Positions, MouseMoved(x) PROVE Outlook'
      BY <1>2, <2>1, <2>3, <3>1, MouseMovedKeepsOutlook
    <3>2. ASSUME NEW x \in Positions, MouseDragged(x) PROVE Outlook'
      BY <2>1, <2>3, <3>2, MouseDraggedKeepsOutlook
    <3>3. ASSUME NEW k \in Keys, KeyPressed(k) PROVE Outlook'
      BY <1>2, <2>1, <2>3, <3>3, KeyEventKeepsOutlook DEF KeyPressed, Listening, KeyType
    <3>4. ASSUME NEW k \in Keys, KeyReleased(k) PROVE Outlook'
      BY <1>2, <2>1, <2>3, <3>4, KeyEventKeepsOutlook DEF KeyReleased, Listening, KeyType
    <3>5. ASSUME NEW b \in Buttons, MousePressed(b) PROVE Outlook'
      BY <1>2, <2>1, <2>3, <3>5, ButtonEventKeepsOutlook DEF MousePressed, Listening, ButtonType
    <3>6. ASSUME NEW b \in Buttons, MouseReleased(b) PROVE Outlook'
      BY <1>2, <2>1, <2>3, <3>6, ButtonEventKeepsOutlook DEF MouseReleased, Listening, ButtonType
    <3>7. QED
      BY <2>3, <3>1, <3>2, <3>3, <3>4, <3>5, <3>6 DEF UserEvent
  <2>4. QED
    BY <2>1, <2>2, <2>3
<1>3. QED
  BY <1>1, <1>2

LEMMA OutlookHolds == Spec => []Outlook
<1>1. Init => Outlook
  BY InitOutlook
<1>2. TypeOK /\ Outlook /\ [Next]_vars => Outlook'
  BY NextOutlook
<1>3. QED
  BY <1>1, <1>2, TypeCorrect, PTL DEF Spec

(* The peer mirrors every key whose last change was forwarded.             *)
THEOREM KeysAreMirrored == Spec => []Mirror
<1>1. Outlook => Mirror
  BY DEF Outlook
<1>2. QED
  BY <1>1, OutlookHolds, PTL

(* No button of the peer outlives those of the host.                       *)
THEOREM ButtonsAreReleased == Spec => []NoStuckButton
<1>1. Outlook => NoStuckButton
  BY DEF Outlook, ButtonFree, NoStuckButton
<1>2. QED
  BY <1>1, OutlookHolds, PTL

(* The pointer of the peer follows the pointer of the host.                *)
THEOREM PointerFollows == Spec => []PointerTracksHost
<1>1. Outlook => PointerTracksHost
  BY DEF Outlook
<1>2. QED
  BY <1>1, OutlookHolds, PTL

-----------------------------------------------------------------------------
(* Keys that stay down.                                                    *)

(* Control returns to the host only while the user holds no key that the   *)
(* peer has been told of.                                                  *)
HandsFree == [][control = "CLIENT" /\ control' = "HOST" => keys \subseteq unsent]_vars

(* Then the peer, once it has caught up, holds no key whose last change it *)
(* was not told of, nor any key while the host is in control.              *)
KeysFree ==
  conn = "up" =>
    /\ desk.keys \subseteq Keys
    /\ \A k \in Keys : control = "HOST" \/ k \in unsent => ~KeyAfter(k, Pending, desk)

LEMMA InitKeysFree == Init => KeysFree
<1> SUFFICES ASSUME Init PROVE KeysFree
  OBVIOUS
<1>1. Pending = <<>>
  BY ConcatEmptySeq, EmptySeq DEF Init, ChannelInit, ClientInit, Pending
<1>2. \A S : Last(<<>>, S) = {}
  BY DEF Last
<1>3. QED
  BY <1>1, <1>2 DEF Init, ServerInit, KeysFree, KeyAfter

LEMMA MovesKeepKeysFree ==
  ASSUME TypeOK, KeysFree, conn = "up", Moves
  PROVE  KeysFree'
<1>1. CASE Pending' = Pending /\ desk' = desk
  BY <1>1 DEF Moves, KeysFree
<1>2. CASE /\ Pending # <<>>
           /\ Pending' = Tail(Pending)
           /\ desk' = Effect(desk, Head(Pending))
  <2>1. Pending \in Seq(Events) /\ desk \in Desk /\ Head(Pending) \in Events
    BY <1>2, PendingIsSeq, HeadTailProperties DEF TypeOK
  <2>2. \A k \in Keys : KeyAfter(k, Pending', desk') <=> KeyAfter(k, Pending, desk)
    BY <1>2, <2>1, AfterTail
  <2>3. desk'.keys \subseteq desk.keys \cup KeyOf("KeyPress", Head(Pending))
    BY <1>2 DEF Effect
  <2>4. KeyOf("KeyPress", Head(Pending)) \subseteq Keys
    <3>1. CASE Head(Pending).type = "KeyPress"
      <4>1. Head(Pending).code \in Keys
        BY <2>1, <3>1 DEF Events, ButtonType
      <4>2. QED
        BY <4>1, KeyCodes DEF KeyOf
    <3>2. CASE Head(Pending).type # "KeyPress"
      BY <3>2 DEF KeyOf
    <3>3. QED
      BY <3>1, <3>2
  <2>5. QED
    BY <2>2, <2>3, <2>4 DEF Moves, KeysFree
<1>3. QED
  BY <1>1, <1>2 DEF Moves

(* An event of the mouse changes nothing about the keys.                   *)
LEMMA MouseEventsKeepKeys ==
  ASSUME TypeOK, conn' = "up", RecordUnsent, desk' = desk, UNCHANGED keys,
         Ignore \/ \E p \in Events : p.type \notin KeyType /\ writing = <<>> /\ Forward(p)
  PROVE  /\ \A k \in Keys : KeyAfter(k, Pending', desk') <=> KeyAfter(k, Pending, desk)
         /\ unsent' = unsent
<1>1. CASE Ignore
  <2>1. /\ \A k \in Keys : KeyAfter(k, Pending', desk') <=> KeyAfter(k, Pending, desk)
        /\ JustForwarded = {}
    BY <1>1, IgnoredOutlook
  <2>2. QED
    BY <2>1 DEF RecordUnsent, JustChanged
<1>2. ASSUME NEW p \in Events, p.type \notin KeyType, writing = <<>>, Forward(p)
      PROVE  /\ \A k \in Keys : KeyAfter(k, Pending', desk') <=> KeyAfter(k, Pending, desk)
             /\ unsent' = unsent
  <2>1. /\ \A k \in Keys :
             KeyAfter(k, Pending', desk') <=>
               IF p \in About(k) THEN p.type = "KeyPress" ELSE KeyAfter(k, Pending, desk)
        /\ JustForwarded = {}
    BY <1>2, ForwardedOutlook
  <2>2. \A k \in Keys : p \notin About(k)
    BY <1>2 DEF About
  <2>3. QED
    BY <2>1, <2>2 DEF RecordUnsent, JustChanged
<1>3. QED
  BY <1>1, <1>2

LEMMA KeyEventKeepsKeysFree ==
  ASSUME TypeOK, KeysFree, conn = "up", conn' = "up", RecordUnsent, desk' = desk,
         NEW type \in KeyType, NEW k \in Keys, writing = <<>>,
         ForwardKey(type, k),
         keys' = IF type = "KeyPress" THEN keys \cup {k} ELSE keys \ {k},
         UNCHANGED control
  PROVE  KeysFree'
<1>1. CASE control = "HOST" /\ Ignore
  <2>1. \A j \in Keys : KeyAfter(j, Pending', desk') <=> KeyAfter(j, Pending, desk)
    BY <1>1, IgnoredOutlook
  <2>2. QED
    BY <1>1, <2>1 DEF KeysFree
<1>2. CASE control = "CLIENT" /\ k # Undefined /\ Forward(KeyPacket(type, k))
  <2> DEFINE p == KeyPacket(type, k)
  <2>1. p \in Events /\ p.type = type /\ p.code = k
    BY <1>2, KeyPacketIsEvent DEF KeyPacket
  <2>2. \A j \in Keys : p \in About(j) <=> j = k
    BY <2>1 DEF About
  <2>3. Forward(p)
    BY <1>2
  <2> HIDE DEF p
  <2>4. /\ \A j \in Keys : j # k => (KeyAfter(j, Pending', desk') <=> KeyAfter(j, Pending, desk))
        /\ JustForwarded = {k}
    BY <2>1, <2>2, <2>3, ForwardedOutlook
  <2>5. k \notin unsent' /\ \A j \in Keys : j # k /\ j \in unsent' => j \in unsent
    BY <2>4 DEF RecordUnsent, JustChanged
  <2>6. QED
    BY <1>2, <2>4, <2>5 DEF KeysFree
<1>3. QED
  BY <1>1, <1>2, ThrowCloses DEF ForwardKey

LEMMA NextKeysFree ==
  ASSUME TypeOK, Mirror, KeysFree, [Next]_vars,
         control = "CLIENT" /\ control' = "HOST" => keys \subseteq unsent
  PROVE  KeysFree'
<1>1. CASE conn' # "up"
  BY <1>1 DEF KeysFree
<1>2. CASE conn' = "up"
  <2>1. conn = "up" /\ (Moves \/ (UserEvent /\ RecordUnsent /\ desk' = desk))
    BY <1>2, UpSteps
  <2>2. CASE Moves
    BY <2>1, <2>2, MovesKeepKeysFree
  <2>3. CASE UserEvent /\ RecordUnsent /\ desk' = desk
    <3>1. ASSUME NEW x \in Positions, MouseMoved(x) PROVE KeysFree'
      <4>1. x >= 0 /\ ForwardMove(x) /\ keys' = keys /\ writing = <<>>
        BY <1>2, <3>1, ThrowCloses DEF MouseMoved, Listening
      <4>2. MovePacket(Relative(x)) \in Events /\ MovePacket(Relative(x)).type \notin KeyType
        BY <4>1, MovePacketIsEvent DEF MovePacket, KeyType
      <4>3. Ignore \/ \E p \in Events : p.type \notin KeyType /\ writing = <<>> /\ Forward(p)
        BY <4>1, <4>2 DEF ForwardMove
      <4>4. /\ \A k \in Keys : KeyAfter(k, Pending', desk') <=> KeyAfter(k, Pending, desk)
            /\ unsent' = unsent
        BY <1>2, <2>3, <4>1, <4>3, MouseEventsKeepKeys
      <4>5. control \in {"HOST", "CLIENT"}
        BY DEF TypeOK
      <4>6. control = "CLIENT" /\ control' = "HOST" =>
              \A k \in Keys : ~KeyAfter(k, Pending, desk)
        BY <2>1 DEF Mirror, KeysFree
      <4>7. QED
        BY <2>1, <2>3, <4>4, <4>5, <4>6 DEF KeysFree
    <3>2. ASSUME NEW x \in Positions, MouseDragged(x) PROVE KeysFree'
      <4>1. Ignore /\ UNCHANGED <<control, keys>>
        BY <3>2 DEF MouseDragged
      <4>2. QED
        BY <1>2, <2>1, <2>3, <4>1, MouseEventsKeepKeys DEF KeysFree
    <3>3. ASSUME NEW k \in Keys, KeyPressed(k) PROVE KeysFree'
      BY <1>2, <2>1, <2>3, <3>3, KeyEventKeepsKeysFree DEF KeyPressed, Listening, KeyType
    <3>4. ASSUME NEW k \in Keys, KeyReleased(k) PROVE KeysFree'
      BY <1>2, <2>1, <2>3, <3>4, KeyEventKeepsKeysFree DEF KeyReleased, Listening, KeyType
    <3>5. ASSUME NEW type \in ButtonType, NEW b \in Buttons, ForwardButton(type, b),
                 writing = <<>>, UNCHANGED <<control, pointer, keys>>
          PROVE  KeysFree'
      <4>1. CASE Ignore
        BY <1>2, <2>1, <2>3, <3>5, <4>1, MouseEventsKeepKeys DEF KeysFree
      <4>2. CASE pointer >= 0 /\ Forward(ButtonPacket(type, b, Relative(pointer)))
        <5>1. ButtonPacket(type, b, Relative(pointer)) \in Events
          BY <4>2, ButtonPacketIsEvent DEF TypeOK
        <5>2. ButtonPacket(type, b, Relative(pointer)).type \notin KeyType
          BY DEF ButtonPacket, ButtonType, KeyType
        <5>3. /\ \A k \in Keys : KeyAfter(k, Pending', desk') <=> KeyAfter(k, Pending, desk)
              /\ unsent' = unsent
          BY <1>2, <2>3, <3>5, <4>2, <5>1, <5>2, MouseEventsKeepKeys
        <5>4. QED
          BY <2>1, <2>3, <3>5, <5>3 DEF KeysFree
      <4>3. QED
        BY <1>2, <3>5, <4>1, <4>2, ThrowCloses DEF ForwardButton
    <3>6. ASSUME NEW b \in Buttons, MousePressed(b) \/ MouseReleased(b) PROVE KeysFree'
      BY <3>5, <3>6 DEF MousePressed, MouseReleased, Listening, ButtonType
    <3>7. QED
      BY <2>3, <3>1, <3>2, <3>3, <3>4, <3>6 DEF UserEvent
  <2>4. QED
    BY <2>1, <2>2, <2>3
<1>3. QED
  BY <1>1, <1>2

(* The user who lets go of the keys before control returns to the host     *)
(* leaves none of them down on the peer.  What the hook's callback lacks   *)
(* is no more than this: without HandsFree the claim does not hold.        *)
THEOREM HandsFreeLeavesNoKey == Spec /\ HandsFree => [](conn = "up" => NoStuckKey)
<1>1. Init => KeysFree
  BY InitKeysFree
<1>2. /\ TypeOK /\ Mirror /\ KeysFree /\ [Next]_vars
      /\ [control = "CLIENT" /\ control' = "HOST" => keys \subseteq unsent]_vars
      => KeysFree'
  <2> SUFFICES ASSUME TypeOK, Mirror, KeysFree, [Next]_vars,
                      [control = "CLIENT" /\ control' = "HOST" => keys \subseteq unsent]_vars
               PROVE  KeysFree'
    OBVIOUS
  <2>1. control = "CLIENT" /\ control' = "HOST" => keys \subseteq unsent
    BY DEF vars, clientVars
  <2>2. QED
    BY <2>1, NextKeysFree
<1>3. TypeOK /\ Mirror /\ KeysFree => (conn = "up" => NoStuckKey)
  <2> SUFFICES ASSUME TypeOK, Mirror, KeysFree, conn = "up", Pending = <<>>, keys = {},
                      NEW k \in desk.keys
               PROVE  FALSE
    BY DEF NoStuckKey, TypeOK, Desk
  <2>1. k \in Keys
    BY DEF KeysFree
  <2>2. Last(Pending, About(k)) = {}
    BY DEF Last
  <2>3. KeyAfter(k, Pending, desk)
    BY <2>2 DEF KeyAfter
  <2>4. k \in unsent
    BY <2>1, <2>3 DEF Mirror
  <2>5. QED
    BY <2>1, <2>3, <2>4 DEF KeysFree
<1>4. QED
  BY <1>1, <1>2, <1>3, TypeCorrect, KeysAreMirrored, PTL DEF Spec, HandsFree
-----------------------------------------------------------------------------
(***************************************************************************)
(* The session implements RemoteDesk, provided the left button is the only *)
(* one the user has: any other is injected as the left one, and the        *)
(* implementation fails (see InjectsThePressedButton).                     *)
(***************************************************************************)

(* The connection is up only while both programs run.                      *)
UpMeansAlive == conn = "up" => client = "running" /\ server = "serving"

OnlyLeft == Buttons \subseteq {LeftButton}

LEMMA UpMeansAliveHolds == Spec => []UpMeansAlive
<1>1. Init => UpMeansAlive
  BY DEF Init, ClientInit, ServerInit, UpMeansAlive
<1>2. TypeOK /\ UpMeansAlive /\ [Next]_vars => UpMeansAlive'
  <2> SUFFICES ASSUME TypeOK, UpMeansAlive, [Next]_vars
               PROVE  UpMeansAlive'
    OBVIOUS
  <2>1. CASE ClientStep /\ UserEvent
    BY <2>1, UserEventOutcome DEF Outcome, Ignore, Throw, Forward, CloseClientEnd, channelVars,
       ClientStep, serverVars, UpMeansAlive
  <2>2. CASE ClientStep /\ WriteReturns
    BY <2>2 DEF ClientStep, WriteReturns, Transmit, channelVars, serverVars, UpMeansAlive
  <2>3. CASE ClientStep /\ (WriteFails \/ ClientKilled)
    BY <2>3, ThrowCloses DEF WriteFails, ClientKilled, UpMeansAlive
  <2>4. CASE ServerStep
    BY <2>4 DEF ServerStep, ServerNext, ReadPacket, InjectionFails, EndOfStream, CloseServerEnd,
       clientVars, UpMeansAlive
  <2>5. CASE NetworkStep
    BY <2>5 DEF NetworkStep, NetworkFails, ResetArrives, UpMeansAlive
  <2>6. CASE UNCHANGED vars
    BY <2>6 DEF vars, clientVars, serverVars, UpMeansAlive
  <2>7. QED
    BY <2>1, <2>2, <2>3, <2>4, <2>5, <2>6 DEF Next, ClientStep, ClientNext, Finished
<1>3. QED
  BY <1>1, <1>2, TypeCorrect, PTL DEF Spec

-----------------------------------------------------------------------------
(* The session, seen through the refinement mapping.                       *)
Pressed == IF desk.left THEN {LeftButton} ELSE {}
SeenVars == <<RemainingQueue, desk.keys, Pressed, desk.x - PeerWidth, conn = "up">>

LEMMA SeenUnchanged ==
  ASSUME desk' = desk, RemainingQueue' = RemainingQueue, conn' = "up" <=> conn = "up"
  PROVE  UNCHANGED Abstract!vars
<1>1. (conn = "up")' = (conn = "up")
  OBVIOUS
<1>2. QED
  BY <1>1 DEF Abstract!vars

(* Sharing ends, and the first n of the pending packets are left.          *)
LEMMA EndStep ==
  ASSUME desk' = desk, conn' # "up",
         NEW n \in 0 .. Len(RemainingQueue),
         RemainingQueue' = SubSeq(RemainingQueue, 1, n)
  PROVE  Abstract!End
<1>1. (conn = "up")' = FALSE
  OBVIOUS
<1>2. QED
  BY <1>1 DEF Abstract!End

LEMMA ForwardStep ==
  ASSUME TypeOK, UpMeansAlive, conn = "up", writing = <<>>, UNCHANGED <<server, desk>>,
         NEW p \in Events, Forward(p)
  PROVE  Abstract!Forward(p)
<1>1. Pending' = Pending \o <<p>> /\ Pending \in Seq(Events)
  BY ForwardAppends, PendingIsSeq
<1>2. RemainingQueue = Pending /\ RemainingQueue' = Pending'
  BY DEF UpMeansAlive, RemainingQueue, Pending, Forward, channelVars
<1>3. RemainingQueue' = Append(RemainingQueue, p)
  BY <1>1, <1>2, AppendIsConcat
<1>4. conn' = conn
  BY DEF Forward, channelVars
<1>5. QED
  BY <1>3, <1>4 DEF Abstract!Forward

(* The injection of a packet is what RemoteDesk makes of it.               *)
LEMMA EffectIsAbstract ==
  ASSUME OnlyLeft, NEW p \in Events, desk \in Desk, desk' = Effect(desk, p)
  PROVE  /\ desk'.keys = Abstract!After(p, desk.keys, "KeyPress", "KeyRelease")
         /\ Pressed' = Abstract!After(p, Pressed, "MouseButtonPress", "MouseButtonRelease")
         /\ desk'.x - PeerWidth = IF p.type \in KeyType THEN desk.x - PeerWidth ELSE p.x
<1>1. /\ desk'.keys = (desk.keys \cup KeyOf("KeyPress", p)) \ KeyOf("KeyRelease", p)
      /\ desk'.left = IF p.type \in ButtonType THEN p.type = "MouseButtonPress" ELSE desk.left
      /\ desk'.x = IF p.type \in KeyType THEN desk.x ELSE ScreenX(p.x)
  BY DEF Effect
<1>2. desk'.keys = Abstract!After(p, desk.keys, "KeyPress", "KeyRelease")
  <2>1. desk.keys \subseteq Nat
    BY DEF Desk
  <2>2. ASSUME p.type \in KeyType PROVE CGKeyCode(p.code) = p.code
    <3>1. p.code \in Keys
      BY <2>2 DEF Events, KeyType, ButtonType
    <3>2. QED
      BY <3>1, KeyCodes
  <2>3. CASE p.type = "KeyPress"
    BY <1>1, <2>2, <2>3 DEF KeyOf, KeyType, Abstract!After
  <2>4. CASE p.type = "KeyRelease"
    BY <1>1, <2>2, <2>4 DEF KeyOf, KeyType, Abstract!After
  <2>5. CASE p.type \notin KeyType
    BY <1>1, <2>5 DEF KeyOf, KeyType, Abstract!After
  <2>6. QED
    BY <2>3, <2>4, <2>5 DEF KeyType
<1>3. Pressed' = Abstract!After(p, Pressed, "MouseButtonPress", "MouseButtonRelease")
  <2>1. ASSUME p.type \in ButtonType PROVE p.code = LeftButton
    BY <2>1 DEF Events, KeyType, ButtonType, OnlyLeft
  <2>2. CASE p.type = "MouseButtonPress"
    BY <1>1, <2>1, <2>2 DEF ButtonType, Pressed, Abstract!After
  <2>3. CASE p.type = "MouseButtonRelease"
    BY <1>1, <2>1, <2>3 DEF ButtonType, Pressed, Abstract!After
  <2>4. CASE p.type \notin ButtonType
    BY <1>1, <2>4 DEF ButtonType, Pressed, Abstract!After
  <2>5. QED
    BY <2>2, <2>3, <2>4 DEF ButtonType
<1>4. desk'.x - PeerWidth = IF p.type \in KeyType THEN desk.x - PeerWidth ELSE p.x
  <2>1. p.x \in Int
    BY EventShape
  <2>2. QED
    BY <1>1, <2>1, PeerAssumption DEF ScreenX
<1>5. QED
  BY <1>2, <1>3, <1>4

LEMMA ReadStep ==
  ASSUME TypeOK, OnlyLeft, UpMeansAlive, ReadPacket, UNCHANGED writing
  PROVE  Abstract!Apply
<1>1. /\ wire \in Seq(Events) /\ wire # <<>> /\ writing \in Seq(Events)
      /\ Head(wire) \in Events
  BY HeadTailProperties DEF TypeOK, ReadPacket
<1>2. /\ wire' = Tail(wire) /\ desk' = Effect(desk, Head(wire))
      /\ server = "serving" /\ server' = server /\ conn' = conn
  BY <1>1, EventAccepted DEF ReadPacket
<1>3. /\ RemainingQueue # <<>>
      /\ RemainingQueue' = Tail(RemainingQueue)
      /\ Head(RemainingQueue) = Head(wire)
  <2>1. CASE conn = "up"
    <3>1. Pending # <<>> /\ Pending' = Tail(Pending)
      BY <1>2, <2>1, ReadTakesFirst
    <3>2. RemainingQueue = Pending /\ RemainingQueue' = Pending'
      BY <1>2, <2>1 DEF RemainingQueue, Pending
    <3>3. Head(Pending) = Head(wire)
      <4>1. Len(wire) \in Nat \ {0} /\ Len(writing) \in Nat
        BY <1>1, EmptySeq, LenProperties
      <4>2. Pending \in Seq(Events) /\ Pending[1] = wire[1]
        BY <1>1, <4>1, ConcatProperties DEF Pending
      <4>3. Head(Pending) = Pending[1] /\ Head(wire) = wire[1]
        BY <1>1, <3>1, <4>2
      <4>4. QED
        BY <4>2, <4>3
    <3>4. QED
      BY <3>1, <3>2, <3>3
  <2>2. CASE conn # "up"
    BY <1>1, <1>2, <2>2 DEF RemainingQueue
  <2>3. QED
    BY <2>1, <2>2
<1>4. /\ desk'.keys = Abstract!After(Head(wire), desk.keys, "KeyPress", "KeyRelease")
      /\ Pressed' = Abstract!After(Head(wire), Pressed, "MouseButtonPress", "MouseButtonRelease")
      /\ desk'.x - PeerWidth
           = IF Head(wire).type \in KeyType THEN desk.x - PeerWidth ELSE Head(wire).x
  BY <1>1, <1>2, EffectIsAbstract DEF TypeOK
<1>5. (conn = "up")' = (conn = "up")
  BY <1>2
<1>6. QED
  BY <1>3, <1>4, <1>5 DEF Abstract!Apply, Abstract!KeyType, KeyType, Pressed

LEMMA ThrowStep ==
  ASSUME TypeOK, UpMeansAlive, Throw, UNCHANGED <<server, desk>>
  PROVE  Abstract!End \/ UNCHANGED Abstract!vars
<1>1. /\ wire' = wire /\ conn' = IF conn = "up" THEN "closed" ELSE conn
  BY DEF Throw, CloseClientEnd
<1>2. CASE conn = "up"
  <2>1. RemainingQueue = wire \o writing /\ RemainingQueue' = wire
    BY <1>1, <1>2 DEF UpMeansAlive, RemainingQueue
  <2>2. /\ wire \in Seq(Events) /\ writing \in Seq(Events)
        /\ Len(wire) \in Nat /\ Len(writing) \in Nat
        /\ Len(wire \o writing) = Len(wire) + Len(writing)
    BY LenProperties, ConcatProperties DEF TypeOK
  <2>3. wire = SubSeq(wire \o writing, 1, Len(wire))
    <3>1. CASE wire = <<>>
      BY <2>2, <3>1, SubSeqEmpty, EmptySeq
    <3>2. CASE wire # <<>>
      <4>1. 1 \in 1 .. Len(wire) /\ Len(wire) \in 1 .. Len(wire)
        BY <2>2, <3>2, EmptySeq
      <4>2. SubSeq(wire \o writing, 1, Len(wire)) = SubSeq(wire, 1, Len(wire))
        BY <2>2, <4>1, SubSeqOfConcat1
      <4>3. QED
        BY <2>2, <4>2, SubSeqFull
    <3>3. QED
      BY <3>1, <3>2
  <2>4. Len(wire) \in 0 .. Len(RemainingQueue)
    BY <2>1, <2>2
  <2>5. QED
    BY <1>1, <1>2, <2>1, <2>3, <2>4, EndStep
<1>3. CASE conn # "up"
  <2>1. RemainingQueue' = RemainingQueue
    BY <1>1, <1>3 DEF RemainingQueue
  <2>2. QED
    BY <1>1, <1>3, <2>1, SeenUnchanged
<1>4. QED
  BY <1>2, <1>3

-----------------------------------------------------------------------------
(* Every step of the session is a step of RemoteDesk, or none.             *)

LEMMA ClientImplements ==
  ASSUME TypeOK, UpMeansAlive, ClientStep
  PROVE  (\E p \in Events : Abstract!Forward(p)) \/ Abstract!End \/ UNCHANGED Abstract!vars
<1>1. server' = server /\ desk' = desk
  BY DEF ClientStep, serverVars
<1>2. CASE Ignore
  <2>1. RemainingQueue' = RemainingQueue /\ conn' = conn
    BY <1>1, <1>2 DEF Ignore, channelVars, RemainingQueue
  <2>2. QED
    BY <1>1, <2>1, SeenUnchanged
<1>3. CASE Throw
  BY <1>1, <1>3, ThrowStep
<1>4. ASSUME NEW p \in Events, Forward(p), writing = <<>>
      PROVE  Abstract!Forward(p) \/ UNCHANGED Abstract!vars
  <2>1. CASE conn = "up"
    BY <1>1, <1>4, <2>1, ForwardStep
  <2>2. CASE conn # "up"
    <3>1. RemainingQueue' = RemainingQueue /\ conn' = conn
      BY <1>1, <1>4, <2>2 DEF Forward, channelVars, RemainingQueue
    <3>2. QED
      BY <1>1, <3>1, SeenUnchanged
  <2>3. QED
    BY <2>1, <2>2
<1>5. CASE WriteReturns
  <2>1. conn' = conn
    BY <1>5, TransmitTypes DEF WriteReturns, TypeOK, SendingOK
  <2>2. CASE conn = "up"
    <3>1. wire' = wire \o writing /\ writing' = <<>>
      BY <1>5, <2>2 DEF WriteReturns, Transmit, Swallows
    <3>2. wire \o writing \in Seq(Events)
      BY ConcatProperties DEF TypeOK
    <3>3. RemainingQueue' = RemainingQueue
      BY <1>1, <2>1, <2>2, <3>1, <3>2, ConcatEmptySeq DEF RemainingQueue
    <3>4. QED
      BY <1>1, <2>1, <3>3, SeenUnchanged
  <2>3. CASE conn # "up"
    <3>1. wire' = wire
      BY <1>5, <2>3 DEF WriteReturns, Transmit, channelVars
    <3>2. RemainingQueue' = RemainingQueue
      BY <1>1, <2>1, <2>3, <3>1 DEF RemainingQueue
    <3>3. QED
      BY <1>1, <2>1, <3>2, SeenUnchanged
  <2>4. QED
    BY <2>2, <2>3
<1>6. CASE UserEvent
  <2>1. Outcome
    BY <1>6, UserEventOutcome
  <2>2. writing = <<>>
    BY <1>6 DEF UserEvent, MouseMoved, MouseDragged, KeyPressed, KeyReleased,
       MousePressed, MouseReleased, Listening
  <2>3. QED
    BY <1>2, <1>3, <1>4, <2>1, <2>2 DEF Outcome
<1>7. QED
  BY <1>3, <1>5, <1>6 DEF ClientStep, ClientNext, WriteFails, ClientKilled

LEMMA ServerImplements ==
  ASSUME TypeOK, OnlyLeft, UpMeansAlive, ServerStep
  PROVE  Abstract!Apply \/ Abstract!End \/ UNCHANGED Abstract!vars
<1>1. writing' = writing
  BY DEF ServerStep, clientVars
<1>2. CASE ReadPacket
  BY <1>1, <1>2, ReadStep
<1>3. CASE InjectionFails \/ EndOfStream
  <2>1. server' # "serving" /\ conn' # "up" /\ desk' = desk
    BY <1>3 DEF InjectionFails, EndOfStream, CloseServerEnd
  <2>2. RemainingQueue' = <<>>
    BY <2>1 DEF RemainingQueue
  <2>3. RemainingQueue \in Seq(Events)
    BY ConcatProperties, EmptySeq DEF TypeOK, RemainingQueue
  <2>4. 0 \in 0 .. Len(RemainingQueue)
    BY <2>3, LenProperties
  <2>5. SubSeq(RemainingQueue, 1, 0) = <<>>
    BY SubSeqEmpty
  <2>6. QED
    BY <2>1, <2>2, <2>4, <2>5, EndStep
<1>4. QED
  BY <1>2, <1>3 DEF ServerStep, ServerNext

LEMMA NetworkImplements ==
  ASSUME TypeOK, UpMeansAlive, NetworkStep
  PROVE  Abstract!End \/ UNCHANGED Abstract!vars
<1>1. server' = server /\ desk' = desk /\ writing' = writing
  BY DEF NetworkStep, clientVars, serverVars
<1>2. CASE NetworkFails
  <2>1. PICK n \in 0 .. Len(wire) : wire' = SubSeq(wire, 1, n)
    BY <1>2 DEF NetworkFails
  <2>2. conn = "up" /\ conn' # "up" /\ server = "serving"
    BY <1>2 DEF NetworkFails, UpMeansAlive
  <2>3. RemainingQueue = wire \o writing /\ RemainingQueue' = SubSeq(wire, 1, n)
    BY <1>1, <2>1, <2>2 DEF RemainingQueue
  <2>4. /\ wire \in Seq(Events) /\ writing \in Seq(Events)
        /\ Len(wire) \in Nat /\ Len(writing) \in Nat
        /\ Len(wire \o writing) = Len(wire) + Len(writing)
    BY LenProperties, ConcatProperties DEF TypeOK
  <2>5. SubSeq(wire, 1, n) = SubSeq(wire \o writing, 1, n)
    <3>1. CASE n = 0
      BY <3>1, SubSeqEmpty
    <3>2. CASE n # 0
      <4>1. 1 \in 1 .. Len(wire) /\ n \in 1 .. Len(wire)
        BY <2>1, <2>4, <3>2
      <4>2. QED
        BY <2>4, <4>1, SubSeqOfConcat1
    <3>3. QED
      BY <3>1, <3>2
  <2>6. n \in 0 .. Len(RemainingQueue)
    BY <2>1, <2>3, <2>4
  <2>7. QED
    BY <1>1, <2>2, <2>3, <2>5, <2>6, EndStep
<1>3. CASE ResetArrives
  <2>1. RemainingQueue' = RemainingQueue /\ (conn' = "up" <=> conn = "up")
    BY <1>1, <1>3 DEF ResetArrives, RemainingQueue
  <2>2. QED
    BY <1>1, <2>1, SeenUnchanged
<1>4. QED
  BY <1>2, <1>3 DEF NetworkStep

LEMMA NextImplements ==
  ASSUME TypeOK, OnlyLeft, UpMeansAlive, [Next]_vars
  PROVE  [Abstract!Next]_(Abstract!vars)
<1>1. CASE ClientStep
  BY <1>1, ClientImplements DEF Abstract!Next
<1>2. CASE ServerStep
  BY <1>2, ServerImplements DEF Abstract!Next
<1>3. CASE NetworkStep
  BY <1>3, NetworkImplements DEF Abstract!Next
<1>4. CASE UNCHANGED vars
  <2>1. UNCHANGED <<wire, conn, writing, server, desk>>
    BY <1>4 DEF vars, clientVars, serverVars
  <2>2. RemainingQueue' = RemainingQueue
    BY <2>1 DEF RemainingQueue
  <2>3. QED
    BY <2>1, <2>2, SeenUnchanged
<1>5. QED
  BY <1>1, <1>2, <1>3, <1>4 DEF Next, Finished

LEMMA InitImplements == Init => Abstract!Init
<1> SUFFICES ASSUME Init PROVE Abstract!Init
  OBVIOUS
<1>1. RemainingQueue = <<>>
  BY ConcatEmptySeq, EmptySeq DEF Init, ChannelInit, ClientInit, ServerInit, RemainingQueue
<1>2. desk.keys = {} /\ desk.left = FALSE /\ desk.x - PeerWidth \in Int
  BY PeerAssumption DEF Init, ServerInit
<1>3. (conn = "up") = TRUE
  BY DEF Init, ChannelInit
<1>4. QED
  BY <1>1, <1>2, <1>3 DEF Abstract!Init

(* With a keyboard and one mouse button, a session is sharing as           *)
(* RemoteDesk states it: whatever blocks, fails, is cut or killed, the     *)
(* events that are forwarded are applied to the peer one by one, in order, *)
(* each once and as itself, but for a tail that is lost at the end.        *)
THEOREM SessionImplementsRemoteDesk == OnlyLeft => (Spec => ImplementsRemoteDesk)
<1> SUFFICES ASSUME OnlyLeft PROVE Spec => ImplementsRemoteDesk
  OBVIOUS
<1>1. Init => Abstract!Init
  BY InitImplements
<1>2. TypeOK /\ UpMeansAlive /\ [Next]_vars => [Abstract!Next]_(Abstract!vars)
  BY NextImplements
<1>3. QED
  BY <1>1, <1>2, TypeCorrect, UpMeansAliveHolds, PTL
     DEF Spec, ImplementsRemoteDesk, Abstract!Spec

(* Nor is any button injected that was not pressed: the left button of the *)
(* peer goes down for a press of the left button.  With a second button on *)
(* the host this is false.                                                 *)
THEOREM OneButtonIsItself == OnlyLeft => (Spec => InjectsThePressedButton)
<1> SUFFICES ASSUME OnlyLeft PROVE Spec => InjectsThePressedButton
  OBVIOUS
<1>1. TypeOK /\ [Next]_vars => [desk.left' /\ ~desk.left => Head(wire).code = LeftButton]_vars
  <2> SUFFICES ASSUME TypeOK, Next, desk.left', ~desk.left
               PROVE  Head(wire).code = LeftButton
    OBVIOUS
  <2>1. desk' # desk
    OBVIOUS
  <2>2. ReadPacket
    BY <2>1 DEF Next, ClientStep, ServerStep, ServerNext, InjectionFails, EndOfStream,
       NetworkStep, Finished, serverVars, vars
  <2> DEFINE p == Head(wire)
  <2>3. p \in Events /\ desk' = Effect(desk, p)
    BY <2>1, <2>2, HeadTailProperties DEF ReadPacket, TypeOK
  <2> HIDE DEF p
  <2>4. p.type = "MouseButtonPress"
    BY <2>3 DEF Effect
  <2>5. p.code \in Buttons
    BY <2>3, <2>4 DEF Events, KeyType
  <2>6. QED
    BY <2>5 DEF OnlyLeft, p
<1>2. QED
  BY <1>1, TypeCorrect, PTL DEF Spec, InjectsThePressedButton
=============================================================================
