--------------------------- MODULE WindowsProofs ---------------------------
(***************************************************************************)
(* Proofs about a sharing session whose peer runs Windows: what its        *)
(* injector makes of the packets network_client builds.                    *)
(***************************************************************************)
EXTENDS WindowsPeer, SequenceTheorems, TLAPS

(* What is on its way, and where the user points.                          *)
SendingOK ==
  /\ wire \in Seq(Events) /\ Len(wire) <= Cap
  /\ writing \in Seq(Events) /\ Len(writing) <= 1
  /\ pointer \in Positions

(* What a callback does with its event: nothing, write a packet, or throw. *)
Outcome == Ignore \/ Throw \/ \E p \in Events : Forward(p)

LEMMA MoveOutcome ==
  ASSUME NEW x \in Positions, MouseMoved(x)
  PROVE  Outcome
<1>1. CASE x < 0 /\ Throw
  BY <1>1 DEF Outcome
<1>2. CASE x >= 0 /\ ForwardMove(x)
  <2>1. x \in Positions \ {-1}
    BY <1>2, ClientAssumption
  <2>2. MovePacket(Relative(x)) \in Events
    BY <2>1 DEF MovePacket, Events
  <2>3. QED
    BY <1>2, <2>2 DEF ForwardMove, Outcome
<1>3. QED
  BY <1>1, <1>2 DEF MouseMoved

LEMMA ButtonOutcome ==
  ASSUME pointer \in Positions, NEW type \in ButtonType, NEW b \in Buttons,
         ForwardButton(type, b)
  PROVE  Outcome
<1>1. CASE pointer >= 0 /\ Forward(ButtonPacket(type, b, Relative(pointer)))
  <2>1. pointer \in Positions \ {-1}
    BY <1>1, ClientAssumption
  <2>2. ButtonPacket(type, b, Relative(pointer)) \in Events
    BY <2>1 DEF ButtonPacket, Events
  <2>3. QED
    BY <1>1, <2>2 DEF Outcome
<1>2. QED
  BY <1>1 DEF ForwardButton, Outcome

LEMMA UserEventOutcome ==
  ASSUME SendingOK, UserEvent
  PROVE  Outcome /\ pointer' \in Positions
<1>1. ASSUME NEW x \in Positions, MouseMoved(x) \/ MouseDragged(x)
      PROVE  Outcome /\ pointer' \in Positions
  BY <1>1, MoveOutcome DEF MouseMoved, MouseDragged, Outcome
<1>2. ASSUME NEW k \in Keys, KeyPressed(k) \/ KeyReleased(k)
      PROVE  Outcome /\ pointer' \in Positions
  BY <1>2 DEF KeyPressed, KeyReleased, ForwardKey, Outcome, KeyPacket, Events, KeyType, SendingOK
<1>3. ASSUME NEW b \in Buttons, MousePressed(b) \/ MouseReleased(b)
      PROVE  Outcome /\ pointer' \in Positions
  BY <1>3, ButtonOutcome DEF MousePressed, MouseReleased, ButtonType, SendingOK
<1>4. QED
  BY <1>1, <1>2, <1>3 DEF UserEvent

LEMMA OutcomeSends ==
  ASSUME SendingOK, Outcome, pointer' \in Positions
  PROVE  SendingOK'
<1>1. ASSUME NEW p \in Events, Forward(p) PROVE SendingOK'
  <2>1. <<p>> \in Seq(Events) /\ Len(<<p>>) = 1
    OBVIOUS
  <2>2. QED
    BY <1>1, <2>1 DEF SendingOK, Forward, channelVars
<1>2. CASE Throw
  <2>1. <<>> \in Seq(Events) /\ Len(<<>>) <= 1
    BY EmptySeq
  <2>2. QED
    BY <1>2, <2>1 DEF Throw, CloseClientEnd, SendingOK
<1>3. CASE Ignore
  BY <1>3 DEF Ignore, channelVars, SendingOK
<1>4. QED
  BY <1>1, <1>2, <1>3 DEF Outcome

LEMMA ClientSends ==
  ASSUME SendingOK, ClientNext
  PROVE  SendingOK'
<1>1. CASE UserEvent
  BY <1>1, UserEventOutcome, OutcomeSends
<1>2. CASE WriteReturns
  <2>1. CASE Len(wire) + Len(writing) <= Cap /\ wire' = wire \o writing
    <3>1. wire' \in Seq(Events) /\ Len(wire') <= Cap
      BY <2>1, ConcatProperties DEF SendingOK
    <3>2. QED
      BY <1>2, <3>1 DEF WriteReturns, SendingOK
  <2>2. CASE UNCHANGED channelVars
    BY <1>2, <2>2 DEF WriteReturns, SendingOK, channelVars
  <2>3. QED
    BY <1>2, <2>1, <2>2 DEF WriteReturns, Transmit
<1>3. CASE WriteFails \/ ClientKilled
  <2>1. Outcome /\ pointer' \in Positions
    BY <1>3 DEF WriteFails, ClientKilled, Outcome, SendingOK
  <2>2. QED
    BY <2>1, OutcomeSends
<1>4. QED
  BY <1>1, <1>2, <1>3 DEF ClientNext

-----------------------------------------------------------------------------
(* The peer's main display has a width.                                    *)
HasDisplay == ScreenWidth \in Nat \ {0}

Desk == [keys : SUBSET Nat, left : BOOLEAN, dx : Int]

(* A key is down only if SendInput took one half of it, and then the       *)
(* server has failed.                                                      *)
PeerOK ==
  /\ SendingOK
  /\ server \in {"serving", "closed", "failed"}
  /\ desk \in Desk
  /\ server = "serving" => desk.keys = {}

LEMMA EventShape ==
  ASSUME NEW p \in Events
  PROVE  p.type \in EventType /\ p.code \in Nat /\ p.x \in Int
<1>1. \A x \in Positions \ {-1} : Relative(x) \in Int
  BY ClientAssumption DEF Relative
<1>2. \A k \in Keys : k \in Nat
  <2>1. UInt16 \in Nat
    BY DEF UInt16
  <2>2. QED
    BY <2>1, ClientAssumption
<1>3. \A b \in Buttons : b \in Nat
  BY ClientAssumption
<1>4. QED
  BY <1>1, <1>2, <1>3 DEF Events, EventType, KeyType, ButtonType

(* The payload of every packet is as long as its injector asks for.        *)
LEMMA EventAccepted ==
  ASSUME NEW p \in Events
  PROVE  Injector!Accepts(p)
<1>1. \A t \in EventType : Injector!PayloadSize[t] >= Injector!RequiredSize[t]
  BY DEF Injector!PayloadSize, Injector!RequiredSize, EventType, Injector!EventType,
         KeyType, Injector!KeyType, ButtonType, Injector!ButtonType
<1>2. QED
  BY <1>1, EventShape DEF Injector!Accepts

LEMMA AbsoluteIsNumber ==
  ASSUME HasDisplay, NEW x \in Int
  PROVE  Injector!Absolute(x) \in Int /\ (x <= 0 => Injector!Absolute(x) <= 0)
<1>1. \A n \in Nat : n * (Injector!UInt16 - 1) \in Nat
  BY DEF Injector!UInt16
<1>2. \A n \in Nat : (n * (Injector!UInt16 - 1)) \div ScreenWidth \in Nat
  BY <1>1 DEF HasDisplay
<1>3. (0 * (Injector!UInt16 - 1)) \div ScreenWidth = 0
  BY DEF HasDisplay, Injector!UInt16
<1>4. CASE x > 0
  BY <1>2, <1>4 DEF Injector!Absolute
<1>5. CASE x = 0
  BY <1>3, <1>5 DEF Injector!Absolute
<1>6. CASE x < 0
  <2>1. -x \in Nat /\ ~(x >= 0)
    BY <1>6
  <2>2. QED
    BY <1>2, <1>6, <2>1 DEF Injector!Absolute
<1>7. QED
  BY <1>4, <1>5, <1>6

LEMMA EffectIsDesk ==
  ASSUME HasDisplay, NEW d \in Desk, NEW p \in Events
  PROVE  /\ Injector!Effect(d, p) \in Desk
         /\ Injector!Effect(d, p).keys \subseteq d.keys
         /\ Injector!PartialEffects(d, p) \subseteq Desk
<1>1. p.code \in Nat /\ p.x \in Int
  BY EventShape
<1>2. Injector!VirtualKey(p) \in Nat /\ Injector!Absolute(p.x) \in Int
  BY <1>1, AbsoluteIsNumber DEF Injector!VirtualKey, Injector!UInt16
<1>3. ((d.left \/ Injector!Has(Injector!Flags(p), Injector!LEFTDOWN))
         /\ ~Injector!Has(Injector!Flags(p), Injector!LEFTUP)) \in BOOLEAN
  BY Zenon
<1>4. Injector!Effect(d, p) \in Desk /\ Injector!Effect(d, p).keys \subseteq d.keys
  <2> DEFINE e == Injector!Effect(d, p)
  <2>1. e.keys \in {d.keys, d.keys \ {Injector!VirtualKey(p)}}
    BY DEF Injector!Effect
  <2>2. e.left \in BOOLEAN
    BY <1>3 DEF Injector!Effect, Desk
  <2>3. e.dx \in {0, d.dx, Injector!Absolute(p.x)}
    BY DEF Injector!Effect
  <2>4. e = [keys |-> e.keys, left |-> e.left, dx |-> e.dx]
    BY DEF Injector!Effect
  <2> HIDE DEF e
  <2>5. QED
    BY <1>2, <2>1, <2>2, <2>3, <2>4 DEF Desk, e
<1>5. Injector!PartialEffects(d, p) \subseteq Desk
  BY <1>2 DEF Injector!PartialEffects, Desk
<1>6. QED
  BY <1>4, <1>5

LEMMA PeerInit == Init => PeerOK
<1> SUFFICES ASSUME Init PROVE PeerOK
  OBVIOUS
<1>1. SendingOK
  BY EmptySeq, CapAssumption DEF Init, ChannelInit, ClientInit, SendingOK
<1>2. QED
  BY <1>1 DEF Init, PeerOK, Desk

LEMMA PeerStep == HasDisplay /\ PeerOK /\ [Next]_vars => PeerOK'
<1> SUFFICES ASSUME HasDisplay, PeerOK, [Next]_vars PROVE PeerOK'
  OBVIOUS
<1>1. CASE ClientNext /\ UNCHANGED <<server, desk>>
  BY <1>1, ClientSends DEF PeerOK
<1>2. ASSUME UNCHANGED clientVars, wire' = <<>> PROVE SendingOK'
  BY <1>2, EmptySeq, CapAssumption DEF PeerOK, SendingOK, clientVars
<1>3. CASE ReadPacket /\ UNCHANGED clientVars
  <2>1. /\ Head(wire) \in Events /\ Tail(wire) \in Seq(Events)
        /\ Len(Tail(wire)) = Len(wire) - 1 /\ Len(wire) \in Nat /\ server = "serving"
    BY <1>3, HeadTailProperties, LenProperties DEF ReadPacket, PeerOK, SendingOK
  <2>2. /\ desk' = Injector!Effect(desk, Head(wire)) /\ wire' = Tail(wire)
        /\ UNCHANGED <<server, conn>>
    BY <1>3, <2>1, EventAccepted DEF ReadPacket
  <2>3. Len(wire') <= Cap
    BY <2>1, <2>2, CapAssumption DEF PeerOK, SendingOK
  <2>4. SendingOK'
    BY <1>3, <2>1, <2>2, <2>3 DEF PeerOK, SendingOK, clientVars
  <2>5. desk' \in Desk /\ desk'.keys = {}
    BY <2>1, <2>2, EffectIsDesk DEF PeerOK
  <2>6. QED
    BY <2>2, <2>4, <2>5 DEF PeerOK
<1>4. CASE InjectionFails /\ UNCHANGED clientVars
  <2>1. Head(wire) \in Events
    BY <1>4, HeadTailProperties DEF InjectionFails, PeerOK, SendingOK
  <2>2. desk' \in Desk
    BY <1>4, <2>1, EffectIsDesk DEF InjectionFails, PeerOK
  <2>3. QED
    BY <1>2, <1>4, <2>2 DEF InjectionFails, CloseServerEnd, PeerOK
<1>5. CASE Loop!EndOfStream /\ UNCHANGED clientVars
  BY <1>2, <1>5 DEF Loop!EndOfStream, Loop!CloseServerEnd, PeerOK
<1>6. CASE NetworkFails /\ UNCHANGED <<clientVars, server, desk>>
  <2>1. PICK n \in 0 .. Len(wire) : wire' = SubSeq(wire, 1, n)
    BY <1>6 DEF NetworkFails
  <2>2. \A i \in 1 .. n : wire[i] \in Events
    BY <2>1, ElementOfSeq DEF PeerOK, SendingOK
  <2>3. SubSeq(wire, 1, n) \in Seq(Events) /\ Len(SubSeq(wire, 1, n)) <= Cap
    BY <2>1, <2>2, SubSeqProperties, CapAssumption, LenProperties DEF PeerOK, SendingOK
  <2>4. QED
    BY <1>6, <2>1, <2>3 DEF PeerOK, SendingOK, clientVars
<1>7. CASE ResetArrives /\ UNCHANGED <<clientVars, server, desk>>
  BY <1>7 DEF ResetArrives, PeerOK, SendingOK, clientVars
<1>8. CASE UNCHANGED vars
  BY <1>8 DEF vars, clientVars, PeerOK, SendingOK
<1>9. QED
  BY <1>1, <1>3, <1>4, <1>5, <1>6, <1>7, <1>8 DEF Next, Finished

LEMMA AlwaysPeerOK == HasDisplay => (Spec => []PeerOK)
<1> SUFFICES ASSUME HasDisplay PROVE Spec => []PeerOK
  OBVIOUS
<1>1. PeerOK /\ [Next]_vars => PeerOK'
  BY PeerStep
<1>2. QED
  BY <1>1, PeerInit, PTL DEF Spec

(* The sizes network_client packs are those the Windows injector asks for: *)
(* the server never ends with "Invalid ... payload size".                  *)
THEOREM EveryPacketAccepted == HasDisplay => (Spec => [](server # "rejected"))
<1> SUFFICES ASSUME HasDisplay PROVE Spec => [](server # "rejected")
  OBVIOUS
<1>1. PeerOK => server # "rejected"
  BY DEF PeerOK
<1>2. QED
  BY <1>1, AlwaysPeerOK, PTL

(* injectKeyPress types the key, down and up: while the session lasts no   *)
(* key is ever down on a Windows peer, whatever the user holds, so that a  *)
(* modifier is never held for another key.                                 *)
THEOREM NoKeyIsHeld == HasDisplay => (Spec => [](server = "serving" => desk.keys = {}))
<1> SUFFICES ASSUME HasDisplay
             PROVE  Spec => [](server = "serving" => desk.keys = {})
  OBVIOUS
<1>1. PeerOK => (server = "serving" => desk.keys = {})
  BY DEF PeerOK
<1>2. QED
  BY <1>1, AlwaysPeerOK, PTL

-----------------------------------------------------------------------------
(* The left button, with no other on the host's mouse: the flags of its    *)
(* press say nothing about the peer's left button, those of its release    *)
(* press it.                                                               *)
OnlyLeft == Buttons \subseteq {1}

LEMMA LeftFlags ==
  ASSUME OnlyLeft, NEW p \in Events, p.type \in ButtonType
  PROVE  /\ ~Injector!Has(Injector!Flags(p), Injector!LEFTUP)
         /\ Injector!Has(Injector!Flags(p), Injector!LEFTDOWN)
              => p.type = "MouseButtonRelease"
<1>1. p.code = 1 /\ p.x \in Int
  BY EventShape DEF OnlyLeft, Events, KeyType, ButtonType
<1>2. PICK y \in 0 .. 255 : y = p.x % 256
  BY <1>1
<1>3. Injector!ButtonField(p) = 1 + 256 * y
  BY <1>1, <1>2 DEF Injector!ButtonField
<1>4. CASE p.type = "MouseButtonRelease"
  <2>1. Injector!Flags(p) = (2 + 512 * y) % 65536
    BY <1>2, <1>3, <1>4 DEF Injector!Flags, Injector!UInt16
  <2>2. PICK z \in 0 .. 127 : Injector!Flags(p) = 2 + 512 * z
    <3>1. CASE y <= 127
      BY <1>2, <2>1, <3>1
    <3>2. CASE y > 127
      <4>1. (2 + 512 * y) % 65536 = 2 + 512 * (y - 128)
        BY <1>2, <3>2
      <4>2. QED
        BY <1>2, <2>1, <3>2, <4>1
    <3>3. QED
      BY <1>2, <3>1, <3>2
  <2>3. Injector!Flags(p) \div 4 = 128 * z
    BY <2>2
  <2>4. (Injector!Flags(p) \div 4) % 2 = 0
    BY <2>2, <2>3
  <2>5. QED
    BY <1>4, <2>4 DEF Injector!Has, Injector!LEFTUP
<1>5. CASE p.type = "MouseButtonPress"
  <2>1. Injector!Flags(p) = 1 + 256 * y
    BY <1>2, <1>3, <1>5 DEF Injector!Flags, Injector!UInt16
  <2>2. Injector!Flags(p) \div 4 = 64 * y /\ Injector!Flags(p) \div 2 = 128 * y
    BY <1>2, <2>1
  <2>3. (Injector!Flags(p) \div 4) % 2 = 0 /\ (Injector!Flags(p) \div 2) % 2 = 0
    BY <1>2, <2>2
  <2>4. QED
    BY <2>3 DEF Injector!Has, Injector!LEFTUP, Injector!LEFTDOWN
<1>6. QED
  BY <1>4, <1>5 DEF ButtonType

(* On a Windows peer it is never the press of the host's left button that  *)
(* presses the left button, always a release; and once down, the button    *)
(* stays down for the rest of the session: what ReleasePressesNothing      *)
(* finds is the rule.                                                      *)
ReleasePressesForGood ==
  [][/\ desk'.left /\ ~desk.left => Head(wire).type = "MouseButtonRelease"
     /\ desk.left => desk'.left]_vars

THEOREM LeftButtonSticks == HasDisplay /\ OnlyLeft => (Spec => ReleasePressesForGood)
<1> SUFFICES ASSUME HasDisplay, OnlyLeft PROVE Spec => ReleasePressesForGood
  OBVIOUS
<1> DEFINE Step == /\ desk'.left /\ ~desk.left => Head(wire).type = "MouseButtonRelease"
                   /\ desk.left => desk'.left
<1>1. PeerOK /\ [Next]_vars => [Step]_vars
  <2> SUFFICES ASSUME PeerOK, Next PROVE Step
    OBVIOUS
  <2>1. CASE ReadPacket
    <3>1. Head(wire) \in Events /\ desk.left \in BOOLEAN
      BY <2>1, HeadTailProperties DEF ReadPacket, PeerOK, SendingOK, Desk
    <3>2. desk' = Injector!Effect(desk, Head(wire))
      BY <2>1, <3>1, EventAccepted DEF ReadPacket
    <3> DEFINE p == Head(wire)
    <3>3. p \in Events /\ (p.type \in Injector!ButtonType <=> p.type \in ButtonType)
      BY <3>1 DEF Injector!ButtonType, ButtonType
    <3> HIDE DEF p
    <3>4. CASE p.type \in ButtonType
      <4>1. desk'.left = ((desk.left \/ Injector!Has(Injector!Flags(p), Injector!LEFTDOWN))
                            /\ ~Injector!Has(Injector!Flags(p), Injector!LEFTUP))
        BY <3>2, <3>3, <3>4 DEF Injector!Effect, p
      <4>2. QED
        BY <3>3, <3>4, <4>1, LeftFlags DEF p
    <3>5. CASE p.type \notin ButtonType
      <4>1. desk'.left = desk.left
        BY <3>2, <3>3, <3>5 DEF Injector!Effect, p
      <4>2. QED
        BY <4>1
    <3>6. QED
      BY <3>4, <3>5
  <2>2. CASE InjectionFails
    <3>1. desk'.left = desk.left
      BY <2>2 DEF InjectionFails, Injector!PartialEffects, PeerOK, Desk
    <3>2. QED
      BY <3>1
  <2>3. CASE UNCHANGED desk
    BY <2>3
  <2>4. QED
    BY <2>1, <2>2, <2>3 DEF Next, Finished, Loop!EndOfStream, vars
<1> HIDE DEF Step
<1>2. Spec => [][Step]_vars
  BY <1>1, AlwaysPeerOK, PTL DEF Spec
<1>3. QED
  BY <1>2 DEF Step, ReleasePressesForGood

-----------------------------------------------------------------------------
(* A host with one screen: what it sends are distances to its right edge,  *)
(* all of them negative, which injectMouseMove scales as they are.         *)
OneScreen == \A x \in Positions : x < HostWidth

(* The pointer of a Windows peer is never posted right of its left border, *)
(* wherever the user of a host with one screen points, and also not by a   *)
(* button whose number, with the byte of x above it, has the flags of an   *)
(* absolute move.                                                          *)
THEOREM PointerStaysAtTheBorder ==
  HasDisplay /\ OneScreen => (Spec => [](desk.dx <= 0))
<1> SUFFICES ASSUME HasDisplay, OneScreen PROVE Spec => [](desk.dx <= 0)
  OBVIOUS
<1> DEFINE AtBorder == desk.dx <= 0
<1>1. Init => AtBorder
  BY DEF Init
<1>2. PeerOK /\ AtBorder /\ [Next]_vars => AtBorder'
  <2> SUFFICES ASSUME PeerOK, desk.dx <= 0, [Next]_vars PROVE desk'.dx <= 0
    OBVIOUS
  <2>1. CASE ReadPacket
    <3>1. PICK p \in Events : desk' = Injector!Effect(desk, p)
      <4>1. Head(wire) \in Events
        BY <2>1, HeadTailProperties DEF ReadPacket, PeerOK, SendingOK
      <4>2. QED
        BY <2>1, <4>1, EventAccepted DEF ReadPacket
    <3>2. CASE p.type = "MouseMove"
      <4>1. \A x \in Positions \ {-1} : Relative(x) \in Int /\ Relative(x) <= 0
        BY ClientAssumption DEF OneScreen, Relative
      <4>2. p.x \in Int /\ p.x <= 0
        BY <3>2, <4>1 DEF Events, KeyType, ButtonType
      <4>3. desk'.dx = Injector!Absolute(p.x)
        BY <3>1, <3>2 DEF Injector!Effect
      <4>4. QED
        BY <4>2, <4>3, AbsoluteIsNumber
    <3>3. CASE p.type # "MouseMove"
      <4>1. desk'.dx \in {0, desk.dx}
        BY <3>1, <3>3 DEF Injector!Effect
      <4>2. QED
        BY <4>1
    <3>4. QED
      BY <3>2, <3>3
  <2>2. CASE InjectionFails
    BY <2>2 DEF InjectionFails, Injector!PartialEffects, PeerOK, Desk
  <2>3. CASE UNCHANGED desk
    BY <2>3
  <2>4. QED
    BY <2>1, <2>2, <2>3 DEF Next, Finished, Loop!EndOfStream, vars
<1>3. Spec => []AtBorder
  BY <1>1, <1>2, AlwaysPeerOK, PTL DEF Spec
<1>4. QED
  BY <1>3
=============================================================================
