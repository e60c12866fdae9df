--------------------------- MODULE SamenessProofs ---------------------------
(***************************************************************************)
(* Proofs about Sameness, for every screen width, threshold, set of        *)
(* positions, keys and buttons, and every size of the buffers.             *)
(***************************************************************************)
EXTENDS Sameness, SequenceTheorems, TLAPS

-----------------------------------------------------------------------------
(* The packets the callback builds.                                        *)

LEMMA KeyPacketIsEvent ==
  ASSUME NEW type \in KeyType, NEW k \in Keys, k # Undefined
  PROVE  KeyPacket(type, k) \in Events
BY DEF KeyPacket, Events

LEMMA ButtonPacketIsEvent ==
  ASSUME NEW type \in ButtonType, NEW b \in Buttons, NEW x \in Positions, x >= 0
  PROVE  ButtonPacket(type, b, Relative(x)) \in Events
<1>1. x \in Positions \ {-1}
  BY ClientAssumption
<1>2. Relative(x) \in {Relative(y) : y \in Positions \ {-1}}
  BY <1>1
<1>3. QED
  BY <1>2 DEF ButtonPacket, Events

LEMMA MovePacketIsEvent ==
  ASSUME NEW x \in Positions, x >= 0
  PROVE  MovePacket(Relative(x)) \in Events
<1>1. x \in Positions \ {-1}
  BY ClientAssumption
<1>2. Relative(x) \in {Relative(y) : y \in Positions \ {-1}}
  BY <1>1
<1>3. QED
  BY <1>2 DEF MovePacket, Events

LEMMA KeyCodes ==
  /\ UInt16 \in Nat \ {0}
  /\ \A k \in Keys : k \in Nat /\ CGKeyCode(k) = k
<1>1. UInt16 \in Nat \ {0}
  BY DEF UInt16
<1>2. \A k \in 0 .. UInt16 - 1 : k \in Nat /\ k % UInt16 = k
  BY <1>1
<1>3. QED
  BY <1>1, <1>2, ClientAssumption DEF CGKeyCode

LEMMA EventShape ==
  ASSUME NEW p \in Events
  PROVE  /\ p.type \in EventType
         /\ p.code \in Nat
         /\ p.x \in Int
<1>1. \A x \in Positions \ {-1} : Relative(x) \in Int
  BY ClientAssumption DEF Relative
<1>2. \A k \in Keys : k \in Nat
  BY KeyCodes
<1>3. \A b \in Buttons : b \in Nat
  BY ClientAssumption
<1>4. QED
  BY <1>1, <1>2, <1>3 DEF Events, EventType, KeyType, ButtonType

(* The payload of every packet is as long as its injector asks for.        *)
LEMMA EventAccepted ==
  ASSUME NEW p \in Events
  PROVE  Accepts(p)
<1>1. PayloadSize = RequiredSize /\ \A t \in EventType : PayloadSize[t] \in Nat
  BY DEF PayloadSize, RequiredSize
<1>2. QED
  BY <1>1, EventShape DEF Accepts

LEMMA EffectIsDesk ==
  ASSUME NEW d \in Desk, NEW p \in Events
  PROVE  Effect(d, p) \in Desk
<1>1. p.type \in EventType /\ p.code \in Nat /\ p.x \in Int
  BY EventShape
<1>2. CGKeyCode(p.code) \in Nat /\ ScreenX(p.x) \in Int
  BY <1>1, KeyCodes, PeerAssumption DEF CGKeyCode, ScreenX
<1>3. (p.type = "MouseButtonPress") \in BOOLEAN
  BY Zenon
<1>4. QED
  BY <1>2, <1>3 DEF Effect, KeyOf, Desk

LEMMA NewStateIsControl ==
  ASSUME control \in {"HOST", "CLIENT"}, NEW x
  PROVE  Switcher!NewState(control, EdgeThreshold, x) \in {"HOST", "CLIENT"}
BY DEF Switcher!NewState

-----------------------------------------------------------------------------
(* What a callback does with its event: nothing, write a packet, or throw. *)
Outcome == Ignore \/ Throw \/ \E p \in Events : Forward(p)

LEMMA MouseMovedOutcome ==
  ASSUME TypeOK, NEW x \in Positions, MouseMoved(x)
  PROVE  Outcome /\ control' \in {"HOST", "CLIENT"}
<1>1. CASE x < 0 /\ Throw /\ UNCHANGED control
  BY <1>1 DEF Outcome, TypeOK
<1>2. CASE x >= 0 /\ control' = Switcher!NewState(control, EdgeThreshold, x) /\ ForwardMove(x)
  <2>1. control' \in {"HOST", "CLIENT"}
    BY <1>2, NewStateIsControl DEF TypeOK
  <2>2. MovePacket(Relative(x)) \in Events
    BY <1>2, MovePacketIsEvent
  <2>3. QED
    BY <1>2, <2>1, <2>2 DEF ForwardMove, Outcome
<1>3. QED
  BY <1>1, <1>2 DEF MouseMoved

LEMMA KeyOutcome ==
  ASSUME TypeOK, NEW type \in KeyType, NEW k \in Keys, ForwardKey(type, k)
  PROVE  Outcome
BY KeyPacketIsEvent DEF ForwardKey, Outcome

LEMMA ButtonOutcome ==
  ASSUME TypeOK, NEW type \in ButtonType, NEW b \in Buttons, ForwardButton(type, b)
  PROVE  Outcome
BY ButtonPacketIsEvent DEF ForwardButton, Outcome, TypeOK

(* The part of the type invariant that an outcome touches.                 *)
SendingOK ==
  /\ wire \in Seq(Events) /\ Len(wire) <= Cap
  /\ conn \in Connection
  /\ client \in {"running", "exited"}
  /\ writing \in Seq(Events) /\ Len(writing) <= 1

LEMMA OutcomeKeepsTypes ==
  ASSUME SendingOK, Outcome
  PROVE  SendingOK'
<1>1. CASE Ignore
  BY <1>1 DEF SendingOK, Ignore, channelVars
<1>2. CASE Throw
  BY <1>2 DEF SendingOK, Throw, CloseClientEnd, Connection
<1>3. ASSUME NEW p \in Events, Forward(p)
      PROVE  SendingOK'
  <2>1. <<p>> \in Seq(Events) /\ Len(<<p>>) = 1
    OBVIOUS
  <2>2. QED
    BY <1>3, <2>1 DEF SendingOK, Forward, channelVars
<1>4. QED
  BY <1>1, <1>2, <1>3 DEF Outcome

(* Every event of the user is handled with one of the outcomes.            *)
LEMMA UserEventOutcome ==
  ASSUME TypeOK, UserEvent
  PROVE  /\ Outcome
         /\ control' \in {"HOST", "CLIENT"}
         /\ pointer' \in Positions
         /\ keys' \in SUBSET Keys
         /\ buttons' \in SUBSET Buttons
<1>1. ASSUME NEW x \in Positions, MouseMoved(x)
      PROVE  /\ Outcome
             /\ control' \in {"HOST", "CLIENT"}
             /\ pointer' \in Positions
             /\ keys' \in SUBSET Keys
             /\ buttons' \in SUBSET Buttons
  BY <1>1, MouseMovedOutcome DEF MouseMoved, TypeOK
<1>2. ASSUME NEW x \in Positions, MouseDragged(x)
      PROVE  /\ Outcome
             /\ control' \in {"HOST", "CLIENT"}
             /\ pointer' \in Positions
             /\ keys' \in SUBSET Keys
             /\ buttons' \in SUBSET Buttons
  BY <1>2 DEF MouseDragged, Outcome, TypeOK
<1>3. ASSUME NEW k \in Keys, KeyPressed(k) \/ KeyReleased(k)
      PROVE  /\ Outcome
             /\ control' \in {"HOST", "CLIENT"}
             /\ pointer' \in Positions
             /\ keys' \in SUBSET Keys
             /\ buttons' \in SUBSET Buttons
  BY <1>3, KeyOutcome DEF KeyPressed, KeyReleased, KeyType, TypeOK
<1>4. ASSUME NEW b \in Buttons, MousePressed(b) \/ MouseReleased(b)
      PROVE  /\ Outcome
             /\ control' \in {"HOST", "CLIENT"}
             /\ pointer' \in Positions
             /\ keys' \in SUBSET Keys
             /\ buttons' \in SUBSET Buttons
  BY <1>4, ButtonOutcome DEF MousePressed, MouseReleased, ButtonType, TypeOK
<1>5. QED
  BY <1>1, <1>2, <1>3, <1>4 DEF UserEvent

-----------------------------------------------------------------------------
(* The type invariant, step by step.                                       *)

LEMMA InitTypes == Init => TypeOK
<1>1. ASSUME Init PROVE TypeOK
  <2>1. wire \in Seq(Events) /\ Len(wire) <= Cap /\ conn \in Connection
    BY <1>1, CapAssumption DEF Init, ChannelInit, Connection
  <2>2. writing \in Seq(Events) /\ Len(writing) <= 1
    BY <1>1 DEF Init, ClientInit
  <2>3. desk \in Desk /\ server \in ServerState
    BY <1>1 DEF Init, ServerInit, Desk, ServerState
  <2>4. QED
    BY <1>1, <2>1, <2>2, <2>3 DEF Init, ClientInit, TypeOK
<1>2. QED
  BY <1>1

LEMMA TransmitTypes ==
  ASSUME SendingOK, Transmit(writing)
  PROVE  wire' \in Seq(Events) /\ Len(wire') <= Cap /\ conn' = conn
<1>1. CASE /\ Len(wire) + Len(writing) <= Cap
           /\ wire' = wire \o writing
           /\ UNCHANGED conn
  BY <1>1, ConcatProperties DEF SendingOK
<1>2. CASE UNCHANGED channelVars
  BY <1>2 DEF SendingOK, channelVars
<1>3. QED
  BY <1>1, <1>2 DEF Transmit

LEMMA ClientStepTypes ==
  ASSUME TypeOK, ClientStep
  PROVE  TypeOK'
<1>1. SendingOK
  BY DEF TypeOK, SendingOK
<1>2. /\ SendingOK'
      /\ control' \in {"HOST", "CLIENT"}
      /\ pointer' \in Positions
      /\ keys' \in SUBSET Keys
      /\ buttons' \in SUBSET Buttons
  <2>1. CASE UserEvent
    BY <1>1, <2>1, UserEventOutcome, OutcomeKeepsTypes
  <2>2. CASE WriteReturns
    <3>1. wire' \in Seq(Events) /\ Len(wire') <= Cap /\ conn' = conn
      BY <1>1, <2>2, TransmitTypes DEF WriteReturns
    <3>2. <<>> \in Seq(Events) /\ Len(<<>>) = 0
      BY EmptySeq
    <3>3. QED
      BY <2>2, <3>1, <3>2 DEF WriteReturns, TypeOK, SendingOK
  <2>3. CASE WriteFails \/ ClientKilled
    <3>1. SendingOK'
      BY <1>1, <2>3, OutcomeKeepsTypes DEF WriteFails, ClientKilled, Outcome
    <3>2. QED
      BY <2>3, <3>1 DEF WriteFails, ClientKilled, TypeOK
  <2>4. QED
    BY <2>1, <2>2, <2>3 DEF ClientStep, ClientNext
<1>3. unsent' \in SUBSET Keys
  BY <1>2 DEF ClientStep, RecordUnsent, JustChanged, TypeOK
<1>4. server' = server /\ desk' = desk
  BY DEF ClientStep, serverVars
<1>5. QED
  BY <1>2, <1>3, <1>4 DEF TypeOK, SendingOK

LEMMA ServerStepTypes ==
  ASSUME TypeOK, ServerStep
  PROVE  TypeOK'
<1>1. UNCHANGED <<client, control, pointer, keys, buttons, writing, unsent>>
  BY DEF ServerStep, clientVars
<1>2. CASE ReadPacket /\ Accepts(Head(wire))
  <2>1. Head(wire) \in Events /\ Tail(wire) \in Seq(Events) /\ Len(Tail(wire)) = Len(wire) - 1
    BY <1>2, HeadTailProperties DEF ReadPacket, TypeOK
  <2>2. wire' \in Seq(Events) /\ Len(wire') <= Cap
    BY <1>2, <2>1, CapAssumption DEF ReadPacket, TypeOK
  <2>3. desk' \in Desk
    BY <1>2, <2>1, EffectIsDesk DEF ReadPacket, TypeOK
  <2>4. QED
    BY <1>1, <1>2, <2>2, <2>3 DEF ReadPacket, TypeOK
<1>3. CASE CloseServerEnd /\ server' \in ServerState /\ UNCHANGED desk
  <2>1. wire' \in Seq(Events) /\ Len(wire') <= Cap
    BY <1>3, EmptySeq, CapAssumption DEF CloseServerEnd
  <2>2. conn' \in Connection
    BY <1>3 DEF CloseServerEnd, Connection, TypeOK
  <2>3. QED
    BY <1>1, <1>3, <2>1, <2>2 DEF TypeOK
<1>4. QED
  BY <1>2, <1>3 DEF ServerStep, ServerNext, ReadPacket, InjectionFails, EndOfStream, ServerState

LEMMA NetworkStepTypes ==
  ASSUME TypeOK, NetworkStep
  PROVE  TypeOK'
<1>1. /\ UNCHANGED <<client, control, pointer, keys, buttons, writing, unsent>>
      /\ UNCHANGED <<server, desk>>
  BY DEF NetworkStep, clientVars, serverVars
<1>2. CASE NetworkFails
  <2>1. PICK n \in 0 .. Len(wire) : wire' = SubSeq(wire, 1, n)
    BY <1>2 DEF NetworkFails
  <2>2. \A i \in 1 .. n : wire[i] \in Events
    BY <2>1, ElementOfSeq DEF TypeOK
  <2>3. SubSeq(wire, 1, n) \in Seq(Events) /\ Len(SubSeq(wire, 1, n)) <= Cap
    BY <2>1, <2>2, SubSeqProperties, CapAssumption, LenProperties DEF TypeOK
  <2>4. conn' \in Connection
    BY <1>2 DEF NetworkFails, Connection
  <2>5. QED
    BY <1>1, <2>1, <2>3, <2>4 DEF TypeOK
<1>3. CASE ResetArrives
  BY <1>1, <1>3 DEF ResetArrives, Connection, TypeOK
<1>4. QED
  BY <1>2, <1>3 DEF NetworkStep

LEMMA NextTypes ==
  ASSUME TypeOK, [Next]_vars
  PROVE  TypeOK'
<1>1. CASE UNCHANGED vars
  BY <1>1 DEF vars, clientVars, serverVars, TypeOK
<1>2. QED
  BY <1>1, ClientStepTypes, ServerStepTypes, NetworkStepTypes DEF Next, Finished

(* The type invariant: in particular only the packets of Events are ever   *)
(* on the way, and never more of them than the buffers hold.               *)
THEOREM TypeCorrect == Spec => []TypeOK
<1>1. Init => TypeOK
  BY InitTypes
<1>2. TypeOK /\ [Next]_vars => TypeOK'
  BY NextTypes
<1>3. QED
  BY <1>1, <1>2, PTL DEF Spec

(* The server never meets a packet that its injector rejects.              *)
THEOREM EveryPacketAccepted == Spec => []NoPacketRejected
<1>1. Init => NoPacketRejected
  BY DEF Init, ServerInit, NoPacketRejected
<1>2. TypeOK /\ NoPacketRejected /\ [Next]_vars => NoPacketRejected'
  <2> SUFFICES ASSUME TypeOK, NoPacketRejected, [Next]_vars
               PROVE  NoPacketRejected'
    OBVIOUS
  <2>1. CASE ReadPacket
    <3>1. Accepts(Head(wire))
      BY <2>1, HeadTailProperties, EventAccepted DEF ReadPacket, TypeOK
    <3>2. QED
      BY <2>1, <3>1 DEF ReadPacket, NoPacketRejected
  <2>2. CASE InjectionFails \/ EndOfStream
    BY <2>2 DEF InjectionFails, EndOfStream, NoPacketRejected
  <2>3. CASE UNCHANGED server
    BY <2>3 DEF NoPacketRejected
  <2>4. QED
    BY <2>1, <2>2, <2>3 DEF Next, ClientStep, ServerStep, ServerNext, NetworkStep,
       Finished, serverVars, vars
<1>3. QED
  BY <1>1, <1>2, TypeCorrect, PTL DEF Spec

(* A peer whose display is as wide as the host's, and no screen of the     *)
(* host further right than the peer is wide: what the injectors treat as   *)
(* given.                                                                  *)
Fits ==
  /\ PeerWidth >= HostWidth
  /\ \A x \in Positions : x < HostWidth + PeerWidth

LEMMA MousePacketOnScreen ==
  ASSUME Fits, NEW p \in Events, p.type \notin KeyType
  PROVE  ScreenX(p.x) >= 0 /\ ScreenX(p.x) < 2 * PeerWidth
<1>1. \A x \in Positions \ {-1} :
        ScreenX(Relative(x)) >= 0 /\ ScreenX(Relative(x)) < 2 * PeerWidth
  BY ClientAssumption, PeerAssumption DEF Fits, Relative, ScreenX
<1>2. p.x \in {Relative(x) : x \in Positions \ {-1}}
  BY DEF Events, KeyType, ButtonType
<1>3. QED
  BY <1>1, <1>2

(* On such a peer the pointer never leaves the main display.               *)
THEOREM PointerStaysOnScreen == Fits => (Spec => []PeerPointerOnScreen)
<1> SUFFICES ASSUME Fits PROVE Spec => []PeerPointerOnScreen
  OBVIOUS
<1>1. Init => PeerPointerOnScreen
  BY PeerAssumption DEF Init, ServerInit, PeerPointerOnScreen
<1>2. TypeOK /\ PeerPointerOnScreen /\ [Next]_vars => PeerPointerOnScreen'
  <2> SUFFICES ASSUME TypeOK, PeerPointerOnScreen, [Next]_vars
               PROVE  PeerPointerOnScreen'
    OBVIOUS
  <2>1. CASE ReadPacket /\ desk' = Effect(desk, Head(wire))
    <3>1. Head(wire) \in Events
      BY <2>1, HeadTailProperties DEF ReadPacket, TypeOK
    <3>2. desk'.x = IF Head(wire).type \in KeyType THEN desk.x ELSE ScreenX(Head(wire).x)
      BY <2>1 DEF Effect
    <3>3. QED
      BY <3>1, <3>2, MousePacketOnScreen DEF PeerPointerOnScreen
  <2>2. CASE UNCHANGED desk
    BY <2>2 DEF PeerPointerOnScreen
  <2>3. QED
    BY <2>1, <2>2 DEF Next, ClientStep, ServerStep, ServerNext, ReadPacket, InjectionFails,
       EndOfStream, NetworkStep, Finished, serverVars, vars
<1>3. QED
  BY <1>1, <1>2, TypeCorrect, PTL DEF Spec
=============================================================================
