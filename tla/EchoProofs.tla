----------------------------- MODULE EchoProofs -----------------------------
(***************************************************************************)
(* Proofs about Echo, for every set of machines, every width of their      *)
(* displays and every way to connect them.                                 *)
(***************************************************************************)
EXTENDS Echo, SequenceTheorems, FiniteSetTheorems, TLAPS

(* A pointer in the left half of a screen, or between the two bands, does  *)
(* not give control away.                                                  *)
OffBand(w, x) == x <= w \div 2 \/ (EdgeThreshold < x /\ x < w - EdgeThreshold /\ x < w)

LEMMA OffBandKeepsHost ==
  ASSUME NEW w \in Nat, NEW x \in Nat, OffBand(w, x)
  PROVE  Switcher(w)!NewState("HOST", EdgeThreshold, x) = "HOST"
<1>1. EdgeThreshold \in Int
  BY EchoAssumption
<1>2. CASE x <= w \div 2
  BY <1>2 DEF Switcher!NewState
<1>3. CASE EdgeThreshold < x /\ x < w - EdgeThreshold
  BY <1>1, <1>3 DEF Switcher!NewState, Switcher!AtRightEdge, Switcher!AtLeftEdge
<1>4. QED
  BY <1>2, <1>3 DEF OffBand

LEMMA Int16Keeps ==
  ASSUME NEW x \in Int, 0 <= x + 128 * 256, x < 128 * 256
  PROVE  Uiohook!Int16(x) = x
<1>1. UInt16 \div 2 = 128 * 256
  BY DEF UInt16
<1>2. (x + 128 * 256) % UInt16 = x + 128 * 256
  BY DEF UInt16
<1>3. QED
  BY <1>1, <1>2 DEF Uiohook!Int16, Uiohook!UInt16, UInt16

(* A macOS injector halves the distance to the left edge.                  *)
LEMMA HalfPixel ==
  ASSUME NEW w \in Nat, NEW x \in Int
  PROVE  /\ Pixel(MacOS(w)!ScreenX(x)) \in Int
         /\ x <= 0 => Pixel(MacOS(w)!ScreenX(x)) <= w \div 2
         /\ x >= 0 => 2 * Pixel(MacOS(w)!ScreenX(x)) <= w + x
BY DEF MacOS!ScreenX, Pixel

LEMMA SingleSeq ==
  ASSUME NEW S, NEW v \in S
  PROVE  <<v>> \in Seq(S) /\ Len(<<v>>) = 1
OBVIOUS

-----------------------------------------------------------------------------
(* What may be injected on each machine, and what its client may send, as  *)
(* a set of packets for each machine.                                      *)
Carried(In, Out) ==
  \A m \in Machines :
    /\ posted[m] \in Seq(In[m])
    /\ writing[m] \in Seq(Out[m]) /\ Len(writing[m]) <= 1
    /\ wire[m] \in Seq(Out[m]) /\ Len(wire[m]) <= Cap

(* The variables that are no sequences of packets.                         *)
ControlOK ==
  /\ setup \in Setups
  /\ client \in [Machines -> {"running", "exited"}]
  /\ control \in [Machines -> {"HOST", "CLIENT"}]
  /\ inputs \in 0 .. setup.inputs

(* `posted', `writing' and `wire' are functions.                           *)
ShapeOK ==
  /\ posted = [m \in Machines |-> posted[m]]
  /\ writing = [m \in Machines |-> writing[m]]
  /\ wire = [m \in Machines |-> wire[m]]

EchoInv(In, Out) == ControlOK /\ ShapeOK /\ Carried(In, Out)

(* A client sends only what it may when its hook sees what it may, of the  *)
(* user or injected, and the server of its peer injects only what it may.  *)
Closed(Seen, In, Out) ==
  /\ \A m \in Machines : UserEvents(m) \subseteq Seen[m] /\ In[m] \subseteq Seen[m]
  /\ \A m \in Machines : \A e \in Seen[m] :
       e.type # "MouseMove" \/ ~Invalid(e) => Packed(m, e) \in Out[m]
  /\ \A m \in Machines : \A p \in Out[m] :
       Reports(setup.peer[m], p) \subseteq Seq(In[setup.peer[m]])

LEMMA NewControlIsOneOfTwo ==
  ASSUME ControlOK, NEW m \in Machines, NEW e
  PROVE  NewControl(m, e) \in {"HOST", "CLIENT"}
<1>1. control[m] \in {"HOST", "CLIENT"}
  BY DEF ControlOK
<1>2. Switcher(Width[m])!NewState(control[m], EdgeThreshold, e.x) \in {"HOST", "CLIENT"}
  BY <1>1 DEF Switcher!NewState
<1>3. QED
  BY <1>1, <1>2 DEF NewControl

LEMMA CallbackKeeps ==
  ASSUME NEW Seen, NEW In, NEW Out, EchoInv(In, Out), Closed(Seen, In, Out),
         NEW m \in Machines, NEW e \in Seen[m], NEW waiting \in Seq(In[m]),
         Callback(m, e, waiting), inputs' \in 0 .. setup.inputs
  PROVE  EchoInv(In, Out)'
<1>1. ControlOK'
  <2>1. NewControl(m, e) \in {"HOST", "CLIENT"}
    BY NewControlIsOneOfTwo DEF EchoInv
  <2>2. QED
    BY <2>1 DEF EchoInv, ControlOK, Callback
<1>2. ShapeOK'
  BY DEF EchoInv, ShapeOK, Callback
<1>3. /\ posted'[m] \in Seq(In[m])
      /\ \A n \in Machines \ {m} : posted'[n] = posted[n]
  <2>1. /\ posted'[m] = IF Throws(m, e) THEN <<>> ELSE waiting
        /\ \A n \in Machines \ {m} : posted'[n] = posted[n]
    BY DEF EchoInv, ShapeOK, Callback
  <2>2. CASE Throws(m, e)
    BY <2>1, <2>2, EmptySeq
  <2>3. CASE ~Throws(m, e)
    BY <2>1, <2>3
  <2>4. QED
    BY <2>2, <2>3
<1>4. /\ writing'[m] \in Seq(Out[m]) /\ Len(writing'[m]) <= 1
      /\ \A n \in Machines \ {m} : writing'[n] = writing[n]
  <2>1. /\ writing'[m] = IF ~Throws(m, e) /\ Forwards(m, e) THEN <<Packed(m, e)>> ELSE <<>>
        /\ \A n \in Machines \ {m} : writing'[n] = writing[n]
    BY DEF EchoInv, ShapeOK, Callback
  <2>2. ~Throws(m, e) => Packed(m, e) \in Out[m]
    BY DEF Throws, Closed
  <2>3. CASE ~Throws(m, e) /\ Forwards(m, e)
    <3>1. writing'[m] = <<Packed(m, e)>>
      BY <2>1, <2>3
    <3>2. Packed(m, e) \in Out[m]
      BY <2>2, <2>3
    <3>3. writing'[m] \in Seq(Out[m]) /\ Len(writing'[m]) = 1
      BY <3>1, <3>2, SingleSeq
    <3>4. QED
      BY <2>1, <3>3
  <2>4. CASE ~(~Throws(m, e) /\ Forwards(m, e))
    <3>1. writing'[m] = <<>>
      BY <2>1, <2>4
    <3>2. writing'[m] \in Seq(Out[m]) /\ Len(writing'[m]) = 0
      BY <3>1, EmptySeq
    <3>3. QED
      BY <2>1, <3>2
  <2>5. QED
    BY <2>3, <2>4
<1>5. wire' = wire
  BY DEF Callback
<1>6. Carried(In, Out)'
  BY <1>3, <1>4, <1>5 DEF EchoInv, Carried
<1>7. QED
  BY <1>1, <1>2, <1>6 DEF EchoInv

LEMMA StepKeeps ==
  ASSUME NEW Seen, NEW In, NEW Out, EchoInv(In, Out), Closed(Seen, In, Out), [Next]_vars
  PROVE  EchoInv(In, Out)'
<1>0. \A m \in Machines : setup.peer[m] \in Machines
  BY EchoAssumption DEF EchoInv, ControlOK
<1>1. ASSUME NEW m \in Machines, NEW e \in UserEvents(m), UserActs(m, e)
      PROVE  EchoInv(In, Out)'
  <2>1. e \in Seen[m] /\ posted[m] \in Seq(In[m])
    BY DEF Closed, EchoInv, Carried
  <2>2. inputs' \in 0 .. setup.inputs
    BY <1>1, EchoAssumption DEF UserActs, EchoInv, ControlOK
  <2>3. QED
    BY <1>1, <2>1, <2>2, CallbackKeeps DEF UserActs
<1>2. ASSUME NEW m \in Machines, HookSees(m) PROVE EchoInv(In, Out)'
  <2>1. posted[m] \in Seq(In[m]) /\ posted[m] # <<>>
    BY <1>2 DEF HookSees, EchoInv, Carried
  <2>2. Head(posted[m]) \in Seen[m] /\ Tail(posted[m]) \in Seq(In[m])
    BY <2>1, HeadTailProperties DEF Closed
  <2>3. inputs' \in 0 .. setup.inputs
    BY <1>2 DEF HookSees, EchoInv, ControlOK
  <2>4. QED
    BY <1>2, <2>2, <2>3, CallbackKeeps DEF HookSees
<1>3. ASSUME NEW m \in Machines, Swallowed(m) PROVE EchoInv(In, Out)'
  <2>1. posted[m] \in Seq(In[m]) /\ posted[m] # <<>>
    BY <1>3 DEF Swallowed, EchoInv, Carried
  <2>2. Tail(posted[m]) \in Seq(In[m])
    BY <2>1, HeadTailProperties
  <2>3. posted'[m] = Tail(posted[m]) /\ \A n \in Machines \ {m} : posted'[n] = posted[n]
    BY <1>3 DEF Swallowed, EchoInv, ShapeOK
  <2>4. ShapeOK' /\ ControlOK'
    BY <1>3 DEF Swallowed, EchoInv, ShapeOK, ControlOK
  <2>5. Carried(In, Out)'
    BY <1>3, <2>2, <2>3 DEF Swallowed, EchoInv, Carried
  <2>6. QED
    BY <2>4, <2>5 DEF EchoInv
<1>4. ASSUME NEW m \in Machines, WriteReturns(m) PROVE EchoInv(In, Out)'
  <2>1. /\ writing[m] \in Seq(Out[m]) /\ Len(writing[m]) <= 1
        /\ wire[m] \in Seq(Out[m]) /\ Len(wire[m]) < Cap
    BY <1>4 DEF WriteReturns, EchoInv, Carried
  <2>2. wire[m] \o writing[m] \in Seq(Out[m]) /\ Len(wire[m] \o writing[m]) <= Cap
    <3>1. /\ wire[m] \o writing[m] \in Seq(Out[m])
          /\ Len(wire[m] \o writing[m]) = Len(wire[m]) + Len(writing[m])
      BY <2>1, ConcatProperties
    <3>2. Len(wire[m]) \in Nat /\ Len(writing[m]) \in Nat /\ Cap \in Nat
      BY <2>1, EchoAssumption, LenProperties
    <3>3. \A a, b, c \in Nat : a < c /\ b <= 1 => a + b <= c
      OBVIOUS
    <3>4. Len(wire[m]) + Len(writing[m]) <= Cap
      BY <2>1, <3>2, <3>3
    <3>5. QED
      BY <3>1, <3>4
  <2>3. /\ wire'[m] = wire[m] \o writing[m] /\ writing'[m] = <<>>
        /\ \A n \in Machines \ {m} : wire'[n] = wire[n] /\ writing'[n] = writing[n]
    BY <1>4 DEF WriteReturns, EchoInv, ShapeOK
  <2>4. ShapeOK' /\ ControlOK'
    BY <1>4 DEF WriteReturns, EchoInv, ShapeOK, ControlOK
  <2>5. writing'[m] \in Seq(Out[m]) /\ Len(writing'[m]) <= 1
    BY <2>3
  <2>6. Carried(In, Out)'
    BY <1>4, <2>2, <2>3, <2>5 DEF WriteReturns, EchoInv, Carried
  <2>7. QED
    BY <2>4, <2>6 DEF EchoInv
<1>5. ASSUME NEW m \in Machines, Injects(m) PROVE EchoInv(In, Out)'
  <2> DEFINE to == setup.peer[m]
  <2>1. to \in Machines
    BY <1>0
  <2>2. wire[m] # <<>> /\ wire[m] \in Seq(Out[m]) /\ Len(wire[m]) <= Cap
    BY <1>5 DEF Injects, EchoInv, Carried
  <2>3. /\ Head(wire[m]) \in Out[m] /\ Tail(wire[m]) \in Seq(Out[m])
        /\ Len(Tail(wire[m])) <= Cap
    <3>1. /\ Head(wire[m]) \in Out[m] /\ Tail(wire[m]) \in Seq(Out[m])
          /\ Len(Tail(wire[m])) = Len(wire[m]) - 1
      BY <2>2, HeadTailProperties
    <3>2. Len(wire[m]) \in Nat /\ Cap \in Nat
      BY <2>2, EchoAssumption, LenProperties
    <3>3. QED
      BY <2>2, <3>1, <3>2
  <2>4. PICK reports \in Reports(to, Head(wire[m])) :
          posted' = [posted EXCEPT ![to] = IF client[to] = "running" THEN @ \o reports ELSE @]
    BY <1>5 DEF Injects
  <2>5. reports \in Seq(In[to])
    BY <2>3, <2>4 DEF Closed
  <2>6. posted[to] \in Seq(In[to])
    BY <2>1 DEF EchoInv, Carried
  <2>7. posted[to] \o reports \in Seq(In[to])
    BY <2>5, <2>6, ConcatProperties
  <2>9. /\ posted'[to] \in Seq(In[to])
        /\ \A n \in Machines \ {to} : posted'[n] = posted[n]
    BY <2>1, <2>4, <2>6, <2>7 DEF EchoInv, ShapeOK
  <2>10. wire'[m] = Tail(wire[m]) /\ \A n \in Machines \ {m} : wire'[n] = wire[n]
    BY <1>5 DEF Injects, EchoInv, ShapeOK
  <2>11. ControlOK' /\ ShapeOK'
    BY <1>5, <2>4 DEF Injects, EchoInv, ShapeOK, ControlOK
  <2>12. \A n \in Machines : posted'[n] \in Seq(In[n])
    BY <2>9 DEF EchoInv, Carried
  <2>13. \A n \in Machines : wire'[n] \in Seq(Out[n]) /\ Len(wire'[n]) <= Cap
    BY <2>3, <2>10 DEF EchoInv, Carried
  <2>14. Carried(In, Out)'
    BY <1>5, <2>12, <2>13 DEF Injects, EchoInv, Carried
  <2>15. QED
    BY <2>11, <2>14 DEF EchoInv
<1>6. CASE UNCHANGED vars
  BY <1>6 DEF vars, EchoInv, ControlOK, ShapeOK, Carried
<1>7. QED
  BY <1>1, <1>2, <1>3, <1>4, <1>5, <1>6 DEF Next, SystemStep, Finished

-----------------------------------------------------------------------------
(* Every packet, wherever it is.                                           *)
Any == [m \in Machines |-> Packet]

LEMMA PacketsMade ==
  ASSUME NEW t \in EventType, NEW k \in Nat, NEW x \in Int
  PROVE  /\ t \in KeyType => KeyPacket(t, k) \in Packet
         /\ t \in ButtonType => ButtonPacket(t, k, x) \in Packet
         /\ MovePacket(x) \in Packet
BY DEF KeyPacket, ButtonPacket, MovePacket, Packet, EventType

LEMMA UsersMakePackets ==
  ASSUME NEW m \in Machines
  PROVE  UserEvents(m) \subseteq Packet
<1> SUFFICES ASSUME NEW e \in UserEvents(m) PROVE e \in Packet
  OBVIOUS
<1>1. Keys \subseteq Nat /\ Buttons \subseteq Nat /\ Positions[m] \subseteq Int
  BY EchoAssumption
<1>2. KeyType \subseteq EventType /\ ButtonType \subseteq EventType
  BY DEF EventType
<1>3. "MouseMove" \in EventType /\ 0 \in Nat
  BY DEF EventType
<1>4. CASE \E t \in KeyType, k \in Keys : e = KeyPacket(t, k)
  BY <1>1, <1>2, <1>3, <1>4, PacketsMade
<1>5. CASE \E t \in ButtonType, b \in Buttons, x \in Positions[m] : e = ButtonPacket(t, b, x)
  BY <1>1, <1>2, <1>5, PacketsMade
<1>6. CASE \E x \in Positions[m] : e = MovePacket(x)
  BY <1>1, <1>3, <1>6, PacketsMade
<1>7. QED
  BY <1>4, <1>5, <1>6 DEF UserEvents

LEMMA PackedIsPacket ==
  ASSUME NEW m \in Machines, NEW e \in Packet
  PROVE  Packed(m, e) \in Packet /\ Packed(m, e).type = e.type
         /\ (e.type = "MouseMove" => Packed(m, e).x = e.x - Width[m])
<1>1. e.type \in EventType /\ e.code \in Nat /\ e.x \in Int /\ Width[m] \in Nat
  BY EchoAssumption DEF Packet
<1>2. (IF e.type \in ButtonType THEN e.code % 256 ELSE e.code) \in Nat
  BY <1>1
<1>3. (IF e.type \in KeyType THEN 0 ELSE e.x - Width[m]) \in Int
  BY <1>1
<1>4. "MouseMove" \notin KeyType
  BY DEF KeyType
<1>5. QED
  BY <1>1, <1>2, <1>3, <1>4 DEF Packed, Packet

(* What an injector posts, other than that for Windows, is a packet of the *)
(* same type, and its position, if it is a move, is what the injector      *)
(* makes of the move's position.                                           *)
LEMMA EventsArePackets ==
  ASSUME NEW m \in Machines, NEW p \in Packet,
         NEW e \in MacOSEvents(Width[m], p) \cup UiohookEvents(p)
  PROVE  /\ e \in Packet
         /\ e.type = "MouseMove" =>
              /\ p.type = "MouseMove"
              /\ e.x \in {Pixel(MacOS(Width[m])!ScreenX(p.x)), Uiohook!Int16(p.x)}
<1>1. p.type \in EventType /\ p.code \in Nat /\ p.x \in Int /\ Width[m] \in Nat
  BY EchoAssumption DEF Packet
<1>2. Pixel(MacOS(Width[m])!ScreenX(p.x)) \in Int
  BY <1>1 DEF Pixel, MacOS!ScreenX
<1>3. Uiohook!Int16(p.x) \in Int /\ Uiohook!XField(p) \in Int /\ Uiohook!ButtonField(p) \in Nat
  BY <1>1 DEF Uiohook!Int16, Uiohook!XField, Uiohook!ButtonField, Uiohook!UInt16, UInt16
<1>4. MacOS(Width[m])!CGKeyCode(p.code) \in Nat /\ p.code % UInt16 \in Nat /\ Undefined \in Nat
  BY <1>1 DEF MacOS!CGKeyCode, MacOS!UInt16, UInt16, Undefined
<1>5. ASSUME e \in MacOSEvents(Width[m], p)
      PROVE  /\ e \in Packet
             /\ e.type = "MouseMove" =>
                  p.type = "MouseMove" /\ e.x = Pixel(MacOS(Width[m])!ScreenX(p.x))
  <2> DEFINE x == Pixel(MacOS(Width[m])!ScreenX(p.x))
  <2> HIDE DEF x
  <2>1. x \in Int
    BY <1>2 DEF x
  <2>2. CASE p.type \in KeyType
    <3>1. PICK k \in {MacOS(Width[m])!CGKeyCode(p.code), Undefined} : e = KeyPacket(p.type, k)
      BY <1>5, <2>2 DEF MacOSEvents
    <3>2. k \in Nat
      BY <1>4
    <3>3. QED
      BY <1>1, <2>2, <3>1, <3>2, PacketsMade DEF KeyPacket, KeyType
  <2>3. CASE p.type \in ButtonType
    <3>1. e = ButtonPacket(p.type, 1, x)
      BY <1>5, <2>3 DEF MacOSEvents, x, ButtonType, KeyType
    <3>2. QED
      BY <1>1, <2>1, <2>3, <3>1, PacketsMade DEF ButtonPacket, ButtonType
  <2>4. CASE p.type = "MouseMove"
    <3>1. e = MovePacket(x)
      BY <1>5, <2>4 DEF MacOSEvents, x, ButtonType, KeyType
    <3>2. e \in Packet /\ e.x = x
      BY <1>1, <2>1, <2>4, <3>1, PacketsMade DEF MovePacket
    <3>3. QED
      BY <2>4, <3>2 DEF x
  <2>5. QED
    BY <1>1, <2>2, <2>3, <2>4 DEF EventType
<1>6. ASSUME e \in UiohookEvents(p)
      PROVE  /\ e \in Packet
             /\ e.type = "MouseMove" => p.type = "MouseMove" /\ e.x = Uiohook!Int16(p.x)
  <2>1. CASE p.type \in KeyType
    <3>1. e = KeyPacket(p.type, p.code % UInt16)
      BY <1>6, <2>1 DEF UiohookEvents, Uiohook!EventOf, Uiohook!KeyPacket, KeyPacket,
         Uiohook!KeyType, Uiohook!UInt16, KeyType, ButtonType, UInt16
    <3>2. QED
      BY <1>1, <1>4, <2>1, <3>1, PacketsMade DEF KeyPacket, KeyType
  <2>2. CASE p.type \in ButtonType
    <3>1. PICK x \in {Uiohook!XField(p), -1} : e = ButtonPacket(p.type, Uiohook!ButtonField(p), x)
      BY <1>6, <2>2 DEF UiohookEvents, Uiohook!EventOf, Uiohook!ButtonPacket, ButtonPacket,
         Uiohook!KeyType, Uiohook!ButtonType, KeyType, ButtonType
    <3>2. x \in Int
      BY <1>3
    <3>3. QED
      BY <1>1, <1>3, <2>2, <3>1, <3>2, PacketsMade DEF ButtonPacket, ButtonType
  <2>3. CASE p.type = "MouseMove"
    <3>1. e = MovePacket(Uiohook!Int16(p.x))
      BY <1>6, <2>3 DEF UiohookEvents, Uiohook!EventOf, Uiohook!MovePacket, MovePacket,
         Uiohook!KeyType, Uiohook!ButtonType, KeyType, ButtonType
    <3>2. e \in Packet /\ e.x = Uiohook!Int16(p.x)
      BY <1>1, <1>3, <2>3, <3>1, PacketsMade DEF MovePacket
    <3>3. QED
      BY <2>3, <3>2
  <2>4. QED
    BY <1>1, <2>1, <2>2, <2>3 DEF EventType
<1>7. QED
  BY <1>5, <1>6

(* Where a posted event lands is where it was posted, or on the screen.    *)
LEMMA LandingsAreNear ==
  ASSUME NEW m \in Machines, NEW x \in Int, NEW l \in Landings(Width[m], x)
  PROVE  l \in Int /\ (l = x \/ (l >= 0 /\ l <= x) \/ l = 0)
<1>1. Width[m] \in Nat /\ Width[m] > 0
  BY EchoAssumption
<1>2. QED
  BY <1>1 DEF Landings

(* Where an injector may put the pointer for p.                            *)
PutAt(m, p) ==
  {Pixel(MacOS(Width[m])!ScreenX(p.x)), Uiohook!Int16(p.x),
   WindowsPixel(Width[m], Windows(Width[m])!Absolute(p.x))}

(* What a hook may report of p: no move of the pointer but to the left     *)
(* border, or to where an injector puts it for a move.                     *)
MayReport(m, p) ==
  {e \in Packet :
     e.type = "MouseMove" =>
       \/ e.x = 0
       \/ p.type = "MouseMove" /\ \E y \in PutAt(m, p) : e.x \in Landings(Width[m], y)}

LEMMA AbsoluteIsInt ==
  ASSUME NEW w \in Nat \ {0}, NEW x \in Int
  PROVE  /\ Windows(w)!Absolute(x) \in Int
         /\ x < 0 => -Windows(w)!Absolute(x) = (-x * 65535) \div w /\ Windows(w)!Absolute(x) <= 0
         /\ x >= 0 => Windows(w)!Absolute(x) = (x * 65535) \div w
<1>1. Windows(w)!UInt16 - 1 = 65535
  BY DEF Windows!UInt16
<1>2. \A n \in Nat : (n * 65535) \div w \in Nat
  <2>1. \A n \in Nat : n * 65535 \in Nat
    OBVIOUS
  <2>2. \A k \in Nat : k \div w \in Nat
    OBVIOUS
  <2>3. QED
    BY <2>1, <2>2
<1>3. CASE x >= 0
  <2>1. Windows(w)!Absolute(x) = (x * 65535) \div w
    BY <1>1, <1>3 DEF Windows!Absolute
  <2>2. QED
    BY <1>2, <1>3, <2>1
<1>4. CASE x < 0
  <2>1. Windows(w)!Absolute(x) = -((-x * 65535) \div w)
    BY <1>1, <1>4 DEF Windows!Absolute
  <2>2. (-x * 65535) \div w \in Nat
    <3>1. -x \in Nat
      BY <1>4
    <3>2. QED
      BY <1>2, <3>1
  <2>3. QED
    BY <1>4, <2>1, <2>2
<1>5. QED
  BY <1>3, <1>4

(* Windows puts the pointer no farther to the right than it was told.      *)
LEMMA WindowsPixelBelow ==
  ASSUME NEW w \in Nat \ {0}, NEW x \in Int
  PROVE  /\ WindowsPixel(w, Windows(w)!Absolute(x)) \in Int
         /\ x < 0 => WindowsPixel(w, Windows(w)!Absolute(x)) <= 0
         /\ x >= 0 => WindowsPixel(w, Windows(w)!Absolute(x)) <= x
<1> DEFINE d == Windows(w)!Absolute(x)
<1>1. d \in Int /\ (x < 0 => d <= 0) /\ (x >= 0 => d = (x * 65535) \div w)
  BY AbsoluteIsInt
<1> HIDE DEF d
<1>2. \A n \in Nat : n \div w \in Nat /\ (n \div w) * w <= n
  OBVIOUS
<1>3. CASE d < 0
  <2>1. -d \in Nat /\ -d * w \in Nat
    BY <1>1, <1>3
  <2>2. (-d * w) \div 65536 \in Nat
    BY <2>1
  <2>3. WindowsPixel(w, d) = -((-d * w) \div 65536)
    BY <1>1, <1>3 DEF WindowsPixel, UInt16
  <2>4. WindowsPixel(w, d) \in Int /\ WindowsPixel(w, d) <= 0
    BY <2>2, <2>3
  <2>5. QED
    BY <2>4 DEF d
<1>4. CASE d >= 0
  <2>1. WindowsPixel(w, d) = (d * w) \div 65536 /\ d * w \in Nat
    BY <1>1, <1>4 DEF WindowsPixel, UInt16
  <2>2. x < 0 => d * w = 0
    BY <1>1, <1>4
  <2>3. x >= 0 => d * w <= x * 65535
    <3>1. x >= 0 => x * 65535 \in Nat
      OBVIOUS
    <3>2. QED
      BY <1>1, <1>2, <3>1
  <2>4. (d * w) \div 65536 \in Nat /\ 65536 * ((d * w) \div 65536) <= d * w
    BY <2>1
  <2>5. WindowsPixel(w, d) \in Int /\ (x < 0 => WindowsPixel(w, d) <= 0)
    BY <2>1, <2>2, <2>4
  <2>6. x >= 0 => WindowsPixel(w, d) <= x
    BY <2>1, <2>3, <2>4
  <2>7. QED
    BY <2>5, <2>6 DEF d
<1>5. QED
  BY <1>1, <1>3, <1>4

LEMMA WiderSeq ==
  ASSUME NEW S, NEW T, S \subseteq T, NEW q \in Seq(S)
  PROVE  q \in Seq(T)
<1>1. Len(q) \in Nat /\ q \in [1 .. Len(q) -> S]
  BY LenProperties
<1>2. q \in [1 .. Len(q) -> T]
  BY <1>1
<1>3. QED
  BY <1>1, <1>2, SeqDef

LEMMA WhenIsSeq ==
  ASSUME NEW S, NEW c, NEW e, c => e \in S
  PROVE  When(c, e) \in Seq(S)
BY EmptySeq DEF When

(* A single event, where the desktop lets it land.                         *)
LEMMA OnScreenMayBe ==
  ASSUME NEW m \in Machines, NEW p \in Packet, NEW events,
         events \in {MacOSEvents(Width[m], p), UiohookEvents(p)}
  PROVE  OnScreen(Width[m], events) \subseteq Seq(MayReport(m, p))
<1> SUFFICES ASSUME NEW s \in OnScreen(Width[m], events)
             PROVE  s \in Seq(MayReport(m, p))
  OBVIOUS
<1> DEFINE Landed(e) == {<<[e EXCEPT !.x = x]>> : x \in Landings(Width[m], e.x)}
<1>a. PICK e \in events : s \in Landed(e)
  BY DEF OnScreen
<1>b. PICK x \in Landings(Width[m], e.x) : s = <<[e EXCEPT !.x = x]>>
  BY <1>a
<1>1. /\ e \in Packet
      /\ e.type = "MouseMove" => p.type = "MouseMove" /\ e.x \in PutAt(m, p)
  BY EventsArePackets DEF PutAt
<1>2. x \in Int
  BY <1>1, LandingsAreNear DEF Packet
<1>3. [e EXCEPT !.x = x] \in MayReport(m, p)
  <2>1. /\ [e EXCEPT !.x = x] \in Packet
        /\ [e EXCEPT !.x = x].type = e.type /\ [e EXCEPT !.x = x].x = x
    BY <1>1, <1>2 DEF Packet
  <2>2. QED
    BY <1>1, <2>1 DEF MayReport
<1>4. QED
  BY <1>3, <1>b, SingleSeq

LEMMA WindowsMayReport ==
  ASSUME NEW m \in Machines, NEW p \in Packet
  PROVE  WindowsReports(Width[m], p) \subseteq Seq(MayReport(m, p))
<1> DEFINE w == Width[m]
           S == MayReport(m, p)
<1>1. w \in Nat \ {0} /\ p.type \in EventType /\ p.code \in Nat /\ p.x \in Int
  BY EchoAssumption DEF Packet
<1>2. \A e \in Packet : e.type # "MouseMove" => e \in S
  BY DEF MayReport
<1>3. KeyType \subseteq EventType /\ ButtonType \subseteq EventType
      /\ "MouseMove" \notin KeyType \cup ButtonType
  BY DEF EventType, KeyType, ButtonType
<1>4. ASSUME NEW t \in KeyType, NEW k \in Nat PROVE KeyPacket(t, k) \in S
  <2>1. KeyPacket(t, k) \in Packet /\ KeyPacket(t, k).type = t
    BY <1>1, <1>3, PacketsMade DEF KeyPacket
  <2>2. QED
    BY <1>2, <1>3, <2>1
<1>5. ASSUME NEW t \in ButtonType, NEW x \in Int PROVE ButtonPacket(t, 1, x) \in S
  <2>1. ButtonPacket(t, 1, x) \in Packet /\ ButtonPacket(t, 1, x).type = t
    BY <1>1, <1>3, PacketsMade DEF ButtonPacket
  <2>2. QED
    BY <1>2, <1>3, <2>1
<1>6. ASSUME NEW x \in Int,
             p.type = "MouseMove", \E y \in PutAt(m, p) : x \in Landings(w, y)
      PROVE  MovePacket(x) \in S
  <2>1. MovePacket(x) \in Packet /\ MovePacket(x).x = x
    BY <1>1, PacketsMade DEF MovePacket
  <2>2. QED
    BY <1>6, <2>1 DEF MayReport
<1>7. {"KeyPress", "KeyRelease"} \subseteq KeyType
      /\ {"MouseButtonPress", "MouseButtonRelease"} \subseteq ButtonType
  BY DEF KeyType, ButtonType
<1> HIDE DEF w, S
<1>8. CASE p.type \in KeyType
  <2>1. Windows(w)!VirtualKey(p) \in Nat /\ Undefined \in Nat
    BY <1>1 DEF Windows!VirtualKey, Windows!UInt16, Undefined
  <2>2. ASSUME NEW k \in {Windows(w)!VirtualKey(p), Undefined}
        PROVE  When(p.type = "KeyPress", KeyPacket("KeyPress", k))
                 \o <<KeyPacket("KeyRelease", k)>> \in Seq(S)
    <3>1. KeyPacket("KeyPress", k) \in S /\ KeyPacket("KeyRelease", k) \in S
      BY <1>4, <1>7, <2>1
    <3>2. When(p.type = "KeyPress", KeyPacket("KeyPress", k)) \in Seq(S)
      BY <3>1, WhenIsSeq
    <3>3. <<KeyPacket("KeyRelease", k)>> \in Seq(S)
      BY <3>1, SingleSeq
    <3>4. QED
      BY <3>2, <3>3, ConcatProperties
  <2>3. WindowsKeys(w, p) \subseteq Seq(S)
    BY <2>2 DEF WindowsKeys
  <2>4. QED
    BY <1>8, <2>3 DEF WindowsReports, w, S
<1>9. CASE p.type \in ButtonType
  <2> DEFINE moves == Windows(w)!MovesToBorder(p)
             has(flag) == Windows(w)!Has(Windows(w)!Flags(p), flag)
             down == has(Windows(w)!LEFTDOWN)
             up == has(Windows(w)!LEFTUP)
             report(x) == When(moves, MovePacket(0))
                            \o When(down, ButtonPacket("MouseButtonPress", 1, x))
                            \o When(up, ButtonPacket("MouseButtonRelease", 1, x))
  <2>1. WindowsButtons(w, p) = {report(x) : x \in IF moves THEN {0} ELSE 0 .. w - 1}
    BY DEF WindowsButtons
  <2> HIDE DEF moves, down, up
  <2>2. ASSUME NEW x \in Int PROVE report(x) \in Seq(S)
    <3>1. When(moves, MovePacket(0)) \in Seq(S)
      <4>1. MovePacket(0) \in Packet /\ MovePacket(0).x = 0
        BY <1>1, PacketsMade DEF MovePacket
      <4>2. MovePacket(0) \in S
        BY <4>1 DEF MayReport, S
      <4>3. QED
        BY <4>2, WhenIsSeq
    <3>2. When(down, ButtonPacket("MouseButtonPress", 1, x)) \in Seq(S)
      BY <1>5, <1>7, WhenIsSeq
    <3>3. When(up, ButtonPacket("MouseButtonRelease", 1, x)) \in Seq(S)
      BY <1>5, <1>7, WhenIsSeq
    <3>4. When(moves, MovePacket(0)) \o When(down, ButtonPacket("MouseButtonPress", 1, x))
            \in Seq(S)
      BY <3>1, <3>2, ConcatProperties
    <3>5. QED
      BY <3>3, <3>4, ConcatProperties
  <2>3. (IF moves THEN {0} ELSE 0 .. w - 1) \subseteq Int
    BY <1>1
  <2>4. WindowsButtons(w, p) \subseteq Seq(S)
    BY <2>1, <2>2, <2>3
  <2>5. QED
    BY <1>3, <1>9, <2>4 DEF WindowsReports, w, S, KeyType, ButtonType
<1>10. CASE p.type = "MouseMove"
  <2> DEFINE y == WindowsPixel(w, Windows(w)!Absolute(p.x))
  <2>1. y \in Int /\ y \in PutAt(m, p)
    BY <1>1, WindowsPixelBelow DEF PutAt, w
  <2>2. \A x \in Landings(w, y) : x \in Int
    BY <2>1, LandingsAreNear DEF w
  <2>3. \A x \in Landings(w, y) : MovePacket(x) \in S
    BY <1>6, <1>10, <2>1, <2>2
  <2>4. WindowsMoves(w, p) \subseteq Seq(S)
    BY <2>3, SingleSeq DEF WindowsMoves
  <2>5. QED
    BY <1>3, <1>10, <2>4 DEF WindowsReports, w, S
<1>11. QED
  BY <1>1, <1>8, <1>9, <1>10 DEF EventType

(* So much for the three injectors.                                        *)
LEMMA ReportsMayBe ==
  ASSUME setup \in Setups, NEW m \in Machines, NEW p \in Packet
  PROVE  Reports(m, p) \subseteq Seq(MayReport(m, p))
<1>1. setup.platform[m] \in {"macOS", "Windows", "uiohook"}
  BY EchoAssumption DEF Platform
<1>2. QED
  BY <1>1, OnScreenMayBe, WindowsMayReport DEF Reports

LEMMA EchoInit ==
  ASSUME NEW In, NEW Out, Init
  PROVE  EchoInv(In, Out)
BY EchoAssumption, EmptySeq DEF Init, EchoInv, ControlOK, ShapeOK, Carried

LEMMA AnyIsClosed == EchoInv(Any, Any) => Closed(Any, Any, Any)
<1> SUFFICES ASSUME EchoInv(Any, Any) PROVE Closed(Any, Any, Any)
  OBVIOUS
<1>1. setup \in Setups /\ \A m \in Machines : setup.peer[m] \in Machines
  BY EchoAssumption DEF EchoInv, ControlOK
<1>2. \A m \in Machines : UserEvents(m) \subseteq Any[m]
  BY UsersMakePackets DEF Any
<1>3. \A m \in Machines : \A e \in Any[m] : Packed(m, e) \in Any[m]
  BY PackedIsPacket DEF Any
<1>4. ASSUME NEW m \in Machines, NEW p \in Any[m]
      PROVE  Reports(setup.peer[m], p) \subseteq Seq(Any[setup.peer[m]])
  <2>1. p \in Packet
    BY DEF Any
  <2>2. Reports(setup.peer[m], p) \subseteq Seq(MayReport(setup.peer[m], p))
    BY <1>1, <2>1, ReportsMayBe
  <2>3. MayReport(setup.peer[m], p) \subseteq Any[setup.peer[m]]
    BY <1>1 DEF MayReport, Any
  <2>4. QED
    BY <2>2, <2>3, WiderSeq
<1>5. QED
  BY <1>2, <1>3, <1>4 DEF Closed

LEMMA AlwaysPackets == Spec => []EchoInv(Any, Any)
<1>1. Init => EchoInv(Any, Any)
  BY EchoInit
<1>2. EchoInv(Any, Any) /\ [Next]_vars => EchoInv(Any, Any)'
  BY AnyIsClosed, StepKeeps
<1>3. QED
  BY <1>1, <1>2, PTL DEF Spec

(* The type invariant of the machines and what is between them.            *)
THEOREM TypeCorrect == Spec => []TypeOK
<1>1. EchoInv(Any, Any) => TypeOK
  BY DEF EchoInv, ControlOK, Carried, Any, TypeOK
<1>2. QED
  BY <1>1, AlwaysPackets, PTL

-----------------------------------------------------------------------------
(* Users point at the main displays, or at second screens that reach no    *)
(* further beyond the right edge than the space between the bands of the   *)
(* narrowest display; positions fit in an int16_t.                         *)
Reaches(d) ==
  d < 0 \/ \A n \in Machines : d < Width[n] /\ d < Width[n] - 2 * EdgeThreshold

NearScreens ==
  \A m \in Machines :
    /\ Width[m] <= UInt16 \div 2
    /\ \A x \in Positions[m] : Reaches(x - Width[m])

(* Moves leave a machine with such positions, counted from its right edge, *)
(* and arrive off the bands of the next.                                   *)
Leaving ==
  [m \in Machines |->
     {p \in Packet : p.type = "MouseMove" => Reaches(p.x) /\ p.x + UInt16 \div 2 >= 0}]
Arriving ==
  [m \in Machines |->
     {e \in Packet : e.type = "MouseMove" => Reaches(e.x - Width[m])}]
OffBands ==
  [m \in Machines |->
     {e \in Packet : e.type = "MouseMove" => OffBand(Width[m], e.x)}]

LEMMA HalfScreen == UInt16 \div 2 = 128 * 256
BY DEF UInt16

(* What an injector makes of such a move is off the bands.                 *)
LEMMA PostedOffBand ==
  ASSUME NearScreens, NEW m \in Machines, NEW d \in Int, Reaches(d), d + 128 * 256 >= 0,
         NEW p, p.x = d, NEW y \in PutAt(m, p)
  PROVE  y \in Int /\ OffBand(Width[m], y) /\ y < Width[m]
<1>1. Width[m] \in Nat /\ Width[m] > 0 /\ EdgeThreshold \in Int /\ Width[m] <= 128 * 256
  BY EchoAssumption, HalfScreen DEF NearScreens
<1> DEFINE w == Width[m]
<1>0. \/ y = Pixel(MacOS(Width[m])!ScreenX(d)) \/ y = Uiohook!Int16(d)
      \/ y = WindowsPixel(Width[m], Windows(Width[m])!Absolute(d))
  BY DEF PutAt
<1>2. w \div 2 \in Nat /\ w \div 2 < w /\ 2 * (w \div 2) <= w /\ w <= 2 * (w \div 2) + 1
  BY <1>1
<1> HIDE DEF w
<1>3. CASE d < 0
  <2>1. CASE y = Pixel(MacOS(Width[m])!ScreenX(d))
    <3>1. y \in Int /\ y <= Width[m] \div 2
      <4>1. d <= 0 /\ Width[m] \in Nat
        BY <1>1, <1>3
      <4>2. QED
        BY <2>1, <4>1, HalfPixel
    <3>2. QED
      BY <1>1, <1>2, <3>1 DEF OffBand, w
  <2>2. CASE y = Uiohook!Int16(d)
    <3>1. y = d
      BY <1>3, <2>2, Int16Keeps
    <3>2. QED
      BY <1>1, <1>2, <1>3, <3>1 DEF OffBand, w
  <2>3. CASE y = WindowsPixel(Width[m], Windows(Width[m])!Absolute(d))
    <3>1. y \in Int /\ y <= 0
      BY <1>1, <1>3, <2>3, WindowsPixelBelow
    <3>2. QED
      BY <1>1, <1>2, <3>1 DEF OffBand, w
  <2>4. QED
    BY <1>0, <2>1, <2>2, <2>3
<1>4. CASE d >= 0
  <2>1. d < w /\ d < w - 2 * EdgeThreshold
    BY <1>4 DEF Reaches, w
  <2>2. y \in Int /\ (2 * y <= w + d \/ y <= d)
    <3>1. CASE y = Pixel(MacOS(Width[m])!ScreenX(d))
      BY <1>1, <1>4, <3>1, HalfPixel DEF w
    <3>2. CASE y = Uiohook!Int16(d)
      BY <1>1, <2>1, <3>2, Int16Keeps DEF w
    <3>3. CASE y = WindowsPixel(Width[m], Windows(Width[m])!Absolute(d))
      BY <1>1, <1>4, <3>3, WindowsPixelBelow DEF w
    <3>4. QED
      BY <1>0, <3>1, <3>2, <3>3
  <2>3. w \in Int /\ w >= 0 /\ EdgeThreshold \in Int
    BY <1>1 DEF w
  <2>4. y < w
    BY <1>4, <2>1, <2>2, <2>3
  <2>5. ASSUME y > w \div 2 PROVE EdgeThreshold < y /\ y < w - EdgeThreshold
    <3>1. 2 * y > w
      BY <1>2, <2>2, <2>3, <2>5
    <3>2. 2 * EdgeThreshold < w
      BY <1>4, <2>1, <2>3
    <3>3. 2 * y <= w + d
      BY <2>1, <2>2, <2>3
    <3>4. 2 * y < 2 * w - 2 * EdgeThreshold
      BY <2>1, <2>2, <2>3, <3>3
    <3>5. QED
      BY <2>2, <2>3, <3>1, <3>2, <3>4
  <2>6. QED
    BY <1>2, <2>2, <2>3, <2>4, <2>5 DEF OffBand, w
<1>5. QED
  BY <1>3, <1>4

LEMMA InjectedOffBands ==
  ASSUME NearScreens, setup \in Setups, NEW n \in Machines, NEW m \in Machines,
         NEW p \in Leaving[n]
  PROVE  Reports(m, p) \subseteq Seq(OffBands[m])
<1>1. p \in Packet /\ (p.type = "MouseMove" => Reaches(p.x) /\ p.x + UInt16 \div 2 >= 0)
  BY DEF Leaving
<1>2. Width[m] \in Nat /\ Width[m] > 0 /\ Width[m] \div 2 \in Nat /\ p.x \in Int
  BY <1>1, EchoAssumption DEF Packet
<1>3. OffBand(Width[m], 0)
  BY <1>2 DEF OffBand
<1>4. ASSUME p.type = "MouseMove", NEW y \in PutAt(m, p), NEW x \in Landings(Width[m], y)
      PROVE  OffBand(Width[m], x)
  <2>1. y \in Int /\ OffBand(Width[m], y) /\ y < Width[m]
    BY <1>1, <1>2, <1>4, HalfScreen, PostedOffBand
  <2>2. x = y \/ x = 0
    BY <1>2, <2>1 DEF Landings
  <2>3. QED
    BY <1>3, <2>1, <2>2
<1>5. MayReport(m, p) \subseteq OffBands[m]
  BY <1>3, <1>4 DEF MayReport, OffBands
<1>6. QED
  BY <1>1, <1>5, ReportsMayBe, WiderSeq

LEMMA OffBandsIsClosed ==
  ASSUME NearScreens, EchoInv(OffBands, Leaving)
  PROVE  Closed(Arriving, OffBands, Leaving)
<1>1. setup \in Setups /\ \A m \in Machines : setup.peer[m] \in Machines
  BY EchoAssumption DEF EchoInv, ControlOK
<1>2. ASSUME NEW m \in Machines
      PROVE  UserEvents(m) \subseteq Arriving[m] /\ OffBands[m] \subseteq Arriving[m]
  <2>1. Width[m] \in Nat /\ Width[m] > 0 /\ \A x \in Positions[m] : Reaches(x - Width[m])
    BY EchoAssumption DEF NearScreens
  <2>2. \A e \in UserEvents(m) : e.type = "MouseMove" => e.x \in Positions[m]
    BY DEF UserEvents, KeyPacket, ButtonPacket, MovePacket, KeyType, ButtonType
  <2>3. UserEvents(m) \subseteq Arriving[m]
    BY <2>1, <2>2, UsersMakePackets DEF Arriving
  <2>4. \A x \in Int : OffBand(Width[m], x) => x - Width[m] < 0
    BY <2>1 DEF OffBand
  <2>5. OffBands[m] \subseteq Arriving[m]
    BY <2>4 DEF OffBands, Arriving, Packet, Reaches
  <2>6. QED
    BY <2>3, <2>5
<1>3. ASSUME NEW m \in Machines, NEW e \in Arriving[m], e.type # "MouseMove" \/ ~Invalid(e)
      PROVE  Packed(m, e) \in Leaving[m]
  <2>1. e \in Packet /\ e.x \in Int /\ (e.type = "MouseMove" => Reaches(e.x - Width[m]))
    BY DEF Arriving, Packet
  <2>2. Width[m] \in Nat /\ Width[m] <= 128 * 256
    BY EchoAssumption, HalfScreen DEF NearScreens
  <2>3. e.type = "MouseMove" => e.x >= 0
    BY <1>3, <2>1 DEF Invalid, KeyType
  <2>4. e.type = "MouseMove" => e.x - Width[m] + 128 * 256 >= 0
    BY <2>1, <2>2, <2>3
  <2>5. QED
    BY <2>1, <2>4, HalfScreen, PackedIsPacket DEF Leaving
<1>4. ASSUME NEW m \in Machines, NEW p \in Leaving[m]
      PROVE  Reports(setup.peer[m], p) \subseteq Seq(OffBands[setup.peer[m]])
  BY <1>1, InjectedOffBands
<1>5. QED
  BY <1>2, <1>3, <1>4 DEF Closed

(* Unless users point too far right on a second screen, the user of a      *)
(* machine is the only one who can take its control away: no echo of       *)
(* another machine's moves does, whatever the threshold is.                *)
THEOREM OnlyUsersTakeControl == NearScreens => (Spec => ControlTakenByUser)
<1> SUFFICES ASSUME NearScreens PROVE Spec => ControlTakenByUser
  OBVIOUS
<1>1. Init => EchoInv(OffBands, Leaving)
  BY EchoInit
<1>2. EchoInv(OffBands, Leaving) /\ [Next]_vars => EchoInv(OffBands, Leaving)'
  BY OffBandsIsClosed, StepKeeps
<1>3. EchoInv(OffBands, Leaving) /\ [Next]_vars =>
        [\A m \in Machines :
           control[m] = "HOST" /\ control'[m] = "CLIENT" => inputs' < inputs]_vars
  <2> SUFFICES ASSUME EchoInv(OffBands, Leaving), Next, NEW m \in Machines,
                      control[m] = "HOST", control'[m] = "CLIENT"
               PROVE  inputs' < inputs
    OBVIOUS
  <2>1. control # control'
    OBVIOUS
  <2>2. PICK n \in Machines : HookSees(n) \/ \E e \in UserEvents(n) : UserActs(n, e)
    BY <2>1 DEF Next, SystemStep, Finished, Swallowed, WriteReturns, Injects, vars
  <2>3. CASE \E e \in UserEvents(n) : UserActs(n, e)
    BY <2>3, EchoAssumption DEF UserActs, EchoInv, ControlOK
  <2>4. CASE HookSees(n)
    <3> DEFINE e == Head(posted[n])
    <3>1. posted[n] \in Seq(OffBands[n]) /\ posted[n] # <<>>
      BY <2>4 DEF HookSees, EchoInv, Carried
    <3>2. e \in OffBands[n]
      BY <3>1, HeadTailProperties
    <3>3. control' = [control EXCEPT ![n] = NewControl(n, e)]
      BY <2>4 DEF HookSees, Callback
    <3>4. n = m /\ NewControl(m, e) = "CLIENT"
      BY <3>3 DEF EchoInv, ControlOK
    <3> HIDE DEF e
    <3>5. e.type = "MouseMove" /\ ~Invalid(e)
      BY <3>4 DEF NewControl
    <3>6. e.x \in Nat /\ OffBand(Width[m], e.x) /\ Width[m] \in Nat
      BY <3>2, <3>4, <3>5, EchoAssumption DEF OffBands, Packet, Invalid, KeyType
    <3>7. NewControl(m, e) = "HOST"
      BY <3>5, <3>6, OffBandKeepsHost DEF NewControl
    <3>8. QED
      BY <3>4, <3>7
  <2>5. QED
    BY <2>2, <2>3, <2>4
<1>4. QED
  BY <1>1, <1>2, <1>3, PTL DEF Spec, ControlTakenByUser

-----------------------------------------------------------------------------
(* How many events are under way.                                          *)
UnderWay(m) == Len(posted[m]) + Len(writing[m]) + Len(wire[m])

(* The traffic of a machine is as long as its parts.                       *)
LEMMA TrafficLength ==
  ASSUME EchoInv(Any, Any), NEW m \in Machines
  PROVE  UnderWay(m) \in Nat /\ DOMAIN Traffic(m) = 1 .. UnderWay(m)
<1>1. PICK p \in Seq(Packet), w \in Seq(Packet), c \in Seq(Packet) :
        p = posted[m] /\ w = writing[m] /\ c = wire[m]
  BY DEF EchoInv, Carried, Any
<1>2. p \o w \in Seq(Packet) /\ Len(p \o w) = Len(p) + Len(w)
  BY ConcatProperties
<1>3. (p \o w) \o c \in Seq(Packet) /\ Len((p \o w) \o c) = Len(p \o w) + Len(c)
  BY <1>2, ConcatProperties
<1>4. Len(p) \in Nat /\ Len(w) \in Nat /\ Len(c) \in Nat
  BY LenProperties
<1>5. DOMAIN ((p \o w) \o c) = 1 .. Len((p \o w) \o c)
  BY <1>3, LenProperties
<1>6. Traffic(m) = (p \o w) \o c /\ UnderWay(m) = Len(p) + Len(w) + Len(c)
  BY <1>1 DEF Traffic, UnderWay
<1>7. UnderWay(m) = Len((p \o w) \o c) /\ UnderWay(m) \in Nat
  BY <1>2, <1>3, <1>4, <1>6
<1>8. QED
  BY <1>5, <1>6, <1>7

LEMMA WhatIsUnderWay ==
  EchoInv(Any, Any) =>
    /\ \A m \in Machines : UnderWay(m) \in Nat
    /\ EventsUnderWay = {e \in Machines \X (Nat \ {0}) : e[2] <= UnderWay(e[1])}
<1> SUFFICES ASSUME EchoInv(Any, Any)
             PROVE  /\ \A m \in Machines : UnderWay(m) \in Nat
                    /\ EventsUnderWay =
                         {e \in Machines \X (Nat \ {0}) : e[2] <= UnderWay(e[1])}
  OBVIOUS
<1>1. \A m \in Machines : UnderWay(m) \in Nat /\ DOMAIN Traffic(m) = 1 .. UnderWay(m)
  BY TrafficLength
<1>2. \A m \in Machines : \A i : i \in DOMAIN Traffic(m) <=> i \in Nat \ {0} /\ i <= UnderWay(m)
  BY <1>1
<1>3. EventsUnderWay = {e \in Machines \X (Nat \ {0}) : e[2] \in DOMAIN Traffic(e[1])}
  BY <1>2 DEF EventsUnderWay
<1>4. QED
  BY <1>1, <1>2, <1>3

Below(f) == {e \in Machines \X (Nat \ {0}) : e[2] <= f[e[1]]}

(* One event more or one event fewer on a machine.                         *)
LEMMA OneMore ==
  ASSUME NEW f \in [Machines -> Nat], NEW g \in [Machines -> Nat], NEW m \in Machines,
         g[m] <= f[m] + 1, \A n \in Machines \ {m} : g[n] <= f[n],
         IsFiniteSet(Below(f))
  PROVE  /\ IsFiniteSet(Below(g)) /\ Cardinality(Below(g)) <= Cardinality(Below(f)) + 1
         /\ Cardinality(Below(f)) \in Nat /\ Cardinality(Below(g)) \in Nat
<1> DEFINE New == <<m, f[m] + 1>>
<1>1. Below(g) \subseteq Below(f) \cup {New}
  <2> SUFFICES ASSUME NEW e \in Below(g), e \notin Below(f) PROVE e = New
    OBVIOUS
  <2>1. PICK n \in Machines, i \in Nat \ {0} : e = <<n, i>> /\ i <= g[n] /\ ~(i <= f[n])
    BY DEF Below
  <2>2. n = m
    BY <2>1
  <2>3. i = f[m] + 1
    BY <2>1, <2>2
  <2>4. QED
    BY <2>1, <2>2, <2>3
<1> HIDE DEF New
<1>2. /\ IsFiniteSet(Below(f) \cup {New})
      /\ Cardinality(Below(f) \cup {New}) \in {Cardinality(Below(f)), Cardinality(Below(f)) + 1}
  BY FS_AddElement
<1>3. Cardinality(Below(f)) \in Nat
  BY FS_CardinalityType
<1>4. IsFiniteSet(Below(g)) /\ Cardinality(Below(g)) <= Cardinality(Below(f) \cup {New})
  BY <1>1, <1>2, FS_Subset
<1>5. Cardinality(Below(g)) \in Nat
  BY <1>4, FS_CardinalityType
<1>6. QED
  BY <1>2, <1>3, <1>4, <1>5

LEMMA NoMore ==
  ASSUME NEW f \in [Machines -> Nat], NEW g \in [Machines -> Nat],
         \A n \in Machines : g[n] <= f[n], IsFiniteSet(Below(f))
  PROVE  /\ IsFiniteSet(Below(g)) /\ Cardinality(Below(g)) <= Cardinality(Below(f))
         /\ Cardinality(Below(f)) \in Nat /\ Cardinality(Below(g)) \in Nat
<1>1. Below(g) \subseteq Below(f)
  <2> SUFFICES ASSUME NEW e \in Below(g) PROVE e \in Below(f)
    OBVIOUS
  <2>1. PICK n \in Machines, i \in Nat \ {0} : e = <<n, i>> /\ i <= g[n]
    BY DEF Below
  <2>2. i <= f[n]
    BY <2>1
  <2>3. QED
    BY <2>1, <2>2 DEF Below
<1>2. QED
  BY <1>1, FS_Subset, FS_CardinalityType

LEMMA OneFewer ==
  ASSUME NEW f \in [Machines -> Nat], NEW g \in [Machines -> Nat], NEW m \in Machines,
         g[m] + 1 = f[m], \A n \in Machines \ {m} : g[n] = f[n],
         IsFiniteSet(Below(f))
  PROVE  /\ IsFiniteSet(Below(g)) /\ Cardinality(Below(g)) + 1 = Cardinality(Below(f))
         /\ Cardinality(Below(g)) \in Nat
<1> DEFINE Old == <<m, f[m]>>
<1>1. Below(g) = Below(f) \ {Old} /\ Old \in Below(f)
  <2>1. ASSUME NEW n \in Machines, NEW i \in Nat \ {0}
        PROVE  <<n, i>> \in Below(g) <=> <<n, i>> \in Below(f) /\ <<n, i>> # Old
    <3>1. i <= g[n] <=> i <= f[n] /\ ~(n = m /\ i = f[m])
      BY <2>1
    <3>2. QED
      BY <3>1 DEF Below
  <2>2. f[m] \in Nat \ {0}
    OBVIOUS
  <2>3. Below(f) \subseteq Machines \X (Nat \ {0}) /\ Below(g) \subseteq Machines \X (Nat \ {0})
    BY DEF Below
  <2>4. Old \in Below(f)
    BY <2>2 DEF Below
  <2>5. QED
    BY <2>1, <2>3, <2>4
<1> HIDE DEF Old
<1>2. IsFiniteSet(Below(g)) /\ Cardinality(Below(g)) = Cardinality(Below(f)) - 1
  BY <1>1, FS_RemoveElement
<1>3. Cardinality(Below(f)) \in Nat /\ Cardinality(Below(g)) \in Nat
  BY <1>2, FS_CardinalityType
<1>4. QED
  BY <1>2, <1>3

(* The traffic of all machines as a function.                              *)
Loads == [m \in Machines |-> UnderWay(m)]

LEMMA LoadsAre ==
  EchoInv(Any, Any) => Loads \in [Machines -> Nat] /\ EventsUnderWay = Below(Loads)
<1> SUFFICES ASSUME EchoInv(Any, Any)
             PROVE  Loads \in [Machines -> Nat] /\ EventsUnderWay = Below(Loads)
  OBVIOUS
<1>1. Loads \in [Machines -> Nat]
  BY WhatIsUnderWay DEF Loads
<1>2. \A e \in Machines \X (Nat \ {0}) : Loads[e[1]] = UnderWay(e[1])
  BY DEF Loads
<1>3. Below(Loads) = {e \in Machines \X (Nat \ {0}) : e[2] <= UnderWay(e[1])}
  BY <1>2 DEF Below
<1>4. QED
  BY <1>1, <1>3, WhatIsUnderWay

(* What the hook of a machine sees takes its place in what the machine     *)
(* sends, or is gone.                                                      *)
LEMMA CallbackAddsOne ==
  ASSUME EchoInv(Any, Any), NEW m \in Machines, NEW e, NEW waiting \in Seq(Packet),
         Callback(m, e, waiting)
  PROVE  /\ Len(posted'[m]) <= Len(waiting) /\ Len(writing'[m]) <= 1 /\ wire' = wire
         /\ \A n \in Machines \ {m} : posted'[n] = posted[n] /\ writing'[n] = writing[n]
<1>1. /\ posted'[m] = IF Throws(m, e) THEN <<>> ELSE waiting
      /\ writing'[m] = IF ~Throws(m, e) /\ Forwards(m, e) THEN <<Packed(m, e)>> ELSE <<>>
      /\ \A n \in Machines \ {m} : posted'[n] = posted[n] /\ writing'[n] = writing[n]
      /\ wire' = wire
  BY DEF EchoInv, ShapeOK, Callback
<1>2. Len(waiting) \in Nat
  BY LenProperties
<1>3. Len(posted'[m]) <= Len(waiting)
  BY <1>1, <1>2
<1>4. Len(writing'[m]) <= 1
  BY <1>1
<1>5. QED
  BY <1>1, <1>3, <1>4

(* The lengths of the three parts of the traffic, as functions.            *)
Parts(p, w, c) ==
  /\ \A m \in Machines : p[m] = Len(posted[m]) /\ w[m] = Len(writing[m]) /\ c[m] = Len(wire[m])
  /\ Loads = [m \in Machines |-> p[m] + w[m] + c[m]]

HasParts == \E p, w, c \in [Machines -> Nat] : Parts(p, w, c)

LEMMA Lengths == EchoInv(Any, Any) => HasParts
<1> SUFFICES ASSUME EchoInv(Any, Any) PROVE HasParts
  OBVIOUS
<1> DEFINE p == [m \in Machines |-> Len(posted[m])]
           w == [m \in Machines |-> Len(writing[m])]
           c == [m \in Machines |-> Len(wire[m])]
<1>1. p \in [Machines -> Nat] /\ w \in [Machines -> Nat] /\ c \in [Machines -> Nat]
  BY LenProperties DEF EchoInv, Carried, Any
<1>2. \A m \in Machines :
        p[m] = Len(posted[m]) /\ w[m] = Len(writing[m]) /\ c[m] = Len(wire[m])
  OBVIOUS
<1>3. Loads = [m \in Machines |-> p[m] + w[m] + c[m]]
  BY DEF Loads, UnderWay
<1>4. QED
  BY <1>1, <1>2, <1>3 DEF HasParts, Parts

(* Nobody connects the machines anew.                                      *)
LEMMA SetupStays ==
  ASSUME [Next]_vars
  PROVE  setup' = setup
BY DEF Next, SystemStep, Finished, UserActs, HookSees, Callback, Swallowed, WriteReturns,
       Injects, vars

(* Two of the injectors make one event of each packet.                     *)
LEMMA SingleReports ==
  ASSUME setup \in Setups, ~OnWindows, NEW m \in Machines, NEW p, NEW s \in Reports(m, p)
  PROVE  \E e : s = <<e>>
<1>1. setup.platform[m] \in {"macOS", "uiohook"}
  BY EchoAssumption DEF Platform, OnWindows
<1>2. PICK events : s \in OnScreen(Width[m], events)
  BY <1>1 DEF Reports
<1>3. QED
  BY <1>2 DEF OnScreen

Few == Cardinality(EventsUnderWay) <= setup.inputs - inputs

LEMMA StepCounts ==
  ASSUME EchoInv(Any, Any), EchoInv(Any, Any)', [Next]_vars,
         ~OnWindows, IsFiniteSet(EventsUnderWay), Few
  PROVE  (IsFiniteSet(EventsUnderWay) /\ Few)'
<1>0. (EchoInv(Any, Any) => Loads \in [Machines -> Nat] /\ EventsUnderWay = Below(Loads))'
  BY LoadsAre, PTL
<1>1. PICK f \in [Machines -> Nat], g \in [Machines -> Nat] : f = Loads /\ g = Loads'
  BY <1>0, LoadsAre
<1>2. EventsUnderWay = Below(f) /\ EventsUnderWay' = Below(g)
  BY <1>0, <1>1, LoadsAre DEF Below
<1>3. IsFiniteSet(Below(f)) /\ Cardinality(Below(f)) <= setup.inputs - inputs
  BY <1>2 DEF Few
<1>4. inputs \in Nat /\ setup.inputs \in Nat /\ inputs' \in Nat /\ setup' = setup
  <2>1. setup' = setup
    BY SetupStays
  <2>2. QED
    BY <2>1, EchoAssumption DEF EchoInv, ControlOK
<1>5. SUFFICES IsFiniteSet(Below(g)) /\ Cardinality(Below(g)) <= setup.inputs - inputs'
  BY <1>2, <1>4 DEF Few
<1>6. \A m \in Machines :
        posted[m] \in Seq(Packet) /\ writing[m] \in Seq(Packet) /\ wire[m] \in Seq(Packet)
  BY DEF EchoInv, Carried, Any
<1>7. PICK p, w, c \in [Machines -> Nat] :
        /\ \A m \in Machines :
             p[m] = Len(posted[m]) /\ w[m] = Len(writing[m]) /\ c[m] = Len(wire[m])
        /\ Loads = [m \in Machines |-> p[m] + w[m] + c[m]]
  BY Lengths DEF HasParts, Parts
<1>8. PICK pp, ww, cc \in [Machines -> Nat] :
        /\ \A m \in Machines :
             pp[m] = Len(posted'[m]) /\ ww[m] = Len(writing'[m]) /\ cc[m] = Len(wire'[m])
        /\ Loads' = [m \in Machines |-> pp[m] + ww[m] + cc[m]]
  <2>1. (EchoInv(Any, Any) => HasParts)'
    BY Lengths, PTL
  <2>2. QED
    BY <2>1 DEF HasParts, Parts
<1>9. \A m \in Machines : f[m] = p[m] + w[m] + c[m] /\ g[m] = pp[m] + ww[m] + cc[m]
  BY <1>1, <1>7, <1>8
<1>10. ASSUME inputs' = inputs, \A m \in Machines : g[m] <= f[m]
       PROVE  IsFiniteSet(Below(g)) /\ Cardinality(Below(g)) <= setup.inputs - inputs'
  <2>1. /\ IsFiniteSet(Below(g)) /\ Cardinality(Below(g)) <= Cardinality(Below(f))
        /\ Cardinality(Below(f)) \in Nat /\ Cardinality(Below(g)) \in Nat
    BY <1>3, <1>10, NoMore
  <2>2. QED
    BY <1>3, <1>4, <1>10, <2>1
<1>11. ASSUME NEW m \in Machines, NEW e \in UserEvents(m), UserActs(m, e)
       PROVE  IsFiniteSet(Below(g)) /\ Cardinality(Below(g)) <= setup.inputs - inputs'
  <2>1. /\ Len(posted'[m]) <= Len(posted[m]) /\ Len(writing'[m]) <= 1 /\ wire' = wire
        /\ \A n \in Machines \ {m} : posted'[n] = posted[n] /\ writing'[n] = writing[n]
    BY <1>6, <1>11, CallbackAddsOne DEF UserActs
  <2>2. /\ pp[m] <= p[m] /\ ww[m] <= 1 /\ cc[m] = c[m]
        /\ \A n \in Machines \ {m} : pp[n] = p[n] /\ ww[n] = w[n] /\ cc[n] = c[n]
    <3>1. pp[m] <= p[m] /\ ww[m] <= 1 /\ cc[m] = c[m]
      BY <1>7, <1>8, <2>1
    <3>2. ASSUME NEW n \in Machines \ {m}
          PROVE  pp[n] = p[n] /\ ww[n] = w[n] /\ cc[n] = c[n]
      BY <1>7, <1>8, <2>1
    <3>3. QED
      BY <3>1, <3>2
  <2>3. g[m] <= f[m] + 1 /\ \A n \in Machines \ {m} : g[n] <= f[n]
    BY <1>9, <2>2
  <2>4. /\ IsFiniteSet(Below(g)) /\ Cardinality(Below(g)) <= Cardinality(Below(f)) + 1
        /\ Cardinality(Below(f)) \in Nat /\ Cardinality(Below(g)) \in Nat
    BY <1>3, <2>3, OneMore
  <2>5. inputs' = inputs - 1
    BY <1>11 DEF UserActs
  <2>6. QED
    BY <1>3, <1>4, <2>4, <2>5
<1>12. ASSUME NEW m \in Machines, HookSees(m)
       PROVE  IsFiniteSet(Below(g)) /\ Cardinality(Below(g)) <= setup.inputs - inputs'
  <2>1. Tail(posted[m]) \in Seq(Packet) /\ Len(Tail(posted[m])) = Len(posted[m]) - 1
    BY <1>6, <1>12, HeadTailProperties DEF HookSees
  <2>2. /\ Len(posted'[m]) <= Len(Tail(posted[m])) /\ Len(writing'[m]) <= 1 /\ wire' = wire
        /\ \A n \in Machines \ {m} : posted'[n] = posted[n] /\ writing'[n] = writing[n]
    BY <1>12, <2>1, CallbackAddsOne DEF HookSees
  <2>3. /\ pp[m] <= p[m] - 1 /\ ww[m] <= 1 /\ cc[m] = c[m]
        /\ \A n \in Machines \ {m} : pp[n] = p[n] /\ ww[n] = w[n] /\ cc[n] = c[n]
    <3>1. pp[m] <= p[m] - 1 /\ ww[m] <= 1 /\ cc[m] = c[m]
      <4>1. pp[m] = Len(posted'[m]) /\ p[m] = Len(posted[m])
        BY <1>7, <1>8
      <4>2. ww[m] = Len(writing'[m]) /\ cc[m] = Len(wire'[m]) /\ c[m] = Len(wire[m])
        BY <1>7, <1>8
      <4>3. QED
        BY <2>1, <2>2, <4>1, <4>2
    <3>2. ASSUME NEW n \in Machines \ {m}
          PROVE  pp[n] = p[n] /\ ww[n] = w[n] /\ cc[n] = c[n]
      BY <1>7, <1>8, <2>2
    <3>3. QED
      BY <3>1, <3>2
  <2>4. \A n \in Machines : g[n] <= f[n]
    BY <1>9, <2>3
  <2>5. QED
    BY <1>10, <1>12, <2>4 DEF HookSees
<1>13. ASSUME NEW m \in Machines, Swallowed(m)
       PROVE  IsFiniteSet(Below(g)) /\ Cardinality(Below(g)) <= setup.inputs - inputs'
  <2>1. Len(Tail(posted[m])) = Len(posted[m]) - 1
    BY <1>6, <1>13, HeadTailProperties DEF Swallowed
  <2>2. /\ posted'[m] = Tail(posted[m]) /\ \A n \in Machines \ {m} : posted'[n] = posted[n]
        /\ writing' = writing /\ wire' = wire /\ inputs' = inputs
    BY <1>13 DEF Swallowed, EchoInv, ShapeOK
  <2>3. /\ pp[m] = p[m] - 1 /\ \A n \in Machines \ {m} : pp[n] = p[n]
        /\ \A n \in Machines : ww[n] = w[n] /\ cc[n] = c[n]
    BY <1>7, <1>8, <2>1, <2>2
  <2>4. \A n \in Machines : g[n] <= f[n]
    BY <1>9, <2>3
  <2>5. QED
    BY <1>10, <2>2, <2>4
<1>14. ASSUME NEW m \in Machines, WriteReturns(m)
       PROVE  IsFiniteSet(Below(g)) /\ Cardinality(Below(g)) <= setup.inputs - inputs'
  <2>1. PICK b \in Seq(Packet), d \in Seq(Packet) : b = writing[m] /\ d = wire[m]
    BY <1>6
  <2>2. Len(d \o b) = Len(d) + Len(b)
    BY ConcatProperties
  <2>3. /\ wire'[m] = d \o b /\ writing'[m] = <<>>
        /\ \A n \in Machines \ {m} : wire'[n] = wire[n] /\ writing'[n] = writing[n]
        /\ posted' = posted /\ inputs' = inputs
    BY <1>14, <2>1 DEF WriteReturns, EchoInv, ShapeOK
  <2>4. Len(wire'[m]) = Len(wire[m]) + Len(writing[m]) /\ Len(writing'[m]) = 0
    BY <2>1, <2>2, <2>3
  <2>5. /\ cc[m] = c[m] + w[m] /\ ww[m] = 0 /\ \A n \in Machines : pp[n] = p[n]
        /\ \A n \in Machines \ {m} : cc[n] = c[n] /\ ww[n] = w[n]
    BY <1>7, <1>8, <2>3, <2>4
  <2>6. \A n \in Machines : g[n] <= f[n]
    <3>1. g[m] <= f[m]
      BY <1>9, <2>5
    <3>2. \A n \in Machines \ {m} : g[n] <= f[n]
      BY <1>9, <2>5
    <3>3. QED
      BY <3>1, <3>2
  <2>7. QED
    BY <1>10, <2>3, <2>6
<1>15. ASSUME NEW m \in Machines, Injects(m)
       PROVE  IsFiniteSet(Below(g)) /\ Cardinality(Below(g)) <= setup.inputs - inputs'
  <2> DEFINE to == setup.peer[m]
  <2>1. to \in Machines
    BY EchoAssumption DEF EchoInv, ControlOK
  <2> HIDE DEF to
  <2>2. PICK e : posted' = [posted EXCEPT ![to] =
                              IF client[to] = "running" THEN @ \o <<e>> ELSE @]
    <3>1. PICK reports \in Reports(to, Head(wire[m])) :
            posted' = [posted EXCEPT ![to] = IF client[to] = "running" THEN @ \o reports ELSE @]
      BY <1>15 DEF Injects, to
    <3>2. PICK e : reports = <<e>>
      BY <2>1, <3>1, SingleReports DEF EchoInv, ControlOK
    <3>3. QED
      BY <3>1, <3>2
  <2>3. /\ posted'[to] \in {posted[to], posted[to] \o <<e>>}
        /\ \A n \in Machines \ {to} : posted'[n] = posted[n]
    BY <2>1, <2>2 DEF EchoInv, ShapeOK
  <2>4. Len(posted'[to]) <= Len(posted[to]) + 1
    <3>1. PICK b \in Seq(Packet) : b = posted[to]
      BY <1>6, <2>1
    <3>2. Len(b) \in Nat /\ Len(b \o <<e>>) = Len(b) + 1
      OBVIOUS
    <3>3. QED
      BY <2>3, <3>1, <3>2
  <2>5. Len(Tail(wire[m])) = Len(wire[m]) - 1
    BY <1>6, <1>15, HeadTailProperties DEF Injects
  <2>6. /\ wire'[m] = Tail(wire[m]) /\ \A n \in Machines \ {m} : wire'[n] = wire[n]
        /\ writing' = writing /\ inputs' = inputs
    BY <1>15 DEF Injects, EchoInv, ShapeOK
  <2>7. /\ pp[to] <= p[to] + 1 /\ \A n \in Machines \ {to} : pp[n] = p[n]
        /\ cc[m] = c[m] - 1 /\ \A n \in Machines \ {m} : cc[n] = c[n]
        /\ \A n \in Machines : ww[n] = w[n]
    <3>1. pp[to] <= p[to] + 1 /\ \A n \in Machines \ {to} : pp[n] = p[n]
      BY <1>7, <1>8, <2>1, <2>3, <2>4
    <3>2. cc[m] = c[m] - 1 /\ \A n \in Machines \ {m} : cc[n] = c[n]
      BY <1>7, <1>8, <2>5, <2>6
    <3>3. \A n \in Machines : ww[n] = w[n]
      BY <1>7, <1>8, <2>6
    <3>4. QED
      BY <3>1, <3>2, <3>3
  <2> DEFINE less == [f EXCEPT ![m] = @ - 1]
  <2>8. /\ less \in [Machines -> Nat] /\ less[m] + 1 = f[m]
        /\ \A n \in Machines \ {m} : less[n] = f[n]
    <3>1. f[m] \in Nat /\ f[m] > 0
      <4>1. c[m] - 1 \in Nat
        BY <2>7
      <4>2. QED
        BY <1>9, <4>1
    <3>2. QED
      BY <3>1
  <2> HIDE DEF less
  <2>9. g[to] <= less[to] + 1 /\ \A n \in Machines \ {to} : g[n] <= less[n]
    <3>1. CASE to = m
      <4>1. pp[m] <= p[m] + 1 /\ cc[m] = c[m] - 1 /\ ww[m] = w[m]
        BY <2>7, <3>1
      <4>2. g[m] <= f[m]
        BY <1>9, <4>1
      <4>3. \A n \in Machines \ {m} : g[n] = f[n]
        BY <1>9, <2>7, <3>1
      <4>4. QED
        BY <2>8, <3>1, <4>2, <4>3
    <3>2. CASE to # m
      <4>1. g[to] <= f[to] + 1
        BY <1>9, <2>1, <2>7, <3>2
      <4>2. g[m] <= f[m] - 1
        BY <1>9, <2>7, <3>2
      <4>3. \A n \in Machines \ {to, m} : g[n] = f[n]
        BY <1>9, <2>7
      <4>4. QED
        BY <2>1, <2>8, <3>2, <4>1, <4>2, <4>3
    <3>3. QED
      BY <3>1, <3>2
  <2>10. /\ IsFiniteSet(Below(less)) /\ Cardinality(Below(less)) + 1 = Cardinality(Below(f))
         /\ Cardinality(Below(less)) \in Nat
    BY <1>3, <2>8, OneFewer
  <2>11. /\ IsFiniteSet(Below(g)) /\ Cardinality(Below(g)) <= Cardinality(Below(less)) + 1
         /\ Cardinality(Below(g)) \in Nat
    BY <2>1, <2>8, <2>9, <2>10, OneMore
  <2>12. QED
    BY <1>3, <1>4, <2>6, <2>10, <2>11
<1>16. CASE UNCHANGED vars
  <2>1. inputs' = inputs /\ Loads' = Loads
    BY <1>16 DEF vars, Loads, UnderWay
  <2>2. QED
    BY <1>1, <1>10, <2>1
<1>17. QED
  BY <1>11, <1>12, <1>13, <1>14, <1>15, <1>16 DEF Next, SystemStep, Finished

(* Whoever is connected to whom, and whatever the injectors and desktops   *)
(* make of an event: if no injector is the one for Windows, the events     *)
(* under way never exceed those the users made.                            *)
THEOREM NothingMultiplies == Spec => []NoAmplification
<1> DEFINE Counted == ~OnWindows => IsFiniteSet(EventsUnderWay) /\ Few
           Inv == EchoInv(Any, Any) /\ Counted
<1>1. Init => Inv
  <2> SUFFICES ASSUME Init PROVE Inv
    OBVIOUS
  <2>1. EchoInv(Any, Any)
    BY EchoInit
  <2>2. \A m \in Machines : UnderWay(m) = 0
    BY DEF Init, UnderWay
  <2>3. EventsUnderWay = {}
    BY <2>1, <2>2, WhatIsUnderWay
  <2>4. IsFiniteSet({}) /\ Cardinality({}) = 0
    BY FS_EmptySet
  <2>5. setup.inputs - inputs = 0
    BY EchoAssumption DEF Init
  <2>6. QED
    BY <2>1, <2>3, <2>4, <2>5 DEF Few
<1>2. Inv /\ [Next]_vars => Inv'
  <2> SUFFICES ASSUME Inv, [Next]_vars PROVE Inv'
    OBVIOUS
  <2>1. EchoInv(Any, Any)'
    BY AnyIsClosed, StepKeeps
  <2>2. OnWindows' = OnWindows
    BY SetupStays DEF OnWindows
  <2>3. QED
    BY <2>1, <2>2, StepCounts
<1>3. Inv => NoAmplification
  BY DEF NoAmplification, Few
<1>4. QED
  BY <1>1, <1>2, <1>3, PTL DEF Spec
=============================================================================
