----------------------------- MODULE Injectors -----------------------------
(***************************************************************************)
(* What the macOS injector does to the desktop of the peer.  Injectors.cpp *)
(* includes CoreGraphics.h before any #if, so macOS is the one platform it *)
(* compiles on.                                                            *)
(*                                                                         *)
(* A desktop is what the posted events make of it: the keys that are down, *)
(* whether the left button is down, and where the last mouse event was     *)
(* posted, in half pixels from the left border of the screen.              *)
(***************************************************************************)
EXTENDS EventPacket

CONSTANT PeerWidth   (* screenWidth, the width of the peer's main display  *)

ASSUME PeerAssumption == PeerWidth \in Nat \ {0}

Desk == [keys : SUBSET Nat, left : BOOLEAN, x : Int]

(* The payload size below which the injector of a packet throws.           *)
RequiredSize ==
  [t \in EventType |->
     IF t \in KeyType THEN 4
     ELSE IF t \in ButtonType THEN 1 + 2 * 4
     ELSE 2 * 4]

Accepts(p) == PayloadSize[p.type] >= RequiredSize[p.type]

(* (CGKeyCode)code: the key code of libuiohook, cut to 16 bits, is posted  *)
(* as a key code of macOS.                                                 *)
CGKeyCode(code) == code % UInt16

(* (c0 + W) * (W / (2 * W)), in half pixels.                               *)
ScreenX(c0) == c0 + PeerWidth

(* The key that p presses or releases, as a set.                           *)
KeyOf(type, p) == IF p.type = type THEN {CGKeyCode(p.code)} ELSE {}

(* Mutant: a button event does not move the pointer.                       *)
EffectButtonInPlace(desk, p) ==
  [keys |-> (desk.keys \cup KeyOf("KeyPress", p)) \ KeyOf("KeyRelease", p),
   left |-> IF p.type \in ButtonType THEN p.type = "MouseButtonPress" ELSE desk.left,
   x    |-> IF p.type = "MouseMove" THEN ScreenX(p.x) ELSE desk.x]

(* Mutant: a release posts the down event again.                           *)
EffectReleasePresses(desk, p) ==
  [keys |-> desk.keys \cup KeyOf("KeyPress", p) \cup KeyOf("KeyRelease", p),
   left |-> p.type \in ButtonType \/ desk.left,
   x    |-> IF p.type \in KeyType THEN desk.x ELSE ScreenX(p.x)]

(* The desktop after the injection of p.  Whatever button p names, the     *)
(* event posted is one of the left button, and it moves the pointer.       *)
Effect(desk, p) ==
  [keys |-> (desk.keys \cup KeyOf("KeyPress", p)) \ KeyOf("KeyRelease", p),
   left |-> IF p.type \in ButtonType THEN p.type = "MouseButtonPress" ELSE desk.left,
   x    |-> IF p.type \in KeyType THEN desk.x ELSE ScreenX(p.x)]
=============================================================================
