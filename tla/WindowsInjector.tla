-------------------------- MODULE WindowsInjector --------------------------
(***************************************************************************)
(* What the Windows injector does to the desktop of the peer.  A key press *)
(* is sent to SendInput as two inputs, down and up.  A button event is     *)
(* sent as its number: the first four bytes of the payload, taken for a    *)
(* set of MOUSEEVENTF flags, and shifted to the left for a release.        *)
(*                                                                         *)
(* A desktop is the keys that are down, whether the left button is down,   *)
(* and the dx of the last absolute move, which Windows reads as a point    *)
(* between the borders 0 and 65535 of its screen.  The flags of the other  *)
(* buttons and of the wheel are left out.                                  *)
(***************************************************************************)
EXTENDS EventPacket

CONSTANT ScreenWidth   (* GetSystemMetrics(SM_CXSCREEN)                    *)

(* The payload size below which the injector of a packet throws.           *)
RequiredSize ==
  [t \in EventType |-> IF t = "MouseMove" THEN 2 * 4 ELSE 4]

Accepts(p) == PayloadSize[p.type] >= RequiredSize[p.type]

(* static_cast<WORD>(code), a virtual key.                                 *)
VirtualKey(p) == p.code % UInt16

(* The flags of winuser.h for the pointer and the left button.             *)
MOVE == 1
ABSOLUTE == 32768
LEFTDOWN == 2
LEFTUP == 4
Has(flags, flag) == (flags \div flag) % 2 = 1

(* The low 16 bits, where all flags are, of the button and the three bytes *)
(* of x that follow it: the button and the lowest byte of x.  A release    *)
(* moves each bit one place up.                                            *)
ButtonField(p) == p.code + 256 * (p.x % 256)
Flags(p) == (IF p.type = "MouseButtonRelease" THEN 2 * ButtonField(p) ELSE ButtonField(p)) % UInt16

(* A button event has dx 0, which is the left border to an absolute move,  *)
(* and nothing to one that is not.                                         *)
MovesToBorder(p) ==
  p.type \in ButtonType /\ Has(Flags(p), MOVE) /\ Has(Flags(p), ABSOLUTE)

(* coords[0] * (65535.0 / width), cut to a LONG.                           *)
Absolute(x) ==
  LET scaled(n) == (n * (UInt16 - 1)) \div ScreenWidth
  IN IF x >= 0 THEN scaled(x) ELSE -scaled(-x)

(* The desktop after the injection of p.                                   *)
Effect(desk, p) ==
  [keys |-> IF p.type \in KeyType THEN desk.keys \ {VirtualKey(p)} ELSE desk.keys,
   left |-> IF p.type \in ButtonType
            THEN (desk.left \/ Has(Flags(p), LEFTDOWN)) /\ ~Has(Flags(p), LEFTUP)
            ELSE desk.left,
   dx   |-> IF p.type = "MouseMove" THEN Absolute(p.x)
            ELSE IF MovesToBorder(p) THEN 0
            ELSE desk.dx]

(* SendInput inserts some of its inputs only, or none: of a key press      *)
(* perhaps the down.                                                       *)
PartialEffects(desk, p) ==
  IF p.type = "KeyPress"
  THEN {desk, [desk EXCEPT !.keys = @ \cup {VirtualKey(p)}]}
  ELSE {desk}
=============================================================================
