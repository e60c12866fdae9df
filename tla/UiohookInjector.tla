-------------------------- MODULE UiohookInjector --------------------------
(***************************************************************************)
(* The injector for the platforms that are neither macOS nor Windows.  It  *)
(* copies fields out of the payload and posts them to libuiohook as one    *)
(* event.  The fields of a button event are not where hook_callback put    *)
(* them: bytes 0 and 1 are read as the button, 2 bytes each after that as  *)
(* x and y, while the client sends 1 byte of button and 4 bytes each.      *)
(***************************************************************************)
EXTENDS EventPacket

(* The payload size below which the injector returns without an event.     *)
RequiredSize ==
  [t \in EventType |->
     IF t \in KeyType THEN 2
     ELSE IF t \in ButtonType THEN 2 + 2 * 2
     ELSE 2 * 4]

Accepts(p) == PayloadSize[p.type] >= RequiredSize[p.type]

(* static_cast<int16_t>                                                    *)
Int16(n) == ((n + UInt16 \div 2) % UInt16) - UInt16 \div 2

(* The button, and the lowest byte of x.                                   *)
ButtonField(p) == p.code + 256 * (p.x % 256)

(* The two middle bytes of x, as an int16_t.                               *)
XField(p) == Int16(p.x \div 256)

(* The event posted for p.                                                 *)
EventOf(p) ==
  IF p.type \in KeyType THEN KeyPacket(p.type, p.code % UInt16)
  ELSE IF p.type \in ButtonType THEN ButtonPacket(p.type, ButtonField(p), XField(p))
  ELSE MovePacket(Int16(p.x))
=============================================================================
