---------------------------- MODULE EventPacket ----------------------------
(***************************************************************************)
(* The packets client and server exchange.  A packet keeps what the two    *)
(* ends look at: its type, the key or button of its payload (0 in a mouse  *)
(* move) and the x coordinate of its payload (0 in a key packet).  The     *)
(* timestamp is never read and y travels like x, so both are left out.     *)
(***************************************************************************)
EXTENDS Integers

(* How many values a uint16_t has: libuiohook and macOS number keys so.    *)
UInt16 == 256 * 256

KeyType == {"KeyPress", "KeyRelease"}
ButtonType == {"MouseButtonPress", "MouseButtonRelease"}

(* SamenessEventType                                                       *)
EventType == KeyType \cup ButtonType \cup {"MouseMove"}

Packet == [type : EventType, code : Nat, x : Int]

(* type, timestamp and payloadSize, as toBytes lays them out.              *)
HeaderSize == 1 + 8 + 4

(* Mutant: the key code is packed as the 16 bit number libuiohook has.     *)
PayloadSizeShortCode ==
  [t \in EventType |->
     IF t \in KeyType THEN 2
     ELSE IF t \in ButtonType THEN 1 + 2 * 4
     ELSE 2 * 4]

(* The payload hook_callback builds: a uint32 key code; two int32          *)
(* coordinates; a uint8 button and two int32 coordinates.                  *)
PayloadSize ==
  [t \in EventType |->
     IF t \in KeyType THEN 4
     ELSE IF t \in ButtonType THEN 1 + 2 * 4
     ELSE 2 * 4]

(* The length of what toBytes returns for a packet of type t.              *)
WireSize(t) == HeaderSize + PayloadSize[t]

KeyPacket(type, k) == [type |-> type, code |-> k, x |-> 0]
MovePacket(x) == [type |-> "MouseMove", code |-> 0, x |-> x]
ButtonPacket(type, b, x) == [type |-> type, code |-> b, x |-> x]
=============================================================================
