------------------------------- MODULE Codec -------------------------------
(***************************************************************************)
(* How numbers become bytes and bytes become numbers: the EventPacket that *)
(* client and server exchange, highest byte first, and the Event of        *)
(* event.h, lowest byte first.  Numbers are taken apart by shifts and      *)
(* masks, and put together again by shifts.                                *)
(***************************************************************************)
EXTENDS Integers, Sequences

CONSTANT TicksPerMs   (* of system_clock, in a millisecond                 *)

Byte == 0 .. 255

(* n >> 8 and n & 0xFF, in two's complement if n is negative; n >> 16; and *)
(* n >> 32.                                                                *)
Shr(n) == n \div 256
Low(n) == n % 256
Shr2(n) == Shr(Shr(n))
Shr4(n) == Shr2(Shr2(n))

(* (n << 8) | b                                                            *)
Push(n, b) == 256 * n + b

Big2(n) == <<Low(Shr(n)), Low(n)>>
Big4(n) == Big2(Shr2(n)) \o Big2(n)
Big8(n) == Big4(Shr4(n)) \o Big4(n)

Little2(n) == <<Low(n), Low(Shr(n))>>
Little8(n) ==
  Little2(n) \o Little2(Shr2(n)) \o Little2(Shr4(n)) \o Little2(Shr2(Shr4(n)))

(* The numbers in the bytes after the first o of a buffer.                 *)
BigAt4(s, o) == Push(Push(Push(s[o + 1], s[o + 2]), s[o + 3]), s[o + 4])
BigAt8(s, o) ==
  Push(Push(Push(Push(BigAt4(s, o), s[o + 5]), s[o + 6]), s[o + 7]), s[o + 8])

LittleAt2(s, o) == Push(s[o + 2], s[o + 1])
LittleAt8(s, o) ==
  Push(Push(Push(Push(Push(Push(LittleAt2(s, o + 6),
       s[o + 6]), s[o + 5]), s[o + 4]), s[o + 3]), s[o + 2]), s[o + 1])

(* The types of C++: what is left of n beyond its bytes, or of 2 * n, is   *)
(* nothing but the sign.                                                   *)
UInt16Range == {n \in Nat : Shr2(n) = 0}
UInt32Range == {n \in Nat : Shr4(n) = 0}
UInt64Range == {n \in Nat : Shr4(Shr4(n)) = 0}
Int16Range == {n \in Int : Shr2(2 * n) \in {0, -1}}
Int64Range == {n \in Int : Shr4(Shr4(2 * n)) \in {0, -1}}

(* The conversion of an unsigned number to the signed type of its size.    *)
Two16 == 256 * 256
Two64 == Two16 * (Two16 * (Two16 * Two16))
Signed(n, size) == IF 2 * n >= size THEN n - size ELSE n

-----------------------------------------------------------------------------
(* EventPacket.  payload.assign takes as many bytes as the packet declares *)
(* (they are assumed to be there: Framing has the case where they are not).*)
EventPackets ==
  [type : Byte, timestamp : UInt64Range, payloadSize : UInt32Range, payload : Seq(Byte)]

PacketToBytes(pkt) ==
  <<pkt.type>> \o Big8(pkt.timestamp) \o Big4(pkt.payloadSize) \o pkt.payload

PacketFromBytes(buffer) ==
  [type        |-> buffer[1],
   timestamp   |-> BigAt8(buffer, 1),
   payloadSize |-> BigAt4(buffer, 9),
   payload     |-> [i \in 1 .. BigAt4(buffer, 9) |-> buffer[13 + i]]]

-----------------------------------------------------------------------------
(* Event.  duration_cast cuts the time to milliseconds, towards zero.      *)
Milliseconds(ticks) ==
  IF ticks >= 0 THEN ticks \div TicksPerMs ELSE -((-ticks) \div TicksPerMs)

Events ==
  {e \in [type : Byte, timestamp : Int, keycode : UInt16Range, modifiers : UInt16Range,
          x : Int16Range, y : Int16Range, wheel_delta : Int16Range] :
     Milliseconds(e.timestamp) \in Int64Range}

EventToBytes(e) ==
  <<e.type>> \o Little8(Milliseconds(e.timestamp))
    \o Little2(e.keycode) \o Little2(e.modifiers)
    \o Little2(e.x) \o Little2(e.y) \o Little2(e.wheel_delta)

(* fromBytes throws on a shorter buffer.                                   *)
MinimumSize == 19

EventFromBytes(bytes) ==
  [type        |-> bytes[1],
   timestamp   |-> TicksPerMs * Signed(LittleAt8(bytes, 1), Two64),
   keycode     |-> LittleAt2(bytes, 9),
   modifiers   |-> LittleAt2(bytes, 11),
   x           |-> Signed(LittleAt2(bytes, 13), Two16),
   y           |-> Signed(LittleAt2(bytes, 15), Two16),
   wheel_delta |-> Signed(LittleAt2(bytes, 17), Two16)]
=============================================================================
