----------------------------- MODULE MCFraming -----------------------------
(* Instances of Framing for TLC, and samples for the codec, whose theorems *)
(* are in CodecProofs.  TLC counts to 2^31 only: the whole event, with its *)
(* time of 64 bits, is left to the proof.                                  *)
EXTENDS Framing

(* Reads of any length are the costly ones.                                *)
WritesPerStream == [record |-> 4, whole |-> 4, any |-> 2]

Bytes == INSTANCE Codec WITH TicksPerMs <- 3

SamplePacket ==
  [type : {0, 255}, timestamp : {0, 1, 256, 70000}, payloadSize : {2}, payload : {<<7, 0>>}]

ASSUME PacketSamples ==
  \A pkt \in SamplePacket, rest \in {<<>>, <<1>>} :
     pkt \in Bytes!EventPackets
       /\ Bytes!PacketFromBytes(Bytes!PacketToBytes(pkt) \o rest) = pkt

ASSUME EventSamples ==
  \A n \in {-32768, -257, -256, -1, 0, 1, 255, 256, 32767} :
     /\ n \in Bytes!Int16Range
     /\ Bytes!Signed(Bytes!LittleAt2(Bytes!Little2(n), 0), Bytes!Two16) = n
     /\ Bytes!EventToBytes([type |-> 0, timestamp |-> 3 * n, keycode |-> 0, modifiers |-> 0,
                            x |-> n, y |-> 0, wheel_delta |-> 0])[2] = n % 256

ASSUME RangeSamples ==
  /\ -32769 \notin Bytes!Int16Range /\ 32768 \notin Bytes!Int16Range
  /\ 65535 \in Bytes!UInt16Range /\ 65536 \notin Bytes!UInt16Range
  /\ Bytes!Milliseconds(-4) = -1 /\ Bytes!Milliseconds(5) = 1
=============================================================================
