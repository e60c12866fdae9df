--------------------------- MODULE NetworkServer ---------------------------
(***************************************************************************)
(* network_server, from the moment its one client has completed the        *)
(* handshake: the loop that reads a packet, checks it and injects it into  *)
(* the desktop of the peer.  Each read returns one record, one packet; the *)
(* checks of the length and of the declared size, which then always pass,  *)
(* are modelled in Framing.                                                *)
(***************************************************************************)
EXTENDS Injectors, Channel

VARIABLES
  server,   (* serving, or why main has returned                           *)
  desk      (* the desktop of the peer                                     *)

serverVars == <<server, desk>>

(* closed: "Client disconnected."; failed: an error of the connection or   *)
(* of CoreGraphics; rejected: an injector threw "Invalid ... payload size". *)
ServerState == {"serving", "closed", "failed", "rejected"}

ServerInit ==
  /\ server = "serving"
  /\ desk = [keys |-> {}, left |-> FALSE, x |-> 0]

(* Mutant: the newest packet is handled first.                             *)
InjectNewest ==
  /\ server = "serving"
  /\ wire # <<>>
  /\ desk' = Effect(desk, wire[Len(wire)])
  /\ wire' = SubSeq(wire, 1, Len(wire) - 1)
  /\ UNCHANGED <<server, conn>>

(* Mutant: the server waits for more than one packet, as a read of a full  *)
(* buffer would.                                                           *)
ReadWaitsForMore ==
  /\ server = "serving"
  /\ Len(wire) > 1
  /\ desk' = Effect(desk, Head(wire))
  /\ wire' = Tail(wire)
  /\ UNCHANGED <<server, conn>>

(* read_some returns a packet, which goes to its injector.                 *)
ReadPacket ==
  /\ server = "serving"
  /\ wire # <<>>
  /\ IF Accepts(Head(wire))
     THEN /\ desk' = Effect(desk, Head(wire))
          /\ wire' = Tail(wire)
          /\ UNCHANGED <<server, conn>>
     ELSE /\ server' = "rejected"
          /\ CloseServerEnd
          /\ UNCHANGED desk

(* CoreGraphics creates no event for the packet: the injector throws.      *)
InjectionFails ==
  /\ server = "serving"
  /\ wire # <<>>
  /\ server' = "failed"
  /\ CloseServerEnd
  /\ UNCHANGED desk

(* Mutant: an error of read_some is ignored.                               *)
EndOfStreamIgnored ==
  /\ server = "serving"
  /\ wire = <<>>
  /\ conn \in {"closed", "reset"}
  /\ UNCHANGED <<serverVars, channelVars>>

(* read_some reports eof, or another error.  A client that exits does not  *)
(* shut TLS down, which the library may report as eof or as a truncated    *)
(* stream.                                                                 *)
EndOfStream ==
  /\ server = "serving"
  /\ wire = <<>>
  /\ \/ conn = "closed" /\ server' \in {"closed", "failed"}
     \/ conn = "reset" /\ server' = "failed"
  /\ CloseServerEnd
  /\ UNCHANGED desk

ServerNext == ReadPacket \/ InjectionFails \/ EndOfStream
=============================================================================
