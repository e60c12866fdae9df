------------------------------ MODULE Channel ------------------------------
(***************************************************************************)
(* The TLS connection from the client to the server, as the two programs   *)
(* use it: a bounded first-in first-out queue of packets, one TLS record   *)
(* each (module Framing models the records and the bytes), and what has    *)
(* become of the connection.  Nothing travels the other way.               *)
(*                                                                         *)
(*   up      both ends are open                                            *)
(*   closed  the client has closed its end: the server can read what was   *)
(*           sent, and then the end of the stream                          *)
(*   gone    the server has closed its end and the client has not heard    *)
(*   reset   the connection is known to be broken                          *)
(*   cut     the network no longer carries anything, and nobody knows      *)
(***************************************************************************)
EXTENDS Integers, Sequences

CONSTANT Cap   (* the packets the socket buffers of both sides hold       *)

ASSUME CapAssumption == Cap \in Nat \ {0}

VARIABLES wire, conn

channelVars == <<wire, conn>>

Connection == {"up", "closed", "gone", "reset", "cut"}

ChannelInit == wire = <<>> /\ conn = "up"

(* The writer's packets go nowhere once the server or the network is gone. *)
Swallows == conn \in {"gone", "cut"}

(* Mutant: a write never waits.                                            *)
TransmitUnbounded(packets) ==
  /\ conn = "up" \/ Swallows
  /\ wire' = IF Swallows THEN wire ELSE wire \o packets
  /\ UNCHANGED conn

(* boost::asio::write: blocks while the buffers are full.                  *)
Transmit(packets) ==
  \/ /\ conn = "up"
     /\ Len(wire) + Len(packets) <= Cap
     /\ wire' = wire \o packets
     /\ UNCHANGED conn
  \/ /\ Swallows
     /\ UNCHANGED channelVars

(* A write fails on a connection that was reset, or when the retries of    *)
(* TCP run out.                                                            *)
WriteError == conn \in {"reset", "cut"}

(* The process at either end exits, and the kernel closes its socket.      *)
CloseClientEnd ==
  /\ conn' = IF conn = "up" THEN "closed" ELSE conn
  /\ UNCHANGED wire

CloseServerEnd ==
  /\ conn' = IF conn = "up" THEN "gone" ELSE conn
  /\ wire' = <<>>

(* The network fails: some of the packets on the way are lost, the last    *)
(* ones, and the ends are told or are not.                                 *)
NetworkFails ==
  /\ conn = "up"
  /\ conn' \in {"reset", "cut"}
  /\ \E n \in 0 .. Len(wire) : wire' = SubSeq(wire, 1, n)

(* The kernel of the server's machine answers a late packet.               *)
ResetArrives ==
  /\ conn = "gone"
  /\ conn' = "reset"
  /\ UNCHANGED wire
=============================================================================
