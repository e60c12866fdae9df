---------------------------- MODULE WindowsPeer ----------------------------
(***************************************************************************)
(* The sharing session of Sameness with a peer that runs Windows.          *)
(***************************************************************************)
EXTENDS NetworkClient

CONSTANT ScreenWidth   (* SM_CXSCREEN of the peer                          *)

VARIABLES
  server,   (* serving, or why main has returned, as in NetworkServer      *)
  desk      (* the desktop of the peer                                     *)

vars == <<wire, conn, clientVars, server, desk>>

Injector == INSTANCE WindowsInjector
Loop == INSTANCE NetworkServer WITH PeerWidth <- ScreenWidth

Init ==
  /\ ChannelInit
  /\ ClientInit
  /\ server = "serving"
  /\ desk = [keys |-> {}, left |-> FALSE, dx |-> 0]

(* A packet is read, goes to its injector, and SendInput takes all of it.  *)
ReadPacket ==
  /\ server = "serving"
  /\ wire # <<>>
  /\ IF Injector!Accepts(Head(wire))
     THEN /\ desk' = Injector!Effect(desk, Head(wire))
          /\ wire' = Tail(wire)
          /\ UNCHANGED <<server, conn>>
     ELSE /\ server' = "rejected"
          /\ CloseServerEnd
          /\ UNCHANGED desk

(* "Failed to send ... input"                                              *)
InjectionFails ==
  /\ server = "serving"
  /\ wire # <<>>
  /\ server' = "failed"
  /\ CloseServerEnd
  /\ desk' \in Injector!PartialEffects(desk, Head(wire))

(* Both programs have returned, or wait for a network that is cut.         *)
Finished ==
  /\ client = "exited"
  /\ server # "serving" \/ (conn = "cut" /\ wire = <<>>)
  /\ UNCHANGED vars

Next ==
  \/ Finished
  \/ ClientNext /\ UNCHANGED <<server, desk>>
  \/ (ReadPacket \/ InjectionFails \/ Loop!EndOfStream) /\ UNCHANGED clientVars
  \/ (NetworkFails \/ ResetArrives) /\ UNCHANGED <<clientVars, server, desk>>

Spec == Init /\ [][Next]_vars

-----------------------------------------------------------------------------
(* injectMouseButtonRelease says it will "Convert DOWN to UP flags": a     *)
(* release presses nothing.                                                *)
ReleasePressesNothing ==
  [][desk'.left /\ ~desk.left => Head(wire).type = "MouseButtonPress"]_vars
=============================================================================
