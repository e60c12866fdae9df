------------------------------ MODULE Sameness ------------------------------
(***************************************************************************)
(* One sharing session: the user, network_client on the host, the          *)
(* connection, network_server and the injector on the peer, from the end   *)
(* of the handshake to the exit of both programs.                          *)
(***************************************************************************)
EXTENDS NetworkClient, NetworkServer

VARIABLE unsent   (* history: the keys whose last change was not forwarded *)

vars == <<wire, conn, clientVars, serverVars, unsent>>

Init ==
  /\ ChannelInit
  /\ ClientInit
  /\ ServerInit
  /\ unsent = keys

(* The keys of the packet a callback has just begun to write.              *)
JustForwarded ==
  IF writing = <<>> /\ writing' # <<>> /\ writing'[1].type \in KeyType
  THEN {writing'[1].code}
  ELSE {}

JustChanged == (keys \ keys') \cup (keys' \ keys)

RecordUnsent == unsent' = (unsent \cup JustChanged) \ JustForwarded

ClientStep ==
  /\ ClientNext
  /\ RecordUnsent
  /\ UNCHANGED serverVars

ServerStep ==
  /\ ServerNext
  /\ UNCHANGED <<clientVars, unsent>>

NetworkStep ==
  /\ NetworkFails \/ ResetArrives
  /\ UNCHANGED <<clientVars, serverVars, unsent>>

(* Both programs have returned, or wait for a network that is cut.         *)
Finished ==
  /\ client = "exited"
  /\ server # "serving" \/ (conn = "cut" /\ wire = <<>>)
  /\ UNCHANGED vars

Next == ClientStep \/ ServerStep \/ NetworkStep \/ Finished

(* The threads of the two programs are scheduled, and a write that can end *)
(* does.  The user, the failures and CoreGraphics owe nothing.             *)
Fairness ==
  /\ WF_vars((WriteReturns \/ WriteFails) /\ ClientStep)
  /\ WF_vars(ReadPacket /\ ServerStep)
  /\ WF_vars(EndOfStream /\ ServerStep)

Spec == Init /\ [][Next]_vars
FairSpec == Spec /\ Fairness

-----------------------------------------------------------------------------
(* Type invariant of the session.                                          *)
TypeOK ==
  /\ wire \in Seq(Events) /\ Len(wire) <= Cap
  /\ conn \in Connection
  /\ client \in {"running", "exited"}
  /\ control \in {"HOST", "CLIENT"}
  /\ pointer \in Positions
  /\ keys \in SUBSET Keys
  /\ buttons \in SUBSET Buttons
  /\ writing \in Seq(Events) /\ Len(writing) <= 1
  /\ server \in ServerState
  /\ desk \in Desk
  /\ unsent \in SUBSET Keys

-----------------------------------------------------------------------------
(* The packets between the hook of the host and the injector of the peer.  *)
Pending == wire \o writing

(* The index of the last packet of q that is in S, as a set.               *)
Last(q, S) ==
  {i \in DOMAIN q : q[i] \in S /\ \A j \in DOMAIN q : j > i => q[j] \notin S}

About(k) == {p \in Events : p.type \in KeyType /\ p.code = k}
Clicks == {p \in Events : p.type \in ButtonType}
MouseEvents == {p \in Events : p.type \notin KeyType}

(* The desktop d after the packets of q: is key k down, is the left button *)
(* down, is the pointer at sx?  The last packet about it decides.          *)
KeyAfter(k, q, d) ==
  LET last == Last(q, About(k))
  IN IF last = {} THEN k \in d.keys
     ELSE \E i \in last : q[i].type = "KeyPress"

LeftAfter(q, d) ==
  LET last == Last(q, Clicks)
  IN IF last = {} THEN d.left
     ELSE \E i \in last : q[i].type = "MouseButtonPress"

PointerAfter(q, d, sx) ==
  LET last == Last(q, MouseEvents)
  IN IF last = {} THEN d.x = sx
     ELSE \E i \in last : ScreenX(q[i].x) = sx

(* Every packet the client builds carries the payload its injector asks    *)
(* for: the exceptions "Invalid ... payload size", which end the server,   *)
(* are never thrown.                                                       *)
NoPacketRejected == server # "rejected"

(* As long as the connection is up, a key whose last change was forwarded  *)
(* is, once the peer has caught up, down there exactly if the user holds   *)
(* it: no forwarded press or release is lost, doubled or overtaken,        *)
(* whatever the interleaving of hook, writer and reader.                   *)
Mirror ==
  conn = "up" =>
    \A k \in Keys \ unsent : KeyAfter(k, Pending, desk) <=> k \in keys

(* The user holds no button: then the peer, once it has caught up, does    *)
(* not either.  A press that was forwarded has its release forwarded too,  *)
(* although control may pass to the host in between any two events, since  *)
(* hook_callback does not run the switcher while a button is down.         *)
NoStuckButton == conn = "up" /\ buttons = {} => ~LeftAfter(Pending, desk)

(* While the client is in control and no button is down, the pointer of    *)
(* the peer, once it has caught up, is where the pointer of the host says: *)
(* drags are not forwarded, but the release that ends one carries its      *)
(* position.                                                               *)
PointerTracksHost ==
  conn = "up" /\ control = "CLIENT" /\ buttons = {} =>
    PointerAfter(Pending, desk, ScreenX(Relative(pointer)))

(* The pointer of the peer is on its main display: what injectMouseMove    *)
(* means by "Convert to screen coordinates".                               *)
PeerPointerOnScreen == desk.x >= 0 /\ desk.x < 2 * PeerWidth

-----------------------------------------------------------------------------
(* A write ends, returning or failing: the callback does not hold up the   *)
(* thread of the hook, and the user's input with it, for ever.             *)
WriteEnds == writing # <<>> ~> writing = <<>>

(* A key press that is being written reaches the desktop of the peer,      *)
(* unless the session breaks.                                              *)
PressArrives ==
  \A k \in Keys :
    (writing = <<KeyPacket("KeyPress", k)>> ~> k \in desk.keys \/ conn # "up")

(* When the client has exited the server returns as well, unless the       *)
(* network died first: then nothing ever wakes its read_some.              *)
ServerNoticesExit ==
  client = "exited" ~> server # "serving" \/ conn = "cut"

-----------------------------------------------------------------------------
(* The injector announces "Injecting mouse button press: <button>": the    *)
(* left button of the peer goes down for a press of the left button.       *)
LeftButton == 1
InjectsThePressedButton ==
  [][desk.left' /\ ~desk.left => Head(wire).code = LeftButton]_vars

(* The README calls the sharing seamless: when the user holds no key and   *)
(* all that was forwarded has been applied, no key is down on the peer.    *)
NoStuckKey ==
  server = "serving" /\ Pending = <<>> /\ keys = {} => desk.keys = {}

-----------------------------------------------------------------------------
(* The session implements RemoteDesk.  What is still to be applied is what *)
(* the server can still read, and the packet being written while that can  *)
(* still reach it.                                                         *)
RemainingQueue ==
  IF server # "serving" THEN <<>>
  ELSE IF conn = "up" THEN wire \o writing
  ELSE wire

Abstract == INSTANCE RemoteDesk
  WITH queue   <- RemainingQueue,
       down    <- desk.keys,
       pressed <- IF desk.left THEN {LeftButton} ELSE {},
       at      <- desk.x - PeerWidth,
       open    <- conn = "up"

ImplementsRemoteDesk == Abstract!Spec
=============================================================================
