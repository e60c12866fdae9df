-------------------------------- MODULE Echo --------------------------------
(***************************************************************************)
(* Machines that share with one another: each runs a client, connected to  *)
(* the server of its peer, and a server.  What the server of a machine     *)
(* injects is seen by the hook of the same machine, and its client treats  *)
(* it as input of the user: the switcher follows injected moves, and under *)
(* CLIENT injected events are forwarded again.  isInjectedEvent, which     *)
(* could tell the two apart, is a variable of the server's process, is set *)
(* by one injector only, and is read nowhere.                              *)
(*                                                                         *)
(* The connections and the servers last (Sameness models their ends, which *)
(* can only silence an echo); the clients may throw.  An event of the hook *)
(* has the form of a packet, with x as the hook reports it; as in          *)
(* NetworkClient a negative x stands for any negative coordinate.          *)
(***************************************************************************)
EXTENDS EventPacket, Sequences, FiniteSets

CONSTANTS
  Machines,
  Width,           (* of the display of each machine; --width of its client *)
  Setups,          (* who is connected to whom, which injector each has,   *)
                   (* and, a bound, how many events the users make in all  *)
  EdgeThreshold,   (* EDGE_THRESHOLD of every client                       *)
  Positions,       (* where the user of each machine may point             *)
  Keys,            (* the keys users press                                 *)
  Buttons,         (* the mouse buttons users press                        *)
  Cap,             (* the packets the buffers of a connection hold         *)
  MaxPosted        (* bound: nothing is injected on a machine whose hook   *)
                   (* has this many events to report                       *)

(* The three classes PlatformInjector may be.                              *)
Platform == {"macOS", "Windows", "uiohook"}

(* A server accepts a single client.                                       *)
ASSUME EchoAssumption ==
  /\ Width \in [Machines -> Nat \ {0}]
  /\ Setups \subseteq [peer : [Machines -> Machines],
                       platform : [Machines -> Platform],
                       inputs : Nat]
  /\ \A s \in Setups : \A m, n \in Machines : s.peer[m] = s.peer[n] => m = n
  /\ EdgeThreshold \in Int
  /\ Positions \in [Machines -> SUBSET Nat]
  /\ Keys \subseteq 0 .. UInt16 - 1
  /\ Buttons \subseteq 1 .. 255
  /\ Cap \in Nat \ {0}
  /\ MaxPosted \in Nat \ {0}

VARIABLES
  setup,     (* a member of Setups, which never changes                    *)
  client,    (* main of each client is running or has returned             *)
  control,   (* edgeSwitcher->state_ of each client                        *)
  writing,   (* the packet each client is sending, if any                  *)
  wire,      (* the packets from each client to the server of its peer     *)
  posted,    (* the events injected on each machine, before its hook       *)
  inputs     (* how many events the users will still make                  *)

vars == <<setup, client, control, writing, wire, posted, inputs>>

Undefined == 0   (* VC_UNDEFINED                                           *)

Switcher(w) == INSTANCE ScreenEdgeSwitcher
  WITH HostWidth <- w, Thresholds <- {EdgeThreshold}, Hysteresis <- 5,
       Positions <- {}, state <- "HOST", edgeThreshold <- EdgeThreshold,
       lastX <- 0, configured <- TRUE, lastSwitch <- -1

MacOS(w) == INSTANCE Injectors WITH PeerWidth <- w
Windows(w) == INSTANCE WindowsInjector WITH ScreenWidth <- w
Uiohook == INSTANCE UiohookInjector

Init ==
  /\ setup \in Setups
  /\ client = [m \in Machines |-> "running"]
  /\ control = [m \in Machines |-> "HOST"]
  /\ writing = [m \in Machines |-> <<>>]
  /\ wire = [m \in Machines |-> <<>>]
  /\ posted = [m \in Machines |-> <<>>]
  /\ inputs = setup.inputs

-----------------------------------------------------------------------------
(* The callback runs switcher and switch for e; `uint8_t button' cuts.     *)
Invalid(e) ==
  \/ e.type \in KeyType /\ e.code = Undefined
  \/ e.type \in ButtonType /\ e.code % 256 = 0
  \/ e.type \notin KeyType /\ e.x < 0

(* Moves are validated in either state, the rest only under CLIENT.        *)
Throws(m, e) == Invalid(e) /\ (e.type = "MouseMove" \/ control[m] = "CLIENT")

NewControl(m, e) ==
  IF e.type = "MouseMove" /\ ~Invalid(e)
  THEN Switcher(Width[m])!NewState(control[m], EdgeThreshold, e.x)
  ELSE control[m]

Packed(m, e) ==
  [type |-> e.type,
   code |-> IF e.type \in ButtonType THEN e.code % 256 ELSE e.code,
   x    |-> IF e.type \in KeyType THEN 0 ELSE e.x - Width[m]]

(* Mutant: keys and buttons are forwarded whoever is in control.           *)
ForwardsUnasked(m, e) == NewControl(m, e) = "CLIENT" \/ e.type # "MouseMove"

Forwards(m, e) == NewControl(m, e) = "CLIENT"

(* hook_callback for e on m, when `waiting' is what the hook of m has      *)
(* still to report.                                                        *)
Callback(m, e, waiting) ==
  /\ control' = [control EXCEPT ![m] = NewControl(m, e)]
  /\ client' = [client EXCEPT ![m] = IF Throws(m, e) THEN "exited" ELSE @]
  /\ posted' = [posted EXCEPT ![m] = IF Throws(m, e) THEN <<>> ELSE waiting]
  /\ writing' = [writing EXCEPT ![m] =
                   IF ~Throws(m, e) /\ Forwards(m, e) THEN <<Packed(m, e)>> ELSE <<>>]
  /\ UNCHANGED <<setup, wire>>

(* The hook of m can call the callback.                                    *)
Listening(m) == client[m] = "running" /\ writing[m] = <<>>

UserActs(m, e) ==
  /\ Listening(m)
  /\ inputs > 0
  /\ inputs' = inputs - 1
  /\ Callback(m, e, posted[m])

HookSees(m) ==
  /\ Listening(m)
  /\ posted[m] # <<>>
  /\ Callback(m, Head(posted[m]), Tail(posted[m]))
  /\ UNCHANGED inputs

(* The desktop does not pass an injected event on as what it was: a move   *)
(* with a button down is a drag, an unknown button is none.                *)
Swallowed(m) ==
  /\ posted[m] # <<>>
  /\ posted' = [posted EXCEPT ![m] = Tail(@)]
  /\ UNCHANGED <<setup, client, control, writing, wire, inputs>>

(* Mutant: a write never waits.                                            *)
WriteReturnsAtOnce(m) ==
  /\ writing[m] # <<>>
  /\ wire' = [wire EXCEPT ![m] = @ \o writing[m]]
  /\ writing' = [writing EXCEPT ![m] = <<>>]
  /\ UNCHANGED <<setup, client, control, posted, inputs>>

WriteReturns(m) ==
  /\ writing[m] # <<>>
  /\ Len(wire[m]) < Cap
  /\ wire' = [wire EXCEPT ![m] = @ \o writing[m]]
  /\ writing' = [writing EXCEPT ![m] = <<>>]
  /\ UNCHANGED <<setup, client, control, posted, inputs>>

-----------------------------------------------------------------------------
(* Mutant: the position is not scaled.                                     *)
PixelUnscaled(halves) == halves

(* A float of half pixels, cut to the int16_t of the hook's events.        *)
Pixel(halves) == IF halves >= 0 THEN halves \div 2 ELSE -((-halves) \div 2)

(* The macOS injector's event, as the hook sees it: it may name a key of   *)
(* macOS otherwise, or not at all.                                         *)
MacOSEvents(w, p) ==
  IF p.type \in KeyType
  THEN {KeyPacket(p.type, k) : k \in {MacOS(w)!CGKeyCode(p.code), Undefined}}
  ELSE LET x == Pixel(MacOS(w)!ScreenX(p.x))
       IN IF p.type \in ButtonType THEN {ButtonPacket(p.type, 1, x)} ELSE {MovePacket(x)}

(* y of a button event is made of the highest byte of x and the lowest of  *)
(* y, and so may be negative.                                              *)
UiohookEvents(p) ==
  IF p.type \in ButtonType
  THEN {Uiohook!EventOf(p), [Uiohook!EventOf(p) EXCEPT !.x = -1]}
  ELSE {Uiohook!EventOf(p)}

(* The desktop keeps the pointer on its screen, or reports it as posted.   *)
Landings(w, x) == {x, IF x < 0 THEN 0 ELSE IF x < w THEN x ELSE w - 1}

(* Mutant: each event is posted to two event taps.                         *)
OnScreenTwice(w, events) ==
  UNION {{<<[e EXCEPT !.x = x], [e EXCEPT !.x = x]>> : x \in Landings(w, e.x)} : e \in events}

(* CGEventPost, hook_post_event: called once for each packet.              *)
OnScreen(w, events) ==
  UNION {{<<[e EXCEPT !.x = x]>> : x \in Landings(w, e.x)} : e \in events}

When(condition, e) == IF condition THEN <<e>> ELSE <<>>

(* A key press goes down and up; a key of Windows may have no name here.   *)
WindowsKeys(w, p) ==
  {When(p.type = "KeyPress", KeyPacket("KeyPress", k)) \o <<KeyPacket("KeyRelease", k)>> :
     k \in {Windows(w)!VirtualKey(p), Undefined}}

(* Windows turns a dx between its borders into a pixel.                    *)
WindowsPixel(w, dx) ==
  IF dx >= 0 THEN (dx * w) \div UInt16 ELSE -((-dx * w) \div UInt16)

WindowsMoves(w, p) ==
  {<<MovePacket(x)>> : x \in Landings(w, WindowsPixel(w, Windows(w)!Absolute(p.x)))}

(* The pointer goes to the border, or stays wherever it is on the screen;  *)
(* there the left button goes down, up, both or neither.  (A move by       *)
(* nothing, other buttons and the wheel are left out.)                     *)
WindowsButtons(w, p) ==
  LET moves == Windows(w)!MovesToBorder(p)
      has(flag) == Windows(w)!Has(Windows(w)!Flags(p), flag)
  IN {  When(moves, MovePacket(0))
     \o When(has(Windows(w)!LEFTDOWN), ButtonPacket("MouseButtonPress", 1, x))
     \o When(has(Windows(w)!LEFTUP), ButtonPacket("MouseButtonRelease", 1, x)) :
       x \in IF moves THEN {0} ELSE 0 .. w - 1}

WindowsReports(w, p) ==
  IF p.type \in KeyType THEN WindowsKeys(w, p)
  ELSE IF p.type \in ButtonType THEN WindowsButtons(w, p)
  ELSE WindowsMoves(w, p)

(* What the hook of m may have to report when p is injected there.         *)
Reports(m, p) ==
  CASE setup.platform[m] = "macOS"   -> OnScreen(Width[m], MacOSEvents(Width[m], p))
    [] setup.platform[m] = "Windows" -> WindowsReports(Width[m], p)
    [] setup.platform[m] = "uiohook" -> OnScreen(Width[m], UiohookEvents(p))

(* The server m is connected to reads a packet and injects it.  The hook   *)
(* there sees the events as long as its client runs.                       *)
Injects(m) ==
  LET to == setup.peer[m]
  IN /\ wire[m] # <<>>
     /\ client[to] = "running" => Len(posted[to]) < MaxPosted
     /\ \E reports \in Reports(to, Head(wire[m])) :
          posted' = [posted EXCEPT ![to] = IF client[to] = "running" THEN @ \o reports ELSE @]
     /\ wire' = [wire EXCEPT ![m] = Tail(@)]
     /\ UNCHANGED <<setup, client, control, writing, inputs>>

-----------------------------------------------------------------------------
(* What the hook of m reports of its user.                                 *)
UserEvents(m) ==
       {KeyPacket(t, k) : t \in KeyType, k \in Keys}
  \cup {ButtonPacket(t, b, x) : t \in ButtonType, b \in Buttons, x \in Positions[m]}
  \cup {MovePacket(x) : x \in Positions[m]}

(* Nothing is on its way on any machine.                                   *)
Traffic(m) == posted[m] \o writing[m] \o wire[m]
Quiet == \A m \in Machines : Traffic(m) = <<>>

Finished ==
  /\ Quiet
  /\ inputs = 0 \/ \A m \in Machines : client[m] = "exited"
  /\ UNCHANGED vars

SystemStep(m) == HookSees(m) \/ Swallowed(m) \/ WriteReturns(m) \/ Injects(m)

Next ==
  \/ \E m \in Machines : SystemStep(m) \/ \E e \in UserEvents(m) : UserActs(m, e)
  \/ Finished

(* Hooks, writes and servers go on; the users owe nothing.                 *)
Fairness ==
  \A m \in Machines :
    WF_vars(HookSees(m) \/ Swallowed(m)) /\ WF_vars(WriteReturns(m)) /\ WF_vars(Injects(m))

Spec == Init /\ [][Next]_vars
FairSpec == Spec /\ Fairness

-----------------------------------------------------------------------------
(* Type invariant of the machines and what is between them.                *)
TypeOK ==
  /\ setup \in Setups
  /\ client \in [Machines -> {"running", "exited"}]
  /\ control \in [Machines -> {"HOST", "CLIENT"}]
  /\ \A m \in Machines :
       /\ writing[m] \in Seq(Packet) /\ Len(writing[m]) <= 1
       /\ wire[m] \in Seq(Packet) /\ Len(wire[m]) <= Cap
       /\ posted[m] \in Seq(Packet)
  /\ inputs \in 0 .. setup.inputs

(* The events under way, each as a machine and a place in its traffic.     *)
EventsUnderWay == UNION {{m} \X DOMAIN Traffic(m) : m \in Machines}

OnWindows == \E m \in Machines : setup.platform[m] = "Windows"

(* However often events go round, there are never more of them than the    *)
(* users made: every event of the hook makes at most one packet, every     *)
(* packet at most one event, and none is left behind where it came from.   *)
(* Not so with the injector for Windows, which makes a press and a release *)
(* of every press of a key: a circle with one such machine in it           *)
(* multiplies what goes round, and is left to the other properties.        *)
NoAmplification == ~OnWindows => Cardinality(EventsUnderWay) <= setup.inputs - inputs

(* Injected moves run through the switcher of the machine they arrive on,  *)
(* and may take control back to its host; but no machine begins to forward *)
(* unless its own user points at its right edge.  A peer shows the host's  *)
(* screen in its left half, so that the host's right edge is not its own.  *)
(* (Of a pointer on a second screen, twice as far right as the peer's band *)
(* begins, this would not be true.)                                        *)
ControlTakenByUser ==
  [][\A m \in Machines :
       control[m] = "HOST" /\ control'[m] = "CLIENT" => inputs' < inputs]_vars

(* Machines that share in a circle, all of them under CLIENT.              *)
Circle(S) ==
  \A m \in S : setup.peer[m] \in S /\ client[m] = "running" /\ control[m] = "CLIENT"

(* When the users stop, all traffic ends, unless there is a circle of      *)
(* machines that are all under CLIENT: one host in it is enough.           *)
EchoDies == <>[]Quiet \/ <>[](\E S \in SUBSET Machines : S # {} /\ Circle(S))

(* Moves do not go round for ever, even in such a circle: each machine     *)
(* halves the distance to the left edge, where control goes back to the    *)
(* host, or a client rejects the position.                                 *)
MovesDie ==
  <>[](\A m \in Machines : \A i \in DOMAIN Traffic(m) : Traffic(m)[i].type # "MouseMove")
=============================================================================
