--------------------------- MODULE NetworkClient ---------------------------
(***************************************************************************)
(* network_client, from the moment hook_run delivers events: the user acts *)
(* on the mouse and the keyboard of the host, libuiohook calls             *)
(* hook_callback for each event, and the callback forwards it, drops it or *)
(* throws.                                                                 *)
(*                                                                         *)
(* The callback runs on the thread of the hook and writes synchronously:   *)
(* while `writing' holds a packet, no other event is taken.  An exception  *)
(* leaves hook_run and ends main.  The callback never marks an event as    *)
(* consumed, so the desktop of the host sees every event as well.          *)
(*                                                                         *)
(* A point of the host's desktop is its x coordinate; -1 stands for every  *)
(* point with a negative coordinate (on a screen left of or above the      *)
(* primary one), which the callback rejects, be it x or y.                 *)
(***************************************************************************)
EXTENDS EventPacket, Channel

CONSTANTS
  HostWidth,       (* HOST_SCREEN_WIDTH                                    *)
  EdgeThreshold,   (* EDGE_THRESHOLD                                       *)
  Positions,       (* where the pointer can be                             *)
  Keys,            (* key codes of libuiohook the user's keyboard yields   *)
  Buttons          (* button numbers of libuiohook, from 1                 *)

ASSUME ClientAssumption ==
  /\ HostWidth \in Nat \ {0}
  /\ EdgeThreshold \in Int
  /\ Positions \subseteq Nat \cup {-1}
  /\ Keys \subseteq 0 .. UInt16 - 1
  /\ Buttons \subseteq 1 .. 255

VARIABLES
  client,    (* main is running or has returned                            *)
  control,   (* edgeSwitcher->state_                                       *)
  pointer,   (* where the pointer is on the host's desktop                 *)
  keys,      (* the keys that are down, for the user and the host's desktop *)
  buttons,   (* the mouse buttons that are down, likewise                  *)
  writing    (* the packet safeWrite is sending, if any                    *)

clientVars == <<client, control, pointer, keys, buttons, writing>>

(* VC_UNDEFINED, the code of a key libuiohook has no name for.             *)
Undefined == 0

Switcher == INSTANCE ScreenEdgeSwitcher
  WITH Thresholds <- {EdgeThreshold}, Hysteresis <- 5, Positions <- {},
       state <- control, edgeThreshold <- EdgeThreshold, lastX <- pointer,
       configured <- TRUE, lastSwitch <- -1

ClientInit ==
  /\ client = "running"
  /\ control = "HOST"
  /\ pointer \in Positions
  /\ keys \in SUBSET Keys
  /\ buttons \in SUBSET Buttons
  /\ writing = <<>>

-----------------------------------------------------------------------------
(* The hook can call hook_callback.                                        *)
Listening == client = "running" /\ writing = <<>>

Forward(p) ==
  /\ writing' = <<p>>
  /\ UNCHANGED <<client, channelVars>>

Ignore == UNCHANGED <<client, writing, channelVars>>

(* An exception reaches main, which returns.                               *)
Throw ==
  /\ client' = "exited"
  /\ writing' = <<>>
  /\ CloseClientEnd

Relative(x) == x - HostWidth

(* Mutant: coordinates are sent as they are on the host.                   *)
ForwardMoveAbsolute(x) ==
  IF control' = "CLIENT" THEN Forward(MovePacket(x)) ELSE Ignore

ForwardMove(x) ==
  IF control' = "CLIENT" THEN Forward(MovePacket(Relative(x))) ELSE Ignore

(* EVENT_MOUSE_MOVED: the pointer moves and no button is down.             *)
MouseMoved(x) ==
  /\ Listening
  /\ buttons = {}
  /\ pointer' = x
  /\ UNCHANGED <<keys, buttons>>
  /\ \/ /\ x < 0
        /\ Throw
        /\ UNCHANGED control
     \/ /\ x >= 0
        /\ control' = Switcher!NewState(control, EdgeThreshold, x)
        /\ ForwardMove(x)

(* Mutant: a drag runs through the switcher like a move.                   *)
MouseDraggedSwitches(x) ==
  /\ Listening
  /\ buttons # {}
  /\ pointer' = x
  /\ Ignore
  /\ control' = Switcher!NewState(control, EdgeThreshold, x)
  /\ UNCHANGED <<keys, buttons>>

(* EVENT_MOUSE_DRAGGED: the pointer moves with a button down.  The         *)
(* callback has no case for it.                                            *)
MouseDragged(x) ==
  /\ Listening
  /\ buttons # {}
  /\ pointer' = x
  /\ Ignore
  /\ UNCHANGED <<control, keys, buttons>>

(* The key cases of the switch.                                            *)
ForwardKey(type, k) ==
  \/ control = "HOST" /\ Ignore
  \/ control = "CLIENT" /\ k = Undefined /\ Throw
  \/ control = "CLIENT" /\ k # Undefined /\ Forward(KeyPacket(type, k))

(* EVENT_KEY_PRESSED: the key goes down, or repeats.                       *)
KeyPressed(k) ==
  /\ Listening
  /\ keys' = keys \cup {k}
  /\ ForwardKey("KeyPress", k)
  /\ UNCHANGED <<control, pointer, buttons>>

(* EVENT_KEY_RELEASED                                                      *)
KeyReleased(k) ==
  /\ Listening
  /\ k \in keys
  /\ keys' = keys \ {k}
  /\ ForwardKey("KeyRelease", k)
  /\ UNCHANGED <<control, pointer, buttons>>

(* The button cases of the switch.                                         *)
ForwardButton(type, b) ==
  \/ control = "HOST" /\ Ignore
  \/ control = "CLIENT" /\ pointer < 0 /\ Throw
  \/ control = "CLIENT" /\ pointer >= 0
     /\ Forward(ButtonPacket(type, b, Relative(pointer)))

(* EVENT_MOUSE_PRESSED                                                     *)
MousePressed(b) ==
  /\ Listening
  /\ b \notin buttons
  /\ buttons' = buttons \cup {b}
  /\ ForwardButton("MouseButtonPress", b)
  /\ UNCHANGED <<control, pointer, keys>>

(* EVENT_MOUSE_RELEASED                                                    *)
MouseReleased(b) ==
  /\ Listening
  /\ b \in buttons
  /\ buttons' = buttons \ {b}
  /\ ForwardButton("MouseButtonRelease", b)
  /\ UNCHANGED <<control, pointer, keys>>

-----------------------------------------------------------------------------
(* safeWrite returns.                                                      *)
WriteReturns ==
  /\ client = "running"
  /\ writing # <<>>
  /\ Transmit(writing)
  /\ writing' = <<>>
  /\ UNCHANGED <<client, control, pointer, keys, buttons>>

(* safeWrite throws NetworkError, hook_callback logs and rethrows it.      *)
WriteFails ==
  /\ client = "running"
  /\ writing # <<>>
  /\ WriteError
  /\ Throw
  /\ UNCHANGED <<control, pointer, keys, buttons>>

(* The user ends the client; nothing in the code ever stops the hook.      *)
ClientKilled ==
  /\ client = "running"
  /\ Throw
  /\ UNCHANGED <<control, pointer, keys, buttons>>

UserEvent ==
  \/ \E x \in Positions : MouseMoved(x) \/ MouseDragged(x)
  \/ \E k \in Keys : KeyPressed(k) \/ KeyReleased(k)
  \/ \E b \in Buttons : MousePressed(b) \/ MouseReleased(b)

ClientNext == UserEvent \/ WriteReturns \/ WriteFails \/ ClientKilled

(* Every packet hook_callback can build.                                   *)
Events ==
       [type : KeyType, code : Keys \ {Undefined}, x : {0}]
  \cup [type : ButtonType, code : Buttons, x : {Relative(x) : x \in Positions \ {-1}}]
  \cup [type : {"MouseMove"}, code : {0}, x : {Relative(x) : x \in Positions \ {-1}}]
=============================================================================
