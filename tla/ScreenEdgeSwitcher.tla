------------------------- MODULE ScreenEdgeSwitcher -------------------------
(***************************************************************************)
(* The class ScreenEdgeSwitcher: which desktop, HOST or CLIENT, the mouse  *)
(* and the keyboard control.  update(x, y) is called for every mouse move  *)
(* and looks at x only.                                                    *)
(*                                                                         *)
(* The switcher is built and given its threshold once, by main, before the *)
(* hook delivers its first event; `configured' is that program point.      *)
(***************************************************************************)
EXTENDS Integers

CONSTANTS
  HostWidth,   (* hostWidth_: --width, in pixels                           *)
  Thresholds,  (* the arguments of --edge, which nothing validates         *)
  Hysteresis,  (* HYSTERESIS, 5 in the code                                *)
  Positions    (* the x coordinates update is called with                  *)

(* main parses the sizes with std::stoi and checks neither; a screen has a *)
(* positive width.  hook_callback rejects x < 0 before it calls update.    *)
ASSUME SwitcherAssumption ==
  /\ HostWidth \in Nat \ {0}
  /\ Thresholds \subseteq Int
  /\ Hysteresis \in Nat
  /\ Positions \subseteq Nat

VARIABLES
  state,          (* state_                                                *)
  edgeThreshold,  (* edgeThreshold_                                        *)
  lastX,          (* the function-local static of update                   *)
  configured,     (* main has called setEdgeThreshold                      *)
  lastSwitch      (* history: the x at which state last changed            *)

vars == <<state, edgeThreshold, lastX, configured, lastSwitch>>

ControlState == {"HOST", "CLIENT"}
DefaultThreshold == 20
NoSwitch == -1

-----------------------------------------------------------------------------
(* Mutant: whatever is to the right of the band counts as its edge.        *)
AtRightEdgeUnlimited(threshold, x) == x >= HostWidth - threshold

AtRightEdge(threshold, x) ==
  x >= HostWidth - threshold /\ x <= HostWidth + Hysteresis

AtLeftEdge(threshold, x) == x <= threshold /\ x >= -Hysteresis

(* Mutant: an edge hands control over, whichever edge it is.               *)
NewStateToggles(current, threshold, x) ==
  IF AtRightEdge(threshold, x) \/ AtLeftEdge(threshold, x)
  THEN IF current = "HOST" THEN "CLIENT" ELSE "HOST"
  ELSE current

(* Mutant: away from the edges nobody is in control.                       *)
NewStateUndecided(current, threshold, x) ==
  IF AtRightEdge(threshold, x) \/ AtLeftEdge(threshold, x)
  THEN IF x > HostWidth \div 2 THEN "CLIENT" ELSE "HOST"
  ELSE "NEITHER"

(* What update makes of the current state when the pointer is at x.        *)
NewState(current, threshold, x) ==
  IF AtRightEdge(threshold, x) \/ AtLeftEdge(threshold, x)
  THEN IF x > HostWidth \div 2 THEN "CLIENT" ELSE "HOST"
  ELSE current

-----------------------------------------------------------------------------
Init ==
  /\ state = "HOST"
  /\ edgeThreshold = DefaultThreshold
  /\ lastX = 0
  /\ configured = FALSE
  /\ lastSwitch = NoSwitch

SetEdgeThreshold(threshold) ==
  /\ ~configured
  /\ configured' = TRUE
  /\ edgeThreshold' = threshold
  /\ UNCHANGED <<state, lastX, lastSwitch>>

Update(x) ==
  /\ configured
  /\ state' = NewState(state, edgeThreshold, x)
  /\ lastX' = x
  /\ lastSwitch' = IF state' # state THEN x ELSE lastSwitch
  /\ UNCHANGED <<edgeThreshold, configured>>

Next ==
  \/ \E threshold \in Thresholds : SetEdgeThreshold(threshold)
  \/ \E x \in Positions : Update(x)

Spec == Init /\ [][Next]_vars

-----------------------------------------------------------------------------
(* Type invariant of the switcher.                                         *)
TypeOK ==
  /\ state \in ControlState
  /\ edgeThreshold \in Thresholds \cup {DefaultThreshold}
  /\ lastX \in Nat
  /\ configured \in BOOLEAN
  /\ lastSwitch \in Positions \cup {NoSwitch}

Distance(x, y) == IF x <= y THEN y - x ELSE x - y

(* The travel between the two bands; one pixel when they overlap.          *)
MinTravel ==
  IF HostWidth - 2 * edgeThreshold > 1 THEN HostWidth - 2 * edgeThreshold ELSE 1

(* Control was taken at an edge, and at the one that is meant.  When it    *)
(* last went to CLIENT the pointer was in the right half and in the right  *)
(* band, with its limit Hysteresis pixels beyond the screen: a pointer     *)
(* that jumps farther, onto a second screen, takes nothing over.  Only a   *)
(* threshold beyond that limit lifts it: the left band then covers the     *)
(* screen and more, and its right half is an edge to CLIENT as well.  When *)
(* control last went back to HOST the pointer was in the left band and the *)
(* left half.  The comparison with the middle of the screen is what keeps  *)
(* the two apart when the bands overlap, and the configured threshold, not *)
(* the default of the constructor, is the one that counts.                 *)
ControlTakenAtEdge ==
  /\ state = "CLIENT" =>
       /\ lastSwitch # NoSwitch
       /\ lastSwitch > HostWidth \div 2
       /\ lastSwitch >= HostWidth - edgeThreshold
       /\ lastSwitch <= HostWidth + Hysteresis \/ lastSwitch <= edgeThreshold
  /\ state = "HOST" /\ lastSwitch # NoSwitch =>
       /\ lastSwitch <= edgeThreshold
       /\ lastSwitch <= HostWidth \div 2

(* Control can only come back after the pointer has crossed the whole span *)
(* between the left and the right band: two switches of update are at      *)
(* least MinTravel pixels apart, however the pointer jumped in between and *)
(* whatever the threshold is.                                              *)
SwitchesFarApart ==
  [][state' # state /\ lastSwitch # NoSwitch
       => Distance(lastSwitch, lastX') >= MinTravel]_vars
=============================================================================
