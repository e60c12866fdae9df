---------------------- MODULE ScreenEdgeSwitcherProofs ----------------------
(***************************************************************************)
(* Proofs about ScreenEdgeSwitcher, for every screen width, threshold,     *)
(* hysteresis and set of pointer positions.                                *)
(***************************************************************************)
EXTENDS ScreenEdgeSwitcher, TLAPS

(* The type invariant of the switcher.                                     *)
THEOREM TypeCorrect == Spec => []TypeOK
<1>1. Init => TypeOK
  <2> SUFFICES ASSUME Init PROVE TypeOK
    OBVIOUS
  <2>1. state \in ControlState /\ configured \in BOOLEAN
    BY Zenon DEF Init, ControlState
  <2>2. edgeThreshold \in Thresholds \cup {DefaultThreshold} /\ lastX \in Nat
    BY DEF Init
  <2>3. lastSwitch \in Positions \cup {NoSwitch}
    BY DEF Init
  <2>4. QED
    BY <2>1, <2>2, <2>3 DEF TypeOK
<1>2. TypeOK /\ [Next]_vars => TypeOK'
  <2> SUFFICES ASSUME TypeOK, [Next]_vars PROVE TypeOK'
    OBVIOUS
  <2>1. ASSUME NEW threshold \in Thresholds, SetEdgeThreshold(threshold)
        PROVE  TypeOK'
    BY <2>1, SwitcherAssumption DEF SetEdgeThreshold, TypeOK
  <2>2. ASSUME NEW x \in Positions, Update(x) PROVE TypeOK'
    BY <2>2, SwitcherAssumption
    DEF Update, NewState, TypeOK, ControlState
  <2>3. CASE UNCHANGED vars
    BY <2>3 DEF vars, TypeOK
  <2>4. QED
    BY <2>1, <2>2, <2>3 DEF Next
<1>3. QED
  BY <1>1, <1>2, PTL DEF Spec

(* No switch precedes the call of setEdgeThreshold, which would otherwise  *)
(* move the edges under it: with this ControlTakenAtEdge is inductive.     *)
SwitchInv ==
  /\ ControlTakenAtEdge
  /\ ~configured => state = "HOST" /\ lastSwitch = NoSwitch

(* If update gives control to the client, the pointer is in the right half *)
(* and as far right as the right band begins, even if it is the left band  *)
(* that it is in; and not beyond the limits of both.                       *)
LEMMA ToClientAtRightEdge ==
  ASSUME NEW x \in Nat, NEW t \in Int, NewState("HOST", t, x) = "CLIENT"
  PROVE  /\ x > HostWidth \div 2
         /\ x >= HostWidth - t
         /\ x <= HostWidth + Hysteresis \/ x <= t
<1>1. x > HostWidth \div 2 /\ (AtRightEdge(t, x) \/ AtLeftEdge(t, x))
  BY DEF NewState
<1>2. CASE AtRightEdge(t, x)
  BY <1>1, <1>2 DEF AtRightEdge
<1>3. CASE AtLeftEdge(t, x)
  <2>1. x <= t /\ x > HostWidth \div 2
    BY <1>1, <1>3 DEF AtLeftEdge
  <2>2. 2 * x > HostWidth
    BY <2>1, SwitcherAssumption
  <2>3. QED
    BY <2>1, <2>2, SwitcherAssumption
<1>4. QED
  BY <1>1, <1>2, <1>3

(* If update gives control back to the host, the pointer is in the left    *)
(* band and in the left half.                                              *)
LEMMA ToHostAtLeftEdge ==
  ASSUME NEW x \in Nat, NEW t \in Int, NewState("CLIENT", t, x) = "HOST"
  PROVE  x <= t /\ x <= HostWidth \div 2
<1>1. x <= HostWidth \div 2 /\ (AtRightEdge(t, x) \/ AtLeftEdge(t, x))
  BY SwitcherAssumption DEF NewState
<1>2. CASE AtLeftEdge(t, x)
  BY <1>1, <1>2 DEF AtLeftEdge
<1>3. CASE AtRightEdge(t, x)
  <2>1. x >= HostWidth - t /\ x <= HostWidth \div 2
    BY <1>1, <1>3 DEF AtRightEdge
  <2>2. 2 * x <= HostWidth
    BY <2>1, SwitcherAssumption
  <2>3. QED
    BY <2>1, <2>2, SwitcherAssumption
<1>4. QED
  BY <1>1, <1>2, <1>3

(* A call of update preserves the invariant.                               *)
LEMMA UpdateKeepsSwitchInv ==
  ASSUME TypeOK, SwitchInv, NEW x \in Positions, Update(x)
  PROVE  SwitchInv'
<1> USE SwitcherAssumption
<1>1. x \in Nat /\ edgeThreshold \in Int /\ configured
  BY DEF Update, TypeOK, DefaultThreshold
<1>2. state \in {"HOST", "CLIENT"} /\ state' = NewState(state, edgeThreshold, x)
  BY <1>1 DEF Update, TypeOK, ControlState
<1>3. state' \in {"HOST", "CLIENT"}
  BY <1>2 DEF NewState
<1>4. configured' /\ edgeThreshold' = edgeThreshold
  BY <1>1 DEF Update
<1>5. CASE state' = state
  BY <1>4, <1>5 DEF Update, SwitchInv, ControlTakenAtEdge
<1>6. CASE state' # state
  <2>1. lastSwitch' = x /\ x # NoSwitch
    BY <1>1, <1>6 DEF Update, NoSwitch
  <2>2. CASE state' = "CLIENT"
    <3>1. /\ x > HostWidth \div 2
          /\ x >= HostWidth - edgeThreshold
          /\ x <= HostWidth + Hysteresis \/ x <= edgeThreshold
      BY <1>1, <1>2, <1>6, <2>2, ToClientAtRightEdge
    <3>2. QED
      BY <1>4, <2>1, <2>2, <3>1 DEF SwitchInv, ControlTakenAtEdge
  <2>3. CASE state' = "HOST"
    <3>1. x <= edgeThreshold /\ x <= HostWidth \div 2
      BY <1>1, <1>2, <1>6, <2>3, ToHostAtLeftEdge
    <3>2. QED
      BY <1>4, <2>1, <2>3, <3>1 DEF SwitchInv, ControlTakenAtEdge
  <2>4. QED
    BY <1>3, <2>2, <2>3
<1>7. QED
  BY <1>5, <1>6

(* SwitchInv is an invariant of the switcher.                              *)
THEOREM SwitchInvariant == Spec => []SwitchInv
<1>1. Init => SwitchInv
  BY DEF Init, SwitchInv, ControlTakenAtEdge
<1>2. TypeOK /\ SwitchInv /\ [Next]_vars => SwitchInv'
  <2> SUFFICES ASSUME TypeOK, SwitchInv, [Next]_vars PROVE SwitchInv'
    OBVIOUS
  <2>1. ASSUME NEW threshold \in Thresholds, SetEdgeThreshold(threshold)
        PROVE  SwitchInv'
    BY <2>1 DEF SetEdgeThreshold, SwitchInv, ControlTakenAtEdge
  <2>2. ASSUME NEW x \in Positions, Update(x) PROVE SwitchInv'
    BY <2>2, UpdateKeepsSwitchInv
  <2>3. CASE UNCHANGED vars
    BY <2>3 DEF vars, SwitchInv, ControlTakenAtEdge
  <2>4. QED
    BY <2>1, <2>2, <2>3 DEF Next
<1>3. QED
  BY <1>1, <1>2, TypeCorrect, PTL DEF Spec

(* Control was taken at the edge that is meant: on the way to the client   *)
(* in the right band, up to its limit beyond the screen (or, if the        *)
(* threshold is larger still, up to that), on the way back in the left.    *)
THEOREM TakenAtEdge == Spec => []ControlTakenAtEdge
<1>1. SwitchInv => ControlTakenAtEdge
  BY DEF SwitchInv
<1>2. QED
  BY <1>1, SwitchInvariant, PTL

(* Two switches are at least MinTravel pixels apart: the last one was at   *)
(* one edge by SwitchInv, this one is at the other edge by SwitchInv'.     *)
THEOREM FarApart == Spec => SwitchesFarApart
<1>1. TypeOK /\ SwitchInv /\ SwitchInv' /\ TypeOK' /\ [Next]_vars
      => [state' # state /\ lastSwitch # NoSwitch
            => Distance(lastSwitch, lastX') >= MinTravel]_vars
  <2> SUFFICES ASSUME TypeOK, SwitchInv, SwitchInv', TypeOK', Next,
                      state' # state, lastSwitch # NoSwitch
               PROVE  Distance(lastSwitch, lastX') >= MinTravel
    OBVIOUS
  <2> USE SwitcherAssumption
  <2>1. PICK x \in Positions : Update(x)
    BY DEF Next, SetEdgeThreshold
  <2>2. /\ lastX' = x /\ lastSwitch' = x /\ x \in Nat /\ x # NoSwitch
        /\ edgeThreshold' = edgeThreshold
    BY <2>1 DEF Update, NoSwitch
  <2>3. lastSwitch \in Nat /\ edgeThreshold \in Int
    BY DEF TypeOK, DefaultThreshold
  <2>4. CASE state = "HOST"
    <3>1. state' = "CLIENT"
      BY <2>4 DEF TypeOK, ControlState
    <3>2. lastSwitch <= edgeThreshold /\ lastSwitch <= HostWidth \div 2
      BY <2>4 DEF SwitchInv, ControlTakenAtEdge
    <3>3. x >= HostWidth - edgeThreshold /\ x > HostWidth \div 2
      BY <2>2, <3>1 DEF SwitchInv, ControlTakenAtEdge
    <3>4. QED
      BY <2>2, <2>3, <3>2, <3>3 DEF Distance, MinTravel
  <2>5. CASE state = "CLIENT"
    <3>1. state' = "HOST"
      BY <2>5 DEF TypeOK, ControlState
    <3>2. lastSwitch >= HostWidth - edgeThreshold /\ lastSwitch > HostWidth \div 2
      BY <2>5 DEF SwitchInv, ControlTakenAtEdge
    <3>3. x <= edgeThreshold /\ x <= HostWidth \div 2
      BY <2>2, <3>1 DEF SwitchInv, ControlTakenAtEdge
    <3>4. QED
      BY <2>2, <2>3, <3>2, <3>3 DEF Distance, MinTravel
  <2>6. QED
    BY <2>4, <2>5 DEF TypeOK, ControlState
<1>2. QED
  BY <1>1, TypeCorrect, SwitchInvariant, PTL DEF Spec, SwitchesFarApart

=============================================================================
