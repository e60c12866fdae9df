----------------------------- MODULE MCSameness -----------------------------
(* Instances of Sameness for TLC.                                          *)
EXTENDS Sameness

(* A 10 pixel host screen with a threshold of 2: off the screen, the left  *)
(* band, the right band, and a second screen on the right, at no edge.     *)
EdgePositions == {-1, 1, 9, 18}

(* Positions on the host's own screen.                                     *)
ScreenPositions == {1, 3, 5, 9}

FewPositions == {1, 5, 9}

(* Key codes: VC_UNDEFINED, VC_A and VC_ENTER.                             *)
OneKey == {30}
TwoKeys == {28, 30}
OddKeys == {0, 30}
NoKeys == {}

NoButtons == {}
LeftOnly == {1}
LeftAndRight == {1, 2}
=============================================================================
