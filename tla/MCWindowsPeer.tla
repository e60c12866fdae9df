--------------------------- MODULE MCWindowsPeer ---------------------------
(* Instances of WindowsPeer for TLC.                                       *)
EXTENDS WindowsPeer

(* The left band, the middle and the right band of a 10 pixel screen with  *)
(* a threshold of 2.                                                       *)
ThreePositions == {1, 5, 9}
=============================================================================
