------------------------ MODULE MCScreenEdgeSwitcher ------------------------
(* Instances of ScreenEdgeSwitcher for TLC.                                *)
EXTENDS ScreenEdgeSwitcher

(* Every position of a 41 pixel screen, and some to its right: 46 is the   *)
(* last one in the right band, and beyond is a second screen.              *)
EveryPosition == 0 .. 50

(* The constructor's threshold stays, bands with a gap, bands that meet in *)
(* the middle, bands that overlap and cover the screen, no bands.          *)
SomeThresholds == {-3, 0, 4, 20, 21, 30, 60}
=============================================================================
