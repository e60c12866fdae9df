------------------------------- MODULE MCEcho -------------------------------
(* Instances of Echo for TLC.                                              *)
EXTENDS Echo, TLC

CONSTANTS a, b

Same(v) == a :> v @@ b :> v
Mutual == a :> b @@ b :> a
Loopback == a :> a @@ b :> b

UnequalWidths == a :> 10 @@ b :> 14

Setup(peer, platform, n) == [peer |-> peer, platform |-> platform, inputs |-> n]

(* Two machines that share with each other, with each injector on one, and *)
(* machines that share with themselves.  With Windows, where keys multiply, *)
(* the users make one event fewer.                                         *)
SomeSetups ==
  {Setup(Mutual, Same("macOS"), 4),
   Setup(Mutual, a :> "macOS" @@ b :> "uiohook", 4),
   Setup(Mutual, a :> "macOS" @@ b :> "Windows", 3),
   Setup(Loopback, a :> "macOS" @@ b :> "uiohook", 4),
   Setup(Loopback, a :> "macOS" @@ b :> "Windows", 3)}

(* The left band, the middle and the right band, with a threshold of 2.    *)
ThreePositions == Same({1, 5, 13})
=============================================================================
