----------------------------- MODULE MCSpeedTest -----------------------------
(* Instances of SpeedTest for TLC: the rotation loop and one drop handler. *)
EXTENDS SpeedTest, TLC

CONSTANTS main, drop, steady, churny

\* The loop's first and second test of a cycle, and the only port of a drop.
MCPortsOf == main :> {0, 1} @@ drop :> {0}
MCExitsOf == steady :> {"ip1"} @@ churny :> {"ip2", "ip3"}
=============================================================================
