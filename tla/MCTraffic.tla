------------------------------ MODULE MCTraffic ------------------------------
(* Instances of Traffic for TLC: what a config is plays no role here.      *)
EXTENDS Traffic

MCSchemeOf   == [x \in Configs |-> "vless"]
MCEndpointOf == [x \in Configs |-> x]
=============================================================================
