----------------------------- MODULE MCRotation -----------------------------
(* Instances of Rotation for TLC.                                          *)
EXTENDS Rotation, TLC

CONSTANTS a, b, c, d, h,  \* configs: a and b share an endpoint, h leaks
          p, q            \* drop handlers

\* Two URIs of one server (a, b) as two protocols of it would be; h is an
\* alias of a protocol that has no xray outbound.
SchemeTable   == a :> "vless" @@ b :> "socks4" @@ c :> "trojan" @@ d :> "ss" @@ h :> "hy2"
EndpointTable == a :> "s1" @@ b :> "s1" @@ c :> "s2" @@ d :> "s3" @@ h :> "s4"

MCSchemeOf   == [x \in Configs |-> SchemeTable[x]]
MCEndpointOf == [x \in Configs |-> EndpointTable[x]]

\* A failed fetch, or a subscription in this order.
OneEndpointTwice == {<<>>, <<a, b, c, d>>}
LeakFirst        == {<<h, a, c>>}
OneConfig        == {<<a>>}
EveryFetch       == {<<>>, <<a, c>>}

DropperSymmetry == Permutations(Droppers)
=============================================================================
