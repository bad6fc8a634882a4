----------------------------- MODULE MCAnyHost -----------------------------
(* One channel from the controller to an arbitrary host: two packets in     *)
(* flight, the WhoAmI and a request before or after it.                     *)
EXTENDS AnyPeer, IcaQueries

CONSTANTS c1, a1, a2, alice, cap, id1

MCChannels == {c1}
MCAddrs == {a1, a2}
MCSenders == {alice, cap}
MCQueryLists == {<<a1>>}
=============================================================================
