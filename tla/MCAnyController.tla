-------------------------- MODULE MCAnyController --------------------------
(* Two channels to the host from arbitrary controllers.                     *)
EXTENDS AnyPeer

CONSTANTS c1, c2, a1, a2, alice, cap

MCChannels == {c1, c2}
MCAddrs == {a1, a2}
MCSenders == {alice, cap}
MCBatches == {[count |-> 1, total |-> 1]}
=============================================================================
