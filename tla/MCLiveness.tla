----------------------------- MODULE MCLiveness -----------------------------
(* One channel under a fair relayer: what must eventually happen to a      *)
(* packet, to a channel half closed, and to a controller newly connected.  *)
EXTENDS IcaProperties

CONSTANTS c1, a1, alice, cap, id1

MCChannels == {c1}
MCAddrs == {a1}
MCSenders == {alice, cap}
MCBatches == {[count |-> 2, total |-> 1]}
MCQueryLists == {<<BadQuery>>}
=============================================================================
