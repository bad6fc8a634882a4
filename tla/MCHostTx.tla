------------------------------ MODULE MCHostTx ------------------------------
(* Two channels and the calls of the host contract one by one: handshakes,  *)
(* dispatches and closes of one channel between those of the other.         *)
EXTENDS HostTx, TLC

CONSTANTS c1, c2, a1, a2, alice, cap

MCChannels == {c1, c2}
MCAddrs == {a1, a2}
MCSenders == {alice, cap}
MCBatches == {[count |-> 1, total |-> 1]}

Symmetry == Permutations(MCChannels) \cup Permutations(MCAddrs)
=============================================================================
