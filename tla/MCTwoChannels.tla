--------------------------- MODULE MCTwoChannels ---------------------------
(* Two channels between the same two contracts, clocks stopped: handshakes, *)
(* dispatches, balance checks, closes and late answers on one channel       *)
(* interleaved with those on the other.                                     *)
EXTENDS IcaRefinement, IcaReaders, TLC

CONSTANTS c1, c2, a1, a2, alice, cap

MCChannels == {c1, c2}
MCAddrs == {a1, a2}
MCSenders == {alice, cap}
MCBatches == {[count |-> 1, total |-> 1], [count |-> 2, total |-> 2]}

Symmetry == Permutations(MCChannels) \cup Permutations(MCAddrs)
=============================================================================
