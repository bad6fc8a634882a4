---------------------------- MODULE MCOneChannel ----------------------------
(* One channel with everything on it: several requests in flight, callbacks *)
(* to the capturer and to a user who cannot take them, queries that fail,   *)
(* batches that fail, deadlines that pass, and the admin changing.          *)
EXTENDS IcaRefinement

CONSTANTS c1, a1, alice, cap, id1

MCChannels == {c1}
MCAddrs == {a1}
MCSenders == {alice, cap}
MCBatches == {[count |-> 2, total |-> 1]}
MCQueryLists == {<<a1>>, <<a1, BadQuery>>}
=============================================================================
