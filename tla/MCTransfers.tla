---------------------------- MODULE MCTransfers ----------------------------
(* One channel: two transfers that arrive, are refused or time out, with    *)
(* dispatches that spend what has arrived, and closes in between.           *)
EXTENDS TransferProperties

CONSTANTS c1, a1, a2, alice, cap

MCChannels == {c1}
MCAddrs == {a1, a2}
MCSenders == {alice, cap}
MCBatches == {[count |-> 1, total |-> 1], [count |-> 2, total |-> 2]}
=============================================================================
