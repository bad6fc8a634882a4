---------------------------- MODULE MCHostBatch ----------------------------
(* One channel and the calls of the host contract one by one, with two      *)
(* dispatches in flight whose batches may fail at any message.              *)
EXTENDS HostTx

CONSTANTS c1, a1, alice, cap

MCChannels == {c1}
MCAddrs == {a1}
MCSenders == {alice, cap}
MCBatches == {[count |-> 0, total |-> 0], [count |-> 1, total |-> 1], [count |-> 2, total |-> 2]}
=============================================================================
