-------------------------------- MODULE Ibc --------------------------------
(***************************************************************************)
(* The IBC core of the two chains, as far as the contracts rely on it.     *)
(* It is not code of this repository: what is stated here is what the      *)
(* entry points in contracts/*/src assume of their caller, following the   *)
(* ICS-04 channel rules.                                                   *)
(*                                                                         *)
(* A relayer proves to one chain a fact about the state of the other at    *)
(* some earlier height.  So each end keeps the SET of states it has been   *)
(* in, and a proof that the counterparty "is" in a state only shows that   *)
(* the state belongs to that set.                                          *)
(***************************************************************************)
EXTENDS SimpleIca

CONSTANTS
    MaxSends,   \* bound: packets users send on one channel
    MaxTime     \* bound: last block time of either chain

VARIABLES
    ctrlEnd,        \* the channel's end on the controller chain
    hostEnd,        \* the channel's end on the host chain
    nextSeq,        \* next sequence number to send, per channel
    commitments,    \* packets sent and neither acknowledged nor timed out
    acks,           \* receipts on the host chain with the acknowledgement written
    ctrlTime,       \* block time on the controller chain
    hostTime        \* block time on the host chain

ibcVars == <<ctrlEnd, hostEnd, nextSeq, commitments, acks, ctrlTime, hostTime>>

ASSUME BoundAssumption == MaxSends \in Nat /\ MaxTime \in Nat

EndStates == {"INIT", "TRYOPEN", "OPEN", "CLOSED"}

ChannelEnd == [states : SUBSET EndStates,
               order : Orders \cup {None}, version : Versions \cup {None}]

Packet == [chan : Channels, seq : Nat, data : PacketMsg, timeout : Nat]

IbcTypeOK ==
    /\ ctrlEnd \in [Channels -> ChannelEnd]
    /\ hostEnd \in [Channels -> ChannelEnd]
    /\ nextSeq \in [Channels -> Nat]
    /\ commitments \subseteq Packet
    /\ acks \subseteq [packet : Packet, ack : StdAck]
    /\ ctrlTime \in Nat
    /\ hostTime \in Nat

IbcInit ==
    /\ ctrlEnd = [c \in Channels |-> [states |-> {}, order |-> None, version |-> None]]
    /\ hostEnd = [c \in Channels |-> [states |-> {}, order |-> None, version |-> None]]
    /\ nextSeq = [c \in Channels |-> 1]
    /\ commitments = {}
    /\ acks = {}
    /\ ctrlTime = 1
    /\ hostTime = 1

-----------------------------------------------------------------------------
(* Channel ends.                                                           *)

Reached(end, state) == state \in end.states

IsOpen(end) == Reached(end, "OPEN") /\ ~Reached(end, "CLOSED")

Closable(end) == end.states # {} /\ ~Reached(end, "CLOSED")

NewEnd(state, order, version) ==
    [states |-> {state}, order |-> order, version |-> version]

Enter(end, state) == [end EXCEPT !.states = @ \cup {state}]

-----------------------------------------------------------------------------
(* Packets.  A packet may be sent as soon as the counterparty is known:    *)
(* ICS-04 only refuses the end that is closed.                             *)

CanSend(c) ==
    /\ Reached(ctrlEnd[c], "TRYOPEN") \/ Reached(ctrlEnd[c], "OPEN")
    /\ ~Reached(ctrlEnd[c], "CLOSED")

SendPacket(c, data, timeout) ==
    /\ commitments' = commitments \cup
           {[chan |-> c, seq |-> nextSeq[c], data |-> data, timeout |-> timeout]}
    /\ nextSeq' = [nextSeq EXCEPT ![c] = @ + 1]

Received(p) == \E w \in acks : w.packet = p

CanReceive(p) ==
    /\ p \in commitments
    /\ ~Received(p)
    /\ IsOpen(hostEnd[p.chan])
    /\ hostTime < p.timeout

WriteAck(p, ack) == acks' = acks \cup {[packet |-> p, ack |-> ack]}

CanAcknowledge(w) ==
    /\ w \in acks
    /\ w.packet \in commitments
    /\ IsOpen(ctrlEnd[w.packet.chan])

(* MsgTimeout, and MsgTimeoutOnClose when the other end is closed.         *)
CanTimeout(p) ==
    /\ p \in commitments
    /\ ~Received(p)
    /\ hostTime >= p.timeout \/ Reached(hostEnd[p.chan], "CLOSED")

DeleteCommitment(p) == commitments' = commitments \ {p}
=============================================================================
