----------------------------- MODULE IcaSystem -----------------------------
(***************************************************************************)
(* The whole: a controller and a capturer on one chain, a host and its     *)
(* reflect accounts on another, channels between the two contracts, and    *)
(* the environment - users who call the contracts and send coins, relayers *)
(* who carry handshake steps, packets, acknowledgements and timeouts, and  *)
(* two clocks that advance independently.                                  *)
(*                                                                         *)
(* Relayers are not trusted with order: any packet or acknowledgement may  *)
(* be carried next, and a handshake step may rest on a proof of a state    *)
(* that the other chain has already left.                                  *)
(***************************************************************************)
EXTENDS Controller, Host

hostVars == <<hostAccounts, cw1Vars>>
controllerVars == <<ctrlVars, capResults>>
vars == <<ibcVars, controllerVars, hostVars>>

(* Addresses with somebody behind them who calls contracts.                *)
Users == Senders \ {Capturer}

TypeOK ==
    /\ IbcTypeOK
    /\ CtrlTypeOK
    /\ CapTypeOK
    /\ HostTypeOK
    /\ Cw1TypeOK

Init ==
    /\ IbcInit
    /\ CtrlInit
    /\ CapInit
    /\ HostInit
    /\ Cw1Init

-----------------------------------------------------------------------------
(* Handshake started by the controller's end.                              *)

Unused(c) == ctrlEnd[c].states = {} /\ hostEnd[c].states = {}

OpenedAs(end, version) == [Enter(end, "OPEN") EXCEPT !.version = version]

CtrlOpenInit(c, order, version) ==
    /\ Unused(c)
    /\ CtrlChannelOpen(order, version, None)
    /\ ctrlEnd' = [ctrlEnd EXCEPT ![c] = NewEnd("INIT", order, version)]
    /\ UNCHANGED <<hostEnd, nextSeq, commitments, acks, ctrlTime, hostTime>>
    /\ UNCHANGED <<controllerVars, hostVars>>

HostOpenTry(c) ==
    /\ hostEnd[c].states = {}
    /\ Reached(ctrlEnd[c], "INIT")
    /\ HostChannelOpen(ctrlEnd[c].order, ctrlEnd[c].version)
    /\ hostEnd' = [hostEnd EXCEPT ![c] =
           NewEnd("TRYOPEN", ctrlEnd[c].order, IBC_APP_VERSION)]
    /\ UNCHANGED <<ctrlEnd, nextSeq, commitments, acks, ctrlTime, hostTime>>
    /\ UNCHANGED <<controllerVars, hostVars>>

CtrlOpenAck(c) ==
    /\ ctrlEnd[c].states = {"INIT"}
    /\ Reached(hostEnd[c], "TRYOPEN")
    /\ CtrlChannelConnect(c)
    /\ ctrlEnd' = [ctrlEnd EXCEPT ![c] = OpenedAs(@, hostEnd[c].version)]
    /\ UNCHANGED <<hostEnd, acks, ctrlTime, hostTime, capResults, hostVars>>

HostOpenConfirm(c) ==
    /\ hostEnd[c].states = {"TRYOPEN"}
    /\ Reached(ctrlEnd[c], "OPEN")
    /\ HostChannelConnect(c)
    /\ hostEnd' = [hostEnd EXCEPT ![c] = Enter(@, "OPEN")]
    /\ UNCHANGED <<ctrlEnd, nextSeq, commitments, acks, ctrlTime, hostTime>>
    /\ UNCHANGED controllerVars

-----------------------------------------------------------------------------
(* Handshake started by the host's end.                                    *)

HostOpenInit(c, order) ==
    /\ Unused(c)
    /\ HostChannelOpen(order, None)
    /\ hostEnd' = [hostEnd EXCEPT ![c] = NewEnd("INIT", order, IBC_APP_VERSION)]
    /\ UNCHANGED <<ctrlEnd, nextSeq, commitments, acks, ctrlTime, hostTime>>
    /\ UNCHANGED <<controllerVars, hostVars>>

CtrlOpenTry(c) ==
    LET order == hostEnd[c].order
        version == hostEnd[c].version
    IN  /\ ctrlEnd[c].states = {}
        /\ Reached(hostEnd[c], "INIT")
        /\ CtrlChannelOpen(order, version, version)
        /\ ctrlEnd' = [ctrlEnd EXCEPT ![c] = NewEnd("TRYOPEN", order, version)]
        /\ UNCHANGED <<hostEnd, nextSeq, commitments, acks, ctrlTime, hostTime>>
        /\ UNCHANGED <<controllerVars, hostVars>>

HostOpenAck(c) ==
    /\ hostEnd[c].states = {"INIT"}
    /\ Reached(ctrlEnd[c], "TRYOPEN")
    /\ HostChannelConnect(c)
    /\ hostEnd' = [hostEnd EXCEPT ![c] = OpenedAs(@, ctrlEnd[c].version)]
    /\ UNCHANGED <<ctrlEnd, nextSeq, commitments, acks, ctrlTime, hostTime>>
    /\ UNCHANGED controllerVars

CtrlOpenConfirm(c) ==
    /\ ctrlEnd[c].states = {"TRYOPEN"}
    /\ Reached(hostEnd[c], "OPEN")
    /\ CtrlChannelConnect(c)
    /\ ctrlEnd' = [ctrlEnd EXCEPT ![c] = Enter(@, "OPEN")]
    /\ UNCHANGED <<hostEnd, acks, ctrlTime, hostTime, capResults, hostVars>>

-----------------------------------------------------------------------------
(* Closing.  Neither contract refuses MsgChannelCloseInit, which anyone    *)
(* may submit; the confirmation is carried by a relayer and needs an end   *)
(* that knows its counterparty on either side.                             *)

KnowsPeer(end) == Reached(end, "TRYOPEN") \/ Reached(end, "OPEN")

ProvesClosed(end, peer) ==
    /\ KnowsPeer(end)
    /\ KnowsPeer(peer)
    /\ Reached(peer, "CLOSED")

CtrlClose(c) ==
    /\ Closable(ctrlEnd[c])
    /\ CtrlChannelClose(c)
    /\ ctrlEnd' = [ctrlEnd EXCEPT ![c] = Enter(@, "CLOSED")]
    /\ UNCHANGED <<hostEnd, nextSeq, commitments, acks, ctrlTime, hostTime>>
    /\ UNCHANGED <<capResults, hostVars>>

CtrlCloseInit(c) == CtrlClose(c)

CtrlCloseConfirm(c) == ProvesClosed(ctrlEnd[c], hostEnd[c]) /\ CtrlClose(c)

HostClose(c) ==
    /\ Closable(hostEnd[c])
    /\ HostChannelClose(c)
    /\ hostEnd' = [hostEnd EXCEPT ![c] = Enter(@, "CLOSED")]
    /\ UNCHANGED <<ctrlEnd, nextSeq, commitments, acks, ctrlTime, hostTime>>
    /\ UNCHANGED controllerVars

HostCloseInit(c) == HostClose(c)

HostCloseConfirm(c) == ProvesClosed(hostEnd[c], ctrlEnd[c]) /\ HostClose(c)

-----------------------------------------------------------------------------
(* Calls by users, straight to the controller or through the capturer,     *)
(* which forwards them under its own address and always with an id.        *)

MayStillSend(c) == nextSeq[c] <= MaxSends

SentOnly ==
    UNCHANGED <<ctrlEnd, hostEnd, acks, ctrlTime, hostTime, capResults, hostVars>>

UpdateAdmin(user, newAdmin) ==
    /\ ExecuteUpdateAdmin(user, newAdmin)
    /\ UNCHANGED <<ibcVars, capResults, hostVars>>

SendMsgs(user, c, batch, id) ==
    /\ MayStillSend(c)
    /\ ExecuteSendMsgs(user, c, batch, id)
    /\ SentOnly

SendQuery(user, c, queries, id) ==
    /\ MayStillSend(c)
    /\ ExecuteIbcQuery(user, c, queries, id)
    /\ SentOnly

CheckRemoteBalance(user, c) ==
    /\ MayStillSend(c)
    /\ ExecuteCheckRemoteBalance(user, c)
    /\ SentOnly

CapturerSendMsgs(user, c, batch, id) ==
    CapAuthorized(user) /\ SendMsgs(Capturer, c, batch, id)

CapturerSendQuery(user, c, queries, id) ==
    CapAuthorized(user) /\ SendQuery(Capturer, c, queries, id)

CapturerCheckRemoteBalance(user, c) ==
    CapAuthorized(user) /\ CheckRemoteBalance(Capturer, c)

-----------------------------------------------------------------------------
(* Relayed packets, acknowledgements and timeouts.                         *)

RecvPacket(p) ==
    /\ CanReceive(p)
    /\ HostPacketReceive(p)
    /\ UNCHANGED <<ctrlEnd, hostEnd, nextSeq, commitments, ctrlTime, hostTime>>
    /\ UNCHANGED controllerVars

AckPacket(w) ==
    /\ CanAcknowledge(w)
    /\ IbcPacketAck(w.packet, w.ack)
    /\ DeleteCommitment(w.packet)
    /\ UNCHANGED <<ctrlEnd, hostEnd, nextSeq, acks, ctrlTime, hostTime, hostVars>>

TimeoutPacket(p) ==
    /\ CanTimeout(p)
    /\ IbcPacketTimeout
    /\ DeleteCommitment(p)
    /\ UNCHANGED <<ctrlEnd, hostEnd, nextSeq, acks, ctrlTime, hostTime, hostVars>>

-----------------------------------------------------------------------------
(* The rest of the environment.                                            *)

DepositTo(a, amount) ==
    /\ Deposit(a, amount)
    /\ UNCHANGED <<ibcVars, controllerVars, hostAccounts>>

CtrlTick ==
    /\ ctrlTime < MaxTime
    /\ ctrlTime' = ctrlTime + 1
    /\ UNCHANGED <<ctrlEnd, hostEnd, nextSeq, commitments, acks, hostTime>>
    /\ UNCHANGED <<controllerVars, hostVars>>

(* Late enough for every packet to time out.                               *)
HostTick ==
    /\ hostTime < MaxTime + PacketLifetime
    /\ hostTime' = hostTime + 1
    /\ UNCHANGED <<ctrlEnd, hostEnd, nextSeq, commitments, acks, ctrlTime>>
    /\ UNCHANGED <<controllerVars, hostVars>>

CtrlHandshake(c) == CtrlOpenTry(c) \/ CtrlOpenAck(c) \/ CtrlOpenConfirm(c)

HostHandshake(c) == HostOpenTry(c) \/ HostOpenAck(c) \/ HostOpenConfirm(c)

Call(user, c) ==
    \/ \E b \in Batches, id \in CallbackId : SendMsgs(user, c, b, id)
    \/ \E q \in QueryLists, id \in CallbackId : SendQuery(user, c, q, id)
    \/ CheckRemoteBalance(user, c)
    \/ \E b \in Batches, id \in CallbackIds : CapturerSendMsgs(user, c, b, id)
    \/ \E q \in QueryLists, id \in CallbackIds : CapturerSendQuery(user, c, q, id)
    \/ CapturerCheckRemoteBalance(user, c)

(* What happens on each of the two chains.                                 *)
CtrlChainNext ==
    \/ \E c \in Channels, o \in Orders, v \in Versions : CtrlOpenInit(c, o, v)
    \/ \E c \in Channels : CtrlHandshake(c) \/ CtrlCloseInit(c) \/ CtrlCloseConfirm(c)
    \/ \E user \in Users, a \in Senders : UpdateAdmin(user, a)
    \/ \E user \in Users, c \in Channels : Call(user, c)
    \/ \E w \in acks : AckPacket(w)
    \/ \E p \in commitments : TimeoutPacket(p)
    \/ CtrlTick

HostChainNext ==
    \/ \E c \in Channels, o \in Orders : HostOpenInit(c, o)
    \/ \E c \in Channels : HostHandshake(c) \/ HostCloseInit(c) \/ HostCloseConfirm(c)
    \/ \E p \in commitments : RecvPacket(p)
    \/ HostTick

Next ==
    \/ CtrlChainNext
    \/ HostChainNext
    \/ \E a \in Addrs, amount \in 1 .. MaxBalance : DepositTo(a, amount)

Spec == Init /\ [][Next]_vars

-----------------------------------------------------------------------------
(* A relayer serves every channel: it completes handshakes, confirms       *)
(* closes, and delivers what it can, packet by packet.  Time passes on the *)
(* host chain.  Nothing is assumed of users.                               *)

SentAs(p, c, n) == p.chan = c /\ p.seq = n

Seqs == 1 .. MaxSends + 1

RelayPacket(c, n) == \E p \in commitments : SentAs(p, c, n) /\ RecvPacket(p)

RelayAck(c, n) == \E w \in acks : SentAs(w.packet, c, n) /\ AckPacket(w)

RelayTimeout(c, n) == \E p \in commitments : SentAs(p, c, n) /\ TimeoutPacket(p)

Fairness ==
    /\ WF_vars(HostTick)
    /\ \A c \in Channels :
        /\ WF_vars(CtrlHandshake(c) \/ HostHandshake(c))
        /\ WF_vars(CtrlCloseConfirm(c))
        /\ WF_vars(HostCloseConfirm(c))
        /\ \A n \in Seqs :
            /\ WF_vars(RelayPacket(c, n))
            /\ WF_vars(RelayAck(c, n))
            /\ WF_vars(RelayTimeout(c, n))

FairSpec == Spec /\ Fairness
=============================================================================
