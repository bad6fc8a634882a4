------------------------------ MODULE AnyPeer ------------------------------
(***************************************************************************)
(* Each contract against a counterparty that is not the other contract.    *)
(* Anyone may open a channel to a contract from any port of any chain: the *)
(* IBC core behind that port keeps the ICS-04 rules, but the code answers  *)
(* and sends what it likes, and takes any version.                         *)
(*                                                                         *)
(* Only what the contract can parse is considered: for the rest its        *)
(* handlers return an error and its state stays as it is.                  *)
(***************************************************************************)
EXTENDS IcaProperties

(* Where a peer's end may go next, given the contract's.                   *)
NextEnds(end, other) ==
    {e \in {NewEnd("INIT", o, v) : o \in Orders, v \in Versions} :
        end.states = {} /\ other.states = {}}
    \cup {e \in {NewEnd("TRYOPEN", other.order, v) : v \in Versions} :
        end.states = {} /\ Reached(other, "INIT")}
    \cup {e \in {OpenedAs(end, other.version)} :
        end.states = {"INIT"} /\ Reached(other, "TRYOPEN")}
    \cup {e \in {Enter(end, "OPEN")} :
        end.states = {"TRYOPEN"} /\ Reached(other, "OPEN")}
    \cup {e \in {Enter(end, "CLOSED")} : Closable(end)}

-----------------------------------------------------------------------------
(* The controller and any host.                                            *)

HostPeerMoves(c) ==
    /\ \E end \in NextEnds(hostEnd[c], ctrlEnd[c]) :
          hostEnd' = [hostEnd EXCEPT ![c] = end]
    /\ UNCHANGED <<ctrlEnd, nextSeq, commitments, acks, ctrlTime, hostTime>>
    /\ UNCHANGED <<controllerVars, hostVars>>

(* Any address and any balance, whatever was said before.                  *)
PeerAnswers(type) ==
    LET responses ==
          CASE type = "who_am_i" -> {[account |-> a] : a \in Addrs}
            [] type = "balances" ->
                 {[account |-> a, balances |-> n] : a \in Addrs, n \in 0 .. MaxBalance}
            [] OTHER -> {[results |-> <<>>], [results |-> <<Empty>>]}
    IN  {Fail} \cup {Success(r) : r \in responses}

HostPeerAnswers(p) ==
    /\ CanReceive(p)
    /\ \E ack \in PeerAnswers(p.data.type) : WriteAck(p, ack)
    /\ UNCHANGED <<ctrlEnd, hostEnd, nextSeq, commitments, ctrlTime, hostTime>>
    /\ UNCHANGED <<controllerVars, hostVars>>

AnyHostNext ==
    \/ CtrlChainNext
    \/ \E c \in Channels : HostPeerMoves(c)
    \/ \E p \in commitments : HostPeerAnswers(p)
    \/ HostTick

AnyHostSpec == Init /\ [][AnyHostNext]_vars

-----------------------------------------------------------------------------
(* The host and any controllers.                                           *)

CtrlPeerMoves(c) ==
    /\ \E end \in NextEnds(ctrlEnd[c], hostEnd[c]) :
          ctrlEnd' = [ctrlEnd EXCEPT ![c] = end]
    /\ UNCHANGED <<hostEnd, nextSeq, commitments, acks, ctrlTime, hostTime>>
    /\ UNCHANGED <<controllerVars, hostVars>>

(* No admin and no account is asked.                                       *)
CtrlPeerSends(c, data) ==
    /\ CanSend(c)
    /\ MayStillSend(c)
    /\ SendPacket(c, data, Timeout)
    /\ SentOnly
    /\ UNCHANGED ctrlVars

(* An answer is taken, or a timeout, without consequence.                  *)
CtrlPeerSettles(p) ==
    /\ CanTimeout(p) \/ \E w \in acks : w.packet = p /\ CanAcknowledge(w)
    /\ DeleteCommitment(p)
    /\ UNCHANGED <<ctrlEnd, hostEnd, nextSeq, acks, ctrlTime, hostTime>>
    /\ UNCHANGED <<controllerVars, hostVars>>

AnyControllerNext ==
    \/ HostChainNext
    \/ \E a \in Addrs, amount \in 1 .. MaxBalance : DepositTo(a, amount)
    \/ \E c \in Channels : CtrlPeerMoves(c)
    \/ \E c \in Channels, data \in PacketMsg : CtrlPeerSends(c, data)
    \/ \E p \in commitments : CtrlPeerSettles(p)

AnyControllerSpec == Init /\ [][AnyControllerNext]_vars

-----------------------------------------------------------------------------
(* Whoever is at the other end of which channel, an account belongs to one *)
(* channel only and is listed there while the end is open.                 *)
AccountsApart ==
    \A c \in Channels :
        /\ hostAccounts[c] # None <=> IsOpen(hostEnd[c])
        /\ hostAccounts[c] # None => owner[hostAccounts[c]] = c
        /\ \A a, b \in Addrs : owner[a] = c /\ owner[b] = c => a = b

(* contracts/simple-ica-controller/src/ibc.rs:23, of ibc_channel_open:     *)
(* "enforces ordering and versioing constraints".                          *)
VersionEnforced ==
    \A c \in Channels :
        Reached(ctrlEnd[c], "OPEN") =>
            ctrlEnd[c].order = APP_ORDER /\ ctrlEnd[c].version = IBC_APP_VERSION
=============================================================================
