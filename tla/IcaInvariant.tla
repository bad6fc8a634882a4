---------------------------- MODULE IcaInvariant ----------------------------
(***************************************************************************)
(* An inductive invariant of the system.  Its core is that the reflect     *)
(* account created for a channel is its only one, ever; everything either  *)
(* contract or an answer says about an account is pinned to its owner.     *)
(***************************************************************************)
EXTENDS IcaProperties

(* What an answer carries is determined by the packet it answers.          *)
AckTyped ==
    \A w \in acks : IsSuccess(w.ack) =>
        /\ w.packet.data.type = "who_am_i" => w.ack.data \in WhoAmIResponse
        /\ w.packet.data.type = "balances" => w.ack.data \in BalancesResponse

TypeInv == TypeOK /\ AckTyped

(* A channel has at most one instance made for it.                         *)
OneInstance ==
    \A a, b \in Addrs : owner[a] # None /\ owner[a] = owner[b] => a = b

(* An instance is made when the host's end opens, and not before.          *)
InstanceOpened ==
    \A a \in Addrs : owner[a] # None => Reached(hostEnd[owner[a]], "OPEN")

(* What the host lists was made for the channel it is listed under.        *)
HostOwned ==
    \A c \in Channels : hostAccounts[c] # None => owner[hostAccounts[c]] = c

(* So was what the controller lists,                                       *)
RemoteOwned ==
    \A c \in Channels :
        ctrlAccounts[c] # None /\ ctrlAccounts[c].remote_addr # None
            => owner[ctrlAccounts[c].remote_addr] = c

(* and what an answer names, delivered or not.                             *)
AnswerOwned ==
    \A w \in acks :
        IsSuccess(w.ack) /\ w.packet.data.type \in {"who_am_i", "balances"}
            => owner[w.ack.data.account] = w.packet.chan

(* The invariant that the proofs carry from step to step.                  *)
IInv ==
    /\ TypeInv
    /\ RegisteredIffOpen
    /\ OneInstance
    /\ InstanceOpened
    /\ HostOwned
    /\ RemoteOwned
    /\ AnswerOwned
=============================================================================
