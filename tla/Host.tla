------------------------------- MODULE Host -------------------------------
(***************************************************************************)
(* contracts/simple-ica-host: the side that acts.  It keeps one reflect    *)
(* account per channel, created when the channel connects, and runs what   *)
(* arrives on a channel through the account of that channel.               *)
(*                                                                         *)
(* Each operator is one entry point together with the submessages it emits *)
(* and their replies, which the chain runs in one transaction.  An error   *)
(* in ibc_packet_receive or below it undoes the transaction, and the chain *)
(* writes an error acknowledgement in its place; an error in any other     *)
(* entry point just refuses the transaction.                               *)
(***************************************************************************)
EXTENDS Ibc, Cw1Whitelist

VARIABLE hostAccounts       \* ACCOUNTS: channel -> address of its reflect account

HostTypeOK == hostAccounts \in [Channels -> Addrs \cup {None}]

HostInit == hostAccounts = [c \in Channels |-> None]

-----------------------------------------------------------------------------
(* Channel life cycle.                                                     *)

(* Only the version the counterparty claims is checked, and the host's own *)
(* version is returned whatever was proposed.                              *)
HostChannelOpen(order, counterVersion) ==
    /\ CheckOrder(order)
    /\ counterVersion # None => CheckVersion(counterVersion)

(* Faulty: PENDING may hold another channel by the time of the reply.      *)
ConnectUnderAnother(c) ==
    \E a \in Addrs, d \in Channels :
        /\ Cw1Instantiate(a, c)
        /\ hostAccounts[d] = None
        /\ hostAccounts' = [hostAccounts EXCEPT ![d] = a]
        /\ UNCHANGED balance

(* Faulty: an account that a closed channel has left serves the next.      *)
ConnectReusing(c) ==
    \E a \in Addrs :
        /\ \A d \in Channels : hostAccounts[d] # a
        /\ Cw1Instantiate(a, c) \/ (owner[a] # None /\ UNCHANGED owner)
        /\ hostAccounts' = [hostAccounts EXCEPT ![c] = a]
        /\ UNCHANGED balance

(* reply_init_callback: the instance is registered under the channel kept  *)
(* in PENDING.                                                             *)
Register(c, a) ==
    /\ hostAccounts[c] = None
    /\ hostAccounts' = [hostAccounts EXCEPT ![c] = a]

HostChannelConnect(c) ==
    \E a \in Addrs :
        /\ Cw1Instantiate(a, c)
        /\ Register(c, a)
        /\ UNCHANGED balance

(* Faulty: closing always wraps a transfer, even of an empty balance.      *)
CloseAlwaysSweeping(c) ==
    LET a == hostAccounts[c]
    IN  /\ a # None
        /\ hostAccounts' = [hostAccounts EXCEPT ![c] = None]
        /\ Cw1Accepts("reflect_msg")
        /\ balance' = [balance EXCEPT ![a] = 0, ![HostAddr] = @ + balance[a]]
        /\ UNCHANGED owner

(* What the account holds is to be sent to this contract, wrapped in       *)
(* ReflectExecuteMsg::ReflectMsg; a failure of that call refuses the close.*)
HostChannelClose(c) ==
    LET a == hostAccounts[c]
    IN  /\ a # None
        /\ hostAccounts' = [hostAccounts EXCEPT ![c] = None]
        /\ balance[a] > 0 => Cw1Accepts("reflect_msg")
        /\ balance' = [balance EXCEPT ![a] = 0, ![HostAddr] = @ + balance[a]]
        /\ UNCHANGED owner

-----------------------------------------------------------------------------
(* Packets.                                                                *)

DispatchAck == Success([results |-> <<Empty>>])

(* Faulty: the sends before the one that failed are kept.                  *)
ReceiveDispatchPartly(p) ==
    LET a == hostAccounts[p.chan]
        covered == a # None /\ Covers(a, p.data.batch)
    IN  /\ balance' = [balance EXCEPT ![a] =
               IF covered THEN @ - p.data.batch.total ELSE 0]
        /\ WriteAck(p, IF covered THEN DispatchAck ELSE Fail)
        /\ UNCHANGED <<hostAccounts, owner>>

(* Faulty: any account that holds enough pays, whatever the channel.       *)
ReceiveDispatchAny(p) ==
    \E c \in Channels :
        /\ hostAccounts[c] # None
        /\ Covers(hostAccounts[c], p.data.batch)
        /\ Spend(hostAccounts[c], p.data.batch)
        /\ WriteAck(p, DispatchAck)
        /\ UNCHANGED <<hostAccounts, owner>>

(* The batch runs in the account's execute; reply_dispatch_callback then   *)
(* makes an acknowledgement with the one result of that call, whose data   *)
(* cw1-whitelist leaves empty.                                             *)
ReceiveDispatch(p) ==
    LET a == hostAccounts[p.chan]
        batch == p.data.batch
    IN  /\ IF a # None /\ Covers(a, batch)
           THEN Spend(a, batch) /\ WriteAck(p, DispatchAck)
           ELSE UNCHANGED balance /\ WriteAck(p, Fail)
        /\ UNCHANGED <<hostAccounts, owner>>

(* The list is answered as a whole: one failing query fails the packet.    *)
QueryAck(queries) ==
    IF \E i \in DOMAIN queries : queries[i] = BadQuery
    THEN Fail
    ELSE Success([results |-> [i \in DOMAIN queries |-> balance[queries[i]]]])

ReceiveQuery(p) ==
    /\ WriteAck(p, QueryAck(p.data.queries))
    /\ UNCHANGED <<hostAccounts, cw1Vars>>

(* Faulty: the first account found answers, whatever the channel.          *)
WhoAmIAckAny(c) ==
    LET known == {d \in Channels : hostAccounts[d] # None}
    IN  IF known = {} THEN Fail
        ELSE Success([account |-> hostAccounts[CHOOSE d \in known : TRUE]])

WhoAmIAck(c) ==
    IF hostAccounts[c] = None THEN Fail
    ELSE Success([account |-> hostAccounts[c]])

ReceiveWhoAmI(p) ==
    /\ WriteAck(p, WhoAmIAck(p.chan))
    /\ UNCHANGED <<hostAccounts, cw1Vars>>

BalancesAck(c) ==
    IF hostAccounts[c] = None THEN Fail
    ELSE Success([account |-> hostAccounts[c], balances |-> balance[hostAccounts[c]]])

ReceiveBalances(p) ==
    /\ WriteAck(p, BalancesAck(p.chan))
    /\ UNCHANGED <<hostAccounts, cw1Vars>>

HostPacketReceive(p) ==
    \/ p.data.type = "dispatch"  /\ ReceiveDispatch(p)
    \/ p.data.type = "ibc_query" /\ ReceiveQuery(p)
    \/ p.data.type = "who_am_i"  /\ ReceiveWhoAmI(p)
    \/ p.data.type = "balances"  /\ ReceiveBalances(p)
=============================================================================
