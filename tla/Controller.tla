---------------------------- MODULE Controller ----------------------------
(***************************************************************************)
(* contracts/simple-ica-controller: the side that sends.  Its admin asks   *)
(* for messages to be run and balances to be read on the remote chain;     *)
(* anyone may send queries.  What comes back is stored per channel and, if *)
(* the caller chose a callback id, also delivered to the caller.           *)
(*                                                                         *)
(* Each operator is one entry point of the contract, run as a transaction: *)
(* where the code returns an error, or a message it emits fails, the       *)
(* operator is not enabled.                                                *)
(***************************************************************************)
EXTENDS Ibc, Capturer

CONSTANT PacketLifetime     \* PACKET_LIFETIME, in units of the block time

VARIABLES
    admin,          \* CONFIG.admin
    ctrlAccounts,   \* ACCOUNTS: channel -> AccountData
    latestQueries   \* LATEST_QUERIES: channel -> LatestQueryResponse

ctrlVars == <<admin, ctrlAccounts, latestQueries>>

ASSUME PacketLifetimeAssumption == PacketLifetime \in Nat \ {0}

AccountData == [last_update_time : Nat, remote_addr : Addrs \cup {None},
                remote_balance : Nat]

LatestQueryResponse == [last_update_time : Nat, response : StdAck]

(* A key that is in the Map is told from one that is not.                  *)
ASSUME EntryAssumption == None \notin AccountData \cup LatestQueryResponse

CtrlTypeOK ==
    /\ admin \in Senders
    /\ ctrlAccounts \in [Channels -> AccountData \cup {None}]
    /\ latestQueries \in [Channels -> LatestQueryResponse \cup {None}]

(* instantiate: whoever does it is the admin.  The capturer cannot: it is  *)
(* given the address of a controller that exists.                          *)
CtrlInit ==
    /\ admin \in Senders \ {Capturer}
    /\ ctrlAccounts = [c \in Channels |-> None]
    /\ latestQueries = [c \in Channels |-> None]

-----------------------------------------------------------------------------
(* Channel life cycle.                                                     *)

CtrlChannelOpen(order, version, counterVersion) ==
    /\ CheckOrder(order)
    /\ CheckVersion(version)
    /\ counterVersion # None => CheckVersion(counterVersion)

(* Faulty: the address is a plain String, empty until it is known.         *)
AccountWithEmptyAddr ==
    [last_update_time |-> 0, remote_addr |-> "", remote_balance |-> 0]

(* AccountData::default()                                                  *)
DefaultAccount ==
    [last_update_time |-> 0, remote_addr |-> None, remote_balance |-> 0]

Timeout == ctrlTime + PacketLifetime

(* Faulty: the account entry is only made when the answer arrives.         *)
ConnectWithoutEntry(c) ==
    /\ SendPacket(c, WhoAmI, Timeout)
    /\ UNCHANGED ctrlVars

CtrlChannelConnect(c) ==
    /\ ctrlAccounts' = [ctrlAccounts EXCEPT ![c] = DefaultAccount]
    /\ SendPacket(c, WhoAmI, Timeout)
    /\ UNCHANGED <<admin, latestQueries>>

(* Faulty: the entry outlives the channel.                                 *)
CloseKeepingEntry(c) == UNCHANGED ctrlVars

CtrlChannelClose(c) ==
    /\ ctrlAccounts' = [ctrlAccounts EXCEPT ![c] = None]
    /\ UNCHANGED <<admin, latestQueries>>

-----------------------------------------------------------------------------
(* Requests.                                                               *)

ExecuteUpdateAdmin(sender, newAdmin) ==
    /\ sender = admin
    /\ admin' = newAdmin
    /\ UNCHANGED <<ctrlAccounts, latestQueries>>

ExecuteSendMsgs(sender, c, batch, id) ==
    /\ sender = admin
    /\ ctrlAccounts[c] # None
    /\ CanSend(c)
    /\ SendPacket(c, Dispatch(sender, batch, id), Timeout)
    /\ UNCHANGED ctrlVars

(* Neither the sender nor ACCOUNTS is looked at: a query may leave before  *)
(* the channel is connected.                                               *)
ExecuteIbcQuery(sender, c, queries, id) ==
    /\ CanSend(c)
    /\ SendPacket(c, IbcQuery(sender, queries, id), Timeout)
    /\ UNCHANGED ctrlVars

ExecuteCheckRemoteBalance(sender, c) ==
    /\ sender = admin
    /\ ctrlAccounts[c] # None
    /\ CanSend(c)
    /\ SendPacket(c, Balances, Timeout)
    /\ UNCHANGED ctrlVars

-----------------------------------------------------------------------------
(* Answers.                                                                *)

(* The callback is a message of the same transaction: it must succeed for  *)
(* the acknowledgement to be processed, and the only contract here that    *)
(* understands it is the capturer.                                         *)
Delivered(addressee, id, ack) ==
    /\ addressee = Capturer
    /\ ReceiveIcaResponse(SimpleIcaController, id, ack)

(* Faulty: the current admin is called back, not the original caller.      *)
CallbackToAdmin(sender, id, ack) ==
    IF id = None THEN UNCHANGED capResults
    ELSE sender \in Senders /\ Delivered(admin, id, ack)

Callback(sender, id, ack) ==
    IF id = None THEN UNCHANGED capResults
    ELSE Delivered(sender, id, ack)

AcknowledgeDispatch(p, ack) ==
    /\ Callback(p.data.sender, p.data.callback_id, ack)
    /\ UNCHANGED ctrlVars

(* Faulty: an answer that is an error is unwrapped, which panics.          *)
AcknowledgeQueryUnwrapped(p, ack) ==
    /\ IsSuccess(ack)
    /\ latestQueries' = [latestQueries EXCEPT ![p.chan] =
           [last_update_time |-> ctrlTime, response |-> ack]]
    /\ Callback(p.data.sender, p.data.callback_id, ack)
    /\ UNCHANGED <<admin, ctrlAccounts>>

AcknowledgeQuery(p, ack) ==
    /\ latestQueries' = [latestQueries EXCEPT ![p.chan] =
           [last_update_time |-> ctrlTime, response |-> ack]]
    /\ Callback(p.data.sender, p.data.callback_id, ack)
    /\ UNCHANGED <<admin, ctrlAccounts>>

(* Faulty: the address is refreshed when one is known, never set first.    *)
LearnKnownOnly(acct, account) ==
    IF acct.remote_addr # None THEN [acct EXCEPT !.remote_addr = account] ELSE acct

Learn(acct, account) ==
    IF acct.remote_addr = None THEN [acct EXCEPT !.remote_addr = account] ELSE acct

AcknowledgeWhoAmI(p, ack) ==
    /\ IF IsSuccess(ack)
       THEN /\ ctrlAccounts[p.chan] # None
            /\ ctrlAccounts' =
                   [ctrlAccounts EXCEPT ![p.chan] = Learn(@, ack.data.account)]
       ELSE UNCHANGED ctrlAccounts
    /\ UNCHANGED <<admin, latestQueries, capResults>>

(* Faulty: the address reported last is believed.                          *)
MatchesAny(acct, account) == TRUE

Matches(acct, account) ==
    acct.remote_addr # None => acct.remote_addr = account

(* Faulty: the report replaces the entry without its address.              *)
ReportDroppingAddr(response) ==
    [last_update_time |-> ctrlTime, remote_addr |-> None,
     remote_balance |-> response.balances]

(* Faulty: the time of the report is not recorded.                         *)
ReportStampedZero(response) ==
    [last_update_time |-> 0, remote_addr |-> response.account,
     remote_balance |-> response.balances]

Report(response) ==
    [last_update_time |-> ctrlTime, remote_addr |-> response.account,
     remote_balance |-> response.balances]

AcknowledgeBalances(p, ack) ==
    /\ IF IsSuccess(ack)
       THEN /\ ctrlAccounts[p.chan] # None
            /\ Matches(ctrlAccounts[p.chan], ack.data.account)
            /\ ctrlAccounts' = [ctrlAccounts EXCEPT ![p.chan] = Report(ack.data)]
       ELSE UNCHANGED ctrlAccounts
    /\ UNCHANGED <<admin, latestQueries, capResults>>

IbcPacketAck(p, ack) ==
    \/ p.data.type = "dispatch"  /\ AcknowledgeDispatch(p, ack)
    \/ p.data.type = "ibc_query" /\ AcknowledgeQuery(p, ack)
    \/ p.data.type = "who_am_i"  /\ AcknowledgeWhoAmI(p, ack)
    \/ p.data.type = "balances"  /\ AcknowledgeBalances(p, ack)

(* Timeouts are ignored: nobody is told and nothing is sent again.         *)
IbcPacketTimeout == UNCHANGED <<ctrlVars, capResults>>
=============================================================================
