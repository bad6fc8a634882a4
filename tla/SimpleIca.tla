----------------------------- MODULE SimpleIca -----------------------------
(***************************************************************************)
(* packages/simple-ica: the vocabulary that the controller and the host    *)
(* share - the packets sent over the channel, the acknowledgements that    *)
(* come back, and the two checks made in the channel handshake.            *)
(*                                                                         *)
(* A coin vector is the amount of one denomination (0 is the empty         *)
(* vector).  A Vec<CosmosMsg> is a batch: how many messages it holds and   *)
(* the total the bank sends among them take out of the remote account.     *)
(* A QueryRequest is the address whose balance is asked for, or BadQuery   *)
(* for a request that the remote chain answers with an error.              *)
(***************************************************************************)
EXTENDS Naturals, Sequences

CONSTANTS
    Channels,       \* channels between the two contracts (both ends share a name)
    Addrs,          \* addresses that reflect accounts can get on the host chain
    Senders,        \* addresses on the controller chain that may call a contract
    CallbackIds,    \* callback ids that callers choose
    Batches,        \* Vec<CosmosMsg> values that callers dispatch
    QueryLists,     \* Vec<QueryRequest> values that callers send
    BadQuery,       \* a query the remote chain cannot answer
    Empty,          \* the empty Binary
    None            \* Option::None, and a key that is not in a Map

Batch == [count : Nat, total : Nat]

ASSUME InputAssumption ==
    /\ Batches \subseteq Batch
    /\ QueryLists \subseteq Seq(Addrs \cup {BadQuery})

ASSUME NoneAssumption ==
    /\ None \notin Channels
    /\ None \notin Addrs
    /\ None \notin Senders
    /\ None \notin CallbackIds
    /\ BadQuery \notin Addrs

Orders == {"unordered", "ordered"}
Versions == {"simple-ica-v2", "ibc-reflect-v1"}

IBC_APP_VERSION == "simple-ica-v2"
APP_ORDER == "unordered"

(* Faulty: either order will do.                                           *)
CheckAnyOrder(order) == order \in Orders

CheckOrder(order) == order = APP_ORDER

CheckVersion(version) == version = IBC_APP_VERSION

-----------------------------------------------------------------------------
(* PacketMsg: what the controller sends.                                   *)

Dispatch(sender, batch, callback_id) ==
    [type |-> "dispatch", sender |-> sender, batch |-> batch,
     callback_id |-> callback_id]

IbcQuery(sender, queries, callback_id) ==
    [type |-> "ibc_query", sender |-> sender, queries |-> queries,
     callback_id |-> callback_id]

WhoAmI == [type |-> "who_am_i"]

Balances == [type |-> "balances"]

CallbackId == CallbackIds \cup {None}

PacketMsg ==
    [type : {"dispatch"}, sender : Senders, batch : Batches,
     callback_id : CallbackId]
    \cup
    [type : {"ibc_query"}, sender : Senders, queries : QueryLists,
     callback_id : CallbackId]
    \cup
    {WhoAmI, Balances}

-----------------------------------------------------------------------------
(* StdAck: what the host answers.                                          *)

DispatchResponse == [results : Seq({Empty})]
IbcQueryResponse == [results : Seq(Nat)]
WhoAmIResponse   == [account : Addrs]
BalancesResponse == [account : Addrs, balances : Nat]

Success(response) == [tag |-> "result", data |-> response]

Fail == [tag |-> "error"]

StdAck ==
    [tag : {"result"},
     data : DispatchResponse \cup IbcQueryResponse
              \cup WhoAmIResponse \cup BalancesResponse]
    \cup
    {Fail}

IsSuccess(ack) == ack.tag = "result"
=============================================================================
