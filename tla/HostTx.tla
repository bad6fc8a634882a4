------------------------------- MODULE HostTx -------------------------------
(***************************************************************************)
(* The host contract call by call.  A transaction on the host chain runs   *)
(* an entry point, the submessage it emits and the reply to that, one      *)
(* after the other, on a branch of the store.  The branch is written back  *)
(* when the last call returns and dropped when any of them fails: by an    *)
(* error, or because the relayer paid for too little gas, in which case    *)
(* the message may be submitted again.                                     *)
(*                                                                         *)
(* Between two calls the contract remembers what it is doing in PENDING    *)
(* and RESULTS, one slot each for all channels.  The controller's chain    *)
(* goes on meanwhile; the host chain runs one transaction at a time.       *)
(***************************************************************************)
EXTENDS IcaProperties

VARIABLES
    pending,    \* PENDING: the channel whose account is being made
    results,    \* RESULTS: the results of the dispatch being run, or of the last
    tx          \* the transaction under way, None between transactions

txVars == <<pending, results, tx>>

hostTxVars == <<vars, txVars>>

(* No messages take nothing.                                               *)
ASSUME BatchAssumption == \A b \in Batches : b.count = 0 => b.total = 0

Idle == tx = None

(* What a transaction reads and writes.                                    *)
Store ==
    [accounts |-> hostAccounts, pending |-> pending, results |-> results,
     owner |-> owner, balance |-> balance]

StoreType ==
    [accounts : [Channels -> Addrs \cup {None}],
     pending : Channels \cup {None},
     results : Seq({Empty}),
     owner : [Addrs -> Channels \cup {None}],
     balance : [Addrs \cup {HostAddr} -> Nat]]

(* A transaction waits for the call that its step names.                   *)
ConnectTx ==
    [step : {"instantiate"}, chan : Channels, end : ChannelEnd, branch : StoreType]
    \cup
    [step : {"reply_init"}, chan : Channels, end : ChannelEnd, branch : StoreType,
     addr : Addrs]

DispatchTx ==
    [step : {"execute"}, packet : Packet, branch : StoreType, addr : Addrs,
     left : Nat, due : Nat]

CloseTx ==
    [step : {"sweep"}, chan : Channels, branch : StoreType, addr : Addrs]

TxTypeOK ==
    /\ TypeOK
    /\ pending \in Channels \cup {None}
    /\ results \in Seq({Empty})
    /\ tx \in ConnectTx \cup DispatchTx \cup CloseTx \cup {None}

(* Config aside, nothing is stored by instantiate.                         *)
TxInit ==
    /\ Init
    /\ pending = None
    /\ results = <<>>
    /\ tx = None

-----------------------------------------------------------------------------
Commit(store) ==
    /\ hostAccounts' = store.accounts
    /\ pending' = store.pending
    /\ results' = store.results
    /\ owner' = store.owner
    /\ balance' = store.balance
    /\ tx' = None

Rollback ==
    /\ tx' = None
    /\ UNCHANGED <<hostVars, pending, results>>

(* The call returns and its submessage is next.                            *)
Continue(call) ==
    /\ tx' = call
    /\ UNCHANGED <<vars, pending, results>>

HostOnly ==
    UNCHANGED <<ctrlEnd, nextSeq, commitments, ctrlTime, hostTime, controllerVars>>

Running(step) == ~Idle /\ tx.step = step

-----------------------------------------------------------------------------
(* MsgChannelOpenAck and MsgChannelOpenConfirm.                            *)

HostConnectEnd(c) ==
    IF Reached(hostEnd[c], "INIT")
    THEN OpenedAs(hostEnd[c], ctrlEnd[c].version)
    ELSE Enter(hostEnd[c], "OPEN")

HostMayConnect(c) ==
    \/ hostEnd[c].states = {"INIT"} /\ Reached(ctrlEnd[c], "TRYOPEN")
    \/ hostEnd[c].states = {"TRYOPEN"} /\ Reached(ctrlEnd[c], "OPEN")

IbcChannelConnect(c) ==
    /\ Idle
    /\ HostMayConnect(c)
    /\ Continue([step |-> "instantiate", chan |-> c, end |-> HostConnectEnd(c),
                 branch |-> [Store EXCEPT !.pending = c]])

(* The chain makes the instance, under the label that the call gave it.    *)
RunInstantiate ==
    /\ Running("instantiate")
    /\ \E a \in Addrs :
          /\ tx.branch.owner[a] = None
          /\ Continue([step |-> "reply_init", chan |-> tx.chan, end |-> tx.end, addr |-> a,
                       branch |-> [tx.branch EXCEPT !.owner[a] = tx.chan]])

(* Faulty: the slot is not cleared.                                        *)
ReplyKeepingPending(b, a) ==
    /\ b.pending # None
    /\ b.accounts[b.pending] = None
    /\ Commit([b EXCEPT !.accounts[b.pending] = a])

ReplyInitCallback(b, a) ==
    /\ b.pending # None
    /\ b.accounts[b.pending] = None
    /\ Commit([b EXCEPT !.accounts[b.pending] = a, !.pending = None])

RunReplyInit ==
    /\ Running("reply_init")
    /\ ReplyInitCallback(tx.branch, tx.addr)
    /\ hostEnd' = [hostEnd EXCEPT ![tx.chan] = tx.end]
    /\ HostOnly
    /\ UNCHANGED acks

-----------------------------------------------------------------------------
(* MsgRecvPacket with a dispatch.                                          *)

FailReceive(p) ==
    /\ Rollback
    /\ WriteAck(p, Fail)
    /\ HostOnly
    /\ UNCHANGED hostEnd

(* Faulty: RESULTS is not reset.                                           *)
DispatchKeepingResults(p, a) ==
    [step |-> "execute", packet |-> p, addr |-> a, branch |-> Store,
     left |-> p.data.batch.count, due |-> p.data.batch.total]

DispatchCall(p, a) ==
    [step |-> "execute", packet |-> p, addr |-> a,
     branch |-> [Store EXCEPT !.results = <<>>],
     left |-> p.data.batch.count, due |-> p.data.batch.total]

IbcPacketReceiveDispatch(p) ==
    LET a == hostAccounts[p.chan]
    IN  /\ Idle
        /\ CanReceive(p)
        /\ p.data.type = "dispatch"
        /\ IF a = None THEN FailReceive(p) ELSE Continue(DispatchCall(p, a))

(* Faulty: an account may spend what it does not hold.                     *)
AffordsAny(store, a, amount) == TRUE

Affords(store, a, amount) == amount <= store.balance[a]

Paid(store, a, amount) == [store EXCEPT !.balance[a] = @ - amount]

(* Faulty: a failing message is answered, but what ran before it is kept.  *)
FailKeeping(branch, p) ==
    /\ Commit(branch)
    /\ WriteAck(p, Fail)
    /\ HostOnly
    /\ UNCHANGED hostEnd

FailMessage(branch, p) == FailReceive(p)

(* The account runs the messages in order; how the total is divided among  *)
(* them is open.  One that fails makes the whole receipt fail.             *)
RunMessage ==
    /\ Running("execute")
    /\ tx.left > 0
    /\ \E amount \in 0 .. tx.due :
          /\ tx.left = 1 => amount = tx.due
          /\ IF Affords(tx.branch, tx.addr, amount)
             THEN Continue([tx EXCEPT !.left = @ - 1, !.due = @ - amount,
                                      !.branch = Paid(@, tx.addr, amount)])
             ELSE FailMessage(tx.branch, tx.packet)

(* reply_dispatch_callback, after the last message.                        *)
RunReplyDispatch ==
    LET rs == Append(tx.branch.results, Empty)
    IN  /\ Running("execute")
        /\ tx.left = 0
        /\ Commit([tx.branch EXCEPT !.results = rs])
        /\ WriteAck(tx.packet, Success([results |-> rs]))
        /\ HostOnly
        /\ UNCHANGED hostEnd

-----------------------------------------------------------------------------
(* MsgChannelCloseInit and MsgChannelCloseConfirm.                         *)

FinishClose(c, store) ==
    /\ Commit(store)
    /\ hostEnd' = [hostEnd EXCEPT ![c] = Enter(@, "CLOSED")]
    /\ HostOnly
    /\ UNCHANGED acks

IbcChannelClose(c) ==
    LET a == hostAccounts[c]
        branch == [Store EXCEPT !.accounts[c] = None]
    IN  /\ Idle
        /\ Closable(hostEnd[c])
        /\ a # None
        /\ IF balance[a] = 0
           THEN FinishClose(c, branch)
           ELSE Continue([step |-> "sweep", chan |-> c, addr |-> a, branch |-> branch])

(* Faulty: the close does not depend on the sweep.                         *)
RunSweepRegardless ==
    /\ Running("sweep")
    /\ FinishClose(tx.chan, tx.branch)

(* The account is asked to reflect a transfer of all it holds to the host. *)
RunSweep ==
    LET a == tx.addr
        swept == [tx.branch.balance EXCEPT ![a] = 0,
                                           ![HostAddr] = @ + tx.branch.balance[a]]
    IN  /\ Running("sweep")
        /\ IF Cw1Accepts("reflect_msg")
           THEN FinishClose(tx.chan, [tx.branch EXCEPT !.balance = swept])
           ELSE Rollback /\ UNCHANGED <<ibcVars, controllerVars>>

-----------------------------------------------------------------------------
OutOfGas ==
    /\ ~Idle
    /\ Rollback
    /\ UNCHANGED <<ibcVars, controllerVars>>

(* Transactions of a single call.                                          *)
SingleCall ==
    \/ \E c \in Channels, o \in Orders : HostOpenInit(c, o)
    \/ \E c \in Channels : HostOpenTry(c)
    \/ \E p \in commitments : p.data.type # "dispatch" /\ RecvPacket(p)
    \/ \E a \in Addrs, amount \in 1 .. MaxBalance : DepositTo(a, amount)
    \/ HostTick

TxNext ==
    \/ CtrlChainNext /\ UNCHANGED txVars
    \/ Idle /\ SingleCall /\ UNCHANGED txVars
    \/ \E c \in Channels : IbcChannelConnect(c) \/ IbcChannelClose(c)
    \/ \E p \in commitments : IbcPacketReceiveDispatch(p)
    \/ RunInstantiate
    \/ RunReplyInit
    \/ RunMessage
    \/ RunReplyDispatch
    \/ RunSweep
    \/ OutOfGas

TxSpec == TxInit /\ [][TxNext]_hostTxVars

-----------------------------------------------------------------------------
(* What the slots hold is about the call that is being served, and PENDING *)
(* never outlives its transaction (reply_init_callback, contract.rs:186).  *)
SlotsServeOneCall ==
    /\ pending = None
    /\ Running("instantiate") \/ Running("reply_init") => tx.branch.pending = tx.chan
    /\ Running("execute") => tx.branch.results = <<>>

(* Every transaction takes effect as a whole or not at all, with the       *)
(* effect that the specification of the system gives it in one step.       *)
Atomic == Spec

=============================================================================
