--------------------------- MODULE HostTx_proofs ---------------------------
(***************************************************************************)
(* The host call by call implements the host transaction by transaction.   *)
(* A transaction that has begun keeps what it needs to end: the branch is  *)
(* the store but for its own changes, the channel may still be connected,  *)
(* the packet may still be received, for nothing but the controller's      *)
(* chain goes on meanwhile.                                                *)
(***************************************************************************)
EXTENDS IcaPromise_proofs, HostTx

Connecting ==
    /\ HostMayConnect(tx.chan)
    /\ tx.end = HostConnectEnd(tx.chan)

Spent == tx.packet.data.batch.total - tx.due

Executing ==
    /\ CanReceive(tx.packet)
    /\ tx.packet.data.type = "dispatch"
    /\ tx.addr = hostAccounts[tx.packet.chan]
    /\ tx.left = 0 => tx.due = 0
    /\ Spent \in Nat
    /\ tx.branch =
           [Store EXCEPT !.results = <<>>,
                         !.balance = [balance EXCEPT ![tx.addr] = @ - Spent]]

TxInv ==
    /\ TxTypeOK
    /\ pending = None
    /\ Running("instantiate") =>
           Connecting /\ tx.branch = [Store EXCEPT !.pending = tx.chan]
    /\ Running("reply_init") =>
           /\ Connecting
           /\ owner[tx.addr] = None
           /\ tx.branch = [Store EXCEPT !.pending = tx.chan,
                                        !.owner = [owner EXCEPT ![tx.addr] = tx.chan]]
    /\ Running("execute") => Executing

-----------------------------------------------------------------------------
(* The controller's chain.                                                 *)

(* The controller's chain writes nothing of the host's.                    *)
LEMMA CtrlKeepsHost ==
    ASSUME CtrlChainNext
    PROVE  UNCHANGED <<hostEnd, hostTime, acks, hostAccounts, owner, balance>>
<1> USE DEF hostVars, cw1Vars, SentOnly
<1>1. ASSUME NEW user \in Users, NEW c \in Channels, Call(user, c)
      PROVE  UNCHANGED <<hostEnd, hostTime, acks, hostAccounts, owner, balance>>
  BY <1>1
  DEF Call, SendMsgs, SendQuery, CheckRemoteBalance, CapturerSendMsgs,
      CapturerSendQuery, CapturerCheckRemoteBalance
<1>2. ASSUME NEW c \in Channels,
             \/ \E o \in Orders, v \in Versions : CtrlOpenInit(c, o, v)
             \/ CtrlHandshake(c) \/ CtrlClose(c)
      PROVE  UNCHANGED <<hostEnd, hostTime, acks, hostAccounts, owner, balance>>
  BY <1>2
  DEF CtrlOpenInit, CtrlHandshake, CtrlOpenTry, CtrlOpenAck, CtrlOpenConfirm, CtrlClose
<1> QED
  BY <1>1, <1>2
  DEF CtrlChainNext, CtrlCloseInit, CtrlCloseConfirm, UpdateAdmin, AckPacket,
      TimeoutPacket, CtrlTick, ibcVars

(* An end stays in what it has been in, and its version is settled by the  *)
(* time that the host can prove it.                                        *)
LEMMA CtrlEndGrows ==
    ASSUME IInv, CtrlChainNext, NEW c \in Channels
    PROVE  /\ ctrlEnd[c].states \subseteq ctrlEnd'[c].states
           /\ Reached(ctrlEnd[c], "TRYOPEN") => ctrlEnd'[c].version = ctrlEnd[c].version
<1> DEFINE Grows ==
      /\ ctrlEnd[c].states \subseteq ctrlEnd'[c].states
      /\ Reached(ctrlEnd[c], "TRYOPEN") => ctrlEnd'[c].version = ctrlEnd[c].version
<1> USE DEF Reached
<1>1. ctrlEnd \in [Channels -> ChannelEnd]
  BY DEF IInv, TypeInv, TypeOK, IbcTypeOK
<1>2. ASSUME NEW d \in Channels, NEW o \in Orders, NEW v \in Versions, CtrlOpenInit(d, o, v)
      PROVE  Grows
  BY <1>1, <1>2 DEF CtrlOpenInit, Unused, ChannelEnd
<1>3. ASSUME NEW d \in Channels, CtrlOpenTry(d) PROVE Grows
  BY <1>1, <1>3 DEF CtrlOpenTry, ChannelEnd
<1>4. ASSUME NEW d \in Channels, CtrlOpenAck(d) PROVE Grows
  BY <1>1, <1>4 DEF CtrlOpenAck, OpenedAs, Enter, ChannelEnd
<1>5. ASSUME NEW d \in Channels, CtrlOpenConfirm(d) PROVE Grows
  BY <1>1, <1>5 DEF CtrlOpenConfirm, Enter, ChannelEnd
<1>6. ASSUME NEW d \in Channels, CtrlClose(d) PROVE Grows
  BY <1>1, <1>6 DEF CtrlClose, Enter, ChannelEnd
<1>7. ASSUME NEW user \in Users, NEW d \in Channels, Call(user, d) PROVE ctrlEnd' = ctrlEnd
  BY <1>7
  DEF Call, SendMsgs, SendQuery, CheckRemoteBalance, CapturerSendMsgs,
      CapturerSendQuery, CapturerCheckRemoteBalance, SentOnly
<1>8. ASSUME \/ \E user \in Users, a \in Senders : UpdateAdmin(user, a)
             \/ \E w \in acks : AckPacket(w)
             \/ \E p \in commitments : TimeoutPacket(p)
             \/ CtrlTick
      PROVE  ctrlEnd' = ctrlEnd
  BY <1>8 DEF UpdateAdmin, AckPacket, TimeoutPacket, CtrlTick, ibcVars
<1> QED
  BY <1>2, <1>3, <1>4, <1>5, <1>6, <1>7, <1>8
  DEF CtrlChainNext, CtrlHandshake, CtrlCloseInit, CtrlCloseConfirm

(* Nor can it take away what a connect under way relies on,                *)
LEMMA ConnectStays ==
    ASSUME IInv, CtrlChainNext, NEW c \in Channels, HostMayConnect(c)
    PROVE  HostMayConnect(c)' /\ HostConnectEnd(c)' = HostConnectEnd(c)
<1>1. hostEnd' = hostEnd
  BY CtrlKeepsHost
<1>2. HostMayConnect(c)'
  BY <1>1, CtrlEndGrows DEF HostMayConnect, Reached
<1>3. Reached(hostEnd[c], "INIT") => Reached(ctrlEnd[c], "TRYOPEN")
  BY DEF HostMayConnect, Reached
<1> QED
  BY <1>1, <1>2, <1>3, CtrlEndGrows DEF HostConnectEnd, Reached

(* or make a packet that is being received unreceivable.                   *)
LEMMA ReceivableStays ==
    ASSUME IInv, CtrlChainNext, NEW p, CanReceive(p)
    PROVE  CanReceive(p)'
<1>1. UNCHANGED <<hostEnd, hostTime, acks>>
  BY CtrlKeepsHost
<1>2. [Next]_vars
  BY DEF Next
<1>3. Kinds
  BY <1>2, StepKinds
<1>4. p \in commitments /\ ~Received(p) /\ ~CanTimeout(p)
  <2>1. IsOpen(hostEnd[p.chan]) /\ hostTime < p.timeout
    BY DEF CanReceive
  <2>2. hostTime \in Nat /\ p.timeout \in Nat
    BY DEF CanReceive, IInv, TypeInv, TypeOK, IbcTypeOK, Packet
  <2> QED
    BY <2>1, <2>2 DEF CanReceive, CanTimeout, IsOpen
<1>5. p \in commitments'
  <2>1. ASSUME NEW w \in acks, AckPacket(w) PROVE p \in commitments'
    BY <1>4, <2>1 DEF AckPacket, DeleteCommitment, Received
  <2>2. ASSUME NEW q \in commitments, TimeoutPacket(q) PROVE p \in commitments'
    BY <1>4, <2>2 DEF TimeoutPacket, DeleteCommitment
  <2>3. ASSUME NEW c \in Channels, NEW data \in PacketMsg, NEW t \in Nat, Sends(c, data, t)
        PROVE  p \in commitments'
    BY <1>4, <2>3 DEF Sends, SendPacket
  <2>4. ASSUME \/ \E c \in Channels : HostConnects(c) \/ CtrlForgets(c)
               \/ \E q \in commitments : RecvPacket(q)
               \/ \E a \in Addrs, n \in 1 .. MaxBalance : DepositTo(a, n)
               \/ \E user \in Users, a \in Senders : UpdateAdmin(user, a)
               \/ Quiet
        PROVE  commitments' = commitments
    BY <2>4
    DEF HostConnects, CtrlForgets, RecvPacket, DepositTo, UpdateAdmin, Quiet, ibcVars
  <2> QED
    BY <1>3, <1>4, <2>1, <2>2, <2>3, <2>4 DEF Kinds, ChainKinds
<1> QED
  BY <1>1, <1>4, <1>5 DEF CanReceive, Received

-----------------------------------------------------------------------------
(* The shape of a transaction under way.                                   *)

(* What a transaction branches off is typed.                               *)
LEMMA StoreTyped == TxTypeOK => Store \in StoreType
  BY DEF TxTypeOK, TypeOK, HostTypeOK, Cw1TypeOK, Store, StoreType

(* The shape of a transaction while a connect is under way,                 *)
LEMMA ConnectTyped ==
    ASSUME TxTypeOK, Running("instantiate") \/ Running("reply_init")
    PROVE  /\ tx \in ConnectTx
           /\ tx.chan \in Channels
           /\ tx.end \in ChannelEnd
           /\ tx.branch \in StoreType
           /\ Running("reply_init") => tx.addr \in Addrs
  BY DEF TxTypeOK, Running, Idle, ConnectTx, DispatchTx, CloseTx

(* and while a batch runs.                                                  *)
LEMMA DispatchTyped ==
    ASSUME TxTypeOK, Running("execute")
    PROVE  /\ tx \in DispatchTx
           /\ tx.packet \in Packet
           /\ tx.branch \in StoreType
           /\ tx.addr \in Addrs
           /\ tx.left \in Nat
           /\ tx.due \in Nat
  BY DEF TxTypeOK, Running, Idle, ConnectTx, DispatchTx, CloseTx

(* Nothing is between transactions, whatever tx looks like.                *)
LEMMA TxInvIdle ==
    ASSUME TypeOK', pending' = None, results' \in Seq({Empty}), tx' = None
    PROVE  TxInv'
  BY DEF TxInv, TxTypeOK, Running, Idle

(* The batch of a dispatch under way is one a caller could send.           *)
LEMMA BatchOf ==
    ASSUME IInv, NEW p \in commitments, p.data.type = "dispatch"
    PROVE  /\ p \in Packet
           /\ p.data.batch \in Batches
           /\ p.data.batch.total \in Nat
           /\ p.data.batch.count \in Nat
           /\ p.data.batch.count = 0 => p.data.batch.total = 0
<1>1. p \in Packet
  BY DEF IInv, TypeInv, TypeOK, IbcTypeOK
<1>2. p.data.batch \in Batches
  BY <1>1, PacketContent DEF Packet
<1> QED
  BY <1>1, <1>2, InputAssumption, BatchAssumption DEF Batch

-----------------------------------------------------------------------------
(* Every step of TxSpec is a step or a stutter of Spec.  A call that is    *)
(* not the last of its transaction is a stutter, and so is a rollback.     *)

(* A call in the middle of a transaction is invisible outside.             *)
LEMMA ContinueStutters == \A call : Continue(call) => UNCHANGED vars
  BY DEF Continue

(* The reply that registers a new account is the host's connect.           *)
LEMMA ReplyInitConnects ==
    ASSUME IInv, TxInv, RunReplyInit
    PROVE  HostHandshake(tx.chan)
<1> DEFINE c == tx.chan
           a == tx.addr
           b == tx.branch
<1>1. Running("reply_init") /\ ReplyInitCallback(b, a)
  BY DEF RunReplyInit
<1>2. c \in Channels /\ a \in Addrs
  BY <1>1, ConnectTyped DEF TxInv
<1>3. /\ b = [Store EXCEPT !.pending = c, !.owner = [owner EXCEPT ![a] = c]]
      /\ HostMayConnect(c)
      /\ tx.end = HostConnectEnd(c)
      /\ owner[a] = None
  BY <1>1 DEF TxInv, Connecting
<1>4. /\ b.accounts = hostAccounts
      /\ b.pending = c
      /\ b.owner = [owner EXCEPT ![a] = c]
      /\ b.balance = balance
      /\ b.results = results
  BY <1>3 DEF Store
<1>5. b \in StoreType
  BY <1>1, ConnectTyped DEF TxInv
<1>6. /\ hostAccounts[c] = None
      /\ hostAccounts' = [hostAccounts EXCEPT ![c] = a]
      /\ owner' = [owner EXCEPT ![a] = c]
      /\ balance' = balance
  BY <1>1, <1>4, <1>5 DEF ReplyInitCallback, Commit, StoreType
<1>7. HostChannelConnect(c)
  BY <1>2, <1>3, <1>6 DEF HostChannelConnect, Register, Cw1Instantiate
<1>8. /\ hostEnd' = [hostEnd EXCEPT ![c] = HostConnectEnd(c)]
      /\ HostOnly
      /\ UNCHANGED acks
  BY <1>3 DEF RunReplyInit
<1> QED
  BY <1>3, <1>7, <1>8
  DEF HostMayConnect, HostConnectEnd, Reached, HostOnly, HostHandshake, HostOpenAck,
      HostOpenConfirm

(* A receipt that fails is the receipt of a batch that is not covered.     *)
LEMMA FailReceives ==
    ASSUME IInv, NEW p \in commitments, CanReceive(p), p.data.type = "dispatch",
           FailReceive(p),
           hostAccounts[p.chan] # None => ~Covers(hostAccounts[p.chan], p.data.batch)
    PROVE  RecvPacket(p)
  BY DEF FailReceive, Rollback, HostOnly, RecvPacket, HostPacketReceive, ReceiveDispatch,
         hostVars, cw1Vars

(* A dispatch refused at once is a receipt answered with an error; one     *)
(* that starts running changes nothing yet.                                *)
LEMMA ReceiveDispatchSteps ==
    ASSUME IInv, NEW p \in commitments, IbcPacketReceiveDispatch(p)
    PROVE  [Next]_vars
<1>1. CASE hostAccounts[p.chan] = None
  <2>1. RecvPacket(p)
    BY <1>1, FailReceives DEF IbcPacketReceiveDispatch
  <2> QED
    BY <2>1 DEF Next, HostChainNext
<1>2. CASE hostAccounts[p.chan] # None
  BY <1>2, ContinueStutters DEF IbcPacketReceiveDispatch
<1> QED
  BY <1>1, <1>2

(* What the branch of a dispatch holds.                                    *)
LEMMA ExecutingFacts ==
    ASSUME IInv, TxInv, Running("execute")
    PROVE  /\ tx.packet \in commitments
           /\ tx.packet.data.type = "dispatch"
           /\ CanReceive(tx.packet)
           /\ tx.packet.data.batch.total \in Nat
           /\ tx.addr = hostAccounts[tx.packet.chan]
           /\ tx.addr \in Addrs
           /\ tx.addr # None
           /\ tx.due \in Nat /\ tx.left \in Nat
           /\ tx.left = 0 => tx.due = 0
           /\ tx.branch.accounts = hostAccounts
           /\ tx.branch.owner = owner
           /\ tx.branch.pending = None
           /\ tx.branch.results = <<>>
           /\ tx.branch.balance = [balance EXCEPT ![tx.addr] = @ - Spent]
           /\ tx.branch.balance[tx.addr] = balance[tx.addr] - Spent
           /\ tx.branch.balance[tx.addr] \in Nat
           /\ balance[tx.addr] \in Nat
           /\ balance \in [Addrs \cup {HostAddr} -> Nat]
<1>1. Executing
  BY DEF TxInv
<1>2. tx.packet \in commitments
  BY <1>1 DEF Executing, CanReceive
<1>3. tx.packet.data.batch.total \in Nat
  BY <1>1, <1>2, BatchOf DEF Executing
<1>4. tx.addr \in Addrs /\ tx.due \in Nat /\ tx.left \in Nat /\ tx.branch \in StoreType
  BY DispatchTyped DEF TxInv
<1>5. balance \in [Addrs \cup {HostAddr} -> Nat]
  BY DEF IInv, TypeInv, TypeOK, Cw1TypeOK
<1>6. /\ tx.branch.accounts = hostAccounts
      /\ tx.branch.owner = owner
      /\ tx.branch.pending = None
      /\ tx.branch.results = <<>>
      /\ tx.branch.balance = [balance EXCEPT ![tx.addr] = @ - Spent]
  BY <1>1 DEF Executing, Store, TxInv
<1>7. tx.branch.balance[tx.addr] = balance[tx.addr] - Spent
  BY <1>4, <1>5, <1>6
<1>8. tx.branch.balance[tx.addr] \in Nat
  BY <1>4 DEF StoreType
<1> QED
  BY <1>1, <1>2, <1>3, <1>4, <1>5, <1>6, <1>7, <1>8, NoneAssumption DEF Executing

(* A message that succeeds is invisible outside; one that fails makes the  *)
(* whole receipt an error.                                                 *)
LEMMA RunMessageSteps ==
    ASSUME IInv, TxInv, RunMessage
    PROVE  [Next]_vars
<1> DEFINE p == tx.packet
<1>1. Running("execute")
  BY DEF RunMessage
<1>2. PICK amount \in 0 .. tx.due :
          IF Affords(tx.branch, tx.addr, amount)
          THEN \E call : Continue(call)
          ELSE FailMessage(tx.branch, p)
  BY DEF RunMessage
<1>3. CASE Affords(tx.branch, tx.addr, amount)
  BY <1>2, <1>3, ContinueStutters
<1>4. CASE ~Affords(tx.branch, tx.addr, amount)
  <2>1. ~Covers(tx.addr, p.data.batch)
    BY <1>1, <1>4, ExecutingFacts DEF Affords, Covers, Spent
  <2>2. RecvPacket(p)
    BY <1>1, <1>2, <1>4, <2>1, ExecutingFacts, FailReceives DEF FailMessage
  <2> QED
    BY <1>1, <2>2, ExecutingFacts DEF Next, HostChainNext
<1> QED
  BY <1>3, <1>4

(* The reply to the batch is the receipt answered with success: the branch *)
(* committed holds exactly what the one-step receipt leaves.               *)
LEMMA ReplyDispatchSteps ==
    ASSUME IInv, TxInv, RunReplyDispatch
    PROVE  Next
<1> DEFINE p == tx.packet
           a == tx.addr
           total == p.data.batch.total
<1>1. Running("execute") /\ tx.left = 0
  BY DEF RunReplyDispatch
<1>2. tx.due = 0 /\ Spent = total
  BY <1>1, ExecutingFacts DEF Spent
<1>3. Covers(a, p.data.batch)
  BY <1>1, <1>2, ExecutingFacts DEF Covers
<1>4. tx.branch \in StoreType
  BY <1>1, DispatchTyped DEF TxInv
<1>5. /\ hostAccounts' = hostAccounts
      /\ owner' = owner
      /\ balance' = [balance EXCEPT ![a] = @ - total]
  BY <1>1, <1>2, <1>4, ExecutingFacts DEF RunReplyDispatch, Commit, StoreType
<1>6. WriteAck(p, DispatchAck)
  <2>1. tx.branch.results = <<>>
    BY <1>1, ExecutingFacts
  <2>2. Append(<<>>, Empty) = <<Empty>>
    OBVIOUS
  <2> QED
    BY <2>1, <2>2 DEF RunReplyDispatch, DispatchAck
<1>7. ReceiveDispatch(p)
  BY <1>1, <1>3, <1>5, <1>6, ExecutingFacts DEF ReceiveDispatch, Spend
<1>8. RecvPacket(p)
  BY <1>1, <1>7, ExecutingFacts DEF RecvPacket, HostPacketReceive, RunReplyDispatch, HostOnly
<1> QED
  BY <1>1, <1>8, ExecutingFacts DEF Next, HostChainNext

(* A close that needs no sweep is done with the call itself; the sweep is  *)
(* a message that the account does not know.                               *)
LEMMA CloseSteps ==
    ASSUME IInv, TxInv, NEW c \in Channels, IbcChannelClose(c)
    PROVE  [Next]_vars
<1> DEFINE a == hostAccounts[c]
           branch == [Store EXCEPT !.accounts[c] = None]
<1>1. /\ Closable(hostEnd[c])
      /\ a # None
      /\ IF balance[a] = 0 THEN FinishClose(c, branch) ELSE \E call : Continue(call)
  BY DEF IbcChannelClose
<1>2. CASE balance[a] # 0
  BY <1>1, <1>2, ContinueStutters
<1>3. CASE balance[a] = 0
  <2>1. /\ hostAccounts \in [Channels -> Addrs \cup {None}]
        /\ balance \in [Addrs \cup {HostAddr} -> Nat]
    BY DEF IInv, TypeInv, TypeOK, HostTypeOK, Cw1TypeOK
  <2>2. a \in Addrs
    BY <1>1, <2>1
  <2>3. /\ hostAccounts' = [hostAccounts EXCEPT ![c] = None]
        /\ owner' = owner
        /\ balance' = balance
    BY <1>1, <1>3 DEF FinishClose, Commit, Store
  <2>4. balance' = [balance EXCEPT ![a] = 0, ![HostAddr] = @ + balance[a]]
    BY <1>3, <2>1, <2>2, <2>3, HostAddrAssumption
  <2>5. HostChannelClose(c)
    <3>1. ~(balance[a] > 0)
      BY <1>3
    <3> QED
      BY <1>1, <2>3, <2>4, <3>1 DEF HostChannelClose
  <2>6. HostCloseInit(c)
    BY <1>1, <1>3, <2>5 DEF FinishClose, HostOnly, HostCloseInit, HostClose
  <2> QED
    BY <2>6 DEF Next, HostChainNext
<1> QED
  BY <1>2, <1>3

(* A sweep fails, and with it the close it belongs to.                     *)
LEMMA SweepStutters == RunSweep => UNCHANGED vars
<1>1. ~Cw1Accepts("reflect_msg")
  BY DEF Cw1Accepts, Cw1ExecuteMsgs
<1> QED
  BY <1>1 DEF RunSweep, Rollback, vars, hostVars

(* Entry points that emit no message are steps of the system as they are.  *)
LEMMA SingleCallSteps == SingleCall => Next
  BY DEF SingleCall, Next, HostChainNext, HostHandshake

(* Every call is a step of the system or a stutter.                        *)
LEMMA SystemStep ==
    ASSUME IInv, TxInv, [TxNext]_hostTxVars
    PROVE  [Next]_vars
<1>1. CtrlChainNext => Next
  BY DEF Next
<1>2. RunReplyInit => Next
  <2>1. RunReplyInit => tx.chan \in Channels
    BY ConnectTyped DEF TxInv, RunReplyInit
  <2> QED
    BY <2>1, ReplyInitConnects DEF Next, HostChainNext
<1>3. ASSUME NEW c \in Channels, IbcChannelConnect(c) PROVE UNCHANGED vars
  BY <1>3, ContinueStutters DEF IbcChannelConnect
<1>4. RunInstantiate => UNCHANGED vars
  BY ContinueStutters DEF RunInstantiate
<1>5. OutOfGas => UNCHANGED vars
  BY DEF OutOfGas, Rollback, vars
<1> QED
  BY <1>1, <1>2, <1>3, <1>4, <1>5, ReceiveDispatchSteps, RunMessageSteps,
     ReplyDispatchSteps, CloseSteps, SweepStutters, SingleCallSteps
  DEF TxNext, hostTxVars

-----------------------------------------------------------------------------
(* The invariant of a transaction under way.                               *)

(* A step elsewhere leaves it as it is.                                    *)
LEMMA TxInvKept ==
    ASSUME TxInv, TypeOK', UNCHANGED txVars, UNCHANGED <<hostAccounts, owner, balance>>,
           \A c \in Channels : HostMayConnect(c) =>
               HostMayConnect(c)' /\ HostConnectEnd(c)' = HostConnectEnd(c),
           \A p : CanReceive(p) => CanReceive(p)'
    PROVE  TxInv'
<1>1. UNCHANGED <<pending, results, tx>>
  BY DEF txVars
<1>2. Store' = Store
  BY <1>1 DEF Store
<1>3. TxTypeOK'
  BY <1>1 DEF TxInv, TxTypeOK
<1>4. \A step : Running(step)' = Running(step)
  BY <1>1 DEF Running, Idle
<1>5. ASSUME Running("instantiate") \/ Running("reply_init"), Connecting
      PROVE  Connecting'
  <2>1. tx.chan \in Channels
    BY <1>5, ConnectTyped DEF TxInv
  <2> QED
    BY <1>1, <1>5, <2>1 DEF Connecting
<1>6. Executing => Executing'
  BY <1>1, <1>2 DEF Executing, Spent
<1> QED
  BY <1>1, <1>2, <1>3, <1>4, <1>5, <1>6 DEF TxInv

(* A step of the controller's chain disturbs no transaction of the host.   *)
LEMMA CtrlChainKeeps ==
    ASSUME IInv, IInv', TxInv, CtrlChainNext, UNCHANGED txVars
    PROVE  TxInv'
<1>1. TypeOK'
  BY DEF IInv, TypeInv
<1>2. UNCHANGED <<hostAccounts, owner, balance>>
  BY CtrlKeepsHost
<1> QED
  BY <1>1, <1>2, TxInvKept, ConnectStays, ReceivableStays

(* Nothing changes, nothing breaks.                                        *)
LEMMA StutterKeeps ==
    ASSUME IInv', TxInv, UNCHANGED hostTxVars
    PROVE  TxInv'
<1>1. TypeOK'
  BY DEF IInv, TypeInv
<1>2. UNCHANGED txVars /\ UNCHANGED <<hostAccounts, owner, balance>>
  BY DEF hostTxVars, vars, hostVars, cw1Vars
<1>3. UNCHANGED <<ctrlEnd, hostEnd, commitments, acks, hostTime>>
  BY DEF hostTxVars, vars, ibcVars
<1>4. \A c \in Channels : HostMayConnect(c) =>
          HostMayConnect(c)' /\ HostConnectEnd(c)' = HostConnectEnd(c)
  BY <1>3 DEF HostMayConnect, HostConnectEnd
<1>5. \A p : CanReceive(p) => CanReceive(p)'
  BY <1>3 DEF CanReceive, Received
<1> QED
  BY <1>1, <1>2, <1>4, <1>5, TxInvKept

(* A call that is not the last one leaves all but tx alone.                *)
LEMMA ContinueFrame ==
    ASSUME IInv', TxInv, NEW call \in ConnectTx \cup DispatchTx \cup CloseTx,
           Continue(call)
    PROVE  /\ TxTypeOK'
           /\ tx' = call
           /\ pending' = None
           /\ Store' = Store
           /\ UNCHANGED <<hostAccounts, owner, balance>>
           /\ UNCHANGED <<ctrlEnd, hostEnd, commitments, acks, hostTime>>
<1>1. tx' = call /\ UNCHANGED <<vars, pending, results>>
  BY DEF Continue
<1>2. UNCHANGED <<hostAccounts, owner, balance, ctrlEnd, hostEnd, commitments, acks, hostTime>>
  BY <1>1 DEF vars, ibcVars, hostVars, cw1Vars
<1> QED
  BY <1>1, <1>2 DEF TxTypeOK, TxInv, IInv, TypeInv, Store

(* A connect starts with PENDING set to its own channel.                   *)
LEMMA ConnectBegins ==
    ASSUME IInv, IInv', TxInv, NEW c \in Channels, IbcChannelConnect(c)
    PROVE  TxInv'
<1> DEFINE call == [step |-> "instantiate", chan |-> c, end |-> HostConnectEnd(c),
                    branch |-> [Store EXCEPT !.pending = c]]
<1>1. HostMayConnect(c) /\ Continue(call)
  BY DEF IbcChannelConnect
<1>2. call \in ConnectTx
  <2>1. hostEnd[c] \in ChannelEnd /\ ctrlEnd[c].version \in Versions \cup {None}
    BY DEF IInv, TypeInv, TypeOK, IbcTypeOK, ChannelEnd
  <2>2. HostConnectEnd(c) \in ChannelEnd
    BY <2>1, EnterTyped DEF HostConnectEnd, EndStates
  <2>3. [Store EXCEPT !.pending = c] \in StoreType
    BY StoreTyped DEF TxInv, StoreType
  <2> QED
    BY <2>2, <2>3 DEF ConnectTx
<1>3. /\ TxTypeOK' /\ tx' = call /\ pending' = None /\ Store' = Store
      /\ UNCHANGED <<ctrlEnd, hostEnd>>
  BY <1>1, <1>2, ContinueFrame
<1>4. Connecting'
  BY <1>1, <1>3 DEF Connecting, HostMayConnect, HostConnectEnd
<1> QED
  BY <1>3, <1>4 DEF TxInv, Running

(* The instantiated account is the one its reply will register.            *)
LEMMA InstantiateGoesOn ==
    ASSUME IInv, IInv', TxInv, RunInstantiate
    PROVE  TxInv'
<1>1. Running("instantiate")
  BY DEF RunInstantiate
<1>2. /\ tx.chan \in Channels /\ tx.end \in ChannelEnd /\ tx.branch \in StoreType
      /\ Connecting /\ tx.branch = [Store EXCEPT !.pending = tx.chan]
  BY <1>1, ConnectTyped DEF TxInv
<1>3. PICK a \in Addrs :
          /\ tx.branch.owner[a] = None
          /\ Continue([step |-> "reply_init", chan |-> tx.chan, end |-> tx.end, addr |-> a,
                       branch |-> [tx.branch EXCEPT !.owner[a] = tx.chan]])
  BY DEF RunInstantiate
<1> DEFINE call == [step |-> "reply_init", chan |-> tx.chan, end |-> tx.end, addr |-> a,
                    branch |-> [tx.branch EXCEPT !.owner[a] = tx.chan]]
<1>4. [tx.branch EXCEPT !.owner[a] = tx.chan] \in StoreType
  BY <1>2 DEF StoreType
<1>5. call \in ConnectTx
  BY <1>2, <1>4 DEF ConnectTx
<1>6. /\ TxTypeOK' /\ tx' = call /\ pending' = None /\ Store' = Store
      /\ UNCHANGED <<owner, ctrlEnd, hostEnd>>
  BY <1>3, <1>5, ContinueFrame
<1>7. Connecting'
  BY <1>2, <1>6 DEF Connecting, HostMayConnect, HostConnectEnd
<1>8. /\ owner[a] = None
      /\ call.branch = [Store EXCEPT !.pending = tx.chan,
                                     !.owner = [owner EXCEPT ![a] = tx.chan]]
  BY <1>2, <1>3 DEF Store
<1> QED
  BY <1>6, <1>7, <1>8 DEF TxInv, Running

(* A batch starts with nothing spent and the whole of it to go.            *)
LEMMA DispatchBegins ==
    ASSUME IInv, IInv', TxInv, NEW p \in commitments, IbcPacketReceiveDispatch(p)
    PROVE  TxInv'
<1> DEFINE a == hostAccounts[p.chan]
           call == DispatchCall(p, a)
<1>1. /\ CanReceive(p)
      /\ p.data.type = "dispatch"
      /\ IF a = None THEN FailReceive(p) ELSE Continue(call)
  BY DEF IbcPacketReceiveDispatch
<1>2. CASE a = None
  <2>1. tx' = None /\ pending' = None /\ results' = results
    BY <1>1, <1>2 DEF FailReceive, Rollback, TxInv
  <2> QED
    BY <2>1, TxInvIdle DEF IInv, TypeInv, TxInv, TxTypeOK
<1>3. CASE a # None
  <2>1. /\ p \in Packet
        /\ p.data.batch.total \in Nat
        /\ p.data.batch.count \in Nat
        /\ p.data.batch.count = 0 => p.data.batch.total = 0
    BY <1>1, BatchOf
  <2>2. a \in Addrs
    BY <1>3, <2>1 DEF IInv, TypeInv, TypeOK, HostTypeOK, Packet
  <2>3. [Store EXCEPT !.results = <<>>] \in StoreType
    <3>1. Store \in StoreType
      BY StoreTyped DEF TxInv
    <3>2. <<>> \in Seq({Empty})
      OBVIOUS
    <3> QED
      BY <3>1, <3>2 DEF StoreType
  <2>4. call \in DispatchTx
    BY <2>1, <2>2, <2>3 DEF DispatchCall, DispatchTx
  <2>5. /\ TxTypeOK' /\ tx' = call /\ pending' = None /\ Store' = Store
        /\ UNCHANGED <<hostAccounts, balance, hostEnd, commitments, acks, hostTime>>
    BY <1>1, <1>3, <2>4, ContinueFrame
  <2>6. /\ tx'.packet = p /\ tx'.addr = a
        /\ tx'.left = p.data.batch.count /\ tx'.due = p.data.batch.total
        /\ tx'.branch = [Store EXCEPT !.results = <<>>]
        /\ tx'.step = "execute"
    BY <2>5 DEF DispatchCall
  <2>7. Spent' = 0
    BY <2>1, <2>6 DEF Spent
  <2>8. [balance EXCEPT ![a] = @ - 0] = balance /\ Store.balance = balance
    BY <2>2 DEF IInv, TypeInv, TypeOK, Cw1TypeOK, Store
  <2>9. CanReceive(p)'
    BY <1>1, <2>5 DEF CanReceive, Received
  <2>10. tx'.branch = [Store EXCEPT !.results = <<>>,
                                    !.balance = [balance EXCEPT ![a] = @ - 0]]
    BY <2>6, <2>8 DEF Store
  <2>11. Executing'
    BY <1>1, <2>1, <2>5, <2>6, <2>7, <2>9, <2>10 DEF Executing
  <2> QED
    BY <2>5, <2>6, <2>11 DEF TxInv, Running
<1> QED
  BY <1>2, <1>3

(* What a message leaves of a dispatch under way is one, too.              *)
LEMMA DispatchGoesOn ==
    ASSUME NEW t \in DispatchTx, NEW l \in Nat, NEW d \in Nat, NEW b \in StoreType
    PROVE  [t EXCEPT !.left = l, !.due = d, !.branch = b] \in DispatchTx
  BY DEF DispatchTx

(* After each message the branch has spent what is no longer due.          *)
LEMMA MessageGoesOn ==
    ASSUME IInv, IInv', TxInv, RunMessage
    PROVE  TxInv'
<1> DEFINE a == tx.addr
<1>1. Running("execute") /\ tx.left > 0
  BY DEF RunMessage
<1>2. PICK amount \in 0 .. tx.due :
          /\ tx.left = 1 => amount = tx.due
          /\ IF Affords(tx.branch, a, amount)
             THEN Continue([tx EXCEPT !.left = @ - 1, !.due = @ - amount,
                                      !.branch = Paid(@, a, amount)])
             ELSE FailMessage(tx.branch, tx.packet)
  BY DEF RunMessage
<1>3. CASE ~Affords(tx.branch, a, amount)
  <2>1. tx' = None /\ pending' = None /\ results' = results
    BY <1>2, <1>3 DEF FailMessage, FailReceive, Rollback, TxInv
  <2> QED
    BY <2>1, TxInvIdle DEF IInv, TypeInv, TxInv, TxTypeOK
<1>4. CASE Affords(tx.branch, a, amount)
  <2> DEFINE branch == Paid(tx.branch, a, amount)
             call == [tx EXCEPT !.left = @ - 1, !.due = @ - amount,
                                !.branch = Paid(@, a, amount)]
  <2>1. /\ tx \in DispatchTx /\ tx.branch \in StoreType /\ a \in Addrs
        /\ tx.left \in Nat /\ tx.due \in Nat
    BY <1>1, DispatchTyped DEF TxInv
  <2>2. amount \in Nat /\ amount <= tx.due
    BY <2>1
  <2>3. branch \in StoreType
    <3>1. [tx.branch.balance EXCEPT ![a] = @ - amount] \in [Addrs \cup {HostAddr} -> Nat]
      BY <1>4, <2>1, <2>2 DEF Affords, StoreType
    <3> QED
      BY <2>1, <3>1 DEF Paid, StoreType
  <2>4. /\ call.step = "execute" /\ call.packet = tx.packet /\ call.addr = a
        /\ call.left = tx.left - 1 /\ call.due = tx.due - amount
        /\ call.branch = branch
    BY <2>1 DEF DispatchTx, StoreType
  <2>5. call \in DispatchTx
    <3>1. call.left \in Nat /\ call.due \in Nat
      BY <1>1, <2>1, <2>2, <2>4
    <3>2. tx.left - 1 \in Nat /\ tx.due - amount \in Nat
      BY <2>4, <3>1
    <3> QED
      BY <2>1, <2>3, <3>2, DispatchGoesOn
  <2>6. /\ TxTypeOK' /\ tx' = call /\ pending' = None /\ Store' = Store
        /\ UNCHANGED <<hostAccounts, balance, hostEnd, commitments, acks, hostTime>>
    BY <1>2, <1>4, <2>5, ContinueFrame
  <2>7. Executing /\ Spent \in Nat /\ tx.packet.data.batch.total \in Nat
    BY <1>1, ExecutingFacts DEF TxInv, Executing
  <2>8. Spent' = Spent + amount /\ Spent' \in Nat
    BY <2>1, <2>2, <2>4, <2>6, <2>7 DEF Spent
  <2>9. call.left = 0 => call.due = 0
    BY <1>1, <1>2, <2>1, <2>2, <2>4
  <2>10. branch = [Store EXCEPT !.results = <<>>,
                                !.balance = [balance EXCEPT ![a] = @ - Spent']]
    <3>1. tx.branch = [Store EXCEPT !.results = <<>>,
                                    !.balance = [balance EXCEPT ![a] = @ - Spent]]
      BY <2>7 DEF Executing
    <3>2. balance \in [Addrs \cup {HostAddr} -> Nat] /\ balance[a] \in Nat
      BY <1>1, ExecutingFacts
    <3>3. [[balance EXCEPT ![a] = @ - Spent] EXCEPT ![a] = @ - amount]
              = [balance EXCEPT ![a] = @ - (Spent + amount)]
      <4>1. a \in Addrs /\ Spent \in Nat /\ amount \in Nat
        BY <2>1, <2>2, <2>7
      <4>2. [balance EXCEPT ![a] = @ - Spent][a] - amount = balance[a] - (Spent + amount)
        BY <3>2, <4>1
      <4> QED
        BY <3>2, <4>1, <4>2
    <3>4. [balance EXCEPT ![a] = @ - (Spent + amount)]
              = [balance EXCEPT ![a] = @ - Spent']
      BY <2>8
    <3> QED
      BY <3>1, <3>3, <3>4 DEF Paid, Store
  <2>11. CanReceive(tx.packet)'
    BY <2>4, <2>6, <2>7 DEF Executing, CanReceive, Received
  <2>12. Executing'
    BY <2>4, <2>6, <2>7, <2>8, <2>9, <2>10, <2>11 DEF Executing
  <2> QED
    BY <2>4, <2>6, <2>12 DEF TxInv, Running
<1> QED
  BY <1>3, <1>4

(* What ends a transaction leaves the slots as they may be between two.    *)
LEMMA EndsKeep ==
    ASSUME IInv, IInv', TxInv,
           \/ RunReplyInit
           \/ RunReplyDispatch
           \/ OutOfGas
           \/ Idle /\ SingleCall /\ UNCHANGED txVars
    PROVE  TxInv'
<1> SUFFICES tx' = None /\ pending' = None /\ results' \in Seq({Empty})
  BY TxInvIdle DEF IInv, TypeInv
<1>1. CASE RunReplyInit
  <2>1. tx.branch \in StoreType
    BY <1>1, ConnectTyped DEF TxInv, RunReplyInit
  <2> QED
    BY <1>1, <2>1 DEF RunReplyInit, ReplyInitCallback, Commit, StoreType
<1>2. CASE RunReplyDispatch
  <2>1. tx.branch.pending = None /\ tx.branch \in StoreType /\ tx.branch.results = <<>>
    BY <1>2, ExecutingFacts, DispatchTyped DEF RunReplyDispatch, TxInv
  <2>2. Append(<<>>, Empty) \in Seq({Empty})
    OBVIOUS
  <2> QED
    BY <1>2, <2>1, <2>2 DEF RunReplyDispatch, Commit, StoreType
<1>3. CASE OutOfGas
  BY <1>3 DEF OutOfGas, Rollback, TxInv, TxTypeOK
<1>4. CASE Idle /\ SingleCall /\ UNCHANGED txVars
  BY <1>4 DEF Idle, txVars, TxInv, TxTypeOK
<1> QED
  BY <1>1, <1>2, <1>3, <1>4

(* A close commits at once or starts a sweep.                              *)
LEMMA CloseKeeps ==
    ASSUME IInv, IInv', TxInv, NEW c \in Channels, IbcChannelClose(c)
    PROVE  TxInv'
<1> DEFINE a == hostAccounts[c]
           branch == [Store EXCEPT !.accounts[c] = None]
           call == [step |-> "sweep", chan |-> c, addr |-> a, branch |-> branch]
<1>1. a # None /\ IF balance[a] = 0 THEN FinishClose(c, branch) ELSE Continue(call)
  BY DEF IbcChannelClose
<1>2. branch \in StoreType /\ branch.pending = None /\ branch.results = results
  <2>1. Store.pending = None /\ Store.results = results
    BY DEF Store, TxInv
  <2> QED
    BY <2>1, StoreTyped DEF TxInv, StoreType
<1>3. CASE balance[a] = 0
  <2>1. tx' = None /\ pending' = None /\ results' = results
    BY <1>1, <1>2, <1>3 DEF FinishClose, Commit
  <2> QED
    BY <2>1, TxInvIdle DEF IInv, TypeInv, TxInv, TxTypeOK
<1>4. CASE balance[a] # 0
  <2>1. a \in Addrs
    BY <1>1 DEF IInv, TypeInv, TypeOK, HostTypeOK
  <2>2. call \in CloseTx
    BY <1>2, <2>1 DEF CloseTx
  <2>3. TxTypeOK' /\ tx' = call /\ pending' = None
    BY <1>1, <1>4, <2>2, ContinueFrame
  <2> QED
    BY <2>3 DEF TxInv, Running
<1> QED
  BY <1>3, <1>4

(* A failed sweep leaves nothing behind.                                   *)
LEMMA SweepKeeps ==
    ASSUME IInv', TxInv, RunSweep
    PROVE  TxInv'
<1>1. tx' = None /\ pending' = None /\ results' = results
  BY DEF RunSweep, Cw1Accepts, Cw1ExecuteMsgs, Rollback, TxInv
<1> QED
  BY <1>1, TxInvIdle DEF IInv, TypeInv, TxInv, TxTypeOK

(* Every call keeps the invariant of the transaction under way.            *)
LEMMA TxInvStep ==
    ASSUME IInv, IInv', TxInv, [TxNext]_hostTxVars
    PROVE  TxInv'
  BY CtrlChainKeeps, StutterKeeps, ConnectBegins, InstantiateGoesOn, DispatchBegins,
     MessageGoesOn, EndsKeep, CloseKeeps, SweepKeeps
  DEF TxNext

(* No transaction is under way at the start.                               *)
LEMMA TxInvInit == TxInit => TxInv
<1> SUFFICES ASSUME TxInit PROVE TxInv
  OBVIOUS
<1>1. TypeOK /\ pending = None /\ results = <<>> /\ tx = None
  BY TypeInit DEF TxInit, TypeInv
<1>2. <<>> \in Seq({Empty})
  OBVIOUS
<1> QED
  BY <1>1, <1>2 DEF TxInv, TxTypeOK, Running, Idle

(* Both invariants hold throughout.                                        *)
LEMMA TxInductive == TxSpec => [](IInv /\ TxInv)
<1>1. TxInit => IInv /\ TxInv
  BY IInvInit, TxInvInit DEF TxInit
<1>2. IInv /\ TxInv /\ [TxNext]_hostTxVars => IInv' /\ TxInv'
  BY SystemStep, IInvStep, TxInvStep
<1> QED
  BY <1>1, <1>2, PTL DEF TxSpec

-----------------------------------------------------------------------------
(* A transaction on the host chain takes effect as a whole or not at all,  *)
(* whatever the controller's chain does between its calls.  So all that is *)
(* proved of Spec holds of the host call by call.                          *)
THEOREM TransactionsAtomic == TxSpec => Atomic
<1>1. TxInit => Init
  BY DEF TxInit
<1>2. IInv /\ TxInv /\ [TxNext]_hostTxVars => [Next]_vars
  BY SystemStep
<1> QED
  BY <1>1, <1>2, TxInductive, PTL DEF TxSpec, Atomic, Spec

(* PENDING is only ever read by the reply to the call that wrote it, and   *)
(* RESULTS holds nothing of an earlier packet when a reply appends to it   *)
(* (reply_init_callback and reply_dispatch_callback, contract.rs:186).     *)
THEOREM SlotsSafe == TxSpec => []SlotsServeOneCall
<1>1. ASSUME TxInv PROVE SlotsServeOneCall
  <2>1. Running("instantiate") \/ Running("reply_init") => tx.branch.pending = tx.chan
    BY <1>1 DEF TxInv, Store
  <2>2. Running("execute") => tx.branch.results = <<>>
    BY <1>1 DEF TxInv, Executing, Store
  <2> QED
    BY <1>1, <2>1, <2>2 DEF TxInv, SlotsServeOneCall
<1> QED
  BY <1>1, TxInductive, PTL

(* A transaction under way has the shape that its next call expects.       *)
THEOREM TxTypeCorrect == TxSpec => []TxTypeOK
<1>1. TxInv => TxTypeOK
  BY DEF TxInv
<1> QED
  BY <1>1, TxInductive, PTL
=============================================================================
