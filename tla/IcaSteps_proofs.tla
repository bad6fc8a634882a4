-------------------------- MODULE IcaSteps_proofs --------------------------
(***************************************************************************)
(* What no single step may do, proved from the agreement invariant: forget *)
(* a remote address, or take funds from an account without a successful    *)
(* dispatch on its channel.                                                *)
(***************************************************************************)
EXTENDS IcaAgreement_proofs

(* Only these actions write the controller's accounts.                     *)
LEMMA AccountWriters ==
    ASSUME [Next]_vars, ctrlAccounts' # ctrlAccounts
    PROVE  \/ \E c \in Channels : CtrlOpenAck(c) \/ CtrlOpenConfirm(c)
           \/ \E c \in Channels : CtrlClose(c)
           \/ \E w \in acks : AckPacket(w)
<1> USE DEF vars, ibcVars, controllerVars, ctrlVars, hostVars, cw1Vars
<1>1. ASSUME NEW c \in Channels, HostOpenTry(c) \/ CtrlOpenTry(c) \/ HostOpenAck(c)
                                 \/ HostOpenConfirm(c) \/ HostClose(c)
      PROVE  ctrlAccounts' = ctrlAccounts
  BY <1>1 DEF HostOpenTry, CtrlOpenTry, HostOpenAck, HostOpenConfirm, HostClose
<1>2. ASSUME NEW c \in Channels,
             \/ \E o \in Orders, v \in Versions : CtrlOpenInit(c, o, v)
             \/ \E o \in Orders : HostOpenInit(c, o)
      PROVE  ctrlAccounts' = ctrlAccounts
  BY <1>2 DEF CtrlOpenInit, HostOpenInit
<1>3. ASSUME NEW user \in Users, NEW c \in Channels, Call(user, c)
      PROVE  ctrlAccounts' = ctrlAccounts
  BY <1>3
  DEF Call, CapturerSendMsgs, CapturerSendQuery, CapturerCheckRemoteBalance, SendMsgs,
      SendQuery, CheckRemoteBalance, ExecuteSendMsgs, ExecuteIbcQuery,
      ExecuteCheckRemoteBalance
<1>4. ASSUME NEW p \in commitments, RecvPacket(p) \/ TimeoutPacket(p)
      PROVE  ctrlAccounts' = ctrlAccounts
  BY <1>4 DEF RecvPacket, TimeoutPacket, IbcPacketTimeout
<1>5. ASSUME NEW user \in Users, NEW a \in Senders, UpdateAdmin(user, a)
      PROVE  ctrlAccounts' = ctrlAccounts
  BY <1>5 DEF UpdateAdmin, ExecuteUpdateAdmin
<1>6. ASSUME NEW a \in Addrs, NEW n \in 1 .. MaxBalance, DepositTo(a, n)
      PROVE  ctrlAccounts' = ctrlAccounts
  BY <1>6 DEF DepositTo
<1>7. CtrlTick \/ HostTick \/ UNCHANGED vars => ctrlAccounts' = ctrlAccounts
  BY DEF CtrlTick, HostTick
<1> QED
  BY <1>1, <1>2, <1>3, <1>4, <1>5, <1>6, <1>7
  DEF Next, CtrlChainNext, HostChainNext, CtrlHandshake, HostHandshake, CtrlCloseInit,
      CtrlCloseConfirm, HostCloseInit, HostCloseConfirm

(* A remote address is neither forgotten nor changed while its entry       *)
(* exists.  The entry is reset only by connecting, when there is none yet. *)
THEOREM RemoteAddrKept == Spec => RemoteAddrStable
<1> DEFINE Kept(c) ==
      /\ ctrlAccounts[c] # None
      /\ ctrlAccounts[c].remote_addr # None
      /\ ctrlAccounts[c]' # None
      => ctrlAccounts[c]'.remote_addr = ctrlAccounts[c].remote_addr
<1>1. IInv /\ [Next]_vars => \A c \in Channels : Kept(c)
  <2> SUFFICES ASSUME IInv, [Next]_vars, ctrlAccounts' # ctrlAccounts,
                      NEW c \in Channels
               PROVE  Kept(c)
    OBVIOUS
  <2>1. ctrlAccounts \in [Channels -> AccountData \cup {None}]
    BY DEF IInv, TypeInv, TypeOK, CtrlTypeOK
  <2>2. ASSUME NEW d \in Channels, CtrlOpenAck(d) \/ CtrlOpenConfirm(d)
        PROVE  Kept(c)
    <3>1. ctrlAccounts[d] = None
      <4>1. ~IsOpen(ctrlEnd[d])
        BY <2>2 DEF CtrlOpenAck, CtrlOpenConfirm, IsOpen, Reached
      <4> QED
        BY <4>1 DEF IInv, RegisteredIffOpen
    <3>2. d # c => ctrlAccounts'[c] = ctrlAccounts[c]
      BY <2>1, <2>2 DEF CtrlOpenAck, CtrlOpenConfirm, CtrlChannelConnect
    <3> QED
      BY <3>1, <3>2
  <2>3. ASSUME NEW d \in Channels, CtrlClose(d) PROVE Kept(c)
    BY <2>1, <2>3 DEF CtrlClose, CtrlChannelClose
  <2>4. ASSUME NEW w \in acks, AckPacket(w) PROVE Kept(c)
    <3> DEFINE d == w.packet.chan
    <3>1. CASE c = d /\ ctrlAccounts[c] # None /\ ctrlAccounts[c].remote_addr # None
      <4>1. CASE IsSuccess(w.ack) /\ AcknowledgeWhoAmI(w.packet, w.ack)
        BY <2>1, <3>1, <4>1 DEF AcknowledgeWhoAmI, Learn
      <4>2. CASE IsSuccess(w.ack) /\ AcknowledgeBalances(w.packet, w.ack)
        <5>1. Report(w.ack.data).remote_addr = ctrlAccounts[c].remote_addr
          BY <3>1, <4>2 DEF AcknowledgeBalances, Matches, Report
        <5> QED
          BY <2>1, <3>1, <4>2, <5>1 DEF AcknowledgeBalances
      <4> QED
        BY <2>4, <4>1, <4>2
        DEF AckPacket, IbcPacketAck, AcknowledgeDispatch, AcknowledgeQuery,
            AcknowledgeWhoAmI, AcknowledgeBalances, ctrlVars
    <3>2. c # d => ctrlAccounts'[c] = ctrlAccounts[c]
      BY <2>1, <2>4
      DEF AckPacket, IbcPacketAck, AcknowledgeDispatch, AcknowledgeQuery,
          AcknowledgeWhoAmI, AcknowledgeBalances, ctrlVars
    <3> QED
      BY <3>1, <3>2
  <2> QED
    BY <2>2, <2>3, <2>4, AccountWriters
<1> QED
  BY <1>1, Inductive, PTL DEF Spec, RemoteAddrStable

-----------------------------------------------------------------------------
(* Only these actions write a balance.                                     *)
LEMMA BalanceWriters ==
    ASSUME [Next]_vars, balance' # balance
    PROVE  \/ \E c \in Channels : HostClose(c)
           \/ \E p \in commitments : RecvPacket(p)
           \/ \E a \in Addrs, n \in 1 .. MaxBalance : DepositTo(a, n)
<1> USE DEF vars, ibcVars, controllerVars, ctrlVars, hostVars, cw1Vars
<1>1. ASSUME NEW c \in Channels,
             \/ HostOpenTry(c) \/ CtrlOpenTry(c) \/ CtrlOpenAck(c) \/ CtrlOpenConfirm(c)
             \/ HostOpenAck(c) \/ HostOpenConfirm(c) \/ CtrlClose(c)
      PROVE  balance' = balance
  BY <1>1
  DEF HostOpenTry, CtrlOpenTry, CtrlOpenAck, CtrlOpenConfirm, HostOpenAck,
      HostOpenConfirm, HostChannelConnect, Register, CtrlClose
<1>2. ASSUME NEW c \in Channels,
             \/ \E o \in Orders, v \in Versions : CtrlOpenInit(c, o, v)
             \/ \E o \in Orders : HostOpenInit(c, o)
      PROVE  balance' = balance
  BY <1>2 DEF CtrlOpenInit, HostOpenInit
<1>3. ASSUME NEW user \in Users, NEW c \in Channels, Call(user, c)
      PROVE  balance' = balance
  BY <1>3
  DEF Call, CapturerSendMsgs, CapturerSendQuery, CapturerCheckRemoteBalance, SendMsgs,
      SendQuery, CheckRemoteBalance, SentOnly
<1>4. ASSUME NEW p \in commitments, TimeoutPacket(p) PROVE balance' = balance
  BY <1>4 DEF TimeoutPacket
<1>5. ASSUME NEW w \in acks, AckPacket(w) PROVE balance' = balance
  BY <1>5 DEF AckPacket
<1>6. ASSUME NEW user \in Users, NEW a \in Senders, UpdateAdmin(user, a)
      PROVE  balance' = balance
  BY <1>6 DEF UpdateAdmin
<1>7. CtrlTick \/ HostTick \/ UNCHANGED vars => balance' = balance
  BY DEF CtrlTick, HostTick
<1> QED
  BY <1>1, <1>2, <1>3, <1>4, <1>5, <1>6, <1>7
  DEF Next, CtrlChainNext, HostChainNext, CtrlHandshake, HostHandshake, CtrlCloseInit,
      CtrlCloseConfirm, HostCloseInit, HostCloseConfirm

(* What a fall of a balance is explained by.                               *)
Explained(a) ==
    balance'[a] < balance[a] =>
        \E w \in acks' \ acks :
            /\ w.packet.data.type = "dispatch"
            /\ w.packet.chan = owner[a]
            /\ IsSuccess(w.ack)
            /\ balance'[a] = balance[a] - w.packet.data.batch.total

(* Closing a channel takes nothing, because it is refused unless the       *)
(* account is empty, and a dispatch spends from the account listed for its *)
(* channel.                                                                *)
LEMMA BalanceFalls ==
    ASSUME TypeInv, HostOwned, [Next]_vars, NEW a \in Addrs
    PROVE  Explained(a)
<1> SUFFICES ASSUME balance'[a] < balance[a] PROVE Explained(a)
  BY DEF Explained
<1>1. /\ balance \in [Addrs \cup {HostAddr} -> Nat]
      /\ hostAccounts \in [Channels -> Addrs \cup {None}]
      /\ balance[a] \in Nat
  BY DEF TypeInv, TypeOK, HostTypeOK, Cw1TypeOK
<1>2. balance' # balance
  BY <1>1
<1>3. ASSUME NEW c \in Channels, HostClose(c) PROVE FALSE
  <2>1. /\ hostAccounts[c] \in Addrs
        /\ ~(balance[hostAccounts[c]] > 0)
        /\ balance' = [balance EXCEPT ![hostAccounts[c]] = 0,
                                      ![HostAddr] = @ + balance[hostAccounts[c]]]
    BY <1>1, <1>3 DEF HostClose, HostChannelClose, Cw1Accepts, Cw1ExecuteMsgs
  <2>2. balance'[a] = balance[a]
    BY <1>1, <2>1, HostAddrAssumption
  <2> QED
    BY <1>1, <2>2
<1>4. ASSUME NEW b \in Addrs, NEW n \in 1 .. MaxBalance, DepositTo(b, n)
      PROVE  FALSE
  BY <1>1, <1>4 DEF DepositTo, Deposit
<1>5. ASSUME NEW p \in commitments, RecvPacket(p) PROVE Explained(a)
  <2> DEFINE b == hostAccounts[p.chan]
             w == [packet |-> p, ack |-> DispatchAck]
  <2>1. /\ p.data.type = "dispatch"
        /\ ReceiveDispatch(p)
        /\ b # None
        /\ Spend(b, p.data.batch)
        /\ WriteAck(p, DispatchAck)
    BY <1>2, <1>5
    DEF RecvPacket, HostPacketReceive, ReceiveDispatch, ReceiveQuery, ReceiveWhoAmI,
        ReceiveBalances, cw1Vars
  <2>2. p.chan \in Channels
    BY DEF TypeInv, TypeOK, IbcTypeOK, Packet
  <2>3. b = a /\ balance'[a] = balance[a] - p.data.batch.total
    BY <1>1, <2>1, <2>2 DEF Spend
  <2>4. owner[a] = p.chan
    BY <2>1, <2>2, <2>3 DEF HostOwned
  <2>5. w \in acks' \ acks
    BY <1>5, <2>1 DEF RecvPacket, CanReceive, Received, WriteAck
  <2>6. IsSuccess(DispatchAck)
    BY DEF IsSuccess, DispatchAck, Success
  <2> QED
    BY <2>1, <2>3, <2>4, <2>5, <2>6 DEF Explained
<1> QED
  BY <1>2, <1>3, <1>4, <1>5, BalanceWriters

(* A reflect account only loses what a successful dispatch on its own      *)
(* channel takes.                                                          *)
THEOREM FundsProtected == Spec => FundsMoveOnlyByDispatch
<1>1. IInv /\ [Next]_vars => \A a \in Addrs : Explained(a)
  BY BalanceFalls DEF IInv
<1> QED
  BY <1>1, Inductive, PTL DEF Spec, FundsMoveOnlyByDispatch, Explained
=============================================================================
