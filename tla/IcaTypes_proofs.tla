-------------------------- MODULE IcaTypes_proofs --------------------------
(***************************************************************************)
(* Type correctness of the system, for any channels, addresses, senders,   *)
(* callback ids, batches and queries, and any bounds.                      *)
(***************************************************************************)
EXTENDS IcaInvariant, TLAPS

-----------------------------------------------------------------------------
(* Sending keeps the channel's send state typed.                           *)
LEMMA SendTyped ==
    ASSUME IbcTypeOK, NEW c \in Channels, NEW data \in PacketMsg,
           NEW timeout \in Nat, SendPacket(c, data, timeout)
    PROVE  /\ nextSeq' \in [Channels -> Nat]
           /\ commitments' \subseteq Packet
<1>1. nextSeq[c] \in Nat
  BY DEF IbcTypeOK
<1>2. [chan |-> c, seq |-> nextSeq[c], data |-> data, timeout |-> timeout] \in Packet
  BY <1>1 DEF Packet
<1> QED
  BY <1>1, <1>2 DEF IbcTypeOK, SendPacket

(* The time a packet is given is a time.                                   *)
LEMMA TimeoutTyped == IbcTypeOK => Timeout \in Nat
  BY PacketLifetimeAssumption DEF IbcTypeOK, Timeout

(* The four kinds of packet are packets.                                   *)
LEMMA PacketsTyped ==
    /\ WhoAmI \in PacketMsg
    /\ Balances \in PacketMsg
    /\ \A s \in Senders, b \in Batches, id \in CallbackId :
          Dispatch(s, b, id) \in PacketMsg
    /\ \A s \in Senders, q \in QueryLists, id \in CallbackId :
          IbcQuery(s, q, id) \in PacketMsg
  BY DEF PacketMsg, WhoAmI, Balances, Dispatch, IbcQuery

(* What a packet of each kind carries.                                     *)
LEMMA PacketContent ==
    ASSUME NEW data \in PacketMsg
    PROVE  /\ data.type = "dispatch" =>
                /\ data.sender \in Senders
                /\ data.batch \in Batches
                /\ data.callback_id \in CallbackId
           /\ data.type = "ibc_query" =>
                /\ data.sender \in Senders
                /\ data.queries \in QueryLists
                /\ data.callback_id \in CallbackId
  BY DEF PacketMsg, WhoAmI, Balances

(* A channel end stays one when it moves to a further state.               *)
LEMMA EnterTyped ==
    ASSUME NEW end \in ChannelEnd, NEW state \in EndStates,
           NEW version \in Versions \cup {None}
    PROVE  /\ Enter(end, state) \in ChannelEnd
           /\ OpenedAs(end, version) \in ChannelEnd
           /\ Enter(end, state).states = end.states \cup {state}
           /\ OpenedAs(end, version).states = end.states \cup {"OPEN"}
  BY DEF ChannelEnd, Enter, OpenedAs, EndStates

(* An acknowledgement of the right kind keeps the acknowledgements typed.  *)
LEMMA WriteAckTyped ==
    ASSUME TypeInv, NEW p \in Packet, NEW ack \in StdAck, WriteAck(p, ack),
           IsSuccess(ack) =>
             /\ p.data.type = "who_am_i" => ack.data \in WhoAmIResponse
             /\ p.data.type = "balances" => ack.data \in BalancesResponse
    PROVE  acks' \subseteq [packet : Packet, ack : StdAck] /\ AckTyped'
  BY DEF TypeInv, TypeOK, IbcTypeOK, AckTyped, WriteAck, IsSuccess

(* A callback stores an acknowledgement or nothing.                        *)
LEMMA CallbackTyped ==
    ASSUME CapTypeOK, NEW sender, NEW id \in CallbackId, NEW ack \in StdAck,
           Callback(sender, id, ack)
    PROVE  CapTypeOK'
  BY DEF CapTypeOK, CallbackId, Callback, Delivered, ReceiveIcaResponse

(* The controller's ACCOUNTS stay typed when an answer is processed.       *)
LEMMA IbcPacketAckTyped ==
    ASSUME TypeInv, NEW w \in acks, IbcPacketAck(w.packet, w.ack)
    PROVE  CtrlTypeOK' /\ CapTypeOK'
<1> DEFINE p == w.packet
           c == p.chan
<1>1. /\ p \in Packet /\ p.data \in PacketMsg /\ c \in Channels
      /\ w.ack \in StdAck
      /\ ctrlTime \in Nat /\ CtrlTypeOK /\ CapTypeOK
  BY DEF TypeInv, TypeOK, IbcTypeOK, Packet
<1>2. CASE p.data.type = "dispatch" /\ AcknowledgeDispatch(p, w.ack)
  BY <1>1, <1>2, PacketContent, CallbackTyped
  DEF AcknowledgeDispatch, CtrlTypeOK, ctrlVars
<1>3. CASE p.data.type = "ibc_query" /\ AcknowledgeQuery(p, w.ack)
  <2>1. CapTypeOK'
    BY <1>1, <1>3, PacketContent, CallbackTyped DEF AcknowledgeQuery
  <2>2. [last_update_time |-> ctrlTime, response |-> w.ack] \in LatestQueryResponse
    BY <1>1 DEF LatestQueryResponse
  <2> QED
    BY <1>1, <1>3, <2>1, <2>2 DEF AcknowledgeQuery, CtrlTypeOK
<1>4. CASE p.data.type = "who_am_i" /\ AcknowledgeWhoAmI(p, w.ack)
  <2>1. CASE IsSuccess(w.ack)
    <3>1. w.ack.data.account \in Addrs
      BY <1>4, <2>1 DEF TypeInv, AckTyped, WhoAmIResponse
    <3>2. ctrlAccounts[c] \in AccountData
      BY <1>1, <1>4, <2>1 DEF CtrlTypeOK, AcknowledgeWhoAmI
    <3>3. Learn(ctrlAccounts[c], w.ack.data.account) \in AccountData
      BY <3>1, <3>2 DEF Learn, AccountData
    <3> QED
      BY <1>1, <1>4, <2>1, <3>3 DEF AcknowledgeWhoAmI, CtrlTypeOK, CapTypeOK
  <2>2. CASE ~IsSuccess(w.ack)
    BY <1>1, <1>4, <2>2 DEF AcknowledgeWhoAmI, CtrlTypeOK, CapTypeOK
  <2> QED
    BY <2>1, <2>2
<1>5. CASE p.data.type = "balances" /\ AcknowledgeBalances(p, w.ack)
  <2>1. CASE IsSuccess(w.ack)
    <3>1. w.ack.data \in BalancesResponse
      BY <1>5, <2>1 DEF TypeInv, AckTyped
    <3>2. Report(w.ack.data) \in AccountData
      BY <1>1, <3>1 DEF Report, AccountData, BalancesResponse
    <3> QED
      BY <1>1, <1>5, <2>1, <3>2 DEF AcknowledgeBalances, CtrlTypeOK, CapTypeOK
  <2>2. CASE ~IsSuccess(w.ack)
    BY <1>1, <1>5, <2>2 DEF AcknowledgeBalances, CtrlTypeOK, CapTypeOK
  <2> QED
    BY <2>1, <2>2
<1> QED
  BY <1>2, <1>3, <1>4, <1>5 DEF IbcPacketAck

(* The host's state and the acknowledgements stay typed when a packet is   *)
(* received: balances do not underflow, and every answer has its kind.     *)
LEMMA HostPacketReceiveTyped ==
    ASSUME TypeInv, NEW p \in commitments, HostPacketReceive(p)
    PROVE  /\ HostTypeOK' /\ Cw1TypeOK'
           /\ acks' \subseteq [packet : Packet, ack : StdAck]
           /\ AckTyped'
<1> DEFINE c == p.chan
           a == hostAccounts[c]
<1>1. /\ p \in Packet /\ p.data \in PacketMsg /\ c \in Channels
      /\ a \in Addrs \cup {None}
      /\ HostTypeOK /\ Cw1TypeOK
  BY DEF TypeInv, TypeOK, IbcTypeOK, Packet, HostTypeOK
<1>2. Fail \in StdAck /\ ~IsSuccess(Fail)
  BY DEF StdAck, Fail, IsSuccess
<1>3. CASE p.data.type = "dispatch" /\ ReceiveDispatch(p)
  <2>1. p.data.batch \in Batch
    BY <1>1, <1>3, PacketContent, InputAssumption
  <2>2. DispatchAck \in StdAck
    BY DEF DispatchAck, Success, StdAck, DispatchResponse
  <2>3. CASE a # None /\ Covers(a, p.data.batch)
    <3>1. balance[a] \in Nat /\ balance[a] - p.data.batch.total \in Nat
      BY <1>1, <2>1, <2>3 DEF Cw1TypeOK, Covers, Batch
    <3>2. HostTypeOK' /\ Cw1TypeOK' /\ WriteAck(p, DispatchAck)
      BY <1>1, <1>3, <2>3, <3>1
      DEF ReceiveDispatch, Spend, HostTypeOK, Cw1TypeOK
    <3> QED
      BY <1>1, <1>3, <2>2, <3>2, WriteAckTyped
  <2>4. CASE ~(a # None /\ Covers(a, p.data.batch))
    <3>1. HostTypeOK' /\ Cw1TypeOK' /\ WriteAck(p, Fail)
      BY <1>1, <1>3, <2>4 DEF ReceiveDispatch, HostTypeOK, Cw1TypeOK
    <3> QED
      BY <1>1, <1>2, <3>1, WriteAckTyped
  <2> QED
    BY <2>3, <2>4
<1>4. CASE p.data.type = "ibc_query" /\ ReceiveQuery(p)
  <2> DEFINE queries == p.data.queries
  <2>1. queries \in Seq(Addrs \cup {BadQuery})
    BY <1>1, <1>4, PacketContent, InputAssumption
  <2>2. QueryAck(queries) \in StdAck
    <3>1. CASE \E i \in DOMAIN queries : queries[i] = BadQuery
      BY <1>2, <3>1 DEF QueryAck
    <3>2. CASE ~\E i \in DOMAIN queries : queries[i] = BadQuery
      <4> DEFINE answers == [i \in DOMAIN queries |-> balance[queries[i]]]
      <4>1. \A i \in DOMAIN queries : queries[i] \in Addrs
        BY <2>1, <3>2
      <4>2. \A i \in DOMAIN queries : balance[queries[i]] \in Nat
        BY <1>1, <4>1 DEF Cw1TypeOK
      <4>3. DOMAIN queries = 1 .. Len(queries) /\ Len(queries) \in Nat
        BY <2>1
      <4>4. answers \in [1 .. Len(queries) -> Nat]
        BY <4>2, <4>3
      <4>5. answers \in Seq(Nat)
        BY <4>3, <4>4
      <4>6. Success([results |-> answers]) \in StdAck
        BY <4>5 DEF Success, StdAck, IbcQueryResponse
      <4> QED
        BY <3>2, <4>6 DEF QueryAck
    <3> QED
      BY <3>1, <3>2
  <2>3. HostTypeOK' /\ Cw1TypeOK' /\ WriteAck(p, QueryAck(queries))
    BY <1>1, <1>4 DEF ReceiveQuery, HostTypeOK, Cw1TypeOK, cw1Vars
  <2> QED
    BY <1>1, <1>4, <2>2, <2>3, WriteAckTyped
<1>5. CASE p.data.type = "who_am_i" /\ ReceiveWhoAmI(p)
  <2>1. /\ WhoAmIAck(c) \in StdAck
        /\ IsSuccess(WhoAmIAck(c)) => WhoAmIAck(c).data \in WhoAmIResponse
    BY <1>1, <1>2 DEF WhoAmIAck, Success, StdAck, WhoAmIResponse
  <2>2. HostTypeOK' /\ Cw1TypeOK' /\ WriteAck(p, WhoAmIAck(c))
    BY <1>1, <1>5 DEF ReceiveWhoAmI, HostTypeOK, Cw1TypeOK, cw1Vars
  <2> QED
    BY <1>1, <1>5, <2>1, <2>2, WriteAckTyped
<1>6. CASE p.data.type = "balances" /\ ReceiveBalances(p)
  <2>1. /\ BalancesAck(c) \in StdAck
        /\ IsSuccess(BalancesAck(c)) => BalancesAck(c).data \in BalancesResponse
    BY <1>1, <1>2 DEF BalancesAck, Success, StdAck, BalancesResponse, Cw1TypeOK
  <2>2. HostTypeOK' /\ Cw1TypeOK' /\ WriteAck(p, BalancesAck(c))
    BY <1>1, <1>6 DEF ReceiveBalances, HostTypeOK, Cw1TypeOK, cw1Vars
  <2> QED
    BY <1>1, <1>6, <2>1, <2>2, WriteAckTyped
<1> QED
  BY <1>3, <1>4, <1>5, <1>6 DEF HostPacketReceive

-----------------------------------------------------------------------------
(* Every action keeps the state typed.  The actions are grouped by the     *)
(* part of the state they write.                                           *)

(* Handshake steps that only move an end.                                  *)
LEMMA OpeningTyped ==
    ASSUME TypeInv, NEW c \in Channels,
           \/ \E o \in Orders, v \in Versions : CtrlOpenInit(c, o, v)
           \/ \E o \in Orders : HostOpenInit(c, o)
           \/ HostOpenTry(c)
           \/ CtrlOpenTry(c)
    PROVE  TypeInv'
<1> DEFINE EndsTyped == /\ ctrlEnd \in [Channels -> ChannelEnd]
                        /\ hostEnd \in [Channels -> ChannelEnd]
<1>1. /\ ctrlEnd[c] \in ChannelEnd
      /\ hostEnd[c] \in ChannelEnd
  BY DEF TypeInv, TypeOK, IbcTypeOK
<1>2. \A state \in EndStates, o \in Orders \cup {None}, v \in Versions \cup {None} :
          NewEnd(state, o, v) \in ChannelEnd
  BY DEF NewEnd, ChannelEnd
<1>3. IBC_APP_VERSION \in Versions /\ {"INIT", "TRYOPEN"} \subseteq EndStates
  BY DEF IBC_APP_VERSION, Versions, EndStates
<1>4. EndsTyped'
  <2>1. ASSUME NEW o \in Orders, NEW v \in Versions, CtrlOpenInit(c, o, v)
        PROVE  EndsTyped'
    BY <1>2, <1>3, <2>1 DEF CtrlOpenInit, TypeInv, TypeOK, IbcTypeOK
  <2>2. ASSUME NEW o \in Orders, HostOpenInit(c, o)
        PROVE  EndsTyped'
    BY <1>2, <1>3, <2>2 DEF HostOpenInit, TypeInv, TypeOK, IbcTypeOK
  <2>3. CASE HostOpenTry(c)
    <3>1. NewEnd("TRYOPEN", ctrlEnd[c].order, IBC_APP_VERSION) \in ChannelEnd
      BY <1>1, <1>2, <1>3 DEF ChannelEnd
    <3> QED
      BY <2>3, <3>1 DEF HostOpenTry, TypeInv, TypeOK, IbcTypeOK
  <2>4. CASE CtrlOpenTry(c)
    <3>1. NewEnd("TRYOPEN", hostEnd[c].order, hostEnd[c].version) \in ChannelEnd
      BY <1>1, <1>2, <1>3 DEF ChannelEnd
    <3> QED
      BY <2>4, <3>1 DEF CtrlOpenTry, TypeInv, TypeOK, IbcTypeOK
  <2> QED
    BY <2>1, <2>2, <2>3, <2>4
<1>5. /\ UNCHANGED <<nextSeq, commitments, acks, ctrlTime, hostTime>>
      /\ UNCHANGED <<controllerVars, hostVars>>
  BY DEF CtrlOpenInit, HostOpenInit, HostOpenTry, CtrlOpenTry
<1> QED
  BY <1>4, <1>5
  DEF TypeInv, TypeOK, AckTyped, IbcTypeOK, CtrlTypeOK, CapTypeOK, HostTypeOK,
      Cw1TypeOK, controllerVars, ctrlVars, hostVars, cw1Vars

(* Handshake steps that connect the controller's end.                      *)
LEMMA CtrlConnectTyped ==
    ASSUME TypeInv, NEW c \in Channels, CtrlOpenAck(c) \/ CtrlOpenConfirm(c)
    PROVE  TypeInv'
<1>1. /\ CtrlChannelConnect(c)
      /\ UNCHANGED <<hostEnd, acks, ctrlTime, hostTime, capResults, hostVars>>
  BY DEF CtrlOpenAck, CtrlOpenConfirm
<1>2. ctrlEnd' \in [Channels -> ChannelEnd]
  <2>1. ctrlEnd[c] \in ChannelEnd /\ hostEnd[c].version \in Versions \cup {None}
    BY DEF TypeInv, TypeOK, IbcTypeOK, ChannelEnd
  <2>2. /\ OpenedAs(ctrlEnd[c], hostEnd[c].version) \in ChannelEnd
        /\ Enter(ctrlEnd[c], "OPEN") \in ChannelEnd
    BY <2>1, EnterTyped DEF EndStates
  <2> QED
    BY <2>2 DEF CtrlOpenAck, CtrlOpenConfirm, TypeInv, TypeOK, IbcTypeOK
<1>3. nextSeq' \in [Channels -> Nat] /\ commitments' \subseteq Packet
  BY <1>1, SendTyped, TimeoutTyped, PacketsTyped
  DEF CtrlChannelConnect, TypeInv, TypeOK
<1>4. CtrlTypeOK'
  BY <1>1
  DEF CtrlChannelConnect, DefaultAccount, AccountData, CtrlTypeOK, TypeInv, TypeOK
<1> QED
  BY <1>1, <1>2, <1>3, <1>4
  DEF TypeInv, TypeOK, AckTyped, IbcTypeOK, CapTypeOK, HostTypeOK, Cw1TypeOK,
      hostVars, cw1Vars

(* Handshake steps that connect the host's end.                            *)
LEMMA HostConnectTyped ==
    ASSUME TypeInv, NEW c \in Channels, HostOpenAck(c) \/ HostOpenConfirm(c)
    PROVE  TypeInv'
<1>1. /\ HostChannelConnect(c)
      /\ UNCHANGED <<ctrlEnd, nextSeq, commitments, acks, ctrlTime, hostTime>>
      /\ UNCHANGED controllerVars
  BY DEF HostOpenAck, HostOpenConfirm
<1>2. hostEnd' \in [Channels -> ChannelEnd]
  <2>1. hostEnd[c] \in ChannelEnd /\ ctrlEnd[c].version \in Versions \cup {None}
    BY DEF TypeInv, TypeOK, IbcTypeOK, ChannelEnd
  <2>2. /\ OpenedAs(hostEnd[c], ctrlEnd[c].version) \in ChannelEnd
        /\ Enter(hostEnd[c], "OPEN") \in ChannelEnd
    BY <2>1, EnterTyped DEF EndStates
  <2> QED
    BY <2>2 DEF HostOpenAck, HostOpenConfirm, TypeInv, TypeOK, IbcTypeOK
<1>3. HostTypeOK' /\ Cw1TypeOK'
  BY <1>1
  DEF HostChannelConnect, Register, Cw1Instantiate, HostTypeOK, Cw1TypeOK, TypeInv, TypeOK
<1> QED
  BY <1>1, <1>2, <1>3
  DEF TypeInv, TypeOK, AckTyped, IbcTypeOK, CtrlTypeOK, CapTypeOK,
      controllerVars, ctrlVars

(* Closing either end.                                                     *)
LEMMA CloseTyped ==
    ASSUME TypeInv, NEW c \in Channels, CtrlClose(c) \/ HostClose(c)
    PROVE  TypeInv'
<1>1. /\ Enter(ctrlEnd[c], "CLOSED") \in ChannelEnd
      /\ Enter(hostEnd[c], "CLOSED") \in ChannelEnd
  <2>1. /\ ctrlEnd[c] \in ChannelEnd /\ hostEnd[c] \in ChannelEnd
        /\ ctrlEnd[c].version \in Versions \cup {None}
    BY DEF TypeInv, TypeOK, IbcTypeOK, ChannelEnd
  <2> QED
    BY <2>1, EnterTyped DEF EndStates
<1>2. CASE CtrlClose(c)
  BY <1>1, <1>2
  DEF CtrlClose, CtrlChannelClose, TypeInv, TypeOK, AckTyped, IbcTypeOK,
      CtrlTypeOK, CapTypeOK, HostTypeOK, Cw1TypeOK, hostVars, cw1Vars
<1>3. CASE HostClose(c)
  <2>1. HostTypeOK' /\ Cw1TypeOK'
    <3>1. /\ hostAccounts[c] \in Addrs
          /\ balance[hostAccounts[c]] \in Nat
          /\ balance[HostAddr] \in Nat
      BY <1>3
      DEF HostClose, HostChannelClose, TypeInv, TypeOK, HostTypeOK, Cw1TypeOK
    <3> QED
      BY <1>3, <3>1
      DEF HostClose, HostChannelClose, TypeInv, TypeOK, HostTypeOK, Cw1TypeOK
  <2> QED
    BY <1>1, <1>3, <2>1
    DEF HostClose, TypeInv, TypeOK, AckTyped, IbcTypeOK, CtrlTypeOK, CapTypeOK,
        controllerVars, ctrlVars
<1> QED
  BY <1>2, <1>3

(* Requests: one packet is sent and nothing else changes.  Here a batch.   *)
LEMMA SendMsgsTyped ==
    ASSUME TypeInv, NEW user \in Senders, NEW c \in Channels, NEW batch \in Batches,
           NEW id \in CallbackId, SendMsgs(user, c, batch, id)
    PROVE  TypeInv'
  BY SendTyped, TimeoutTyped, PacketsTyped
  DEF SendMsgs, ExecuteSendMsgs, SentOnly, TypeInv, TypeOK, AckTyped, IbcTypeOK,
      CtrlTypeOK, CapTypeOK, HostTypeOK, Cw1TypeOK, ctrlVars, hostVars, cw1Vars

(* A query is sent.                                                        *)
LEMMA SendQueryTyped ==
    ASSUME TypeInv, NEW user \in Senders, NEW c \in Channels,
           NEW queries \in QueryLists, NEW id \in CallbackId,
           SendQuery(user, c, queries, id)
    PROVE  TypeInv'
  BY SendTyped, TimeoutTyped, PacketsTyped
  DEF SendQuery, ExecuteIbcQuery, SentOnly, TypeInv, TypeOK, AckTyped, IbcTypeOK,
      CtrlTypeOK, CapTypeOK, HostTypeOK, Cw1TypeOK, ctrlVars, hostVars, cw1Vars

(* A balance is asked for.                                                 *)
LEMMA CheckRemoteBalanceTyped ==
    ASSUME TypeInv, NEW user \in Senders, NEW c \in Channels,
           CheckRemoteBalance(user, c)
    PROVE  TypeInv'
  BY SendTyped, TimeoutTyped, PacketsTyped
  DEF CheckRemoteBalance, ExecuteCheckRemoteBalance, SentOnly, TypeInv, TypeOK,
      AckTyped, IbcTypeOK, CtrlTypeOK, CapTypeOK, HostTypeOK, Cw1TypeOK,
      ctrlVars, hostVars, cw1Vars

(* Any call a user makes, straight or through the capturer.                *)
LEMMA CallTyped ==
    ASSUME TypeInv, NEW user \in Users, NEW c \in Channels, Call(user, c)
    PROVE  TypeInv'
<1>1. user \in Senders /\ Capturer \in Senders /\ CallbackIds \subseteq CallbackId
  BY CapturerAssumption DEF Users, CallbackId
<1> QED
  BY <1>1, SendMsgsTyped, SendQueryTyped, CheckRemoteBalanceTyped
  DEF Call, CapturerSendMsgs, CapturerSendQuery, CapturerCheckRemoteBalance

(* Relayed packets, answers and timeouts.                                  *)
LEMMA RelayTyped ==
    ASSUME TypeInv,
           \/ \E p \in commitments : RecvPacket(p)
           \/ \E w \in acks : AckPacket(w)
           \/ \E p \in commitments : TimeoutPacket(p)
    PROVE  TypeInv'
<1>1. ASSUME NEW p \in commitments, RecvPacket(p) PROVE TypeInv'
  <2>1. HostPacketReceive(p)
    BY <1>1 DEF RecvPacket
  <2>2. /\ HostTypeOK' /\ Cw1TypeOK' /\ AckTyped'
        /\ acks' \subseteq [packet : Packet, ack : StdAck]
    BY <2>1, HostPacketReceiveTyped
  <2> QED
    BY <1>1, <2>2
    DEF RecvPacket, TypeInv, TypeOK, IbcTypeOK, CtrlTypeOK, CapTypeOK,
        controllerVars, ctrlVars
<1>2. ASSUME NEW w \in acks, AckPacket(w) PROVE TypeInv'
  <2>1. CtrlTypeOK' /\ CapTypeOK'
    BY <1>2, IbcPacketAckTyped DEF AckPacket
  <2> QED
    BY <1>2, <2>1
    DEF AckPacket, DeleteCommitment, TypeInv, TypeOK, AckTyped, IbcTypeOK,
        HostTypeOK, Cw1TypeOK, hostVars, cw1Vars
<1>3. ASSUME NEW p \in commitments, TimeoutPacket(p) PROVE TypeInv'
  BY <1>3
  DEF TimeoutPacket, DeleteCommitment, IbcPacketTimeout, TypeInv, TypeOK, AckTyped,
      IbcTypeOK, CtrlTypeOK, CapTypeOK, HostTypeOK, Cw1TypeOK, ctrlVars, hostVars,
      cw1Vars
<1> QED
  BY <1>1, <1>2, <1>3

(* The admin, deposits and the clocks.                                     *)
LEMMA RestTyped ==
    ASSUME TypeInv,
           \/ \E user \in Users, a \in Senders : UpdateAdmin(user, a)
           \/ \E a \in Addrs, n \in 1 .. MaxBalance : DepositTo(a, n)
           \/ CtrlTick
           \/ HostTick
           \/ UNCHANGED vars
    PROVE  TypeInv'
<1> USE DEF TypeInv, TypeOK, AckTyped, IbcTypeOK, CtrlTypeOK, CapTypeOK, HostTypeOK,
            Cw1TypeOK, controllerVars, ctrlVars, hostVars, cw1Vars, ibcVars
<1>1. CASE \E user \in Users, a \in Senders : UpdateAdmin(user, a)
  BY <1>1 DEF UpdateAdmin, ExecuteUpdateAdmin
<1>2. ASSUME NEW a \in Addrs, NEW n \in 1 .. MaxBalance, DepositTo(a, n)
      PROVE  TypeInv'
  BY <1>2 DEF DepositTo, Deposit
<1>3. CASE CtrlTick
  BY <1>3 DEF CtrlTick
<1>4. CASE HostTick
  BY <1>4 DEF HostTick
<1>5. CASE UNCHANGED vars
  BY <1>5 DEF vars
<1> QED
  BY <1>1, <1>2, <1>3, <1>4, <1>5

(* The initial state is typed.                                             *)
LEMMA TypeInit == Init => TypeInv
  BY HostAddrAssumption
  DEF Init, IbcInit, CtrlInit, CapInit, HostInit, Cw1Init, TypeInv, TypeOK, AckTyped,
      IbcTypeOK, CtrlTypeOK, CapTypeOK, HostTypeOK, Cw1TypeOK, ChannelEnd

(* Every step keeps the state typed.                                       *)
LEMMA TypeStep == TypeInv /\ [Next]_vars => TypeInv'
<1> SUFFICES ASSUME TypeInv, [Next]_vars PROVE TypeInv'
  OBVIOUS
<1> QED
  BY OpeningTyped, CtrlConnectTyped, HostConnectTyped, CloseTyped, CallTyped,
     RelayTyped, RestTyped
  DEF Next, CtrlChainNext, HostChainNext, CtrlHandshake, HostHandshake, CtrlCloseInit,
      CtrlCloseConfirm, HostCloseInit, HostCloseConfirm

(* The state stays typed: in particular no balance goes below zero and     *)
(* every stored answer is one the host can give.                           *)
THEOREM TypeCorrect == Spec => []TypeOK
<1>1. TypeInv => TypeOK
  BY DEF TypeInv
<1> QED
  BY <1>1, TypeInit, TypeStep, PTL DEF Spec
=============================================================================
