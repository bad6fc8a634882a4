------------------------ MODULE IcaAgreement_proofs ------------------------
(***************************************************************************)
(* The two contracts agree on who owns which remote account.  The argument *)
(* rests on one fact that no step disturbs: the reflect account created    *)
(* for a channel is its only one, ever.  Everything either contract or a   *)
(* packet says about an account is then pinned to its owner.               *)
(***************************************************************************)
EXTENDS IcaTypes_proofs

-----------------------------------------------------------------------------
(* An answer to a balance check is a BalancesResponse.                     *)
LEMMA AnswerTypes ==
    ASSUME TypeInv, NEW w \in acks, IsSuccess(w.ack)
    PROVE  /\ w.packet.data.type = "who_am_i" => w.ack.data \in WhoAmIResponse
           /\ w.packet.data.type = "balances" => w.ack.data \in BalancesResponse
  BY DEF TypeInv, AckTyped

(* An answer names an address.                                             *)
LEMMA AnswerNamesAddr ==
    ASSUME TypeInv, NEW w \in acks, IsSuccess(w.ack),
           w.packet.data.type \in {"who_am_i", "balances"}
    PROVE  w.ack.data.account \in Addrs /\ w.packet.chan \in Channels
  BY DEF TypeInv, TypeOK, IbcTypeOK, AckTyped, WhoAmIResponse, BalancesResponse, Packet

(* When neither instances nor answers change, what was said stays said.    *)
LEMMA IInvUnchanged ==
    ASSUME IInv, TypeInv',
           UNCHANGED <<owner, acks, hostAccounts, ctrlAccounts, ctrlEnd, hostEnd>>
    PROVE  IInv'
  BY DEF IInv, RegisteredIffOpen, OneInstance, InstanceOpened, HostOwned, RemoteOwned,
         AnswerOwned

(* Handshake steps that only move an end leave it not open.                *)
LEMMA OpeningAgrees ==
    ASSUME IInv, TypeInv', NEW c \in Channels,
           \/ \E o \in Orders, v \in Versions : CtrlOpenInit(c, o, v)
           \/ \E o \in Orders : HostOpenInit(c, o)
           \/ HostOpenTry(c)
           \/ CtrlOpenTry(c)
    PROVE  IInv'
<1>1. UNCHANGED <<owner, acks, hostAccounts, ctrlAccounts>>
  BY DEF CtrlOpenInit, HostOpenInit, HostOpenTry, CtrlOpenTry, controllerVars, ctrlVars,
         hostVars, cw1Vars
<1>2. /\ ctrlEnd \in [Channels -> ChannelEnd] /\ hostEnd \in [Channels -> ChannelEnd]
      /\ owner \in [Addrs -> Channels \cup {None}]
  BY DEF IInv, TypeInv, TypeOK, IbcTypeOK, Cw1TypeOK
<1>3. \/ /\ hostEnd' = hostEnd
         /\ ~IsOpen(ctrlEnd[c]) /\ ~IsOpen(ctrlEnd'[c])
         /\ \A d \in Channels \ {c} : ctrlEnd'[d] = ctrlEnd[d]
      \/ /\ ctrlEnd' = ctrlEnd
         /\ ~Reached(hostEnd[c], "OPEN") /\ ~Reached(hostEnd'[c], "OPEN")
         /\ \A d \in Channels \ {c} : hostEnd'[d] = hostEnd[d]
  BY <1>2
  DEF CtrlOpenInit, HostOpenInit, HostOpenTry, CtrlOpenTry, Unused, NewEnd, Reached,
      IsOpen
<1>4. RegisteredIffOpen'
  BY <1>1, <1>3 DEF IInv, RegisteredIffOpen, IsOpen
<1>5. InstanceOpened'
  BY <1>1, <1>2, <1>3 DEF IInv, InstanceOpened
<1> QED
  BY <1>1, <1>4, <1>5 DEF IInv, OneInstance, HostOwned, RemoteOwned, AnswerOwned

(* The controller's end connects: its entry appears, with no address yet.  *)
LEMMA CtrlConnectAgrees ==
    ASSUME IInv, TypeInv', NEW c \in Channels, CtrlOpenAck(c) \/ CtrlOpenConfirm(c)
    PROVE  IInv'
<1>1. /\ UNCHANGED <<owner, acks, hostAccounts, hostEnd>>
      /\ ctrlAccounts' = [ctrlAccounts EXCEPT ![c] = DefaultAccount]
  BY DEF CtrlOpenAck, CtrlOpenConfirm, CtrlChannelConnect, hostVars, cw1Vars
<1>2. /\ ctrlEnd \in [Channels -> ChannelEnd]
      /\ ctrlAccounts \in [Channels -> AccountData \cup {None}]
  BY DEF IInv, TypeInv, TypeOK, IbcTypeOK, CtrlTypeOK
<1>3. DefaultAccount # None /\ DefaultAccount.remote_addr = None
  <2>1. DefaultAccount \in AccountData
    BY DEF DefaultAccount, AccountData
  <2> QED
    BY <2>1, EntryAssumption DEF DefaultAccount
<1>4. /\ IsOpen(ctrlEnd'[c])
      /\ \A d \in Channels \ {c} : ctrlEnd'[d] = ctrlEnd[d]
  <2>1. ctrlEnd[c] \in ChannelEnd /\ hostEnd[c].version \in Versions \cup {None}
    BY DEF IInv, TypeInv, TypeOK, IbcTypeOK, ChannelEnd
  <2>2. /\ Enter(ctrlEnd[c], "OPEN").states = ctrlEnd[c].states \cup {"OPEN"}
        /\ OpenedAs(ctrlEnd[c], hostEnd[c].version).states
             = ctrlEnd[c].states \cup {"OPEN"}
    BY <2>1, EnterTyped DEF EndStates
  <2>3. "CLOSED" \notin ctrlEnd[c].states
    BY DEF CtrlOpenAck, CtrlOpenConfirm
  <2> QED
    BY <1>2, <2>2, <2>3 DEF CtrlOpenAck, CtrlOpenConfirm, IsOpen, Reached
<1>5. RegisteredIffOpen'
  BY <1>1, <1>2, <1>3, <1>4 DEF IInv, RegisteredIffOpen
<1>6. RemoteOwned'
  BY <1>1, <1>2, <1>3 DEF IInv, RemoteOwned
<1> QED
  BY <1>1, <1>5, <1>6 DEF IInv, OneInstance, InstanceOpened, HostOwned, AnswerOwned

(* The host's end connects: the instance it gets is a new one, and the     *)
(* first for this channel.                                                 *)
LEMMA HostConnectAgrees ==
    ASSUME IInv, TypeInv', NEW c \in Channels, HostOpenAck(c) \/ HostOpenConfirm(c)
    PROVE  IInv'
<1>1. /\ UNCHANGED <<acks, ctrlAccounts, ctrlEnd>>
      /\ HostChannelConnect(c)
  BY DEF HostOpenAck, HostOpenConfirm, controllerVars, ctrlVars
<1>2. PICK a \in Addrs :
        /\ owner[a] = None
        /\ owner' = [owner EXCEPT ![a] = c]
        /\ hostAccounts' = [hostAccounts EXCEPT ![c] = a]
  BY <1>1 DEF HostChannelConnect, Register, Cw1Instantiate
<1>3. /\ hostEnd \in [Channels -> ChannelEnd]
      /\ hostAccounts \in [Channels -> Addrs \cup {None}]
      /\ owner \in [Addrs -> Channels \cup {None}]
      /\ ctrlAccounts \in [Channels -> AccountData \cup {None}]
  BY DEF IInv, TypeInv, TypeOK, IbcTypeOK, HostTypeOK, Cw1TypeOK, CtrlTypeOK
<1>4. /\ ~Reached(hostEnd[c], "OPEN")
      /\ Reached(hostEnd'[c], "OPEN") /\ IsOpen(hostEnd'[c])
      /\ \A d \in Channels \ {c} : hostEnd'[d] = hostEnd[d]
  <2>1. hostEnd[c] \in ChannelEnd /\ ctrlEnd[c].version \in Versions \cup {None}
    BY DEF IInv, TypeInv, TypeOK, IbcTypeOK, ChannelEnd
  <2>2. /\ Enter(hostEnd[c], "OPEN").states = hostEnd[c].states \cup {"OPEN"}
        /\ OpenedAs(hostEnd[c], ctrlEnd[c].version).states
             = hostEnd[c].states \cup {"OPEN"}
    BY <2>1, EnterTyped DEF EndStates
  <2>3. "CLOSED" \notin hostEnd[c].states /\ "OPEN" \notin hostEnd[c].states
    BY DEF HostOpenAck, HostOpenConfirm
  <2> QED
    BY <1>3, <2>2, <2>3 DEF HostOpenAck, HostOpenConfirm, IsOpen, Reached
<1>5. \A b \in Addrs : owner[b] # c
  BY <1>3, <1>4, NoneAssumption DEF IInv, InstanceOpened
<1>6. /\ owner'[a] = c
      /\ \A b \in Addrs : owner[b] # None => b # a /\ owner'[b] = owner[b]
      /\ \A b \in Addrs \ {a} : owner'[b] = owner[b]
  BY <1>2, <1>3
<1>7. RegisteredIffOpen'
  BY <1>1, <1>2, <1>3, <1>4, NoneAssumption DEF IInv, RegisteredIffOpen
<1>8. OneInstance'
  BY <1>5, <1>6, <1>3 DEF IInv, OneInstance
<1>9. InstanceOpened'
  BY <1>3, <1>4, <1>6, NoneAssumption DEF IInv, InstanceOpened
<1>10. HostOwned'
  BY <1>2, <1>3, <1>6, NoneAssumption DEF IInv, HostOwned
<1>11. RemoteOwned'
  <2> SUFFICES ASSUME NEW d \in Channels, ctrlAccounts[d] # None,
                      ctrlAccounts[d].remote_addr # None
               PROVE  owner'[ctrlAccounts[d].remote_addr] = d
    BY <1>1 DEF RemoteOwned
  <2>1. ctrlAccounts[d].remote_addr \in Addrs
    BY <1>3 DEF AccountData
  <2>2. owner[ctrlAccounts[d].remote_addr] = d /\ d # None
    BY NoneAssumption DEF IInv, RemoteOwned
  <2> QED
    BY <1>6, <2>1, <2>2
<1>12. AnswerOwned'
  <2> SUFFICES ASSUME NEW w \in acks, IsSuccess(w.ack),
                      w.packet.data.type \in {"who_am_i", "balances"}
               PROVE  owner'[w.ack.data.account] = w.packet.chan
    BY <1>1 DEF AnswerOwned
  <2>1. w.ack.data.account \in Addrs /\ w.packet.chan \in Channels
    BY AnswerNamesAddr DEF IInv
  <2>2. owner[w.ack.data.account] = w.packet.chan /\ w.packet.chan # None
    BY <2>1, NoneAssumption DEF IInv, AnswerOwned
  <2> QED
    BY <1>6, <2>1, <2>2
<1> QED
  BY <1>7, <1>8, <1>9, <1>10, <1>11, <1>12 DEF IInv

(* Closing an end removes the entry that was open.                         *)
LEMMA CloseAgrees ==
    ASSUME IInv, TypeInv', NEW c \in Channels, CtrlClose(c) \/ HostClose(c)
    PROVE  IInv'
<1>1. /\ ctrlEnd \in [Channels -> ChannelEnd]
      /\ hostEnd \in [Channels -> ChannelEnd]
      /\ hostAccounts \in [Channels -> Addrs \cup {None}]
      /\ ctrlAccounts \in [Channels -> AccountData \cup {None}]
  BY DEF IInv, TypeInv, TypeOK, IbcTypeOK, HostTypeOK, CtrlTypeOK
<1>2. \A end \in ChannelEnd : Enter(end, "CLOSED").states = end.states \cup {"CLOSED"}
  BY DEF Enter, ChannelEnd
<1>3. CASE CtrlClose(c)
  <2>1. /\ UNCHANGED <<owner, acks, hostAccounts, hostEnd>>
        /\ ctrlAccounts' = [ctrlAccounts EXCEPT ![c] = None]
        /\ ctrlEnd' = [ctrlEnd EXCEPT ![c] = Enter(@, "CLOSED")]
    BY <1>3 DEF CtrlClose, CtrlChannelClose, hostVars, cw1Vars
  <2>2. ~IsOpen(ctrlEnd'[c])
    BY <1>1, <1>2, <2>1 DEF IsOpen, Reached
  <2>3. RegisteredIffOpen'
    BY <1>1, <2>1, <2>2 DEF IInv, RegisteredIffOpen
  <2> QED
    BY <1>1, <2>1, <2>3
    DEF IInv, OneInstance, InstanceOpened, HostOwned, RemoteOwned, AnswerOwned
<1>4. CASE HostClose(c)
  <2>1. /\ UNCHANGED <<owner, acks, ctrlAccounts, ctrlEnd>>
        /\ hostAccounts' = [hostAccounts EXCEPT ![c] = None]
        /\ hostEnd' = [hostEnd EXCEPT ![c] = Enter(@, "CLOSED")]
    BY <1>4 DEF HostClose, HostChannelClose, controllerVars, ctrlVars
  <2>2. ~IsOpen(hostEnd'[c])
    BY <1>1, <1>2, <2>1 DEF IsOpen, Reached
  <2>3. RegisteredIffOpen'
    BY <1>1, <2>1, <2>2 DEF IInv, RegisteredIffOpen
  <2>4. \A d \in Channels : Reached(hostEnd[d], "OPEN") => Reached(hostEnd'[d], "OPEN")
    BY <1>1, <1>2, <2>1 DEF Reached
  <2>5. InstanceOpened'
    BY <2>1, <2>4 DEF IInv, InstanceOpened, TypeInv, TypeOK, Cw1TypeOK
  <2> QED
    BY <1>1, <2>1, <2>3, <2>5 DEF IInv, OneInstance, HostOwned, RemoteOwned, AnswerOwned
<1> QED
  BY <1>3, <1>4

(* A new answer about an account names the one listed for its channel.     *)
LEMMA ReceiveAgrees ==
    ASSUME IInv, TypeInv', NEW p \in commitments, RecvPacket(p)
    PROVE  IInv'
<1>1. UNCHANGED <<owner, hostAccounts, ctrlAccounts, ctrlEnd, hostEnd>>
  BY DEF RecvPacket, HostPacketReceive, ReceiveDispatch, ReceiveQuery, ReceiveWhoAmI,
         ReceiveBalances, controllerVars, ctrlVars, cw1Vars
<1>2. p.chan \in Channels
  BY DEF IInv, TypeInv, TypeOK, IbcTypeOK, Packet
<1>3. AnswerOwned'
  <2> SUFFICES ASSUME NEW w \in acks', w \notin acks, IsSuccess(w.ack),
                      w.packet.data.type \in {"who_am_i", "balances"}
               PROVE  owner[w.ack.data.account] = w.packet.chan
    BY <1>1 DEF IInv, AnswerOwned
  <2>1. w.packet = p
    BY DEF RecvPacket, HostPacketReceive, ReceiveDispatch, ReceiveQuery, ReceiveWhoAmI,
           ReceiveBalances, WriteAck
  <2>2. \/ p.data.type = "who_am_i" /\ w.ack = WhoAmIAck(p.chan)
        \/ p.data.type = "balances" /\ w.ack = BalancesAck(p.chan)
    BY <2>1 DEF RecvPacket, HostPacketReceive, ReceiveWhoAmI, ReceiveBalances, WriteAck
  <2>3. hostAccounts[p.chan] # None /\ w.ack.data.account = hostAccounts[p.chan]
    BY <2>2 DEF WhoAmIAck, BalancesAck, Success, Fail, IsSuccess
  <2> QED
    BY <1>2, <2>1, <2>3 DEF IInv, HostOwned
<1> QED
  BY <1>1, <1>3 DEF IInv, RegisteredIffOpen, OneInstance, InstanceOpened, HostOwned,
                    RemoteOwned

(* The controller takes an address from an answer that is about its        *)
(* channel.                                                                *)
LEMMA AckAgrees ==
    ASSUME IInv, TypeInv', NEW w \in acks, AckPacket(w)
    PROVE  IInv'
<1> DEFINE c == w.packet.chan
<1>1. UNCHANGED <<owner, hostAccounts, acks, ctrlEnd, hostEnd>>
  BY DEF AckPacket, hostVars, cw1Vars
<1>2. ctrlAccounts \in [Channels -> AccountData \cup {None}]
  BY DEF IInv, TypeInv, TypeOK, CtrlTypeOK
<1>3. CASE ctrlAccounts' = ctrlAccounts
  BY <1>1, <1>3, IInvUnchanged
<1>4. CASE ctrlAccounts' # ctrlAccounts
  <2>1. /\ IsSuccess(w.ack)
        /\ w.packet.data.type \in {"who_am_i", "balances"}
        /\ ctrlAccounts[c] # None
        /\ ctrlAccounts' \in { [ctrlAccounts EXCEPT ![c] = Learn(@, w.ack.data.account)],
                               [ctrlAccounts EXCEPT ![c] = Report(w.ack.data)] }
    BY <1>4
    DEF AckPacket, IbcPacketAck, AcknowledgeDispatch, AcknowledgeQuery,
        AcknowledgeWhoAmI, AcknowledgeBalances, ctrlVars
  <2>2. /\ w.ack.data.account \in Addrs
        /\ c \in Channels
        /\ owner[w.ack.data.account] = c
    BY <2>1, AnswerNamesAddr DEF IInv, AnswerOwned
  <2>3. /\ \A d \in Channels \ {c} : ctrlAccounts'[d] = ctrlAccounts[d]
        /\ \/ ctrlAccounts'[c] = ctrlAccounts[c]
           \/ /\ ctrlAccounts'[c] # None
              /\ ctrlAccounts'[c].remote_addr = w.ack.data.account
    <3>1. ctrlAccounts[c] \in AccountData
      BY <1>2, <2>1, <2>2
    <3>2. /\ \/ Learn(ctrlAccounts[c], w.ack.data.account) = ctrlAccounts[c]
             \/ Learn(ctrlAccounts[c], w.ack.data.account).remote_addr
                  = w.ack.data.account
          /\ Report(w.ack.data).remote_addr = w.ack.data.account
      BY <3>1 DEF Learn, Report, AccountData
    <3>3. ctrlAccounts'[c] # None
      <4>1. CASE w.packet.data.type = "who_am_i"
        <5>1. Learn(ctrlAccounts[c], w.ack.data.account) \in AccountData
          BY <2>2, <3>1 DEF Learn, AccountData
        <5>2. ctrlAccounts'[c] = Learn(ctrlAccounts[c], w.ack.data.account)
          BY <1>2, <2>1, <2>2, <4>1
          DEF AckPacket, IbcPacketAck, AcknowledgeWhoAmI
        <5> QED
          BY <5>1, <5>2, EntryAssumption
      <4>2. CASE w.packet.data.type = "balances"
        <5>1. w.ack.data \in BalancesResponse /\ ctrlTime \in Nat
          BY <2>1, <4>2, AnswerTypes DEF IInv, TypeInv, TypeOK, IbcTypeOK
        <5>2. Report(w.ack.data) \in AccountData
          BY <5>1 DEF Report, AccountData, BalancesResponse
        <5>3. ctrlAccounts'[c] = Report(w.ack.data)
          BY <1>2, <2>1, <2>2, <4>2
          DEF AckPacket, IbcPacketAck, AcknowledgeBalances
        <5> QED
          BY <5>2, <5>3, EntryAssumption
      <4> QED
        BY <2>1, <4>1, <4>2
    <3> QED
      BY <1>2, <2>1, <2>2, <3>2, <3>3
  <2>4. RegisteredIffOpen'
    BY <1>1, <2>1, <2>2, <2>3 DEF IInv, RegisteredIffOpen
  <2>5. RemoteOwned'
    BY <1>1, <2>1, <2>2, <2>3 DEF IInv, RemoteOwned
  <2> QED
    BY <1>1, <2>4, <2>5
    DEF IInv, OneInstance, InstanceOpened, HostOwned, AnswerOwned
<1> QED
  BY <1>3, <1>4

(* The remaining actions touch no account, instance, answer or end.        *)
LEMMA RestAgrees ==
    ASSUME IInv, TypeInv',
           \/ \E user \in Users, c \in Channels : Call(user, c)
           \/ \E p \in commitments : TimeoutPacket(p)
           \/ \E user \in Users, a \in Senders : UpdateAdmin(user, a)
           \/ \E a \in Addrs, n \in 1 .. MaxBalance : DepositTo(a, n)
           \/ CtrlTick
           \/ HostTick
           \/ UNCHANGED vars
    PROVE  IInv'
<1> DEFINE Same == UNCHANGED <<owner, acks, hostAccounts, ctrlAccounts, ctrlEnd, hostEnd>>
<1> USE DEF vars, ibcVars, controllerVars, ctrlVars, hostVars, cw1Vars
<1>1. ASSUME NEW user \in Users, NEW c \in Channels, Call(user, c) PROVE Same
  BY <1>1
  DEF Call, CapturerSendMsgs, CapturerSendQuery, CapturerCheckRemoteBalance, SendMsgs,
      SendQuery, CheckRemoteBalance, ExecuteSendMsgs, ExecuteIbcQuery,
      ExecuteCheckRemoteBalance, SentOnly
<1>2. ASSUME NEW p \in commitments, TimeoutPacket(p) PROVE Same
  BY <1>2 DEF TimeoutPacket, IbcPacketTimeout
<1>3. ASSUME NEW user \in Users, NEW a \in Senders, UpdateAdmin(user, a) PROVE Same
  BY <1>3 DEF UpdateAdmin, ExecuteUpdateAdmin
<1>4. ASSUME NEW a \in Addrs, NEW n \in 1 .. MaxBalance, DepositTo(a, n)
      PROVE  Same
  BY <1>4 DEF DepositTo, Deposit
<1>5. CtrlTick \/ HostTick \/ UNCHANGED vars => Same
  BY DEF CtrlTick, HostTick
<1> QED
  BY <1>1, <1>2, <1>3, <1>4, <1>5, IInvUnchanged

(* The invariant holds initially,                                          *)
LEMMA IInvInit == Init => IInv
<1> SUFFICES ASSUME Init PROVE IInv
  OBVIOUS
<1>1. TypeInv
  BY TypeInit
<1>2. RegisteredIffOpen
  BY DEF Init, IbcInit, CtrlInit, HostInit, RegisteredIffOpen, IsOpen, Reached
<1>3. OneInstance /\ InstanceOpened /\ HostOwned /\ RemoteOwned /\ AnswerOwned
  BY DEF Init, IbcInit, CtrlInit, HostInit, Cw1Init, OneInstance, InstanceOpened,
         HostOwned, RemoteOwned, AnswerOwned
<1> QED
  BY <1>1, <1>2, <1>3 DEF IInv

(* and every step keeps it.                                                *)
LEMMA IInvStep == IInv /\ [Next]_vars => IInv'
<1> SUFFICES ASSUME IInv, [Next]_vars PROVE IInv'
  OBVIOUS
<1>1. TypeInv'
  BY TypeStep DEF IInv
<1> QED
  BY <1>1, OpeningAgrees, CtrlConnectAgrees, HostConnectAgrees, CloseAgrees,
     ReceiveAgrees, AckAgrees, RestAgrees
  DEF Next, CtrlChainNext, HostChainNext, CtrlHandshake, HostHandshake, CtrlCloseInit,
      CtrlCloseConfirm, HostCloseInit, HostCloseConfirm

(* The inductive invariant is an invariant.                                *)
THEOREM Inductive == Spec => []IInv
  BY IInvInit, IInvStep, PTL DEF Spec

-----------------------------------------------------------------------------
(* Each contract lists an account exactly while its end is open.           *)
THEOREM RegisteredWhenOpen == Spec => []RegisteredIffOpen
<1>1. IInv => RegisteredIffOpen
  BY DEF IInv
<1> QED
  BY <1>1, Inductive, PTL

(* No account serves two channels, and the controller's idea of its remote *)
(* address is right.                                                       *)
THEOREM Agreement == Spec => []AddressAgreement
<1>1. IInv => AddressAgreement
  <2> SUFFICES ASSUME IInv, NEW c \in Channels
               PROVE  /\ hostAccounts[c] # None => owner[hostAccounts[c]] = c
                      /\ \A d \in Channels :
                            hostAccounts[c] # None /\ hostAccounts[c] = hostAccounts[d]
                               => c = d
                      /\ \A a \in Addrs :
                            ctrlAccounts[c] # None /\ ctrlAccounts[c].remote_addr = a
                               => /\ owner[a] = c
                                  /\ hostAccounts[c] \in {a, None}
    BY DEF AddressAgreement
  <2>1. hostAccounts \in [Channels -> Addrs \cup {None}]
    BY DEF IInv, TypeInv, TypeOK, HostTypeOK
  <2>2. ASSUME NEW a \in Addrs, ctrlAccounts[c] # None, ctrlAccounts[c].remote_addr = a
        PROVE  owner[a] = c /\ hostAccounts[c] \in {a, None}
    <3>1. owner[a] = c
      BY <2>2, NoneAssumption DEF IInv, RemoteOwned
    <3> QED
      BY <2>1, <3>1, NoneAssumption DEF IInv, HostOwned, OneInstance
  <2> QED
    BY <2>1, <2>2 DEF IInv, HostOwned
<1> QED
  BY <1>1, Inductive, PTL

(* Both sides of a deliverable answer about an account agree on it, so the *)
(* controller's handlers have nothing to object to.                        *)
THEOREM AcksAccepted == Spec => []AckNeverErrs
<1>1. IInv => AckNeverErrs
  <2> SUFFICES ASSUME IInv, NEW w \in acks, CanAcknowledge(w),
                      w.packet.data.type \in {"who_am_i", "balances"},
                      IsSuccess(w.ack)
               PROVE  /\ ctrlAccounts[w.packet.chan] # None
                      /\ Matches(ctrlAccounts[w.packet.chan], w.ack.data.account)
    BY DEF AckNeverErrs
  <2> DEFINE c == w.packet.chan
  <2>1. w.ack.data.account \in Addrs /\ c \in Channels
    BY AnswerNamesAddr DEF IInv
  <2>2. ctrlAccounts[c] # None
    BY <2>1 DEF IInv, RegisteredIffOpen, CanAcknowledge
  <2>3. ctrlAccounts[c].remote_addr \in Addrs \cup {None}
    BY <2>1, <2>2 DEF IInv, TypeInv, TypeOK, CtrlTypeOK, AccountData
  <2>4. owner[w.ack.data.account] = c
    BY DEF IInv, AnswerOwned
  <2> QED
    BY <2>1, <2>2, <2>3, <2>4, NoneAssumption DEF Matches, IInv, RemoteOwned, OneInstance
<1> QED
  BY <1>1, Inductive, PTL

-----------------------------------------------------------------------------
(* The parameters are right as soon as an end exists: each contract checks *)
(* them when it opens, and the answer to the controller's proposal is the  *)
(* host's, which is checked too.                                           *)
WellNegotiated(end) ==
    end.states # {} => end.order = APP_ORDER /\ end.version = IBC_APP_VERSION

ParamsInv ==
    \A c \in Channels : WellNegotiated(ctrlEnd[c]) /\ WellNegotiated(hostEnd[c])

(* An end that passes the two checks is well negotiated,                   *)
LEMMA NewEndNegotiated ==
    \A o, v : \A state \in EndStates :
        CheckOrder(o) /\ CheckVersion(v) => WellNegotiated(NewEnd(state, o, v))
  BY DEF CheckOrder, CheckVersion, WellNegotiated, NewEnd

(* and moving on to another state keeps it so.                             *)
LEMMA EnterNegotiated ==
    ASSUME NEW end \in ChannelEnd, NEW state \in EndStates,
           end.states # {}, WellNegotiated(end)
    PROVE  /\ WellNegotiated(Enter(end, state))
           /\ WellNegotiated(OpenedAs(end, IBC_APP_VERSION))
  BY DEF WellNegotiated, Enter, OpenedAs, ChannelEnd

(* So no step opens an end with other parameters.                          *)
LEMMA ParamsStep == TypeInv /\ ParamsInv /\ [Next]_vars => ParamsInv'
<1> SUFFICES ASSUME TypeInv, ParamsInv, [Next]_vars PROVE ParamsInv'
  OBVIOUS
<1>1. /\ ctrlEnd \in [Channels -> ChannelEnd]
      /\ hostEnd \in [Channels -> ChannelEnd]
  BY DEF TypeInv, TypeOK, IbcTypeOK
<1>2. {"INIT", "TRYOPEN", "OPEN", "CLOSED"} \subseteq EndStates
  BY DEF EndStates
<1>3. ASSUME NEW c \in Channels, NEW end, WellNegotiated(end),
             \/ ctrlEnd' = [ctrlEnd EXCEPT ![c] = end] /\ hostEnd' = hostEnd
             \/ hostEnd' = [hostEnd EXCEPT ![c] = end] /\ ctrlEnd' = ctrlEnd
      PROVE  ParamsInv'
  BY <1>1, <1>3 DEF ParamsInv
<1>4. ASSUME NEW c \in Channels, NEW o \in Orders, NEW v \in Versions, CtrlOpenInit(c, o, v)
      PROVE  ParamsInv'
  BY <1>2, <1>3, <1>4, NewEndNegotiated DEF CtrlOpenInit, CtrlChannelOpen
<1>5. ASSUME NEW c \in Channels, NEW o \in Orders, HostOpenInit(c, o)
      PROVE  ParamsInv'
  BY <1>2, <1>3, <1>5, NewEndNegotiated DEF HostOpenInit, HostChannelOpen, CheckVersion
<1>6. ASSUME NEW c \in Channels, HostOpenTry(c) PROVE ParamsInv'
  BY <1>2, <1>3, <1>6, NewEndNegotiated DEF HostOpenTry, HostChannelOpen, CheckVersion
<1>7. ASSUME NEW c \in Channels, CtrlOpenTry(c) PROVE ParamsInv'
  BY <1>2, <1>3, <1>7, NewEndNegotiated DEF CtrlOpenTry, CtrlChannelOpen
<1>8. ASSUME NEW c \in Channels, CtrlOpenAck(c) PROVE ParamsInv'
  <2>1. ctrlEnd[c].states # {} /\ hostEnd[c].version = IBC_APP_VERSION
    BY <1>8 DEF CtrlOpenAck, Reached, ParamsInv, WellNegotiated
  <2> QED
    BY <1>1, <1>2, <1>3, <1>8, <2>1, EnterNegotiated DEF CtrlOpenAck, ParamsInv
<1>9. ASSUME NEW c \in Channels, HostOpenAck(c) PROVE ParamsInv'
  <2>1. hostEnd[c].states # {} /\ ctrlEnd[c].version = IBC_APP_VERSION
    BY <1>9 DEF HostOpenAck, Reached, ParamsInv, WellNegotiated
  <2> QED
    BY <1>1, <1>2, <1>3, <1>9, <2>1, EnterNegotiated DEF HostOpenAck, ParamsInv
<1>10. ASSUME NEW c \in Channels, CtrlOpenConfirm(c) \/ CtrlClose(c) PROVE ParamsInv'
  <2>1. ctrlEnd[c].states # {}
    BY <1>10 DEF CtrlOpenConfirm, CtrlClose, Closable
  <2> QED
    BY <1>1, <1>2, <1>3, <1>10, <2>1, EnterNegotiated
    DEF CtrlOpenConfirm, CtrlClose, ParamsInv, hostVars
<1>11. ASSUME NEW c \in Channels, HostOpenConfirm(c) \/ HostClose(c) PROVE ParamsInv'
  <2>1. hostEnd[c].states # {}
    BY <1>11 DEF HostOpenConfirm, HostClose, Closable
  <2> QED
    BY <1>1, <1>2, <1>3, <1>11, <2>1, EnterNegotiated
    DEF HostOpenConfirm, HostClose, ParamsInv
<1>12. ASSUME \/ \E user \in Users, c \in Channels : Call(user, c)
              \/ \E p \in commitments : RecvPacket(p) \/ TimeoutPacket(p)
              \/ \E w \in acks : AckPacket(w)
              \/ \E user \in Users, a \in Senders : UpdateAdmin(user, a)
              \/ \E a \in Addrs, n \in 1 .. MaxBalance : DepositTo(a, n)
              \/ CtrlTick
              \/ HostTick
              \/ UNCHANGED vars
       PROVE  ParamsInv'
  <2>1. UNCHANGED <<ctrlEnd, hostEnd>>
    BY <1>12
    DEF Call, SendMsgs, SendQuery, CheckRemoteBalance, CapturerSendMsgs,
        CapturerSendQuery, CapturerCheckRemoteBalance, SentOnly, RecvPacket,
        TimeoutPacket, AckPacket, UpdateAdmin, DepositTo, CtrlTick, HostTick, vars, ibcVars
  <2> QED
    BY <2>1 DEF ParamsInv
<1> QED
  BY <1>4, <1>5, <1>6, <1>7, <1>8, <1>9, <1>10, <1>11, <1>12
  DEF Next, CtrlChainNext, HostChainNext, CtrlHandshake, HostHandshake, CtrlCloseInit,
      CtrlCloseConfirm, HostCloseInit, HostCloseConfirm

(* An open channel is unordered and speaks the one version, although       *)
(* neither contract looks again when it connects (ibc_channel_connect).    *)
THEOREM ParamsNegotiated == Spec => []NegotiatedParams
<1>1. Init => ParamsInv
  <2> SUFFICES ASSUME Init, NEW c \in Channels
               PROVE  WellNegotiated(ctrlEnd[c]) /\ WellNegotiated(hostEnd[c])
    BY DEF ParamsInv
  <2>1. ctrlEnd[c].states = {} /\ hostEnd[c].states = {}
    BY DEF Init, IbcInit
  <2> QED
    BY <2>1 DEF WellNegotiated
<1>2. IInv => TypeInv
  BY DEF IInv
<1>3. ParamsInv => NegotiatedParams
  BY DEF ParamsInv, NegotiatedParams, WellNegotiated, Reached
<1> QED
  BY <1>1, <1>2, <1>3, Inductive, ParamsStep, PTL DEF Spec
=============================================================================
