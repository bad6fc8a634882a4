------------------------- MODULE IcaPromise_proofs -------------------------
(***************************************************************************)
(* The system implements RemoteAccount, for every value of the constants.  *)
(* As seen by the promise, a step of the system is one of nine kinds; the  *)
(* invariant and the refinement are proved kind by kind.                   *)
(***************************************************************************)
EXTENDS IcaSteps_proofs, IcaRefinement

(* No packet, answered or not, has a number still to be given.             *)
Numbered ==
    /\ \A p \in commitments : p.seq < nextSeq[p.chan]
    /\ \A w \in acks : w.packet.seq < nextSeq[w.packet.chan]

OneAnswer == \A v, w \in acks : v.packet = w.packet => v = w

(* Coins reach only addresses with an instance.                            *)
Unfunded == \A a \in Addrs : owner[a] = None => balance[a] = 0

(* What the refinement needs besides IInv.                                 *)
PInv == Numbered /\ OneAnswer /\ Unfunded

-----------------------------------------------------------------------------
shownByCtrl == <<ctrlAccounts, latestQueries>>

Sends(c, data, timeout) ==
    /\ SendPacket(c, data, timeout)
    /\ data.type = "dispatch" => data.sender = admin
    /\ IF data.type = "who_am_i"
       THEN /\ ctrlAccounts[c] = None
            /\ ctrlAccounts' = [ctrlAccounts EXCEPT ![c] = DefaultAccount]
       ELSE UNCHANGED ctrlAccounts
    /\ UNCHANGED <<acks, admin, latestQueries, capResults, owner, balance>>

HostConnects(c) ==
    /\ \E a \in Addrs : owner[a] = None /\ owner' = [owner EXCEPT ![a] = c]
    /\ \A a \in Addrs : owner[a] # c
    /\ UNCHANGED <<commitments, acks, nextSeq, admin, shownByCtrl, capResults, balance>>

CtrlForgets(c) ==
    /\ ctrlAccounts' = [ctrlAccounts EXCEPT ![c] = None]
    /\ UNCHANGED <<commitments, acks, nextSeq, admin, latestQueries, capResults, owner,
                   balance>>

Quiet ==
    UNCHANGED <<commitments, acks, nextSeq, admin, shownByCtrl, capResults, owner, balance>>

ChainKinds ==
    \/ \E c \in Channels, data \in PacketMsg, t \in Nat : Sends(c, data, t)
    \/ \E c \in Channels : HostConnects(c) \/ CtrlForgets(c)
    \/ \E p \in commitments : RecvPacket(p)
    \/ \E w \in acks : AckPacket(w)
    \/ \E p \in commitments : TimeoutPacket(p)
    \/ \E user \in Users, a \in Senders : UpdateAdmin(user, a)
    \/ Quiet

Kinds ==
    \/ ChainKinds
    \/ \E a \in Addrs, n \in 1 .. MaxBalance : DepositTo(a, n)

-----------------------------------------------------------------------------
(* A call by a user sends one packet, a dispatch only by the admin.        *)
LEMMA CallSends ==
    ASSUME TypeInv, NEW user \in Users, NEW c \in Channels, Call(user, c)
    PROVE  \E data \in PacketMsg, t \in Nat : Sends(c, data, t)
<1>1. Timeout \in Nat
  BY TimeoutTyped DEF TypeInv, TypeOK
<1>2. user \in Senders /\ Capturer \in Senders
  BY CapturerAssumption DEF Users
<1>3. ASSUME NEW s \in Senders, NEW b \in Batches, NEW id \in CallbackId,
             SendMsgs(s, c, b, id)
      PROVE  \E data \in PacketMsg, t \in Nat : Sends(c, data, t)
  <2>1. Sends(c, Dispatch(s, b, id), Timeout)
    BY <1>3
    DEF SendMsgs, ExecuteSendMsgs, SentOnly, Sends, Dispatch, hostVars, cw1Vars, ctrlVars
  <2> QED
    BY <1>1, <2>1, PacketsTyped
<1>4. ASSUME NEW s \in Senders, NEW q \in QueryLists, NEW id \in CallbackId,
             SendQuery(s, c, q, id)
      PROVE  \E data \in PacketMsg, t \in Nat : Sends(c, data, t)
  <2>1. Sends(c, IbcQuery(s, q, id), Timeout)
    BY <1>4
    DEF SendQuery, ExecuteIbcQuery, SentOnly, Sends, IbcQuery, hostVars, cw1Vars, ctrlVars
  <2> QED
    BY <1>1, <2>1, PacketsTyped
<1>5. ASSUME NEW s \in Senders, CheckRemoteBalance(s, c)
      PROVE  \E data \in PacketMsg, t \in Nat : Sends(c, data, t)
  <2>1. Sends(c, Balances, Timeout)
    BY <1>5
    DEF CheckRemoteBalance, ExecuteCheckRemoteBalance, SentOnly, Sends, Balances,
        hostVars, cw1Vars, ctrlVars
  <2> QED
    BY <1>1, <2>1, PacketsTyped
<1> QED
  BY <1>2, <1>3, <1>4, <1>5
  DEF Call, CapturerSendMsgs, CapturerSendQuery, CapturerCheckRemoteBalance, CallbackId

(* Connecting the controller's end sends WhoAmI.                           *)
LEMMA CtrlConnectSends ==
    ASSUME IInv, NEW c \in Channels, CtrlOpenAck(c) \/ CtrlOpenConfirm(c)
    PROVE  \E data \in PacketMsg, t \in Nat : Sends(c, data, t)
<1>1. Timeout \in Nat
  BY TimeoutTyped DEF IInv, TypeInv, TypeOK
<1>2. ctrlAccounts[c] = None
  BY DEF CtrlOpenAck, CtrlOpenConfirm, IInv, RegisteredIffOpen, IsOpen, Reached
<1>3. Sends(c, WhoAmI, Timeout)
  BY <1>2
  DEF CtrlOpenAck, CtrlOpenConfirm, CtrlChannelConnect, Sends, WhoAmI, hostVars, cw1Vars
<1> QED
  BY <1>1, <1>3, PacketsTyped

(* Connecting the host's end makes the first instance for its channel.     *)
LEMMA HostConnectMakes ==
    ASSUME IInv, NEW c \in Channels, HostOpenAck(c) \/ HostOpenConfirm(c)
    PROVE  HostConnects(c)
<1>1. ~Reached(hostEnd[c], "OPEN")
  BY DEF HostOpenAck, HostOpenConfirm, Reached
<1>2. \A a \in Addrs : owner[a] # c
  BY <1>1, NoneAssumption DEF IInv, InstanceOpened
<1> QED
  BY <1>2
  DEF HostOpenAck, HostOpenConfirm, HostChannelConnect, Register, Cw1Instantiate,
      HostConnects, controllerVars, ctrlVars, shownByCtrl

(* Closing the host's end moves no coins: the account is empty.            *)
LEMMA HostCloseQuiet ==
    ASSUME IInv, NEW c \in Channels, HostClose(c)
    PROVE  Quiet
<1>1. /\ balance \in [Addrs \cup {HostAddr} -> Nat]
      /\ hostAccounts \in [Channels -> Addrs \cup {None}]
  BY DEF IInv, TypeInv, TypeOK, HostTypeOK, Cw1TypeOK
<1>2. /\ hostAccounts[c] \in Addrs
      /\ balance[hostAccounts[c]] = 0
      /\ balance' = [balance EXCEPT ![hostAccounts[c]] = 0,
                                    ![HostAddr] = @ + balance[hostAccounts[c]]]
  BY <1>1 DEF HostClose, HostChannelClose, Cw1Accepts, Cw1ExecuteMsgs
<1>3. balance' = balance
  BY <1>1, <1>2, HostAddrAssumption
<1> QED
  BY <1>3 DEF HostClose, HostChannelClose, Quiet, controllerVars, ctrlVars, shownByCtrl

(* A step of either chain is of one of eight kinds, a deposit the ninth.   *)
LEMMA ChainStepKinds ==
    ASSUME IInv, CtrlChainNext \/ HostChainNext \/ UNCHANGED vars
    PROVE  ChainKinds
<1> USE DEF Quiet, ibcVars, controllerVars, ctrlVars, hostVars, cw1Vars, shownByCtrl
<1>1. ASSUME NEW c \in Channels,
             \/ \E o \in Orders, v \in Versions : CtrlOpenInit(c, o, v)
             \/ \E o \in Orders : HostOpenInit(c, o)
             \/ HostOpenTry(c) \/ CtrlOpenTry(c)
      PROVE  Quiet
  BY <1>1 DEF CtrlOpenInit, HostOpenInit, HostOpenTry, CtrlOpenTry
<1>2. ASSUME NEW c \in Channels, CtrlClose(c) PROVE CtrlForgets(c)
  BY <1>2 DEF CtrlClose, CtrlChannelClose, CtrlForgets
<1>3. CtrlTick \/ HostTick \/ UNCHANGED vars => Quiet
  BY DEF CtrlTick, HostTick, vars
<1>4. TypeInv
  BY DEF IInv
<1> QED
  BY <1>1, <1>2, <1>3, <1>4, CallSends, CtrlConnectSends, HostConnectMakes, HostCloseQuiet
  DEF ChainKinds, CtrlChainNext, HostChainNext, CtrlHandshake, HostHandshake,
      CtrlCloseInit, CtrlCloseConfirm, HostCloseInit, HostCloseConfirm

(* Every step is of one of the nine kinds.                                 *)
LEMMA StepKinds == ASSUME IInv, [Next]_vars PROVE Kinds
  BY ChainStepKinds DEF Kinds, Next

-----------------------------------------------------------------------------
(* Receiving a packet writes one answer to it and moves no coins into an   *)
(* address without an instance.                                            *)
LEMMA ReceiptWrites ==
    ASSUME IInv, NEW p \in commitments, RecvPacket(p)
    PROVE  /\ \E ack : acks' = acks \cup {[packet |-> p, ack |-> ack]}
           /\ ~Received(p)
           /\ UNCHANGED <<commitments, nextSeq, owner, admin, shownByCtrl, capResults>>
  BY DEF RecvPacket, CanReceive, HostPacketReceive, ReceiveDispatch, ReceiveQuery,
         ReceiveWhoAmI, ReceiveBalances, WriteAck, cw1Vars, controllerVars, ctrlVars,
         shownByCtrl

(* No step reuses a number or answers a packet again.                      *)
LEMMA NumberedStep ==
    ASSUME IInv, PInv, Kinds
    PROVE  Numbered' /\ OneAnswer'
<1> USE DEF PInv, Numbered, OneAnswer
<1>1. /\ nextSeq \in [Channels -> Nat]
      /\ commitments \subseteq Packet
      /\ \A w \in acks : w.packet \in Packet
  BY DEF IInv, TypeInv, TypeOK, IbcTypeOK
<1>2. \A p \in Packet : p.chan \in Channels /\ p.seq \in Nat
  BY DEF Packet
<1>3. ASSUME NEW c \in Channels, NEW data \in PacketMsg, NEW t \in Nat,
             Sends(c, data, t)
      PROVE  Numbered' /\ OneAnswer'
  <2>1. \A d \in Channels : nextSeq'[d] \in Nat /\ nextSeq[d] <= nextSeq'[d]
    BY <1>1, <1>3 DEF Sends, SendPacket
  <2>2. ASSUME NEW p \in commitments' PROVE p.seq < nextSeq'[p.chan]
    <3>1. CASE p \in commitments
      BY <1>1, <1>2, <2>1, <3>1
    <3>2. CASE p = [chan |-> c, seq |-> nextSeq[c], data |-> data, timeout |-> t]
      BY <1>1, <1>3, <3>2 DEF Sends, SendPacket
    <3> QED
      BY <1>3, <3>1, <3>2 DEF Sends, SendPacket
  <2>3. ASSUME NEW w \in acks' PROVE w.packet.seq < nextSeq'[w.packet.chan]
    <3>1. w \in acks
      BY <1>3 DEF Sends
    <3> QED
      BY <1>1, <1>2, <2>1, <3>1
  <2> QED
    BY <1>3, <2>2, <2>3 DEF Sends
<1>4. ASSUME NEW p \in commitments, RecvPacket(p) PROVE Numbered' /\ OneAnswer'
  <2>1. PICK ack : acks' = acks \cup {[packet |-> p, ack |-> ack]}
    BY <1>4, ReceiptWrites
  <2>2. ~Received(p) /\ UNCHANGED <<commitments, nextSeq>>
    BY <1>4, ReceiptWrites
  <2> QED
    BY <2>1, <2>2 DEF Received
<1>5. ASSUME NEW w \in acks, AckPacket(w) PROVE Numbered' /\ OneAnswer'
  BY <1>5 DEF AckPacket, DeleteCommitment
<1>6. ASSUME NEW p \in commitments, TimeoutPacket(p) PROVE Numbered' /\ OneAnswer'
  BY <1>6 DEF TimeoutPacket, DeleteCommitment
<1>7. ASSUME \/ \E c \in Channels : HostConnects(c) \/ CtrlForgets(c)
             \/ \E a \in Addrs, n \in 1 .. MaxBalance : DepositTo(a, n)
             \/ \E user \in Users, a \in Senders : UpdateAdmin(user, a)
             \/ Quiet
      PROVE  Numbered' /\ OneAnswer'
  <2>1. UNCHANGED <<commitments, acks, nextSeq>>
    BY <1>7 DEF HostConnects, CtrlForgets, DepositTo, UpdateAdmin, Quiet, ibcVars
  <2> QED
    BY <2>1
<1> QED
  BY <1>3, <1>4, <1>5, <1>6, <1>7 DEF Kinds, ChainKinds

(* A dispatch takes from the account the host lists for its channel.       *)
LEMMA ReceiptBalance ==
    ASSUME IInv, NEW p \in commitments, RecvPacket(p), NEW a \in Addrs,
           balance'[a] # balance[a]
    PROVE  owner[a] = p.chan /\ p.chan \in Channels
<1>1. /\ hostAccounts \in [Channels -> Addrs \cup {None}]
      /\ balance \in [Addrs \cup {HostAddr} -> Nat]
      /\ p.chan \in Channels
  BY DEF IInv, TypeInv, TypeOK, HostTypeOK, Cw1TypeOK, IbcTypeOK, Packet
<1>2. hostAccounts[p.chan] # None /\ Spend(hostAccounts[p.chan], p.data.batch)
  BY DEF RecvPacket, HostPacketReceive, ReceiveDispatch, ReceiveQuery, ReceiveWhoAmI,
         ReceiveBalances, cw1Vars
<1>3. hostAccounts[p.chan] = a
  BY <1>1, <1>2 DEF Spend
<1> QED
  BY <1>1, <1>2, <1>3 DEF IInv, HostOwned

(* Coins reach only addresses with an instance.                            *)
LEMMA UnfundedStep ==
    ASSUME IInv, PInv, Kinds
    PROVE  Unfunded'
<1> USE DEF PInv, Unfunded
<1>1. /\ owner \in [Addrs -> Channels \cup {None}]
      /\ balance \in [Addrs \cup {HostAddr} -> Nat]
  BY DEF IInv, TypeInv, TypeOK, Cw1TypeOK
<1>2. ASSUME NEW c \in Channels, HostConnects(c) PROVE Unfunded'
  BY <1>1, <1>2, NoneAssumption DEF HostConnects
<1>3. ASSUME NEW p \in commitments, RecvPacket(p) PROVE Unfunded'
  <2>1. owner' = owner
    BY <1>3, ReceiptWrites
  <2>2. \A a \in Addrs : owner[a] = None => balance'[a] = balance[a]
    BY <1>3, ReceiptBalance, NoneAssumption
  <2> QED
    BY <2>1, <2>2
<1>4. ASSUME NEW a \in Addrs, NEW n \in 1 .. MaxBalance, DepositTo(a, n)
      PROVE  Unfunded'
  BY <1>1, <1>4 DEF DepositTo, Deposit
<1>5. ASSUME \/ \E c \in Channels, data \in PacketMsg, t \in Nat : Sends(c, data, t)
             \/ \E w \in acks : AckPacket(w)
             \/ \E p \in commitments : TimeoutPacket(p)
             \/ \E user \in Users, a \in Senders : UpdateAdmin(user, a)
             \/ \E c \in Channels : CtrlForgets(c)
             \/ Quiet
      PROVE  Unfunded'
  <2>1. UNCHANGED <<owner, balance>>
    BY <1>5
    DEF Sends, AckPacket, TimeoutPacket, UpdateAdmin, CtrlForgets, Quiet, hostVars, cw1Vars
  <2> QED
    BY <2>1
<1> QED
  BY <1>2, <1>3, <1>4, <1>5 DEF Kinds, ChainKinds

(* An instance keeps the channel it was made for.                          *)
LEMMA OwnersKept ==
    ASSUME IInv, [Next]_vars, NEW a \in Addrs, owner[a] # None
    PROVE  owner'[a] = owner[a]
<1>1. owner \in [Addrs -> Channels \cup {None}]
  BY DEF IInv, TypeInv, TypeOK, Cw1TypeOK
<1>2. ASSUME NEW c \in Channels, HostConnects(c) PROVE owner'[a] = owner[a]
  BY <1>1, <1>2 DEF HostConnects
<1>3. ASSUME NEW p \in commitments, RecvPacket(p) PROVE owner' = owner
  BY <1>3, ReceiptWrites
<1>4. ASSUME \/ \E c \in Channels, data \in PacketMsg, t \in Nat : Sends(c, data, t)
             \/ \E w \in acks : AckPacket(w)
             \/ \E p \in commitments : TimeoutPacket(p)
             \/ \E b \in Addrs, n \in 1 .. MaxBalance : DepositTo(b, n)
             \/ \E user \in Users, b \in Senders : UpdateAdmin(user, b)
             \/ \E c \in Channels : CtrlForgets(c)
             \/ Quiet
      PROVE  owner' = owner
  BY <1>4
  DEF Sends, AckPacket, TimeoutPacket, DepositTo, Deposit, UpdateAdmin, CtrlForgets, Quiet,
      hostVars, cw1Vars
<1> QED
  BY <1>2, <1>3, <1>4, StepKinds DEF Kinds, ChainKinds

(* PInv holds of every state, given that IInv does.                        *)
LEMMA PromiseInductive == Spec => []PInv
<1>1. Init => PInv
  BY DEF Init, IbcInit, Cw1Init, PInv, Numbered, OneAnswer, Unfunded
<1>2. IInv /\ PInv /\ [Next]_vars => PInv'
  BY StepKinds, NumberedStep, UnfundedStep DEF PInv
<1> QED
  BY <1>1, <1>2, Inductive, PTL DEF Spec

-----------------------------------------------------------------------------
(* The funds of a channel are found with the instance made for it.         *)
LEMMA ChosenOwner ==
    ASSUME NEW o, NEW a \in Addrs,
           \A b \in Addrs : o[b] = o[a] => b = a
    PROVE  (CHOOSE b \in Addrs : o[b] = o[a]) = a
  OBVIOUS

(* The promise's funds of a channel are the balance of its account,        *)
LEMMA FundsOf ==
    ASSUME IInv, NEW a \in Addrs, owner[a] # None
    PROVE  Funds[owner[a]] = balance[a] /\ owner[a] \in Channels
<1>1. owner[a] \in Channels
  BY DEF IInv, TypeInv, TypeOK, Cw1TypeOK
<1>2. (CHOOSE b \in Addrs : owner[b] = owner[a]) = a
  BY ChosenOwner DEF IInv, OneInstance
<1> QED
  BY <1>1, <1>2 DEF Funds, Provided

(* after the step as before it.                                            *)
LEMMA FundsOfNext ==
    ASSUME IInv', NEW a \in Addrs, owner'[a] # None
    PROVE  Funds'[owner'[a]] = balance'[a] /\ owner'[a] \in Channels
<1>1. owner'[a] \in Channels
  BY DEF IInv, TypeInv, TypeOK, Cw1TypeOK
<1>2. (CHOOSE b \in Addrs : owner'[b] = owner'[a]) = a
  BY ChosenOwner DEF IInv, OneInstance
<1> QED
  BY <1>1, <1>2 DEF Funds, Provided

(* When one account's balance changes, so do the funds of its channel and  *)
(* of no other.                                                            *)
LEMMA FundsChange ==
    ASSUME IInv, IInv', NEW a \in Addrs, owner[a] # None, owner' = owner,
           \A b \in Addrs \ {a} : balance'[b] = balance[b]
    PROVE  Funds' = [Funds EXCEPT ![owner[a]] = balance'[a]]
<1> DEFINE c == owner[a]
<1>1. c \in Channels /\ Funds'[c] = balance'[a]
  BY FundsOfNext
<1>2. ASSUME NEW d \in Channels, d # c PROVE Funds'[d] = Funds[d]
  <2>1. CASE Provided(d)
    <3>1. PICK b \in Addrs : owner[b] = d
      BY <2>1 DEF Provided
    <3>2. b # a /\ owner[b] # None
      BY <1>2, <3>1, NoneAssumption
    <3> QED
      BY <3>1, <3>2, FundsOf, FundsOfNext
  <2>2. CASE ~Provided(d)
    BY <2>2 DEF Funds, Provided
  <2> QED
    BY <2>1, <2>2
<1>3. Funds = [d \in Channels |-> Funds[d]] /\ Funds' = [d \in Channels |-> Funds'[d]]
  BY DEF Funds
<1> QED
  BY <1>1, <1>2, <1>3

-----------------------------------------------------------------------------
(* Each kind of step, as the promise sees it.                              *)

(* What is shown of one channel changes with its entry, and of no other.   *)
LEMMA ReportsChange ==
    ASSUME NEW c \in Channels, NEW entry,
           ctrlAccounts' = [ctrlAccounts EXCEPT ![c] = entry],
           ctrlAccounts \in [Channels -> AccountData \cup {None}]
    PROVE  Reports' = [Reports EXCEPT ![c] =
               IF entry = None THEN None ELSE entry.remote_balance]
<1>1. ctrlAccounts'[c] = entry
      /\ \A d \in Channels \ {c} : ctrlAccounts'[d] = ctrlAccounts[d]
  OBVIOUS
<1> QED
  BY <1>1 DEF Reports

LEMMA ReportsSame == ctrlAccounts' = ctrlAccounts => Reports' = Reports
  BY DEF Reports

LEMMA ResponsesSame == latestQueries' = latestQueries => Responses' = Responses
  BY DEF Responses

(* Sending a packet asks for what it carries.                              *)
LEMMA SendsAsks ==
    ASSUME IInv, PInv, NEW c \in Channels, NEW data \in PacketMsg, NEW t \in Nat,
           Sends(c, data, t)
    PROVE  Promise!Next
<1> DEFINE r == [chan |-> c, seq |-> nextSeq[c], data |-> data, timeout |-> t]
<1>1. nextSeq \in [Channels -> Nat]
  BY DEF IInv, TypeInv, TypeOK, IbcTypeOK
<1>2. /\ commitments' = commitments \cup {r}
      /\ nextSeq' = [nextSeq EXCEPT ![c] = @ + 1]
      /\ UNCHANGED <<acks, admin, latestQueries, capResults, owner, balance>>
  BY DEF Sends, SendPacket
<1>3. \A w \in acks : w.packet # r
  BY <1>1 DEF PInv, Numbered
<1>4. Waiting' = Waiting \cup {r}
  BY <1>2, <1>3 DEF Waiting, Received
<1>5. Underway' = Underway
  BY <1>2, <1>3 DEF Underway
<1>6. Funds' = Funds
  BY <1>2 DEF Funds, Provided
<1>7. IF data.type = "who_am_i"
      THEN Reports[c] = None /\ Reports' = [Reports EXCEPT ![c] = 0]
      ELSE Reports' = Reports
  <2>1. CASE data.type = "who_am_i"
    <3>1. /\ ctrlAccounts[c] = None
          /\ ctrlAccounts' = [ctrlAccounts EXCEPT ![c] = DefaultAccount]
      BY <2>1 DEF Sends
    <3>2. DefaultAccount # None /\ DefaultAccount.remote_balance = 0
      BY EntryAssumption DEF DefaultAccount, AccountData
    <3>3. Reports' = [Reports EXCEPT ![c] = 0]
      BY <3>1, <3>2, ReportsChange DEF IInv, TypeInv, TypeOK, CtrlTypeOK
    <3> QED
      BY <2>1, <3>1, <3>3 DEF Reports
  <2>2. CASE data.type # "who_am_i"
    BY <2>2, ReportsSame DEF Sends
  <2> QED
    BY <2>1, <2>2
<1>8. Responses' = Responses
  BY <1>2, ResponsesSame
<1>9. Promise!Ask(c, data, t)
  BY <1>2, <1>4, <1>5, <1>6, <1>7, <1>8 DEF Promise!Ask, Sends
<1>10. r \in Waiting' /\ r.chan = c /\ r.timeout = t
  BY <1>4
<1> QED
  BY <1>9, <1>10 DEF Promise!Next

(* Closing the controller's end takes its account off the list.            *)
LEMMA CtrlForgetsForgets ==
    ASSUME IInv, NEW c \in Channels, CtrlForgets(c)
    PROVE  Promise!Next
<1>1. Reports' = [Reports EXCEPT ![c] = None]
  BY ReportsChange DEF CtrlForgets, IInv, TypeInv, TypeOK, CtrlTypeOK
<1>2. /\ Waiting' = Waiting /\ Underway' = Underway
      /\ Funds' = Funds /\ Responses' = Responses
  BY ResponsesSame DEF CtrlForgets, Waiting, Underway, Received, Funds, Provided
<1> QED
  BY <1>1, <1>2 DEF CtrlForgets, Promise!Next, Promise!Forget

(* Making an instance provides the account of its channel.                 *)
LEMMA HostConnectsProvides ==
    ASSUME IInv, PInv, IInv', NEW c \in Channels, HostConnects(c)
    PROVE  Promise!Next
<1>1. /\ owner \in [Addrs -> Channels \cup {None}]
      /\ UNCHANGED <<commitments, acks, nextSeq, admin, shownByCtrl, capResults, balance>>
  BY DEF HostConnects, IInv, TypeInv, TypeOK, Cw1TypeOK
<1>2. PICK a \in Addrs : owner[a] = None /\ owner' = [owner EXCEPT ![a] = c]
  BY DEF HostConnects
<1>3. Funds[c] = None
  BY DEF HostConnects, Funds, Provided
<1>4. Funds'[c] = 0
  <2>1. owner'[a] = c /\ owner'[a] # None
    BY <1>1, <1>2, NoneAssumption
  <2>2. balance'[a] = 0
    BY <1>1, <1>2 DEF PInv, Unfunded
  <2> QED
    BY <2>1, <2>2, FundsOfNext
<1>5. ASSUME NEW d \in Channels, d # c PROVE Funds'[d] = Funds[d]
  <2>1. \A b \in Addrs : owner'[b] = d <=> owner[b] = d
    BY <1>1, <1>2, <1>5, NoneAssumption
  <2>2. CASE Provided(d)
    <3>1. PICK b \in Addrs : owner[b] = d /\ owner'[b] = d
      BY <2>1, <2>2 DEF Provided
    <3> QED
      BY <1>1, <1>5, <3>1, FundsOf, FundsOfNext, NoneAssumption
  <2>3. CASE ~Provided(d)
    BY <2>1, <2>3 DEF Funds, Provided
  <2> QED
    BY <2>2, <2>3
<1>6. Funds' = [Funds EXCEPT ![c] = 0]
  <2>1. /\ Funds = [d \in Channels |-> Funds[d]]
        /\ Funds' = [d \in Channels |-> Funds'[d]]
    BY DEF Funds
  <2> QED
    BY <1>4, <1>5, <2>1
<1>7. /\ Waiting' = Waiting /\ Underway' = Underway
      /\ Reports' = Reports /\ Responses' = Responses
  BY <1>1, ReportsSame, ResponsesSame DEF Waiting, Underway, Received, shownByCtrl
<1> QED
  BY <1>1, <1>3, <1>6, <1>7 DEF Promise!Next, Promise!Provide, Promise!shownVars

(* What the host answers, and what that did to the balances.               *)
LEMMA ReceiptEffect ==
    ASSUME IInv, NEW p \in commitments, RecvPacket(p)
    PROVE  \E ack :
             /\ acks' = acks \cup {[packet |-> p, ack |-> ack]}
             /\ IF p.data.type = "dispatch" /\ ack.tag = "result"
                THEN /\ hostAccounts[p.chan] # None
                     /\ p.data.batch.total <= balance[hostAccounts[p.chan]]
                     /\ Spend(hostAccounts[p.chan], p.data.batch)
                ELSE balance' = balance
             /\ p.data.type = "balances" /\ ack.tag = "result" =>
                  /\ hostAccounts[p.chan] # None
                  /\ ack.data.balances = balance[hostAccounts[p.chan]]
<1> DEFINE a == hostAccounts[p.chan]
           Effect(ack) ==
             /\ acks' = acks \cup {[packet |-> p, ack |-> ack]}
             /\ IF p.data.type = "dispatch" /\ ack.tag = "result"
                THEN a # None /\ p.data.batch.total <= balance[a] /\ Spend(a, p.data.batch)
                ELSE balance' = balance
             /\ p.data.type = "balances" /\ ack.tag = "result" =>
                  a # None /\ ack.data.balances = balance[a]
<1>1. ASSUME p.data.type = "dispatch", ReceiveDispatch(p) PROVE \E ack : Effect(ack)
  <2>1. CASE a # None /\ Covers(a, p.data.batch)
    <3>1. Effect(DispatchAck)
      BY <1>1, <2>1 DEF ReceiveDispatch, Covers, WriteAck, DispatchAck, Success
    <3> QED
      BY <3>1
  <2>2. CASE ~(a # None /\ Covers(a, p.data.batch))
    <3>1. Effect(Fail)
      BY <1>1, <2>2 DEF ReceiveDispatch, WriteAck, Fail
    <3> QED
      BY <3>1
  <2> QED
    BY <2>1, <2>2
<1>2. ASSUME p.data.type = "ibc_query", ReceiveQuery(p) PROVE \E ack : Effect(ack)
  <2>1. Effect(QueryAck(p.data.queries))
    BY <1>2 DEF ReceiveQuery, WriteAck, cw1Vars
  <2> QED
    BY <2>1
<1>3. ASSUME p.data.type = "who_am_i", ReceiveWhoAmI(p) PROVE \E ack : Effect(ack)
  <2>1. Effect(WhoAmIAck(p.chan))
    BY <1>3 DEF ReceiveWhoAmI, WriteAck, cw1Vars
  <2> QED
    BY <2>1
<1>4. ASSUME p.data.type = "balances", ReceiveBalances(p) PROVE \E ack : Effect(ack)
  <2>1. Effect(BalancesAck(p.chan))
    BY <1>4 DEF ReceiveBalances, WriteAck, BalancesAck, Success, Fail, cw1Vars
  <2> QED
    BY <2>1
<1> QED
  BY <1>1, <1>2, <1>3, <1>4 DEF RecvPacket, HostPacketReceive

(* Receiving a packet acts on the request, once.                           *)
LEMMA ReceiptActs ==
    ASSUME IInv, IInv', NEW p \in commitments, RecvPacket(p)
    PROVE  Promise!Next
<1> DEFINE c == p.chan
           a == hostAccounts[c]
<1>1. /\ hostAccounts \in [Channels -> Addrs \cup {None}]
      /\ balance \in [Addrs \cup {HostAddr} -> Nat]
      /\ c \in Channels
  BY DEF IInv, TypeInv, TypeOK, HostTypeOK, Cw1TypeOK, IbcTypeOK, Packet
<1>2. /\ ~Received(p)
      /\ UNCHANGED <<commitments, nextSeq, owner, admin, capResults>>
      /\ UNCHANGED <<Reports, Responses>>
  BY ReceiptWrites, ReportsSame, ResponsesSame DEF shownByCtrl
<1>3. PICK ack :
        /\ acks' = acks \cup {[packet |-> p, ack |-> ack]}
        /\ IF p.data.type = "dispatch" /\ ack.tag = "result"
           THEN a # None /\ p.data.batch.total <= balance[a] /\ Spend(a, p.data.batch)
           ELSE balance' = balance
        /\ p.data.type = "balances" /\ ack.tag = "result" =>
             a # None /\ ack.data.balances = balance[a]
  BY ReceiptEffect
<1> DEFINE w == [packet |-> p, ack |-> ack]
<1>4. Waiting' = Waiting \ {p}
  <2>1. w.packet = p /\ acks' = acks \cup {w}
    BY <1>3
  <2>2. \A q : (\E v \in acks' : v.packet = q) <=> (\E v \in acks : v.packet = q) \/ q = p
    <3> HIDE DEF w
    <3> QED
      BY <2>1
  <2> QED
    BY <1>2, <2>2 DEF Waiting, Received
<1>5. Underway' = Underway \cup {w}
  BY <1>2, <1>3 DEF Underway
<1>6. a # None => owner[a] = c /\ a \in Addrs /\ Funds[c] = balance[a] /\ Funds[c] \in Nat
  BY <1>1, FundsOf, NoneAssumption DEF IInv, HostOwned
<1>7. ASSUME p.data.type = "dispatch", ack.tag = "result"
      PROVE  Promise!Act(p, w.ack)
  <2>1. /\ owner[a] = c /\ a \in Addrs /\ c # None
        /\ balance'[a] = balance[a] - p.data.batch.total
        /\ \A b \in Addrs \ {a} : balance'[b] = balance[b]
    BY <1>1, <1>3, <1>6, <1>7, NoneAssumption DEF Spend
  <2>2. Funds' = [Funds EXCEPT ![c] = Funds[c] - p.data.batch.total]
    BY <1>2, <1>3, <1>6, <1>7, <2>1, FundsChange
  <2>3. Funds[c] # None /\ p.data.batch.total <= Funds[c]
    BY <1>3, <1>6, <1>7, FundsAssumption
  <2> QED
    BY <1>2, <1>4, <1>5, <1>7, <2>2, <2>3 DEF Promise!Act, Promise!Done, Promise!shownVars
<1>8. ASSUME ~(p.data.type = "dispatch" /\ ack.tag = "result")
      PROVE  Promise!Act(p, w.ack)
  <2>1. Funds' = Funds
    BY <1>2, <1>3, <1>8 DEF Funds, Provided
  <2> QED
    BY <1>2, <1>3, <1>4, <1>5, <1>6, <1>8, <2>1
    DEF Promise!Act, Promise!Done, Promise!shownVars
<1>9. Promise!Act(p, w.ack)
  BY <1>7, <1>8
<1>10. p \in Waiting /\ w \in Underway'
  BY <1>2, <1>5 DEF Waiting
<1> QED
  BY <1>9, <1>10 DEF Promise!Next

(* What an acknowledgement puts on record.                                 *)
Reported(w) ==
    LET c == w.packet.chan
    IN  /\ IF w.packet.data.type = "balances" /\ IsSuccess(w.ack)
           THEN /\ Reports[c] # None
                /\ Reports' = [Reports EXCEPT ![c] = w.ack.data.balances]
           ELSE Reports' = Reports
        /\ IF w.packet.data.type = "ibc_query"
           THEN Responses' = [Responses EXCEPT ![c] = w.ack]
           ELSE Responses' = Responses

LEMMA AckReports ==
    ASSUME IInv, NEW w \in acks, AckPacket(w)
    PROVE  Reported(w)
<1> DEFINE p == w.packet
           c == p.chan
<1>1. /\ IbcPacketAck(p, w.ack)
      /\ c \in Channels
      /\ w.ack \in StdAck
      /\ ctrlTime \in Nat
      /\ ctrlAccounts \in [Channels -> AccountData \cup {None}]
      /\ latestQueries \in [Channels -> LatestQueryResponse \cup {None}]
  BY DEF AckPacket, CanAcknowledge, IInv, TypeInv, TypeOK, IbcTypeOK, CtrlTypeOK, Packet
<1>2. ASSUME p.data.type = "dispatch", AcknowledgeDispatch(p, w.ack) PROVE Reported(w)
  BY <1>2, ReportsSame, ResponsesSame DEF AcknowledgeDispatch, ctrlVars, Reported
<1>3. ASSUME p.data.type = "ibc_query", AcknowledgeQuery(p, w.ack) PROVE Reported(w)
  <2> DEFINE entry == [last_update_time |-> ctrlTime, response |-> w.ack]
  <2>1. latestQueries' = [latestQueries EXCEPT ![c] = entry] /\ Reports' = Reports
    BY <1>3, ReportsSame DEF AcknowledgeQuery
  <2>2. entry # None /\ entry.response = w.ack
    BY <1>1, EntryAssumption DEF LatestQueryResponse
  <2>3. /\ latestQueries'[c] = entry
        /\ \A d \in Channels \ {c} : latestQueries'[d] = latestQueries[d]
    BY <1>1, <2>1
  <2>4. Responses' = [Responses EXCEPT ![c] = w.ack]
    <3> HIDE DEF entry
    <3> QED
      BY <2>2, <2>3 DEF Responses
  <2> QED
    BY <1>3, <2>1, <2>4 DEF Reported
<1>4. ASSUME p.data.type = "who_am_i", AcknowledgeWhoAmI(p, w.ack) PROVE Reported(w)
  <2>1. CASE IsSuccess(w.ack)
    <3> DEFINE entry == Learn(ctrlAccounts[c], w.ack.data.account)
    <3>1. /\ ctrlAccounts[c] \in AccountData
          /\ w.ack.data.account \in Addrs
          /\ ctrlAccounts' = [ctrlAccounts EXCEPT ![c] = entry]
      BY <1>1, <1>4, <2>1
      DEF AcknowledgeWhoAmI, IInv, TypeInv, AckTyped, WhoAmIResponse
    <3>2. entry # None /\ entry.remote_balance = ctrlAccounts[c].remote_balance
      BY <3>1, EntryAssumption DEF Learn, AccountData
    <3>3. Reports' = [Reports EXCEPT ![c] = ctrlAccounts[c].remote_balance]
      <4> HIDE DEF entry
      <4> QED
        BY <1>1, <3>1, <3>2, ReportsChange
    <3>4. Reports[c] = ctrlAccounts[c].remote_balance
      BY <1>1, <3>1, EntryAssumption DEF Reports
    <3>5. Reports' = Reports
      BY <1>1, <3>3, <3>4 DEF Reports
    <3> QED
      BY <1>4, <3>5, ResponsesSame DEF AcknowledgeWhoAmI, Reported
  <2>2. CASE ~IsSuccess(w.ack)
    BY <1>4, <2>2, ReportsSame, ResponsesSame DEF AcknowledgeWhoAmI, Reported
  <2> QED
    BY <2>1, <2>2
<1>5. ASSUME p.data.type = "balances", AcknowledgeBalances(p, w.ack) PROVE Reported(w)
  <2>1. CASE IsSuccess(w.ack)
    <3> DEFINE entry == Report(w.ack.data)
    <3>1. /\ ctrlAccounts[c] \in AccountData
          /\ w.ack.data \in BalancesResponse
          /\ ctrlAccounts' = [ctrlAccounts EXCEPT ![c] = entry]
      BY <1>1, <1>5, <2>1 DEF AcknowledgeBalances, IInv, TypeInv, AckTyped
    <3>2. entry # None /\ entry.remote_balance = w.ack.data.balances
      BY <1>1, <3>1, EntryAssumption DEF Report, AccountData, BalancesResponse
    <3>3. Reports' = [Reports EXCEPT ![c] = w.ack.data.balances]
      <4> HIDE DEF entry
      <4> QED
        BY <1>1, <3>1, <3>2, ReportsChange
    <3>4. Reports[c] # None
      BY <1>1, <3>1, EntryAssumption, FundsAssumption DEF Reports, AccountData
    <3> QED
      BY <1>5, <2>1, <3>3, <3>4, ResponsesSame DEF AcknowledgeBalances, Reported
  <2>2. CASE ~IsSuccess(w.ack)
    BY <1>5, <2>2, ReportsSame, ResponsesSame DEF AcknowledgeBalances, Reported
  <2> QED
    BY <2>1, <2>2
<1> QED
  BY <1>1, <1>2, <1>3, <1>4, <1>5 DEF IbcPacketAck

(* Acknowledging delivers the answer to the one it is for.                 *)
LEMMA AckDelivers ==
    ASSUME IInv, PInv, NEW w \in acks, AckPacket(w)
    PROVE  Promise!Next
<1> DEFINE p == w.packet
<1>1. /\ p \in commitments
      /\ commitments' = commitments \ {p}
      /\ UNCHANGED <<acks, nextSeq, owner, balance>>
      /\ IbcPacketAck(p, w.ack)
  BY DEF AckPacket, CanAcknowledge, DeleteCommitment, hostVars, cw1Vars
<1>2. Received(p)
  BY DEF Received
<1>3. Waiting' = Waiting
  BY <1>1, <1>2 DEF Waiting, Received
<1>4. Underway' = Underway \ {w}
  BY <1>1 DEF Underway, PInv, OneAnswer
<1>5. Funds' = Funds
  BY <1>1 DEF Funds, Provided
<1>6. /\ admin' = admin
      /\ IF Promise!WantsCallback(p)
         THEN /\ p.data.sender = Capturer
              /\ capResults' = [capResults EXCEPT ![p.data.callback_id] = w.ack]
         ELSE capResults' = capResults
  BY <1>1
  DEF IbcPacketAck, AcknowledgeDispatch, AcknowledgeQuery, AcknowledgeWhoAmI,
      AcknowledgeBalances, Callback, Delivered, ReceiveIcaResponse, ctrlVars,
      Promise!WantsCallback
<1>7. Reported(w)
  BY AckReports
<1>8. Promise!Deliver(w)
  BY <1>1, <1>3, <1>4, <1>5, <1>6, <1>7 DEF Promise!Deliver, Promise!Done, Reported, IsSuccess
<1>9. w \in Underway
  BY <1>1 DEF Underway
<1> QED
  BY <1>8, <1>9 DEF Promise!Next

(* Timing out withdraws the request.                                       *)
LEMMA TimeoutExpires ==
    ASSUME NEW p \in commitments, TimeoutPacket(p)
    PROVE  Promise!Next
<1>1. /\ ~Received(p)
      /\ commitments' = commitments \ {p}
      /\ UNCHANGED <<acks, nextSeq, owner, balance, admin, shownByCtrl, capResults>>
  BY DEF TimeoutPacket, CanTimeout, DeleteCommitment, IbcPacketTimeout, ctrlVars,
         hostVars, cw1Vars, shownByCtrl
<1>2. Waiting' = Waiting \ {p} /\ p \in Waiting
  BY <1>1 DEF Waiting, Received
<1>3. Underway' = Underway
  BY <1>1 DEF Underway, Received
<1>4. Funds' = Funds /\ Reports' = Reports /\ Responses' = Responses
  BY <1>1, ReportsSame, ResponsesSame DEF Funds, Provided, shownByCtrl
<1>5. Promise!Expire(p)
  BY <1>1, <1>2, <1>3, <1>4 DEF Promise!Expire, Promise!shownVars
<1> QED
  BY <1>2, <1>5 DEF Promise!Next

(* A deposit pays in to the account of a channel.                          *)
LEMMA DepositPaysIn ==
    ASSUME IInv, IInv', NEW a \in Addrs, NEW n \in 1 .. MaxBalance, DepositTo(a, n)
    PROVE  Promise!Next
<1> DEFINE c == owner[a]
<1>1. /\ balance \in [Addrs \cup {HostAddr} -> Nat]
      /\ owner[a] # None
      /\ balance' = [balance EXCEPT ![a] = @ + n]
      /\ UNCHANGED <<commitments, acks, nextSeq, owner, admin, shownByCtrl, capResults>>
  BY DEF DepositTo, Deposit, IInv, TypeInv, TypeOK, Cw1TypeOK, ibcVars, controllerVars,
         ctrlVars, shownByCtrl
<1>2. Funds[c] = balance[a] /\ c \in Channels
  BY <1>1, FundsOf
<1>3. Funds[c] # None
  BY <1>1, <1>2, FundsAssumption
<1>4. Funds' = [Funds EXCEPT ![c] = Funds[c] + n]
  <2>1. balance'[a] = Funds[c] + n /\ \A b \in Addrs \ {a} : balance'[b] = balance[b]
    BY <1>1, <1>2
  <2> QED
    BY <1>1, <2>1, FundsChange
<1>5. /\ Waiting' = Waiting /\ Underway' = Underway
      /\ Reports' = Reports /\ Responses' = Responses
  BY <1>1, ReportsSame, ResponsesSame DEF Waiting, Underway, Received, shownByCtrl
<1>6. Promise!PayIn(c, n)
  BY <1>1, <1>3, <1>4, <1>5 DEF Promise!PayIn, Promise!shownVars
<1> QED
  BY <1>2, <1>6 DEF Promise!Next

(* UpdateAdmin appoints, by the admin's own hand.                          *)
LEMMA UpdateAdminAppoints ==
    ASSUME NEW user \in Users, NEW a \in Senders, UpdateAdmin(user, a)
    PROVE  Promise!Next
<1>1. /\ admin # Capturer
      /\ admin' = a
      /\ UNCHANGED <<commitments, acks, nextSeq, owner, balance, shownByCtrl, capResults>>
  BY DEF UpdateAdmin, ExecuteUpdateAdmin, Users, ibcVars, hostVars, cw1Vars, shownByCtrl
<1>2. /\ Waiting' = Waiting /\ Underway' = Underway /\ Funds' = Funds
      /\ Reports' = Reports /\ Responses' = Responses
  BY <1>1, ReportsSame, ResponsesSame
  DEF Waiting, Underway, Received, Funds, Provided, shownByCtrl
<1> QED
  BY <1>1, <1>2 DEF Promise!Next, Promise!Appoint, Promise!shownVars

(* The rest is not seen.                                                   *)
LEMMA QuietStutters == Quiet => UNCHANGED Promise!promiseVars
<1> SUFFICES ASSUME Quiet PROVE UNCHANGED Promise!promiseVars
  OBVIOUS
<1>1. /\ Waiting' = Waiting /\ Underway' = Underway /\ Funds' = Funds
      /\ Reports' = Reports /\ Responses' = Responses
  BY ReportsSame, ResponsesSame
  DEF Quiet, Waiting, Underway, Received, Funds, Provided, shownByCtrl
<1> QED
  BY <1>1 DEF Quiet, Promise!promiseVars, Promise!shownVars

(* The system keeps the promise: a request takes effect once, as a whole   *)
(* and on its own channel's account, or not at all, and what is on record  *)
(* is what was told last (ibc_packet_receive, ibc_packet_ack and           *)
(* ibc_packet_timeout of the two contracts).                               *)
THEOREM PromiseKept == Spec => KeepsPromise
<1>1. Init => Promise!Init
  <2> SUFFICES ASSUME Init PROVE Promise!Init
    OBVIOUS
  <2>1. Waiting = {} /\ Underway = {}
    BY DEF Init, IbcInit, Waiting, Underway
  <2>2. Funds = [c \in Channels |-> None]
    BY NoneAssumption DEF Init, Cw1Init, Funds, Provided
  <2>3. /\ Reports = [c \in Channels |-> None]
        /\ Responses = [c \in Channels |-> None]
    BY DEF Init, CtrlInit, Reports, Responses
  <2> QED
    BY <2>1, <2>2, <2>3 DEF Init, IbcInit, CtrlInit, CapInit, Promise!Init
<1>2. IInv /\ IInv' /\ PInv /\ [Next]_vars => [Promise!Next]_(Promise!promiseVars)
  BY StepKinds, SendsAsks, HostConnectsProvides, ReceiptActs, AckDelivers,
     TimeoutExpires, DepositPaysIn, UpdateAdminAppoints, CtrlForgetsForgets,
     QuietStutters
  DEF Kinds, ChainKinds
<1> QED
  BY <1>1, <1>2, Inductive, PromiseInductive, PTL DEF Spec, KeepsPromise, Promise!Spec
=============================================================================
