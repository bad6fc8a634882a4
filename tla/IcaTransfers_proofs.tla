------------------------ MODULE IcaTransfers_proofs ------------------------
(***************************************************************************)
(* With SendFunds the system is still the system: a transfer that arrives  *)
(* is a deposit.  So IInv holds on, and with it a transfer's destination   *)
(* is known to be the account of the channel it was asked for.             *)
(***************************************************************************)
EXTENDS Integers, IcaPromise_proofs, TransferProperties

(* That the escrow can pay every refund is a fact about sums; nothing here *)
(* needs it, so coins are integers.                                        *)
TransferInv ==
    /\ coins \in [Senders \cup {SimpleIcaController, Escrow} -> Int]
    /\ nextTransfer \in Nat
    /\ transfers \subseteq TransferPacket
    /\ receipts \subseteq [transfer : TransferPacket, credited : BOOLEAN]
    /\ DestinationsOwned

(* No coin has moved at the start.                                         *)
LEMMA TransferInvInit == AllInit => TransferInv
  BY TransferAssumption
  DEF AllInit, TransferInit, TransferInv, DestinationsOwned, CreditedTransfers

-----------------------------------------------------------------------------
(* Every step of AllSpec is a step or a stutter of Spec.                   *)

(* A transfer that arrives is a deposit to an existing account.            *)
LEMMA ArrivalDeposits ==
    ASSUME IInv, TransferInv, NEW t \in transfers, Credit(t)
    PROVE  \E a \in Addrs, n \in 1 .. MaxBalance : DepositTo(a, n)
<1>1. /\ t.to \in Addrs
      /\ t.chan \in Channels
      /\ t.amount \in Nat \ {0}
  BY DEF TransferInv, TransferPacket
<1>2. owner[t.to] # None
  BY <1>1, NoneAssumption DEF TransferInv, DestinationsOwned
<1>3. balance[t.to] \in Nat /\ MaxBalance \in Nat
  BY <1>1, HostAddrAssumption DEF IInv, TypeInv, TypeOK, Cw1TypeOK
<1>4. t.amount \in 1 .. MaxBalance
  BY <1>1, <1>3 DEF Credit, CreditTransfer
<1>5. DepositTo(t.to, t.amount)
  BY <1>2 DEF Credit, CreditTransfer, DepositTo, Deposit
<1> QED
  BY <1>1, <1>4, <1>5

(* What else transfers do is invisible to the two contracts.               *)
LEMMA SystemStep ==
    ASSUME IInv, TransferInv, [AllNext]_allVars
    PROVE  [Next]_vars
<1>1. ASSUME NEW t \in transfers, Refuse(t) \/ SettleTransfer(t) PROVE UNCHANGED vars
  BY <1>1 DEF Refuse, RefuseTransfer, SettleTransfer, vars, hostVars, cw1Vars
<1>2. ASSUME NEW user \in Users, NEW c \in Channels, NEW amount \in 1 .. Purse,
             SendFunds(user, c, amount) \/ CapturerSendFunds(user, c, amount)
      PROVE  UNCHANGED vars
  BY <1>2 DEF SendFunds, CapturerSendFunds
<1>3. ASSUME NEW t \in transfers, Credit(t) PROVE Next
  BY <1>3, ArrivalDeposits DEF Next
<1>4. CtrlChainNext \/ HostChainNext => Next
  BY DEF Next
<1> QED
  BY <1>1, <1>2, <1>3, <1>4 DEF AllNext, allVars

-----------------------------------------------------------------------------
(* What SendFunds sends is a transfer to the account of its channel.       *)
LEMMA SendFundsSends ==
    ASSUME IInv, TransferInv, NEW user \in Users, NEW c \in Channels,
           NEW amount \in 1 .. Purse, SendFunds(user, c, amount)
    PROVE  /\ \E t \in TransferPacket :
                 /\ owner[t.to] = t.chan
                 /\ t.seq = nextTransfer
                 /\ t.amount = amount
                 /\ transfers' = transfers \cup {t}
           /\ coins[user] >= amount
           /\ coins' = [coins EXCEPT ![user] = @ - amount, ![Escrow] = @ + amount]
           /\ nextTransfer' = nextTransfer + 1
           /\ receipts' = receipts
<1> DEFINE to == ctrlAccounts[c].remote_addr
           t == [seq |-> nextTransfer, chan |-> c, to |-> to, amount |-> amount,
                 timeout |-> Timeout]
<1>1. ctrlAccounts[c] # None /\ to # None /\ SendTransfer(user, c, to, amount, Timeout)
  BY DEF SendFunds, ExecuteSendFunds
<1>2. to \in Addrs
  BY <1>1 DEF IInv, TypeInv, TypeOK, CtrlTypeOK, AccountData
<1>3. owner[to] = c
  BY <1>1 DEF IInv, RemoteOwned
<1>4. Timeout \in Nat
  BY TimeoutTyped DEF IInv, TypeInv, TypeOK
<1>5. amount \in Nat \ {0}
  BY TransferAssumption
<1>6. t \in TransferPacket
  BY <1>2, <1>4, <1>5 DEF TransferInv, TransferPacket
<1>7. owner[t.to] = t.chan
  BY <1>3
<1> QED
  BY <1>1, <1>6, <1>7 DEF SendTransfer

(* A destination stays the account of its channel.                         *)
LEMMA TransferInvStep ==
    ASSUME IInv, TransferInv, [AllNext]_allVars
    PROVE  TransferInv'
<1> USE DEF TransferInv
<1>1. \A t \in TransferPacket : t.to \in Addrs /\ t.chan \in Channels /\ t.amount \in Nat
  BY DEF TransferPacket
<1>2. CreditedTransfers \subseteq TransferPacket
  BY DEF CreditedTransfers
<1>3. \A t \in TransferPacket : owner[t.to] = t.chan => owner'[t.to] = t.chan
  BY <1>1, SystemStep, OwnersKept, NoneAssumption
<1>4. ASSUME UNCHANGED transferVars PROVE TransferInv'
  BY <1>2, <1>3, <1>4 DEF transferVars, DestinationsOwned, CreditedTransfers
<1>5. ASSUME NEW user \in Users, NEW c \in Channels, NEW amount \in 1 .. Purse,
             SendFunds(user, c, amount)
      PROVE  TransferInv'
  <2>1. PICK t \in TransferPacket :
            owner[t.to] = t.chan /\ transfers' = transfers \cup {t}
    BY <1>5, SendFundsSends
  <2>2. /\ coins' = [coins EXCEPT ![user] = @ - amount, ![Escrow] = @ + amount]
        /\ nextTransfer' = nextTransfer + 1
        /\ receipts' = receipts
    BY <1>5, SendFundsSends
  <2>3. CreditedTransfers' = CreditedTransfers
    BY <2>2 DEF CreditedTransfers
  <2>4. DestinationsOwned'
    BY <1>2, <1>3, <2>1, <2>3 DEF DestinationsOwned
  <2>5. coins' \in [Senders \cup {SimpleIcaController, Escrow} -> Int]
    BY <2>2 DEF Users
  <2> QED
    BY <2>1, <2>2, <2>4, <2>5
<1>6. ASSUME NEW t \in transfers, Credit(t) PROVE TransferInv'
  <2>1. UNCHANGED <<coins, nextTransfer, transfers>> /\ receipts' = receipts \cup {Credited(t)}
    BY <1>6 DEF Credit, CreditTransfer
  <2>2. CreditedTransfers' \subseteq CreditedTransfers \cup {t}
    BY <2>1 DEF CreditedTransfers, Credited
  <2>3. Credited(t) \in [transfer : TransferPacket, credited : BOOLEAN]
    BY DEF Credited
  <2> QED
    BY <1>2, <1>3, <2>1, <2>2, <2>3 DEF DestinationsOwned
<1>7. ASSUME NEW t \in transfers, Refuse(t) PROVE TransferInv'
  <2>1. UNCHANGED <<coins, nextTransfer, transfers>> /\ receipts' = receipts \cup {Refused(t)}
    BY <1>7 DEF Refuse, RefuseTransfer
  <2>2. CreditedTransfers' \subseteq CreditedTransfers
    BY <2>1 DEF CreditedTransfers, Refused
  <2>3. Refused(t) \in [transfer : TransferPacket, credited : BOOLEAN]
    BY DEF Refused
  <2> QED
    BY <1>2, <1>3, <2>1, <2>2, <2>3 DEF DestinationsOwned
<1>8. ASSUME NEW t \in transfers, SettleTransfer(t) PROVE TransferInv'
  <2>1. /\ coins' = coins \/ Refund(t)
        /\ transfers' = transfers \ {t}
        /\ UNCHANGED <<nextTransfer, receipts>>
    BY <1>8 DEF SettleTransfer, AcknowledgeTransfer, TimeoutTransfer
  <2>2. CreditedTransfers' = CreditedTransfers
    BY <2>1 DEF CreditedTransfers
  <2>3. coins' \in [Senders \cup {SimpleIcaController, Escrow} -> Int]
    BY <1>1, <2>1 DEF Refund
  <2> QED
    BY <1>2, <1>3, <2>1, <2>2, <2>3 DEF DestinationsOwned
<1> QED
  BY <1>4, <1>5, <1>6, <1>7, <1>8 DEF AllNext, allVars, CapturerSendFunds

-----------------------------------------------------------------------------
(* Both invariants hold throughout.                                        *)
LEMMA AllInductive == AllSpec => [](IInv /\ TransferInv)
<1>1. AllInit => IInv /\ TransferInv
  BY IInvInit, TransferInvInit DEF AllInit
<1>2. IInv /\ TransferInv /\ [AllNext]_allVars => IInv' /\ TransferInv'
  BY SystemStep, IInvStep, TransferInvStep
<1> QED
  BY <1>1, <1>2, PTL DEF AllSpec

(* Whatever is transferred when, the two contracts behave as IcaSystem     *)
(* says, so all that is proved of it still holds.                          *)
THEOREM TransfersAreDeposits == AllSpec => ImplementsSystem
<1>1. AllInit => Init
  BY DEF AllInit
<1>2. IInv /\ TransferInv /\ [AllNext]_allVars => [Next]_vars
  BY SystemStep
<1> QED
  BY <1>1, <1>2, AllInductive, PTL DEF AllSpec, ImplementsSystem, Spec

(* A transfer goes to the account of the channel it was asked for, closed  *)
(* or not by the time it arrives (execute_send_funds, contract.rs:183).    *)
THEOREM DestinationsRight == AllSpec => []DestinationsOwned
<1>1. TransferInv => DestinationsOwned
  BY DEF TransferInv
<1> QED
  BY <1>1, AllInductive, PTL

(* What is refunded stays with the contract, and callers only ever pay.    *)
THEOREM RefundsNeverLeave == AllSpec => RefundsStrand
<1> DEFINE Stranded ==
      /\ coins'[SimpleIcaController] >= coins[SimpleIcaController]
      /\ \A s \in Senders : coins'[s] <= coins[s]
<1>1. ASSUME IInv, TransferInv, [AllNext]_allVars PROVE Stranded
  <2>1. coins \in [Senders \cup {SimpleIcaController, Escrow} -> Int]
    BY <1>1 DEF TransferInv
  <2>2. ASSUME coins' = coins PROVE Stranded
    BY <2>1, <2>2
  <2>3. ASSUME NEW user \in Users, NEW c \in Channels, NEW amount \in 1 .. Purse,
               SendFunds(user, c, amount)
        PROVE  Stranded
    <3>1. coins' = [coins EXCEPT ![user] = @ - amount, ![Escrow] = @ + amount]
      BY <1>1, <2>3, SendFundsSends
    <3>2. user \in Senders /\ user # SimpleIcaController /\ amount \in Nat
      BY TransferAssumption DEF Users
    <3> QED
      BY <2>1, <3>1, <3>2, TransferAssumption
  <2>4. ASSUME NEW t \in transfers, SettleTransfer(t) PROVE Stranded
    <3>1. t.amount \in Nat
      BY <1>1 DEF TransferInv, TransferPacket
    <3>2. coins' = coins \/ Refund(t)
      BY <2>4 DEF SettleTransfer, AcknowledgeTransfer, TimeoutTransfer
    <3> QED
      BY <2>1, <3>1, <3>2, TransferAssumption DEF Refund
  <2>5. ASSUME NEW t \in transfers, Credit(t) \/ Refuse(t) PROVE coins' = coins
    BY <2>5 DEF Credit, CreditTransfer, Refuse, RefuseTransfer
  <2> QED
    BY <1>1, <2>2, <2>3, <2>4, <2>5
    DEF AllNext, allVars, transferVars, CapturerSendFunds
<1>2. IInv /\ TransferInv /\ [AllNext]_allVars => [Stranded]_allVars
  BY <1>1
<1> QED
  BY <1>2, AllInductive, PTL DEF AllSpec, RefundsStrand
=============================================================================
