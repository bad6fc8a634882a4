---------------------------- MODULE IcaTransfers ----------------------------
(***************************************************************************)
(* The system with SendFunds: coins of the controller chain are sent over  *)
(* a transfer channel to the reflect account of an ICA channel.  The two   *)
(* channels know nothing of each other: an ICA channel may close while a   *)
(* transfer to its account is under way.                                   *)
(*                                                                         *)
(* Here vouchers are all that an account can hold, so nobody deposits.     *)
(***************************************************************************)
EXTENDS IcaProperties, Transfer

allVars == <<vars, transferVars>>

AllTypeOK == TypeOK /\ TransferTypeOK

AllInit == Init /\ TransferInit

-----------------------------------------------------------------------------
(* Faulty: the caller says where to.                                       *)
SendFundsToGiven(payer, c, amount) ==
    \E to \in Addrs :
        /\ ctrlAccounts[c] # None
        /\ SendTransfer(payer, c, to, amount, Timeout)

(* Faulty: what the contract has been refunded is spent before the coins   *)
(* that come with the call.                                                *)
SendFundsFromRefunds(payer, c, amount) ==
    LET from == IF coins[SimpleIcaController] >= amount THEN SimpleIcaController ELSE payer
    IN  /\ ctrlAccounts[c] # None
        /\ ctrlAccounts[c].remote_addr # None
        /\ SendTransfer(from, c, ctrlAccounts[c].remote_addr, amount, Timeout)

(* Faulty: the remote address is not required to be known.                 *)
SendFundsUnchecked(payer, c, amount) ==
    /\ ctrlAccounts[c] # None
    /\ SendTransfer(payer, c, ctrlAccounts[c].remote_addr, amount, Timeout)

(* Neither the sender nor the state of either channel is looked at, only   *)
(* whether the remote address is known.  A coin vector of one coin has an  *)
(* amount; a call with none or with several is refused.                    *)
ExecuteSendFunds(payer, c, amount) ==
    /\ ctrlAccounts[c] # None
    /\ ctrlAccounts[c].remote_addr # None
    /\ SendTransfer(payer, c, ctrlAccounts[c].remote_addr, amount, Timeout)

MayStillTransfer == nextTransfer <= MaxTransfers

SendFunds(user, c, amount) ==
    /\ MayStillTransfer
    /\ ExecuteSendFunds(user, c, amount)
    /\ UNCHANGED vars

(* The capturer passes on the coins of its own caller.                     *)
CapturerSendFunds(user, c, amount) ==
    /\ CapAuthorized(user)
    /\ SendFunds(user, c, amount)

-----------------------------------------------------------------------------
(* Relayed transfers.                                                      *)

Credit(t) ==
    /\ CreditTransfer(t)
    /\ UNCHANGED <<ibcVars, controllerVars, hostAccounts>>

Refuse(t) ==
    /\ RefuseTransfer(t)
    /\ UNCHANGED <<ibcVars, controllerVars, hostAccounts>>

SettleTransfer(t) ==
    /\ AcknowledgeTransfer(t) \/ TimeoutTransfer(t)
    /\ UNCHANGED vars

AllNext ==
    \/ (CtrlChainNext \/ HostChainNext) /\ UNCHANGED transferVars
    \/ \E user \in Users, c \in Channels, amount \in 1 .. Purse :
           SendFunds(user, c, amount) \/ CapturerSendFunds(user, c, amount)
    \/ \E t \in transfers : Credit(t) \/ Refuse(t) \/ SettleTransfer(t)

AllSpec == AllInit /\ [][AllNext]_allVars

=============================================================================
