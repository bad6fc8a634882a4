------------------------------ MODULE Transfer ------------------------------
(***************************************************************************)
(* ICS-20 token transfers from the controller chain to the host chain, as  *)
(* far as the controller relies on them: coins are held in escrow when a   *)
(* transfer is sent, vouchers are credited when it arrives, and the sender *)
(* is given the coins back if it is refused or times out.  Not code of     *)
(* this repository.                                                        *)
(***************************************************************************)
EXTENDS Ibc, Cw1Whitelist, Capturer

CONSTANTS
    Escrow,         \* where coins under transfer are held
    Purse,          \* bound: what each sender starts with
    MaxTransfers    \* bound: transfers sent

VARIABLES
    coins,          \* what each address on the controller chain holds
    nextTransfer,   \* next sequence number of the transfer channel
    transfers,      \* sent and neither acknowledged nor timed out
    receipts        \* arrived, credited or refused

transferVars == <<coins, nextTransfer, transfers, receipts>>

ASSUME TransferAssumption ==
    /\ Escrow \notin Senders \cup {SimpleIcaController}
    /\ SimpleIcaController \notin Senders
    /\ Purse \in Nat
    /\ MaxTransfers \in Nat

(* The ICA channel that a transfer was asked for is not in the packet; it  *)
(* is remembered here only to be talked about.                             *)
TransferPacket ==
    [seq : Nat, chan : Channels, to : Addrs, amount : Nat \ {0}, timeout : Nat]

Credited(t) == [transfer |-> t, credited |-> TRUE]

Refused(t) == [transfer |-> t, credited |-> FALSE]

TransferTypeOK ==
    /\ coins \in [Senders \cup {SimpleIcaController, Escrow} -> Nat]
    /\ nextTransfer \in Nat
    /\ transfers \subseteq TransferPacket
    /\ receipts \subseteq [transfer : TransferPacket, credited : BOOLEAN]

TransferInit ==
    /\ coins = [s \in Senders \cup {SimpleIcaController, Escrow} |->
                  IF s \in Senders THEN Purse ELSE 0]
    /\ nextTransfer = 1
    /\ transfers = {}
    /\ receipts = {}

-----------------------------------------------------------------------------
(* A transaction in which payer hands an amount to the controller, which   *)
(* sends it on: for ICS-20 the controller is the sender.                   *)
SendTransfer(payer, c, to, amount, timeout) ==
    /\ coins[payer] >= amount
    /\ coins' = [coins EXCEPT ![payer] = @ - amount, ![Escrow] = @ + amount]
    /\ transfers' = transfers \cup
           {[seq |-> nextTransfer, chan |-> c, to |-> to, amount |-> amount,
             timeout |-> timeout]}
    /\ nextTransfer' = nextTransfer + 1
    /\ UNCHANGED receipts

Arrived(t) == Credited(t) \in receipts \/ Refused(t) \in receipts

CanArrive(t) ==
    /\ t \in transfers
    /\ ~Arrived(t)
    /\ hostTime < t.timeout

CreditTransfer(t) ==
    /\ CanArrive(t)
    /\ balance[t.to] + t.amount <= MaxBalance
    /\ balance' = [balance EXCEPT ![t.to] = @ + t.amount]
    /\ receipts' = receipts \cup {Credited(t)}
    /\ UNCHANGED <<owner, coins, nextTransfer, transfers>>

(* The host chain may refuse: it takes no transfers, or not of this coin.  *)
RefuseTransfer(t) ==
    /\ CanArrive(t)
    /\ receipts' = receipts \cup {Refused(t)}
    /\ UNCHANGED <<owner, balance, coins, nextTransfer, transfers>>

Refund(t) ==
    coins' = [coins EXCEPT ![SimpleIcaController] = @ + t.amount,
                           ![Escrow] = @ - t.amount]

AcknowledgeTransfer(t) ==
    /\ t \in transfers
    /\ Arrived(t)
    /\ IF Refused(t) \in receipts THEN Refund(t) ELSE UNCHANGED coins
    /\ transfers' = transfers \ {t}
    /\ UNCHANGED <<nextTransfer, receipts>>

TimeoutTransfer(t) ==
    /\ t \in transfers
    /\ ~Arrived(t)
    /\ hostTime >= t.timeout
    /\ Refund(t)
    /\ transfers' = transfers \ {t}
    /\ UNCHANGED <<nextTransfer, receipts>>
=============================================================================
