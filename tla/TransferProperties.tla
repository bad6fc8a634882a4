------------------------- MODULE TransferProperties -------------------------
(***************************************************************************)
(* Where the coins are that SendFunds takes from its callers.              *)
(***************************************************************************)
EXTENDS IcaTransfers, FiniteSetsExt

Amounts(ts) == MapThenSumSet(LAMBDA t : t.amount, ts)

CreditedTransfers == {r.transfer : r \in {q \in receipts : q.credited}}

TotalSpent(ws) == MapThenSumSet(LAMBDA w : w.packet.data.batch.total, ws)

(* The answers that took coins out of an account, of those on a channel.   *)
Spends(w) == w.packet.data.type = "dispatch" /\ IsSuccess(w.ack)

SpendsOn(c) == {w \in acks : Spends(w) /\ w.packet.chan = c}

(* An account holds what transfers brought it less what the dispatches     *)
(* answered with success on its channel took out: nothing is lost, spent   *)
(* twice or spent without an answer, whatever is closed meanwhile.         *)
AccountLedger ==
    \A a \in Addrs :
        Amounts({t \in CreditedTransfers : t.to = a})
            = balance[a] + IF owner[a] = None THEN 0 ELSE TotalSpent(SpendsOn(owner[a]))

(* "it will attempt to ibc transfer them to the account on the remote side *)
(* of this channel" (controller msg.rs:36): a transfer goes to the account *)
(* made for the very channel it was asked for, even if that channel closes *)
(* before the transfer arrives.                                            *)
DestinationsOwned ==
    \A t \in transfers \cup CreditedTransfers : owner[t.to] = t.chan

(* A transfer that fails is refunded to the controller contract, which has *)
(* no operation to pay it out: its holdings never shrink, and no caller    *)
(* ever gets anything back.                                                *)
RefundsStrand ==
    [][/\ coins'[SimpleIcaController] >= coins[SimpleIcaController]
       /\ \A s \in Senders : coins'[s] <= coins[s]]_allVars

(* With transfers the system still behaves as IcaSystem says: to the two   *)
(* contracts a transfer that arrives is a deposit, and nothing else.       *)
ImplementsSystem == Spec
=============================================================================
