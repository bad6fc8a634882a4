--------------------------- MODULE IcaRefinement ---------------------------
(***************************************************************************)
(* The system implements RemoteAccount: a request waits while its packet   *)
(* is committed and not received, an answer is under way while the packet  *)
(* it answers is committed, the funds of a channel are what the instance   *)
(* holds that was made for it, and what is shown is what the controller    *)
(* has on record.                                                          *)
(***************************************************************************)
EXTENDS IcaInvariant

(* An empty account is told from one that is not there.                    *)
ASSUME FundsAssumption == None \notin Nat

Waiting == {p \in commitments : ~Received(p)}

Underway == {w \in acks : w.packet \in commitments}

Provided(c) == \E a \in Addrs : owner[a] = c

Funds ==
    [c \in Channels |->
        IF Provided(c) THEN balance[CHOOSE a \in Addrs : owner[a] = c] ELSE None]

Reports ==
    [c \in Channels |->
        IF ctrlAccounts[c] = None THEN None ELSE ctrlAccounts[c].remote_balance]

Responses ==
    [c \in Channels |->
        IF latestQueries[c] = None THEN None ELSE latestQueries[c].response]

Promise == INSTANCE RemoteAccount WITH
    Messages <- PacketMsg,
    Amounts <- 1 .. MaxBalance,
    count <- nextSeq,
    asked <- Waiting,
    undelivered <- Underway,
    funds <- Funds,
    report <- Reports,
    latest <- Responses,
    inbox <- capResults

(* The contracts, the chains and the relayers together keep the promise:   *)
(* whatever is lost, late or out of order, a request of the admin takes    *)
(* effect once, as a whole and on the account of its own channel, or not   *)
(* at all, and the answer to it is told to nobody else and only once; what *)
(* is on record is what was told last.                                     *)
KeepsPromise == Promise!Spec
=============================================================================
