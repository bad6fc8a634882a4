--------------------------- MODULE IcaProperties ---------------------------
(***************************************************************************)
(* What the two contracts together promise, stated over the whole system.  *)
(***************************************************************************)
EXTENDS IcaSystem

(* Each contract lists a channel's account exactly while its own end of    *)
(* the channel is open: the controller's "Shows all open accounts"         *)
(* (msg.rs:53), and the host's entry made by reply_init_callback and       *)
(* removed by ibc_channel_close.                                           *)
RegisteredIffOpen ==
    \A c \in Channels :
        /\ ctrlAccounts[c] # None <=> IsOpen(ctrlEnd[c])
        /\ hostAccounts[c] # None <=> IsOpen(hostEnd[c])

(* Two channels never share a reflect account, and what the controller     *)
(* believes to be its remote address is the very instance the host made    *)
(* for that channel, even when either end has since been closed.           *)
AddressAgreement ==
    \A c \in Channels :
        /\ hostAccounts[c] # None => owner[hostAccounts[c]] = c
        /\ \A d \in Channels :
              hostAccounts[c] # None /\ hostAccounts[c] = hostAccounts[d] => c = d
        /\ \A a \in Addrs :
              ctrlAccounts[c] # None /\ ctrlAccounts[c].remote_addr = a
                  => /\ owner[a] = c
                     /\ hostAccounts[c] \in {a, None}

(* Whenever an answer can be delivered, the controller's handlers for the  *)
(* two bookkeeping packets accept it: neither UnregisteredChannel nor      *)
(* RemoteAccountChanged (acknowledge_who_am_i, acknowledge_balances) can   *)
(* strand an acknowledgement.                                              *)
AckNeverErrs ==
    \A w \in acks :
        /\ CanAcknowledge(w)
        /\ w.packet.data.type \in {"who_am_i", "balances"}
        /\ IsSuccess(w.ack)
        => /\ ctrlAccounts[w.packet.chan] # None
           /\ Matches(ctrlAccounts[w.packet.chan], w.ack.data.account)

(* What the capturer has stored under an id is what the host answered to a *)
(* request that the capturer itself sent with that id, and that request is *)
(* settled.                                                                *)
CallbackFidelity ==
    \A id \in CallbackIds :
        capResults[id] # None =>
            \E w \in acks :
                /\ w.ack = capResults[id]
                /\ w.packet.data.type \in {"dispatch", "ibc_query"}
                /\ w.packet.data.sender = Capturer
                /\ w.packet.data.callback_id = id
                /\ w.packet \notin commitments

(* Everything the controller reports about the remote chain was said by    *)
(* the host on that same channel: a stored query response answers a query, *)
(* and a balance that carries a time (0 is never) answers a Balances       *)
(* packet.                                                                 *)
StoredReports ==
    \A c \in Channels :
        /\ latestQueries[c] # None =>
              \E w \in acks :
                  /\ w.packet.chan = c
                  /\ w.packet.data.type = "ibc_query"
                  /\ w.ack = latestQueries[c].response
        /\ ctrlAccounts[c] # None =>
              IF ctrlAccounts[c].last_update_time = 0
              THEN ctrlAccounts[c].remote_balance = 0
              ELSE \E w \in acks :
                  /\ w.packet.chan = c
                  /\ w.packet.data.type = "balances"
                  /\ IsSuccess(w.ack)
                  /\ w.ack.data.balances = ctrlAccounts[c].remote_balance

(* The parameters an open channel has are the ones both contracts require, *)
(* although neither looks at them again when the channel connects.         *)
NegotiatedParams ==
    \A c \in Channels : \A end \in {ctrlEnd[c], hostEnd[c]} :
        Reached(end, "OPEN") =>
            end.order = APP_ORDER /\ end.version = IBC_APP_VERSION

-----------------------------------------------------------------------------
(* A remote address, once learnt, is neither forgotten nor changed while   *)
(* the entry exists ("set the account the first time", ibc.rs:201).        *)
RemoteAddrStable ==
    [][\A c \in Channels :
          /\ ctrlAccounts[c] # None
          /\ ctrlAccounts[c].remote_addr # None
          /\ ctrlAccounts[c]' # None
          => ctrlAccounts[c]'.remote_addr = ctrlAccounts[c].remote_addr]_vars

(* A reflect account's balance only drops by the receipt of a dispatch on  *)
(* its own channel, by exactly that batch, and only if the answer written  *)
(* in the same transaction says success.                                   *)
FundsMoveOnlyByDispatch ==
    [][\A a \in Addrs :
          balance'[a] < balance[a] =>
              \E w \in acks' \ acks :
                  /\ w.packet.data.type = "dispatch"
                  /\ w.packet.chan = owner[a]
                  /\ IsSuccess(w.ack)
                  /\ balance'[a] = balance[a] - w.packet.data.batch.total]_vars

-----------------------------------------------------------------------------
(* A callback that cannot be delivered: the caller is not a contract that  *)
(* understands it, so the acknowledgement can never be processed.          *)
Undeliverable(p) ==
    /\ p.data.type \in {"dispatch", "ibc_query"}
    /\ p.data.callback_id # None
    /\ p.data.sender # Capturer

InFlight(c, n) == \E p \in commitments : SentAs(p, c, n) /\ ~Undeliverable(p)

(* Every packet is settled, by its answer or by its timeout, unless the    *)
(* controller's end is closed or the caller cannot take its callback.      *)
PacketsResolve ==
    \A c \in Channels, n \in Seqs :
        InFlight(c, n) ~> ~InFlight(c, n) \/ Reached(ctrlEnd[c], "CLOSED")

(* When the controller's end closes, the host's end closes too, unless its *)
(* account holds funds.                                                    *)
EmptyChannelsClose ==
    \A c \in Channels :
        Reached(ctrlEnd[c], "CLOSED") /\ hostAccounts[c] # None
            ~> hostAccounts[c] = None \/ balance[hostAccounts[c]] > 0

WhoAmIUnderway(c) ==
    \/ \E p \in commitments : p.chan = c /\ p.data = WhoAmI
    \/ \E w \in acks : w.packet.chan = c /\ w.packet.data = WhoAmI

(* A connected controller learns its remote address, unless the channel    *)
(* closes or the one WhoAmI packet it sends times out.                     *)
LearnsAddress ==
    \A c \in Channels :
        IsOpen(ctrlEnd[c]) ~>
            \/ ~IsOpen(ctrlEnd[c])
            \/ ctrlAccounts[c].remote_addr # None
            \/ ~WhoAmIUnderway(c)

-----------------------------------------------------------------------------
(* What comments in the code say, and the code does not do.                *)

(* contracts/simple-ica-host/src/contract.rs:126: "On closed channel, we   *)
(* take all tokens from reflect contract to this contract. We also delete  *)
(* the channel entry from accounts."                                       *)
CloseTakesFunds ==
    \A c \in Channels :
        Reached(ctrlEnd[c], "CLOSED") /\ hostAccounts[c] # None
            ~> hostAccounts[c] = None

(* packages/simple-ica/src/ibc_msg.rs:69, of DispatchResponse: "Return the *)
(* data field for each message".                                           *)
DispatchReturnsEach ==
    \A w \in acks :
        w.packet.data.type = "dispatch" /\ IsSuccess(w.ack) =>
            Len(w.ack.data.results) = w.packet.data.batch.count

CalledBackAs(id) == capResults[id] # None

(* contracts/simple-ica-controller/src/msg.rs:24: "If set, the original    *)
(* caller will get a callback with of the result, along with this id".     *)
CallerIsCalledBack ==
    \A c \in Channels, id \in CallbackIds :
        (\E p \in commitments :
            /\ p.chan = c
            /\ p.data.type \in {"dispatch", "ibc_query"}
            /\ p.data.sender = Capturer
            /\ p.data.callback_id = id)
        ~> \/ CalledBackAs(id)
           \/ Reached(ctrlEnd[c], "CLOSED")
           \/ Reached(hostEnd[c], "CLOSED")
=============================================================================
