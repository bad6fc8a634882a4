--------------------------- MODULE AnyPeer_proofs ---------------------------
(***************************************************************************)
(* What each contract keeps to by itself, whoever answers it.  The         *)
(* controller's records and the host's accounts are shown right from       *)
(* invariants that mention one side only, so that they hold both in the    *)
(* whole system and against any counterparty.                              *)
(***************************************************************************)
EXTENDS IcaPromise_proofs, IcaReaders, AnyPeer

-----------------------------------------------------------------------------
(* Readers of the two lists of accounts.                                   *)

(* The account was made for the channel it is shown with.                  *)
OwnedListing(s) ==
    s.account \in Addrs /\ s.channel_id \in Channels /\ owner[s.account] = s.channel_id

ShownOwned == \A s \in shown : OwnedListing(s)

(* Both lists show what was made for the channel they show it with.        *)
LEMMA ListingsOwned == IInv => \A s \in Listings : OwnedListing(s)
<1> SUFFICES ASSUME IInv, NEW s \in Listings PROVE OwnedListing(s)
  OBVIOUS
<1>1. CASE \E i \in CtrlQueryListAccounts :
             i.remote_addr # None /\ s = Listing(i.channel_id, i.remote_addr)
  <2>1. PICK c \in Channels :
          /\ ctrlAccounts[c] # None /\ ctrlAccounts[c].remote_addr # None
          /\ s.channel_id = c /\ s.account = ctrlAccounts[c].remote_addr
    BY <1>1 DEF CtrlQueryListAccounts, Entries, AccountInfo, Listing
  <2>2. s.account \in Addrs
    BY <2>1 DEF IInv, TypeInv, TypeOK, CtrlTypeOK, AccountData
  <2> QED
    BY <2>1, <2>2 DEF IInv, RemoteOwned, OwnedListing
<1>2. CASE \E j \in HostQueryListAccounts : s = Listing(j.channel_id, j.account)
  <2>1. PICK c \in Channels :
          hostAccounts[c] # None /\ s.channel_id = c /\ s.account = hostAccounts[c]
    BY <1>2 DEF HostQueryListAccounts, Entries, Listing
  <2>2. s.account \in Addrs
    BY <2>1 DEF IInv, TypeInv, TypeOK, HostTypeOK
  <2> QED
    BY <2>1, <2>2 DEF IInv, HostOwned, OwnedListing
<1> QED
  BY <1>1, <1>2 DEF Listings

(* Two lists of accounts, read at any two times, never contradict each     *)
(* other: all they ever show was made for the channel it is shown with, an *)
(* instance is never another channel's later, and no channel gets a second *)
(* one, whatever was closed in between (query_list_accounts of both        *)
(* contracts).                                                             *)
THEOREM ListsNeverContradict == ReadSpec => []ListsAgree
<1> DEFINE ReadNext == Next /\ shown' = shown \cup Listings'
<1>1. [ReadNext]_readVars => [Next]_vars
  BY DEF readVars
<1>2. IInv /\ shown = Listings => ShownOwned
  BY ListingsOwned DEF ShownOwned
<1>3. IInv' => (\A s \in Listings : OwnedListing(s))'
  BY ListingsOwned, PTL
<1>4. IInv /\ IInv' /\ ShownOwned /\ [ReadNext]_readVars => ShownOwned'
  <2> SUFFICES ASSUME IInv, IInv', ShownOwned, [ReadNext]_readVars, NEW s \in shown'
               PROVE  OwnedListing(s)'
    BY DEF ShownOwned
  <2>1. CASE s \in shown
    <3>1. OwnedListing(s) /\ owner[s.account] # None
      BY <2>1, NoneAssumption DEF ShownOwned, OwnedListing
    <3>2. owner'[s.account] = owner[s.account]
      BY <1>1, <3>1, OwnersKept DEF OwnedListing
    <3> QED
      BY <3>1, <3>2 DEF OwnedListing
  <2>2. CASE s \in Listings'
    BY <1>3, <2>2 DEF OwnedListing
  <2> QED
    BY <2>1, <2>2 DEF readVars
<1>5. IInv /\ ShownOwned => ListsAgree
  <2> SUFFICES ASSUME IInv, ShownOwned, NEW i \in shown, NEW j \in shown
               PROVE  i.channel_id = j.channel_id <=> i.account = j.account
    BY DEF ListsAgree
  <2>1. OwnedListing(i) /\ OwnedListing(j) /\ i.channel_id # None
    BY NoneAssumption DEF ShownOwned, OwnedListing
  <2> QED
    BY <2>1 DEF IInv, OneInstance, OwnedListing
<1>6. ReadSpec => Spec
  BY <1>1, PTL DEF ReadSpec, Spec
<1> QED
  BY <1>2, <1>4, <1>5, <1>6, Inductive, PTL DEF ReadSpec

-----------------------------------------------------------------------------
(* The controller's side.  A step is one of the controller's chain, or one *)
(* elsewhere, of which it sees at most a new receipt of its packet.        *)
Elsewhere ==
    /\ UNCHANGED <<ctrlEnd, nextSeq, commitments, ctrlTime, controllerVars>>
    /\ acks \subseteq acks'
    /\ \A w \in acks' \ acks : w.packet \in commitments

CtrlRegistered ==
    \A c \in Channels : ctrlAccounts[c] # None <=> IsOpen(ctrlEnd[c])

(* No time on record is later than the block's.                            *)
TimesPast ==
    /\ ctrlTime >= 1
    /\ \A c \in Channels :
          /\ ctrlAccounts[c] # None => ctrlAccounts[c].last_update_time <= ctrlTime
          /\ latestQueries[c] # None => latestQueries[c].last_update_time <= ctrlTime

CtrlInv ==
    /\ TypeInv
    /\ CtrlRegistered
    /\ Numbered
    /\ CallbackFidelity
    /\ StoredReports
    /\ TimesPast

(* What the controller's invariant says of the types of its state.         *)
LEMMA CtrlTypes ==
    ASSUME TypeInv
    PROVE  /\ ctrlEnd \in [Channels -> ChannelEnd]
           /\ nextSeq \in [Channels -> Nat]
           /\ commitments \subseteq Packet
           /\ acks \subseteq [packet : Packet, ack : StdAck]
           /\ ctrlTime \in Nat
           /\ ctrlAccounts \in [Channels -> AccountData \cup {None}]
           /\ latestQueries \in [Channels -> LatestQueryResponse \cup {None}]
           /\ capResults \in [CallbackIds -> StdAck \cup {None}]
           /\ \A p \in Packet : p.chan \in Channels /\ p.seq \in Nat /\ p.data \in PacketMsg
  BY DEF TypeInv, TypeOK, IbcTypeOK, CtrlTypeOK, CapTypeOK, Packet

(* Sending gives a packet a new number, so neither it nor an answer shares *)
(* one that is used, and a settled packet is not sent again.               *)
LEMMA SentAnew ==
    ASSUME TypeInv, Numbered, CallbackFidelity,
           NEW c \in Channels, NEW data \in PacketMsg, NEW t \in Nat,
           SendPacket(c, data, t), UNCHANGED <<acks, capResults>>
    PROVE  Numbered' /\ CallbackFidelity'
<1> DEFINE new == [chan |-> c, seq |-> nextSeq[c], data |-> data, timeout |-> t]
<1>1. /\ commitments' = commitments \cup {new}
      /\ nextSeq[c] \in Nat
      /\ \A d \in Channels : nextSeq'[d] \in Nat /\ nextSeq[d] <= nextSeq'[d]
      /\ nextSeq[c] < nextSeq'[c]
  BY CtrlTypes DEF SendPacket
<1>2. \A p \in Packet : p.seq < nextSeq[p.chan] => p.seq < nextSeq'[p.chan] /\ p # new
  BY <1>1, CtrlTypes
<1>3. (\A p \in commitments : p \in Packet) /\ \A w \in acks : w.packet \in Packet
  BY CtrlTypes
<1>4. Numbered'
  BY <1>1, <1>2, <1>3 DEF Numbered
<1>5. \A w \in acks : w.packet \notin commitments => w.packet \notin commitments'
  BY <1>1, <1>2, <1>3 DEF Numbered
<1> QED
  BY <1>4, <1>5 DEF CallbackFidelity

(* Nothing is sent, and at most answers arrive to what was.                *)
LEMMA NothingSent ==
    ASSUME Numbered, CallbackFidelity, UNCHANGED <<nextSeq, capResults>>,
           commitments' \subseteq commitments, acks \subseteq acks',
           \A w \in acks' \ acks : w.packet \in commitments
    PROVE  Numbered' /\ CallbackFidelity'
<1>1. Numbered'
  BY DEF Numbered
<1>2. \A w \in acks : w \in acks' /\ (w.packet \notin commitments => w.packet \notin commitments')
  OBVIOUS
<1> QED
  BY <1>1, <1>2 DEF CallbackFidelity

(* What is on record stays reported, and in the past.                      *)
LEMMA RecordsKept ==
    ASSUME TypeInv, StoredReports, TimesPast,
           UNCHANGED <<ctrlAccounts, latestQueries>>, acks \subseteq acks',
           ctrlTime' \in {ctrlTime, ctrlTime + 1}
    PROVE  StoredReports' /\ TimesPast'
<1>1. StoredReports'
  BY DEF StoredReports
<1>2. \A n \in Nat : n <= ctrlTime => n <= ctrlTime'
  BY CtrlTypes
<1>3. /\ \A c \in Channels :
            ctrlAccounts[c] # None => ctrlAccounts[c].last_update_time \in Nat
      /\ \A c \in Channels :
            latestQueries[c] # None => latestQueries[c].last_update_time \in Nat
  BY CtrlTypes DEF AccountData, LatestQueryResponse
<1> QED
  BY <1>1, <1>2, <1>3 DEF TimesPast

(* A new end, an end that moves without opening or closing, a request of a *)
(* user, an admin appointed, the clock: no record changes.                 *)
CtrlQuiet ==
    /\ UNCHANGED <<acks, ctrlAccounts, latestQueries, capResults>>
    /\ ctrlTime' \in {ctrlTime, ctrlTime + 1}
    /\ \A c \in Channels : IsOpen(ctrlEnd[c]) <=> IsOpen(ctrlEnd'[c])
    /\ \/ UNCHANGED <<nextSeq, commitments>>
       \/ /\ commitments' \subseteq commitments
          /\ nextSeq' = nextSeq
       \/ \E c \in Channels, data \in PacketMsg, t \in Nat : SendPacket(c, data, t)

(* A step that leaves the controller and the capturer alone keeps CtrlInv. *)
LEMMA CtrlQuietKeeps ==
    ASSUME CtrlInv, TypeInv', CtrlQuiet
    PROVE  CtrlInv'
<1>1. Numbered' /\ CallbackFidelity'
  BY SentAnew, NothingSent DEF CtrlInv, CtrlQuiet
<1>2. StoredReports' /\ TimesPast'
  BY RecordsKept DEF CtrlInv, CtrlQuiet
<1>3. CtrlRegistered'
  BY DEF CtrlInv, CtrlQuiet, CtrlRegistered
<1> QED
  BY <1>1, <1>2, <1>3 DEF CtrlInv

(* So does whatever an arbitrary host does on its own chain.               *)
LEMMA ElsewhereKeeps ==
    ASSUME CtrlInv, TypeInv', Elsewhere
    PROVE  CtrlInv'
<1> USE DEF Elsewhere, controllerVars, ctrlVars
<1>1. Numbered' /\ CallbackFidelity'
  BY NothingSent DEF CtrlInv
<1>2. StoredReports' /\ TimesPast'
  BY RecordsKept DEF CtrlInv
<1>3. CtrlRegistered'
  BY DEF CtrlInv, CtrlRegistered
<1> QED
  BY <1>1, <1>2, <1>3 DEF CtrlInv

(* Which steps of the controller's chain are quiet.                        *)
LEMMA QuietOnCtrl ==
    ASSUME TypeInv,
           \/ \E c \in Channels, o \in Orders, v \in Versions : CtrlOpenInit(c, o, v)
           \/ \E c \in Channels : CtrlOpenTry(c)
           \/ \E user \in Users, c \in Channels : Call(user, c)
           \/ \E user \in Users, a \in Senders : UpdateAdmin(user, a)
           \/ \E p \in commitments : TimeoutPacket(p)
           \/ CtrlTick
    PROVE  CtrlQuiet
<1> USE DEF ibcVars, controllerVars, ctrlVars
<1>1. ASSUME NEW c \in Channels,
             \/ \E o \in Orders, v \in Versions : CtrlOpenInit(c, o, v)
             \/ CtrlOpenTry(c)
      PROVE  CtrlQuiet
  <2>1. /\ UNCHANGED <<nextSeq, commitments, acks, ctrlTime, ctrlAccounts,
                       latestQueries, capResults>>
    BY <1>1 DEF CtrlOpenInit, CtrlOpenTry
  <2>2. \A d \in Channels : IsOpen(ctrlEnd[d]) <=> IsOpen(ctrlEnd'[d])
    BY <1>1, CtrlTypes DEF CtrlOpenInit, CtrlOpenTry, Unused, NewEnd, IsOpen, Reached
  <2> QED
    BY <2>1, <2>2 DEF CtrlQuiet
<1>2. ASSUME NEW user \in Users, NEW c \in Channels, Call(user, c) PROVE CtrlQuiet
  <2>1. UNCHANGED <<ctrlEnd, acks, ctrlTime, ctrlAccounts, latestQueries, capResults>>
    BY <1>2
    DEF Call, CapturerSendMsgs, CapturerSendQuery, CapturerCheckRemoteBalance, SendMsgs,
        SendQuery, CheckRemoteBalance, ExecuteSendMsgs, ExecuteIbcQuery,
        ExecuteCheckRemoteBalance, SentOnly
  <2>2. \E data \in PacketMsg, t \in Nat : SendPacket(c, data, t)
    BY <1>2, CallSends DEF Sends
  <2> QED
    BY <2>1, <2>2 DEF CtrlQuiet
<1>3. ASSUME NEW user \in Users, NEW a \in Senders, UpdateAdmin(user, a) PROVE CtrlQuiet
  BY <1>3 DEF UpdateAdmin, ExecuteUpdateAdmin, CtrlQuiet
<1>4. ASSUME NEW p \in commitments, TimeoutPacket(p) PROVE CtrlQuiet
  BY <1>4 DEF TimeoutPacket, IbcPacketTimeout, DeleteCommitment, CtrlQuiet
<1>5. CtrlTick => CtrlQuiet
  BY DEF CtrlTick, CtrlQuiet
<1> QED
  BY <1>1, <1>2, <1>3, <1>4, <1>5

(* The end connects: an entry appears that reports nothing yet.            *)
LEMMA CtrlConnectOpens ==
    ASSUME TypeInv, NEW c \in Channels, CtrlOpenAck(c) \/ CtrlOpenConfirm(c)
    PROVE  /\ ~IsOpen(ctrlEnd[c])
           /\ IsOpen(ctrlEnd'[c])
           /\ \A d \in Channels \ {c} : ctrlEnd'[d] = ctrlEnd[d]
           /\ ctrlAccounts' = [ctrlAccounts EXCEPT ![c] = DefaultAccount]
           /\ DefaultAccount # None
           /\ SendPacket(c, WhoAmI, Timeout)
           /\ UNCHANGED <<acks, capResults, latestQueries, ctrlTime>>
<1>1. DefaultAccount # None
  <2>1. DefaultAccount \in AccountData
    BY DEF DefaultAccount, AccountData
  <2> QED
    BY <2>1, EntryAssumption
<1>2. ~IsOpen(ctrlEnd[c])
  BY DEF CtrlOpenAck, CtrlOpenConfirm, IsOpen, Reached
<1>3. /\ IsOpen(ctrlEnd'[c])
      /\ \A d \in Channels \ {c} : ctrlEnd'[d] = ctrlEnd[d]
  <2>1. ctrlEnd[c] \in ChannelEnd /\ hostEnd[c].version \in Versions \cup {None}
    BY DEF TypeInv, TypeOK, IbcTypeOK, ChannelEnd
  <2>2. /\ Enter(ctrlEnd[c], "OPEN").states = ctrlEnd[c].states \cup {"OPEN"}
        /\ OpenedAs(ctrlEnd[c], hostEnd[c].version).states
             = ctrlEnd[c].states \cup {"OPEN"}
    BY <2>1, EnterTyped DEF EndStates
  <2>3. "CLOSED" \notin ctrlEnd[c].states
    BY DEF CtrlOpenAck, CtrlOpenConfirm
  <2> QED
    BY <2>2, <2>3, CtrlTypes DEF CtrlOpenAck, CtrlOpenConfirm, IsOpen, Reached
<1> QED
  BY <1>1, <1>2, <1>3 DEF CtrlOpenAck, CtrlOpenConfirm, CtrlChannelConnect

(* Connecting makes a fresh entry, which reports nothing yet.              *)
LEMMA CtrlConnectKeeps ==
    ASSUME CtrlInv, TypeInv', NEW c \in Channels, CtrlOpenAck(c) \/ CtrlOpenConfirm(c)
    PROVE  CtrlInv'
<1>1. Numbered' /\ CallbackFidelity'
  <2>1. Timeout \in Nat
    BY TimeoutTyped DEF CtrlInv, TypeInv, TypeOK
  <2> QED
    BY <2>1, CtrlConnectOpens, SentAnew, PacketsTyped DEF CtrlInv
<1>2. /\ ctrlAccounts' \in [Channels -> AccountData \cup {None}]
      /\ ctrlAccounts'[c] = DefaultAccount
      /\ \A d \in Channels \ {c} : ctrlAccounts'[d] = ctrlAccounts[d]
  BY CtrlConnectOpens, CtrlTypes DEF CtrlInv, TypeInv, TypeOK, CtrlTypeOK
<1>3. CtrlRegistered'
  BY <1>2, CtrlConnectOpens DEF CtrlInv, CtrlRegistered
<1>4. StoredReports'
  BY <1>2, CtrlConnectOpens DEF CtrlInv, StoredReports, DefaultAccount
<1>5. TimesPast'
  BY <1>2, CtrlConnectOpens, CtrlTypes DEF CtrlInv, TimesPast, DefaultAccount
<1> QED
  BY <1>1, <1>3, <1>4, <1>5 DEF CtrlInv

(* The end closes: its entry goes, and the latest query stays.             *)
LEMMA CtrlCloseRemoves ==
    ASSUME TypeInv, NEW c \in Channels, CtrlClose(c)
    PROVE  /\ Reached(ctrlEnd'[c], "CLOSED")
           /\ \A d \in Channels \ {c} : ctrlEnd'[d] = ctrlEnd[d]
           /\ ctrlAccounts'[c] = None
           /\ \A d \in Channels \ {c} : ctrlAccounts'[d] = ctrlAccounts[d]
           /\ UNCHANGED <<nextSeq, commitments, acks, capResults, latestQueries, ctrlTime>>
  BY CtrlTypes DEF CtrlClose, CtrlChannelClose, Enter, Reached, ChannelEnd

(* Closing removes an entry and keeps what the queries have stored.        *)
LEMMA CtrlCloseKeeps ==
    ASSUME CtrlInv, TypeInv', NEW c \in Channels, CtrlClose(c)
    PROVE  CtrlInv'
<1>1. Numbered' /\ CallbackFidelity'
  BY CtrlCloseRemoves, NothingSent DEF CtrlInv
<1>2. CtrlRegistered' /\ StoredReports' /\ TimesPast'
  BY CtrlCloseRemoves
  DEF CtrlInv, CtrlRegistered, StoredReports, TimesPast, IsOpen
<1> QED
  BY <1>1, <1>2 DEF CtrlInv

(* What processing an answer does to the records.  An entry stays, gets an *)
(* address if it had none, or is replaced by a report on the same address; *)
Updated(d, w) ==
    LET old == ctrlAccounts[d]
        new == ctrlAccounts'[d]
    IN  /\ old # None /\ new # None
        /\ old \in AccountData /\ new \in AccountData
        /\ old.remote_addr \in {None, new.remote_addr}
        /\ \/ /\ new.last_update_time = old.last_update_time
              /\ new.remote_balance = old.remote_balance
           \/ /\ d = w.packet.chan
              /\ w.packet.data.type = "balances"
              /\ IsSuccess(w.ack)
              /\ new.last_update_time = ctrlTime
              /\ new.remote_balance = w.ack.data.balances

(* the answer to a query becomes the channel's latest;                     *)
LatestBy(d, w) ==
    /\ d = w.packet.chan
    /\ w.packet.data.type = "ibc_query"
    /\ latestQueries'[d] = [last_update_time |-> ctrlTime, response |-> w.ack]

(* and the capturer is called back with the answer to what it sent.        *)
CalledBackBy(id, w) ==
    /\ w.packet.data.type \in {"dispatch", "ibc_query"}
    /\ w.packet.data.sender = Capturer
    /\ w.packet.data.callback_id = id
    /\ capResults'[id] = w.ack

(* WhoAmI fills in the address and touches nothing else of the entry.      *)
LEMMA LearnUpdates ==
    ASSUME NEW acct \in AccountData, NEW a \in Addrs
    PROVE  /\ Learn(acct, a) \in AccountData
           /\ Learn(acct, a).last_update_time = acct.last_update_time
           /\ Learn(acct, a).remote_balance = acct.remote_balance
           /\ acct.remote_addr \in {None, Learn(acct, a).remote_addr}
  BY DEF Learn, AccountData

(* Balances fills in the amount and the time.                              *)
LEMMA ReportUpdates ==
    ASSUME TypeInv, NEW r \in BalancesResponse
    PROVE  /\ Report(r) \in AccountData
           /\ Report(r).last_update_time = ctrlTime
           /\ Report(r).remote_addr = r.account
           /\ Report(r).remote_balance = r.balances
  BY CtrlTypes DEF Report, AccountData, BalancesResponse

(* An acknowledgement changes the entry of its own channel or none.        *)
LEMMA AckUpdates ==
    ASSUME TypeInv, NEW w \in acks, AckPacket(w), NEW d \in Channels
    PROVE  ctrlAccounts'[d] = ctrlAccounts[d] \/ Updated(d, w)
<1> DEFINE p == w.packet
           c == p.chan
<1>1. c \in Channels /\ IbcPacketAck(p, w.ack)
  BY CtrlTypes DEF AckPacket
<1>2. CASE ctrlAccounts' = ctrlAccounts
  BY <1>2
<1>3. CASE p.data.type = "who_am_i" /\ AcknowledgeWhoAmI(p, w.ack) /\ IsSuccess(w.ack)
  <2>1. w.ack.data.account \in Addrs
    BY <1>3, AnswerTypes DEF WhoAmIResponse
  <2>2. /\ ctrlAccounts[c] \in AccountData
        /\ ctrlAccounts'[c] = Learn(ctrlAccounts[c], w.ack.data.account)
        /\ d # c => ctrlAccounts'[d] = ctrlAccounts[d]
    BY <1>1, <1>3, CtrlTypes DEF AcknowledgeWhoAmI
  <2>3. Updated(c, w)
    BY <2>1, <2>2, LearnUpdates, EntryAssumption DEF Updated
  <2> QED
    BY <2>2, <2>3
<1>4. CASE p.data.type = "balances" /\ AcknowledgeBalances(p, w.ack) /\ IsSuccess(w.ack)
  <2>1. w.ack.data \in BalancesResponse
    BY <1>4, AnswerTypes
  <2>2. /\ ctrlAccounts[c] \in AccountData
        /\ ctrlAccounts[c].remote_addr \in {None, w.ack.data.account}
        /\ ctrlAccounts'[c] = Report(w.ack.data)
        /\ d # c => ctrlAccounts'[d] = ctrlAccounts[d]
    BY <1>1, <1>4, CtrlTypes DEF AcknowledgeBalances, Matches
  <2>3. Updated(c, w)
    BY <1>4, <2>1, <2>2, ReportUpdates, EntryAssumption DEF Updated
  <2> QED
    BY <2>2, <2>3
<1> QED
  BY <1>1, <1>2, <1>3, <1>4
  DEF IbcPacketAck, AcknowledgeDispatch, AcknowledgeQuery, AcknowledgeWhoAmI,
      AcknowledgeBalances, ctrlVars

(* It stores itself as the latest query result of its own channel or not   *)
(* at all.                                                                 *)
LEMMA AckLatest ==
    ASSUME TypeInv, NEW w \in acks, AckPacket(w), NEW d \in Channels
    PROVE  latestQueries'[d] = latestQueries[d] \/ LatestBy(d, w)
  BY CtrlTypes
  DEF AckPacket, IbcPacketAck, AcknowledgeDispatch, AcknowledgeQuery, AcknowledgeWhoAmI,
      AcknowledgeBalances, ctrlVars, LatestBy

(* What is stored is the answer, with the time it came.                    *)
LEMMA LatestIs ==
    ASSUME NEW w, NEW d, LatestBy(d, w)
    PROVE  /\ latestQueries'[d].last_update_time = ctrlTime
           /\ latestQueries'[d].response = w.ack
           /\ w.packet.chan = d
           /\ w.packet.data.type = "ibc_query"
  BY DEF LatestBy

(* The capturer stores the answer under the id its own packet carried.     *)
LEMMA AckCallsBack ==
    ASSUME TypeInv, NEW w \in acks, AckPacket(w), NEW id \in CallbackIds
    PROVE  capResults'[id] = capResults[id] \/ CalledBackBy(id, w)
<1>1. \/ /\ w.packet.data.type \in {"dispatch", "ibc_query"}
         /\ Callback(w.packet.data.sender, w.packet.data.callback_id, w.ack)
      \/ capResults' = capResults
  BY DEF AckPacket, IbcPacketAck, AcknowledgeDispatch, AcknowledgeQuery,
         AcknowledgeWhoAmI, AcknowledgeBalances
<1> QED
  BY <1>1, CtrlTypes DEF Callback, Delivered, ReceiveIcaResponse, CalledBackBy

(* So an acknowledgement keeps CtrlInv: what is stored was answered.       *)
LEMMA AckKeeps ==
    ASSUME CtrlInv, TypeInv', NEW w \in acks, AckPacket(w)
    PROVE  CtrlInv'
<1>1. /\ UNCHANGED <<ctrlEnd, nextSeq, acks, ctrlTime>>
      /\ commitments' = commitments \ {w.packet}
      /\ TypeInv
  BY DEF AckPacket, DeleteCommitment, CtrlInv
<1>2. Numbered'
  BY <1>1 DEF CtrlInv, Numbered
<1>3. CallbackFidelity'
  <2> SUFFICES ASSUME NEW id \in CallbackIds, capResults'[id] # None
               PROVE  \E v \in acks :
                        /\ v.ack = capResults'[id]
                        /\ v.packet.data.type \in {"dispatch", "ibc_query"}
                        /\ v.packet.data.sender = Capturer
                        /\ v.packet.data.callback_id = id
                        /\ v.packet \notin commitments'
    BY <1>1 DEF CallbackFidelity
  <2>1. CASE capResults'[id] = capResults[id]
    BY <1>1, <2>1 DEF CtrlInv, CallbackFidelity
  <2>2. CASE CalledBackBy(id, w)
    BY <1>1, <2>2 DEF CalledBackBy
  <2> QED
    BY <1>1, <2>1, <2>2, AckCallsBack
<1>4. CtrlRegistered'
  BY <1>1, AckUpdates DEF CtrlInv, CtrlRegistered, Updated
<1>5. ctrlTime \in Nat /\ ctrlTime >= 1
  BY <1>1, CtrlTypes DEF CtrlInv, TimesPast
<1>6. TimesPast'
  <2>1. ASSUME NEW d \in Channels, ctrlAccounts'[d] # None
        PROVE  ctrlAccounts'[d].last_update_time <= ctrlTime
    BY <1>1, <1>5, <2>1, AckUpdates DEF CtrlInv, TimesPast, Updated
  <2>2. ASSUME NEW d \in Channels, latestQueries'[d] # None
        PROVE  latestQueries'[d].last_update_time <= ctrlTime
    BY <1>1, <1>5, <2>2, AckLatest, LatestIs DEF CtrlInv, TimesPast
  <2> QED
    BY <1>1, <1>5, <2>1, <2>2 DEF TimesPast
<1>7. StoredReports'
  <2>1. ASSUME NEW d \in Channels, latestQueries'[d] # None
        PROVE  \E v \in acks : /\ v.packet.chan = d
                               /\ v.packet.data.type = "ibc_query"
                               /\ v.ack = latestQueries'[d].response
    BY <1>1, <2>1, AckLatest, LatestIs DEF CtrlInv, StoredReports
  <2>2. ASSUME NEW d \in Channels, ctrlAccounts'[d] # None
        PROVE  IF ctrlAccounts'[d].last_update_time = 0
               THEN ctrlAccounts'[d].remote_balance = 0
               ELSE \E v \in acks : /\ v.packet.chan = d
                                    /\ v.packet.data.type = "balances"
                                    /\ IsSuccess(v.ack)
                                    /\ v.ack.data.balances
                                         = ctrlAccounts'[d].remote_balance
    BY <1>1, <1>5, <2>2, AckUpdates DEF CtrlInv, StoredReports, Updated
  <2> QED
    BY <1>1, <2>1, <2>2 DEF StoredReports
<1> QED
  BY <1>2, <1>3, <1>4, <1>6, <1>7 DEF CtrlInv

(* Every step of the controller's chain keeps its invariant.               *)
LEMMA CtrlChainKeeps ==
    ASSUME CtrlInv, TypeInv', CtrlChainNext
    PROVE  CtrlInv'
<1>1. TypeInv
  BY DEF CtrlInv
<1> QED
  BY <1>1, QuietOnCtrl, CtrlQuietKeeps, CtrlConnectKeeps, CtrlCloseKeeps, AckKeeps
  DEF CtrlChainNext, CtrlHandshake, CtrlCloseInit, CtrlCloseConfirm

(* Steps of the host's chain are elsewhere for the controller.             *)
LEMMA HostChainElsewhere ==
    ASSUME \/ HostChainNext
           \/ \E a \in Addrs, n \in 1 .. MaxBalance : DepositTo(a, n)
           \/ UNCHANGED vars
    PROVE  Elsewhere
<1> USE DEF Elsewhere
<1>1. ASSUME NEW c \in Channels,
             \/ \E o \in Orders : HostOpenInit(c, o)
             \/ HostOpenTry(c) \/ HostOpenAck(c) \/ HostOpenConfirm(c) \/ HostClose(c)
      PROVE  Elsewhere
  <2>1. UNCHANGED <<ctrlEnd, nextSeq, commitments, acks, ctrlTime, controllerVars>>
    BY <1>1 DEF HostOpenInit, HostOpenTry, HostOpenAck, HostOpenConfirm, HostClose,
                controllerVars, ctrlVars
  <2> QED
    BY <2>1
<1>2. ASSUME NEW p \in commitments, RecvPacket(p) PROVE Elsewhere
  BY <1>2 DEF RecvPacket, HostPacketReceive, ReceiveDispatch, ReceiveQuery, ReceiveWhoAmI,
              ReceiveBalances, WriteAck
<1>3. ASSUME \/ HostTick
             \/ \E a \in Addrs, n \in 1 .. MaxBalance : DepositTo(a, n)
             \/ UNCHANGED vars
      PROVE  Elsewhere
  BY <1>3 DEF HostTick, DepositTo, vars, ibcVars
<1> QED
  BY <1>1, <1>2, <1>3 DEF HostChainNext, HostHandshake, HostCloseInit, HostCloseConfirm

(* Wherever a counterparty's end goes, it is still an end.                 *)
LEMMA NextEndsTyped ==
    ASSUME NEW end \in ChannelEnd, NEW other \in ChannelEnd
    PROVE  NextEnds(end, other) \subseteq ChannelEnd
<1>1. /\ other.version \in Versions \cup {None}
      /\ other.order \in Orders \cup {None}
      /\ end.version \in Versions \cup {None}
  BY DEF ChannelEnd
<1>2. \A state \in EndStates, o \in Orders \cup {None}, v \in Versions \cup {None} :
          NewEnd(state, o, v) \in ChannelEnd
  BY DEF NewEnd, ChannelEnd
<1>3. {"INIT", "TRYOPEN", "OPEN", "CLOSED"} \subseteq EndStates
  BY DEF EndStates
<1>4. /\ Enter(end, "OPEN") \in ChannelEnd
      /\ Enter(end, "CLOSED") \in ChannelEnd
      /\ OpenedAs(end, other.version) \in ChannelEnd
  BY <1>1, <1>3, EnterTyped
<1>5. /\ \A o \in Orders, v \in Versions : NewEnd("INIT", o, v) \in ChannelEnd
      /\ \A v \in Versions : NewEnd("TRYOPEN", other.order, v) \in ChannelEnd
  BY <1>1, <1>2, <1>3
<1> QED
  BY <1>4, <1>5 DEF NextEnds

(* Whatever a counterparty answers is an answer of the packet's kind.      *)
LEMMA PeerAnswersTyped ==
    ASSUME NEW type, NEW ack \in PeerAnswers(type)
    PROVE  /\ ack \in StdAck
           /\ IsSuccess(ack) =>
                /\ type = "who_am_i" => ack.data \in WhoAmIResponse
                /\ type = "balances" => ack.data \in BalancesResponse
<1>1. Fail \in StdAck /\ ~IsSuccess(Fail)
  BY DEF StdAck, Fail, IsSuccess
<1>2. CASE ack = Fail
  BY <1>1, <1>2
<1>3. ASSUME type = "who_am_i", NEW a \in Addrs, ack = Success([account |-> a])
      PROVE  ack \in StdAck /\ ack.data \in WhoAmIResponse
  BY <1>3 DEF Success, StdAck, WhoAmIResponse
<1>4. ASSUME type = "balances", NEW a \in Addrs, NEW n \in 0 .. MaxBalance,
             ack = Success([account |-> a, balances |-> n])
      PROVE  ack \in StdAck /\ ack.data \in BalancesResponse
  BY <1>4, HostAddrAssumption DEF Success, StdAck, BalancesResponse
<1>5. ASSUME type # "who_am_i", type # "balances",
             ack \in {Success([results |-> <<>>]), Success([results |-> <<Empty>>])}
      PROVE  ack \in StdAck
  <2>1. <<>> \in Seq({Empty}) /\ <<Empty>> \in Seq({Empty})
    OBVIOUS
  <2>2. [results |-> <<>>] \in DispatchResponse /\ [results |-> <<Empty>>] \in DispatchResponse
    BY <2>1 DEF DispatchResponse
  <2> QED
    BY <1>5, <2>2 DEF Success, StdAck
<1> QED
  BY <1>2, <1>3, <1>4, <1>5 DEF PeerAnswers

(* The host's end may be anybody's.                                        *)
LEMMA HostPeerTyped ==
    ASSUME TypeInv,
           \/ \E c \in Channels : HostPeerMoves(c)
           \/ \E p \in commitments : HostPeerAnswers(p)
    PROVE  TypeInv' /\ Elsewhere
<1> USE DEF controllerVars, ctrlVars, hostVars, cw1Vars
<1>1. ASSUME NEW c \in Channels, HostPeerMoves(c) PROVE TypeInv' /\ Elsewhere
  <2>1. hostEnd' \in [Channels -> ChannelEnd]
    BY <1>1, NextEndsTyped DEF HostPeerMoves, TypeInv, TypeOK, IbcTypeOK
  <2>2. UNCHANGED <<ctrlEnd, nextSeq, commitments, acks, ctrlTime, hostTime,
                    controllerVars, hostVars>>
    BY <1>1 DEF HostPeerMoves
  <2> QED
    BY <2>1, <2>2
    DEF Elsewhere, TypeInv, TypeOK, AckTyped, IbcTypeOK, CtrlTypeOK, CapTypeOK,
        HostTypeOK, Cw1TypeOK
<1>2. ASSUME NEW p \in commitments, HostPeerAnswers(p) PROVE TypeInv' /\ Elsewhere
  <2>1. PICK ack \in PeerAnswers(p.data.type) : WriteAck(p, ack)
    BY <1>2 DEF HostPeerAnswers
  <2>2. acks' \subseteq [packet : Packet, ack : StdAck] /\ AckTyped'
    BY <2>1, PeerAnswersTyped, WriteAckTyped, CtrlTypes
  <2>3. UNCHANGED <<ctrlEnd, hostEnd, nextSeq, commitments, ctrlTime, hostTime,
                    controllerVars, hostVars>>
    BY <1>2 DEF HostPeerAnswers
  <2>4. TypeInv'
    BY <2>2, <2>3
    DEF TypeInv, TypeOK, IbcTypeOK, CtrlTypeOK, CapTypeOK, HostTypeOK, Cw1TypeOK
  <2> QED
    BY <2>1, <2>3, <2>4 DEF Elsewhere, WriteAck
<1> QED
  BY <1>1, <1>2

(* Nothing is stored at the start.                                         *)
LEMMA CtrlInvInit == Init => CtrlInv
<1> SUFFICES ASSUME Init PROVE CtrlInv
  OBVIOUS
<1>1. TypeInv
  BY TypeInit
<1>2. CtrlRegistered /\ Numbered /\ CallbackFidelity /\ StoredReports /\ TimesPast
  BY DEF Init, IbcInit, CtrlInit, CapInit, CtrlRegistered, IsOpen, Reached, Numbered,
         CallbackFidelity, StoredReports, TimesPast
<1> QED
  BY <1>1, <1>2 DEF CtrlInv

(* The host of this repository is one of the hosts considered.             *)
LEMMA CtrlInvStep == CtrlInv /\ [Next]_vars => CtrlInv'
<1> SUFFICES ASSUME CtrlInv, [Next]_vars PROVE CtrlInv'
  OBVIOUS
<1>1. TypeInv'
  BY TypeStep DEF CtrlInv
<1> QED
  BY <1>1, CtrlChainKeeps, HostChainElsewhere, ElsewhereKeeps DEF Next

(* An arbitrary host acts elsewhere, so CtrlInv is inductive with it too.  *)
LEMMA AnyHostStep ==
    ASSUME CtrlInv, [AnyHostNext]_vars
    PROVE  CtrlInv' /\ (CtrlChainNext \/ Elsewhere)
<1>1. CASE CtrlChainNext
  <2>1. TypeInv'
    BY <1>1, TypeStep DEF CtrlInv, Next
  <2> QED
    BY <1>1, <2>1, CtrlChainKeeps
<1>2. CASE HostTick \/ UNCHANGED vars
  <2>1. TypeInv'
    BY <1>2, TypeStep DEF CtrlInv, Next, HostChainNext
  <2> QED
    BY <1>2, <2>1, HostChainElsewhere, ElsewhereKeeps DEF HostChainNext
<1>3. CASE \/ \E c \in Channels : HostPeerMoves(c)
           \/ \E p \in commitments : HostPeerAnswers(p)
  <2>1. TypeInv' /\ Elsewhere
    BY <1>3, HostPeerTyped DEF CtrlInv
  <2> QED
    BY <2>1, ElsewhereKeeps
<1> QED
  BY <1>1, <1>2, <1>3 DEF AnyHostNext

-----------------------------------------------------------------------------
(* What the capturer stores is an answer to its own settled request, even  *)
(* when the host is anybody: a number is never used twice, so a settled    *)
(* packet stays settled.                                                   *)
THEOREM CallbacksFaithful == Spec => []CallbackFidelity
<1>1. CtrlInv => CallbackFidelity
  BY DEF CtrlInv
<1> QED
  BY <1>1, CtrlInvInit, CtrlInvStep, PTL DEF Spec

(* The same with an arbitrary host: a callback carries what that host      *)
(* answered to the very packet, whatever it says (ibc_packet_ack, ibc.rs   *)
(* of the controller).                                                     *)
THEOREM CallbacksFaithfulAnyHost == AnyHostSpec => []CallbackFidelity
<1>1. CtrlInv => CallbackFidelity
  BY DEF CtrlInv
<1>2. CtrlInv /\ [AnyHostNext]_vars => CtrlInv'
  BY AnyHostStep
<1> QED
  BY <1>1, <1>2, CtrlInvInit, PTL DEF AnyHostSpec

(* What the controller has on record was said on that channel: by the      *)
(* host, in the whole system.                                              *)
THEOREM ReportsStored == Spec => []StoredReports
<1>1. CtrlInv => StoredReports
  BY DEF CtrlInv
<1> QED
  BY <1>1, CtrlInvInit, CtrlInvStep, PTL DEF Spec

-----------------------------------------------------------------------------
(* How the records a reader sees may move in one step.                     *)
AccountMoves(c) ==
    LET old == ctrlAccounts[c]
        new == ctrlAccounts'[c]
    IN  \/ new = old
        \/ /\ old # None /\ new # None
           /\ old.remote_addr \in {None, new.remote_addr}
           /\ new.last_update_time >= old.last_update_time
        \/ /\ old = None
           /\ new = DefaultAccount
           /\ ~Reached(ctrlEnd'[c], "CLOSED")
        \/ new = None /\ Reached(ctrlEnd'[c], "CLOSED")

LatestMoves(c) ==
    LET old == latestQueries[c]
        new == latestQueries'[c]
    IN  \/ new = old
        \/ /\ new # None
           /\ old # None => new.last_update_time >= old.last_update_time

ResultMoves(id) == capResults[id] # None => capResults'[id] # None

(* How one step may change what readers see.                               *)
LEMMA RecordsMove ==
    ASSUME CtrlInv, TypeInv', CtrlChainNext \/ Elsewhere
    PROVE  /\ \A c \in Channels : AccountMoves(c) /\ LatestMoves(c)
           /\ \A id \in CallbackIds : ResultMoves(id)
<1> DEFINE Moves == /\ \A c \in Channels : AccountMoves(c) /\ LatestMoves(c)
                    /\ \A id \in CallbackIds : ResultMoves(id)
<1> USE DEF Moves
<1>1. TypeInv /\ CtrlRegistered /\ TimesPast
  BY DEF CtrlInv
<1>2. ASSUME UNCHANGED <<ctrlAccounts, latestQueries, capResults>> PROVE Moves
  BY <1>2 DEF AccountMoves, LatestMoves, ResultMoves
<1>3. ASSUME NEW c \in Channels, CtrlOpenAck(c) \/ CtrlOpenConfirm(c) PROVE Moves
  <2>1. AccountMoves(c)
    <3>1. ctrlAccounts[c] = None /\ ~Reached(ctrlEnd'[c], "CLOSED")
      BY <1>1, <1>3, CtrlConnectOpens DEF CtrlRegistered, IsOpen
    <3>2. ctrlAccounts'[c] = DefaultAccount
      BY <1>1, <1>3, CtrlConnectOpens, CtrlTypes
    <3> QED
      BY <3>1, <3>2 DEF AccountMoves
  <2>2. \A d \in Channels \ {c} : ctrlAccounts'[d] = ctrlAccounts[d]
    BY <1>1, <1>3, CtrlConnectOpens, CtrlTypes
  <2>3. UNCHANGED <<latestQueries, capResults>>
    BY <1>1, <1>3, CtrlConnectOpens
  <2> QED
    BY <2>1, <2>2, <2>3 DEF AccountMoves, LatestMoves, ResultMoves
<1>4. ASSUME NEW c \in Channels, CtrlClose(c) PROVE Moves
  BY <1>1, <1>4, CtrlCloseRemoves DEF AccountMoves, LatestMoves, ResultMoves
<1>5. ASSUME NEW w \in acks, AckPacket(w) PROVE Moves
  <2>1. ASSUME NEW c \in Channels PROVE AccountMoves(c)
    <3>1. CASE Updated(c, w)
      <4>1. ctrlAccounts[c].last_update_time <= ctrlTime
        BY <1>1, <3>1 DEF TimesPast, Updated
      <4>2. ctrlAccounts[c].last_update_time \in Nat /\ ctrlTime \in Nat
        BY <1>1, <3>1, CtrlTypes DEF Updated, AccountData
      <4>3. ctrlAccounts'[c].last_update_time >= ctrlAccounts[c].last_update_time
        BY <3>1, <4>1, <4>2 DEF Updated
      <4> QED
        BY <3>1, <4>3 DEF AccountMoves, Updated
    <3> QED
      BY <1>1, <1>5, <3>1, AckUpdates DEF AccountMoves
  <2>2. ASSUME NEW c \in Channels PROVE LatestMoves(c)
    <3>1. CASE LatestBy(c, w)
      <4>1. /\ w.ack \in StdAck
            /\ ctrlTime \in Nat
            /\ latestQueries[c] \in LatestQueryResponse \cup {None}
        BY <1>1, CtrlTypes
      <4>2. latestQueries'[c] # None
        <5>1. [last_update_time |-> ctrlTime, response |-> w.ack] \in LatestQueryResponse
          BY <4>1 DEF LatestQueryResponse
        <5> QED
          BY <3>1, <5>1, EntryAssumption DEF LatestBy
      <4>3. ASSUME latestQueries[c] # None
            PROVE  latestQueries'[c].last_update_time >= latestQueries[c].last_update_time
        <5>1. /\ latestQueries[c].last_update_time <= ctrlTime
              /\ latestQueries[c].last_update_time \in Nat
          BY <1>1, <4>1, <4>3 DEF TimesPast, LatestQueryResponse
        <5> QED
          BY <3>1, <4>1, <5>1, LatestIs
      <4> QED
        BY <4>2, <4>3 DEF LatestMoves
    <3> QED
      BY <1>1, <1>5, <3>1, AckLatest DEF LatestMoves
  <2>3. ASSUME NEW id \in CallbackIds PROVE ResultMoves(id)
    <3>1. w.ack # None
      BY <1>1, CtrlTypes, AnswerAssumption
    <3> QED
      BY <1>1, <1>5, <3>1, AckCallsBack DEF ResultMoves, CalledBackBy
  <2> QED
    BY <2>1, <2>2, <2>3
<1> QED
  BY <1>1, <1>2, <1>3, <1>4, <1>5, QuietOnCtrl
  DEF CtrlQuiet, Elsewhere, controllerVars, ctrlVars, CtrlChainNext, CtrlHandshake,
      CtrlCloseInit, CtrlCloseConfirm

(* A query fails exactly when the key is not in the Map.                   *)
LEMMA LoadIs ==
    ASSUME NEW map, NEW key,
           map[key] \in AccountData \cup LatestQueryResponse \cup StdAck \cup {None}
    PROVE  /\ Load(map, key) # NotFound <=> map[key] # None
           /\ map[key] # None => Load(map, key).found = map[key]
<1>1. ASSUME map[key] # None PROVE Found(map[key]) # None
  <2>1. Found(map[key]) \in [found : AccountData \cup LatestQueryResponse \cup StdAck]
    BY <1>1 DEF Found
  <2> QED
    BY <2>1, FoundAssumption
<1> QED
  BY <1>1 DEF Load, NotFound, Found

(* A reader of one channel never sees it go back,                          *)
LEMMA ReadersStep ==
    ASSUME CtrlInv, TypeInv', CtrlChainNext \/ Elsewhere, NEW c \in Channels
    PROVE  ReaderMovesForward(c)
<1>1. /\ ctrlAccounts[c] \in AccountData \cup {None}
      /\ ctrlAccounts'[c] \in AccountData \cup {None}
      /\ latestQueries[c] \in LatestQueryResponse \cup {None}
      /\ latestQueries'[c] \in LatestQueryResponse \cup {None}
  BY DEF CtrlInv, TypeInv, TypeOK, CtrlTypeOK
<1>2. AccountMoves(c) /\ LatestMoves(c)
  BY RecordsMove
<1>3. /\ ctrlAccounts[c] # None =>
            ctrlAccounts[c].last_update_time >= ctrlAccounts[c].last_update_time
      /\ latestQueries[c] # None =>
            latestQueries[c].last_update_time >= latestQueries[c].last_update_time
      /\ DefaultAccount.remote_addr = None
  BY <1>1 DEF AccountData, LatestQueryResponse, DefaultAccount
<1>4. /\ CtrlQueryAccount(c) # NotFound <=> ctrlAccounts[c] # None
      /\ ctrlAccounts[c] # None => CtrlQueryAccount(c).found = ctrlAccounts[c]
      /\ CtrlQueryAccount(c)' # NotFound <=> ctrlAccounts'[c] # None
      /\ ctrlAccounts'[c] # None => CtrlQueryAccount(c)'.found = ctrlAccounts'[c]
      /\ CtrlQueryLatest(c) # NotFound <=> latestQueries[c] # None
      /\ latestQueries[c] # None => CtrlQueryLatest(c).found = latestQueries[c]
      /\ CtrlQueryLatest(c)' # NotFound <=> latestQueries'[c] # None
      /\ latestQueries'[c] # None => CtrlQueryLatest(c)'.found = latestQueries'[c]
  BY <1>1, LoadIs DEF CtrlQueryAccount, CtrlQueryLatest
<1> QED
  BY <1>2, <1>3, <1>4 DEF AccountMoves, LatestMoves, Later, ReaderMovesForward

(* and a result the capturer has is replaced, but never taken away.        *)
LEMMA ResultsStay ==
    ASSUME CtrlInv, TypeInv', CtrlChainNext \/ Elsewhere, NEW id \in CallbackIds
    PROVE  ResultStays(id)
<1>1. ResultMoves(id)
  BY RecordsMove
<1>2. /\ capResults[id] \in StdAck \cup {None}
      /\ capResults'[id] \in StdAck \cup {None}
  BY DEF CtrlInv, TypeInv, TypeOK, CapTypeOK
<1>3. /\ CapQueryResult(id) # NotFound <=> capResults[id] # None
      /\ CapQueryResult(id)' # NotFound <=> capResults'[id] # None
  BY <1>2, LoadIs DEF CapQueryResult
<1> QED
  BY <1>1, <1>3 DEF ResultMoves, ResultStays

(* Against any host, a reader of the two contracts on the controller chain *)
(* never sees time run backwards or an address change.                     *)
THEOREM ReadersForwardAnyHost == AnyHostSpec => ReadersMoveForward
<1>1. CtrlInv /\ [AnyHostNext]_vars => CtrlInv'
  BY AnyHostStep
<1>2. CtrlInv /\ [AnyHostNext]_vars =>
          /\ \A c \in Channels : ReaderMovesForward(c)
          /\ \A id \in CallbackIds : ResultStays(id)
  BY AnyHostStep, ReadersStep, ResultsStay DEF CtrlInv
<1> QED
  BY <1>1, <1>2, CtrlInvInit, PTL DEF AnyHostSpec, ReadersMoveForward

(* In the whole system as well.                                            *)
THEOREM ReadersForward == Spec => ReadersMoveForward
<1>1. CtrlInv /\ [Next]_vars =>
          /\ \A c \in Channels : ReaderMovesForward(c)
          /\ \A id \in CallbackIds : ResultStays(id)
  <2> SUFFICES ASSUME CtrlInv, [Next]_vars
               PROVE  /\ \A c \in Channels : ReaderMovesForward(c)
                      /\ \A id \in CallbackIds : ResultStays(id)
    OBVIOUS
  <2>1. TypeInv' /\ (CtrlChainNext \/ Elsewhere)
    BY TypeStep, HostChainElsewhere DEF CtrlInv, Next
  <2> QED
    BY <2>1, ReadersStep, ResultsStay
<1> QED
  BY <1>1, CtrlInvInit, CtrlInvStep, PTL DEF Spec, ReadersMoveForward

(* And the reports on record come from the channel's counterparty, whoever *)
(* that is.                                                                *)
THEOREM ReportsStoredAnyHost == AnyHostSpec => []StoredReports
<1>1. CtrlInv => StoredReports
  BY DEF CtrlInv
<1>2. CtrlInv /\ [AnyHostNext]_vars => CtrlInv'
  BY AnyHostStep
<1> QED
  BY <1>1, <1>2, CtrlInvInit, PTL DEF AnyHostSpec

-----------------------------------------------------------------------------
(* The host's side: what the agreement rests on there, without the         *)
(* controller.                                                             *)
HostRegistered ==
    \A c \in Channels : hostAccounts[c] # None <=> IsOpen(hostEnd[c])

HostInv ==
    /\ TypeInv
    /\ HostRegistered
    /\ OneInstance
    /\ InstanceOpened
    /\ HostOwned

(* The variables that the host's invariant is about.                       *)
LEMMA HostTypes ==
    ASSUME TypeInv
    PROVE  /\ hostEnd \in [Channels -> ChannelEnd]
           /\ ctrlEnd \in [Channels -> ChannelEnd]
           /\ hostAccounts \in [Channels -> Addrs \cup {None}]
           /\ owner \in [Addrs -> Channels \cup {None}]
  BY DEF TypeInv, TypeOK, IbcTypeOK, HostTypeOK, Cw1TypeOK

(* No account is made or listed and no end of the host opens or closes.    *)
HostQuiet ==
    /\ UNCHANGED <<hostAccounts, owner>>
    /\ \A c \in Channels :
          /\ IsOpen(hostEnd[c]) <=> IsOpen(hostEnd'[c])
          /\ Reached(hostEnd[c], "OPEN") => Reached(hostEnd'[c], "OPEN")

(* A step that makes and lists no account keeps HostInv.                   *)
LEMMA HostQuietKeeps ==
    ASSUME HostInv, TypeInv', HostQuiet
    PROVE  HostInv'
<1>1. InstanceOpened'
  BY HostTypes DEF HostInv, HostQuiet, InstanceOpened
<1> QED
  BY <1>1 DEF HostInv, HostQuiet, HostRegistered, OneInstance, HostOwned

(* The host's steps that neither make nor list an account.                 *)
LEMMA QuietOnHost ==
    ASSUME TypeInv,
           \/ \E c \in Channels, o \in Orders : HostOpenInit(c, o)
           \/ \E c \in Channels : HostOpenTry(c)
           \/ \E p \in commitments : RecvPacket(p)
           \/ HostTick
           \/ \E a \in Addrs, n \in 1 .. MaxBalance : DepositTo(a, n)
           \/ UNCHANGED vars
    PROVE  HostQuiet
<1> USE DEF ibcVars, hostVars, cw1Vars
<1>1. ASSUME NEW c \in Channels,
             (\E o \in Orders : HostOpenInit(c, o)) \/ HostOpenTry(c)
      PROVE  HostQuiet
  <2>1. UNCHANGED <<hostAccounts, owner>>
    BY <1>1 DEF HostOpenInit, HostOpenTry
  <2>2. /\ hostEnd[c].states = {}
        /\ "OPEN" \notin hostEnd'[c].states
        /\ \A d \in Channels \ {c} : hostEnd'[d] = hostEnd[d]
    BY <1>1, HostTypes DEF HostOpenInit, HostOpenTry, Unused, NewEnd
  <2> QED
    BY <2>1, <2>2 DEF HostQuiet, IsOpen, Reached
<1>2. ASSUME NEW p \in commitments, RecvPacket(p) PROVE HostQuiet
  BY <1>2
  DEF RecvPacket, HostPacketReceive, ReceiveDispatch, ReceiveQuery, ReceiveWhoAmI,
      ReceiveBalances, HostQuiet
<1>3. ASSUME \/ HostTick
             \/ \E a \in Addrs, n \in 1 .. MaxBalance : DepositTo(a, n)
             \/ UNCHANGED vars
      PROVE  HostQuiet
  BY <1>3 DEF HostTick, DepositTo, Deposit, vars, HostQuiet
<1> QED
  BY <1>1, <1>2, <1>3

(* The end connects: the instance it gets is new, and its channel's first. *)
LEMMA HostConnectKeeps ==
    ASSUME HostInv, TypeInv', NEW c \in Channels, HostOpenAck(c) \/ HostOpenConfirm(c)
    PROVE  HostInv'
<1>1. TypeInv /\ HostChannelConnect(c)
  BY DEF HostOpenAck, HostOpenConfirm, HostInv
<1>2. PICK a \in Addrs :
        /\ owner[a] = None
        /\ owner' = [owner EXCEPT ![a] = c]
        /\ hostAccounts' = [hostAccounts EXCEPT ![c] = a]
  BY <1>1 DEF HostChannelConnect, Register, Cw1Instantiate
<1>3. /\ ~Reached(hostEnd[c], "OPEN")
      /\ Reached(hostEnd'[c], "OPEN") /\ IsOpen(hostEnd'[c])
      /\ \A d \in Channels \ {c} : hostEnd'[d] = hostEnd[d]
  <2>1. hostEnd[c] \in ChannelEnd /\ ctrlEnd[c].version \in Versions \cup {None}
    BY <1>1, HostTypes DEF ChannelEnd
  <2>2. /\ Enter(hostEnd[c], "OPEN").states = hostEnd[c].states \cup {"OPEN"}
        /\ OpenedAs(hostEnd[c], ctrlEnd[c].version).states
             = hostEnd[c].states \cup {"OPEN"}
    BY <2>1, EnterTyped DEF EndStates
  <2>3. "CLOSED" \notin hostEnd[c].states /\ "OPEN" \notin hostEnd[c].states
    BY DEF HostOpenAck, HostOpenConfirm
  <2> QED
    BY <1>1, <2>2, <2>3, HostTypes DEF HostOpenAck, HostOpenConfirm, IsOpen, Reached
<1>4. \A b \in Addrs : owner[b] # c
  BY <1>3, NoneAssumption DEF HostInv, InstanceOpened
<1>5. /\ owner'[a] = c
      /\ \A b \in Addrs : owner[b] # None => b # a /\ owner'[b] = owner[b]
      /\ \A b \in Addrs \ {a} : owner'[b] = owner[b]
  BY <1>1, <1>2, HostTypes
<1>6. hostAccounts'[c] = a /\ \A d \in Channels \ {c} : hostAccounts'[d] = hostAccounts[d]
  BY <1>1, <1>2, HostTypes
<1>7. HostRegistered'
  BY <1>3, <1>6, NoneAssumption DEF HostInv, HostRegistered
<1>8. OneInstance'
  BY <1>4, <1>5 DEF HostInv, OneInstance
<1>9. InstanceOpened'
  BY <1>1, <1>3, <1>5, HostTypes, NoneAssumption DEF HostInv, InstanceOpened
<1>10. HostOwned'
  BY <1>1, <1>5, <1>6, HostTypes, NoneAssumption DEF HostInv, HostOwned
<1> QED
  BY <1>7, <1>8, <1>9, <1>10 DEF HostInv

(* The end closes: its account is not listed any more, and stays its own.  *)
LEMMA HostCloseKeeps ==
    ASSUME HostInv, TypeInv', NEW c \in Channels, HostClose(c)
    PROVE  HostInv'
<1>1. TypeInv
  BY DEF HostInv
<1>2. /\ owner' = owner
      /\ hostAccounts'[c] = None
      /\ \A d \in Channels \ {c} : /\ hostAccounts'[d] = hostAccounts[d]
                                   /\ hostEnd'[d] = hostEnd[d]
      /\ hostEnd'[c].states = hostEnd[c].states \cup {"CLOSED"}
  BY <1>1, HostTypes DEF HostClose, HostChannelClose, Enter, ChannelEnd
<1>3. HostRegistered'
  BY <1>2 DEF HostInv, HostRegistered, IsOpen, Reached
<1>4. InstanceOpened'
  BY <1>1, <1>2, HostTypes DEF HostInv, InstanceOpened, Reached
<1> QED
  BY <1>2, <1>3, <1>4 DEF HostInv, OneInstance, HostOwned

(* The controller's end may be anybody's: nothing of the host's changes.   *)
LEMMA CtrlPeerTyped ==
    ASSUME TypeInv,
           \/ \E c \in Channels : CtrlPeerMoves(c)
           \/ \E c \in Channels, data \in PacketMsg : CtrlPeerSends(c, data)
           \/ \E p \in commitments : CtrlPeerSettles(p)
    PROVE  TypeInv' /\ UNCHANGED <<hostEnd, acks, hostAccounts, owner, balance>>
<1> USE DEF controllerVars, ctrlVars, hostVars, cw1Vars
<1>1. ASSUME NEW c \in Channels, CtrlPeerMoves(c)
      PROVE  TypeInv' /\ UNCHANGED <<hostEnd, acks, hostAccounts, owner, balance>>
  <2>1. ctrlEnd' \in [Channels -> ChannelEnd]
    BY <1>1, NextEndsTyped, HostTypes DEF CtrlPeerMoves
  <2>2. UNCHANGED <<hostEnd, nextSeq, commitments, acks, ctrlTime, hostTime,
                    controllerVars, hostVars>>
    BY <1>1 DEF CtrlPeerMoves
  <2> QED
    BY <2>1, <2>2
    DEF TypeInv, TypeOK, AckTyped, IbcTypeOK, CtrlTypeOK, CapTypeOK, HostTypeOK,
        Cw1TypeOK
<1>2. ASSUME NEW c \in Channels, NEW data \in PacketMsg, CtrlPeerSends(c, data)
      PROVE  TypeInv' /\ UNCHANGED <<hostEnd, acks, hostAccounts, owner, balance>>
  <2>1. nextSeq' \in [Channels -> Nat] /\ commitments' \subseteq Packet
    BY <1>2, SendTyped, TimeoutTyped DEF CtrlPeerSends, TypeInv, TypeOK
  <2>2. UNCHANGED <<ctrlEnd, hostEnd, acks, ctrlTime, hostTime, controllerVars, hostVars>>
    BY <1>2 DEF CtrlPeerSends, SentOnly
  <2> QED
    BY <2>1, <2>2
    DEF TypeInv, TypeOK, AckTyped, IbcTypeOK, CtrlTypeOK, CapTypeOK, HostTypeOK,
        Cw1TypeOK
<1>3. ASSUME NEW p \in commitments, CtrlPeerSettles(p)
      PROVE  TypeInv' /\ UNCHANGED <<hostEnd, acks, hostAccounts, owner, balance>>
  BY <1>3
  DEF CtrlPeerSettles, DeleteCommitment, TypeInv, TypeOK, AckTyped, IbcTypeOK,
      CtrlTypeOK, CapTypeOK, HostTypeOK, Cw1TypeOK
<1> QED
  BY <1>1, <1>2, <1>3

(* There is no account at the start.                                       *)
LEMMA HostInvInit == Init => HostInv
<1> SUFFICES ASSUME Init PROVE HostInv
  OBVIOUS
<1>1. TypeInv
  BY TypeInit
<1>2. HostRegistered /\ OneInstance /\ InstanceOpened /\ HostOwned
  BY DEF Init, IbcInit, HostInit, Cw1Init, HostRegistered, IsOpen, Reached, OneInstance,
         InstanceOpened, HostOwned
<1> QED
  BY <1>1, <1>2 DEF HostInv

(* A step is one of the whole system's, or the host does not see it.       *)
LEMMA AnyControllerStep ==
    ASSUME HostInv, [AnyControllerNext]_vars
    PROVE  HostInv' /\ \A a \in Addrs : Explained(a)
<1>1. TypeInv /\ HostOwned
  BY DEF HostInv
<1>2. CASE \/ HostChainNext
           \/ \E a \in Addrs, n \in 1 .. MaxBalance : DepositTo(a, n)
           \/ UNCHANGED vars
  <2>1. [Next]_vars
    BY <1>2 DEF Next
  <2>2. TypeInv'
    BY <1>1, <2>1, TypeStep
  <2>3. HostInv'
    BY <1>1, <1>2, <2>2, QuietOnHost, HostQuietKeeps, HostConnectKeeps, HostCloseKeeps
    DEF HostChainNext, HostHandshake, HostCloseInit, HostCloseConfirm
  <2> QED
    BY <1>1, <2>1, <2>3, BalanceFalls
<1>3. CASE \/ \E c \in Channels : CtrlPeerMoves(c)
           \/ \E c \in Channels, data \in PacketMsg : CtrlPeerSends(c, data)
           \/ \E p \in commitments : CtrlPeerSettles(p)
  <2>1. TypeInv' /\ UNCHANGED <<hostEnd, acks, hostAccounts, owner, balance>>
    BY <1>1, <1>3, CtrlPeerTyped
  <2>2. HostInv'
    BY <2>1, HostQuietKeeps DEF HostQuiet
  <2>3. \A a \in Addrs : ~(balance[a] < balance[a])
    BY <1>1 DEF TypeInv, TypeOK, Cw1TypeOK
  <2> QED
    BY <2>1, <2>2, <2>3 DEF Explained
<1> QED
  BY <1>2, <1>3 DEF AnyControllerNext

(* Whoever asks, an account serves the channel it was made for and is      *)
(* listed while that channel's end is open.                                *)
THEOREM AccountsStayApart == AnyControllerSpec => []AccountsApart
<1>1. HostInv => AccountsApart
  BY NoneAssumption
  DEF HostInv, HostRegistered, OneInstance, HostOwned, AccountsApart
<1>2. HostInv /\ [AnyControllerNext]_vars => HostInv'
  BY AnyControllerStep
<1> QED
  BY <1>1, <1>2, HostInvInit, PTL DEF AnyControllerSpec

(* Whoever asks, funds leave an account only for a dispatch that came in   *)
(* on its own channel and was answered with success.                       *)
THEOREM FundsProtectedAnyController == AnyControllerSpec => FundsMoveOnlyByDispatch
<1>1. HostInv /\ [AnyControllerNext]_vars => HostInv'
  BY AnyControllerStep
<1>2. HostInv /\ [AnyControllerNext]_vars => \A a \in Addrs : Explained(a)
  BY AnyControllerStep
<1> QED
  BY <1>1, <1>2, HostInvInit, PTL DEF AnyControllerSpec, FundsMoveOnlyByDispatch, Explained
=============================================================================
