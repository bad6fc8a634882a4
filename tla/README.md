# TLA+ verification of the CosmWasm IBC demo

This directory specifies, model-checks and proves properties of the contracts of
this repository: a small protocol in the style of interchain accounts, in which a
controller contract on one chain has messages run, and state read, by a host
contract on another. Paths below are relative to the repository's root.

1. [The system](#1-the-system)
2. [The modules](#2-the-modules)
3. [What each run checks](#3-what-each-run-checks)
4. [Fairness](#4-fairness)
5. [What is proved](#5-what-is-proved)
6. [Where the code and its comments disagree](#6-where-the-code-and-its-comments-disagree)
7. [Abstractions, and what is not modelled](#7-abstractions-and-what-is-not-modelled)
8. [Plan](#8-plan)

## 1. The system

Two chains, each with one of the two contracts, any number of channels between
these, and a relayer that anybody may run.

    controller chain                                    host chain
    ----------------                                    ----------
    user --> callback-capturer                          any user -- deposits --+
      |         |      ^ ReceiveIcaResponse                                    |
      |         v      |                                                       v
      +--> simple-ica-controller <==== channel ====> simple-ica-host --> reflect account
             ACCOUNTS, CONFIG,        (packets,        ACCOUNTS,         (cw1-whitelist,
             LATEST_QUERIES            answers)        PENDING, RESULTS   one per channel)

### Components

**The `simple-ica` package** (`packages/simple-ica`). No state. Four packets go from
controller to host: `Dispatch` (run messages), `IbcQuery` (read state), `WhoAmI`
(which account is mine) and `Balances` (which, and what does it hold). Each is
answered by a `StdAck`, a result or an error. `check_order` and `check_version`
guard the handshake.

**`simple-ica-controller`**. State: the admin (`CONFIG`); per open channel the remote
address and the last balance reported, with its time (`ACCOUNTS`); per channel the
last query response (`LATEST_QUERIES`). Operations: open, connect and close a
channel; `UpdateAdmin`, `SendMsgs` and `CheckRemoteBalance` for the admin, `IbcQuery`
and `SendFunds` for anybody; the acknowledgement of each kind of packet; the
timeout, which it ignores. Connecting sends one `WhoAmI`. An answer to a request
with a callback id is also delivered to the caller, by a message that is part of
the acknowledging transaction.
*Hard*: answers come in any order or never, after the admin has changed, before or
after the address is known; an error while acknowledging strands the packet for
good; nothing is sent a second time.
*Correct when*: it lists exactly the open channels; a remote address is the right
one and, once learnt, stays; everything it reports was said by the host on that
channel; it never refuses an answer of the host.

**`simple-ica-host`**. State: the reflect account of each open channel (`ACCOUNTS`),
the channel whose account is being created (`PENDING`) and the results of the
dispatch being run (`RESULTS`), both single slots that live from a submessage to
its reply. Operations: open; connect, which instantiates the account and registers
it in the reply; close, which removes it and sweeps what it holds; and the receipt
of the four packets. An error in a receipt, or in the account's execution below it
(`SubMsg::reply_on_success`, so the host does not catch it), leaves the contract as
an error; the chain undoes the receipt and writes an error acknowledgement.
*Hard*: shared slots between connect and reply; a batch that fails half way;
deposits that come at any time, before and after a close; a close that meets a
channel not yet connected.
*Correct when*: an account belongs to one channel and only to that one; funds leave
an account only because a dispatch on its channel asked for it and was answered
with success.

**`callback-capturer`**. State: its admin and controller (fixed), and `RESULTS`, the
answer received under each id. Operations: forwards the admin's `SendMsgs`,
`CheckRemoteBalance`, `IbcQuery` and `SendFunds` to the controller, always with an
id; stores what the controller calls it back with.
*Hard*: an id used again while its first request is in flight; being made admin of
the controller with no way to give that up.
*Correct when*: what is stored under an id answers a request it sent with this id.

**Transfers** (external, ICS-20). `SendFunds` hands one coin to the transfer module,
which holds it in escrow on the controller's chain, credits vouchers to the reflect
account on the host's chain, and refunds the sender, which is the controller
contract, if the transfer is refused or times out. The transfer channel is not the ICA
channel and is not closed with it.
*Hard*: the address is read from the store when the transfer is sent, and the account may
be orphaned before the coins arrive; a refund goes to a contract that cannot pay it out.
*Correct when*: coins go to the account of the channel they were sent for, and what an account
holds is what was sent to it less what its channel's dispatches took.

**IBC core and the relayer** (external). Channel ends, sequence numbers,
commitments, receipts and acknowledgements, with the rules of ICS-04. Any packet
may be carried next, late or never; a proof may be about a state that the other
chain has left.

**Reflect accounts and the bank** (external). cw1-whitelist instances owned by the
host contract, and balances.

**Not code of the protocol**: the integration tests and TypeScript bindings
(`tests/`), the scripts that run two local chains (`ci-scripts/`, `devtools/`), and the
schema generators (`contracts/*/examples`).

### How components interact

- A user's call and everything it emits on one chain is one transaction: the
  capturer's forwarding and the controller's handler succeed or fail together, and
  so do an acknowledgement and its callback, a close and its sweep.
- Between the chains there are only packets, acknowledgements, timeouts and the
  handshake steps, each carried by a relayer.
- Nothing is read before a step and used after it within one contract but for the
  slots `PENDING` and `RESULTS`; across the two chains every piece of knowledge is
  stale: the controller's addresses and balances describe an earlier state.

The hazards that follow from this, each with its line in the code and the
properties that watch it, are in `PROJECT.json` under `hazards`.

## 2. The modules

    SimpleIca            vocabulary: packets, answers, handshake checks
      |- Ibc             ICS-04 as the entry points rely on it      (external)
      |- Capturer        contracts/callback-capturer
      |- Cw1Whitelist    reflect accounts and balances              (external)
      |- Controller      contracts/simple-ica-controller   EXTENDS Ibc, Capturer
      |- Host            contracts/simple-ica-host         EXTENDS Ibc, Cw1Whitelist
           IcaSystem     all of it, with users, relayers and clocks
             IcaProperties    what the contracts promise          (MCLiveness)
               IcaInvariant     the inductive invariant
                 IcaRefinement    implements RemoteAccount          (MCOneChannel, MCTwoChannels)
                 IcaTypes_proofs -> IcaAgreement_proofs -> IcaSteps_proofs -> IcaPromise_proofs
               IcaQueries       what users read                     (MCAnyHost)
                 IcaReaders       readers of the two lists          (MCTwoChannels)
               AnyPeer          each contract with a stranger        (MCAnyHost, MCAnyController)
                 AnyPeer_proofs   EXTENDS IcaPromise_proofs, IcaReaders
               HostTx           the host call by call               (MCHostTx, MCHostBatch)
                 HostTx_proofs    EXTENDS IcaPromise_proofs
               IcaTransfers     with SendFunds, EXTENDS Transfer     (external: Transfer)
                 TransferProperties  where the coins are            (MCTransfers)
                   IcaTransfers_proofs    EXTENDS IcaPromise_proofs
                     Ledger_proofs
    RemoteAccount        what the two contracts together promise, in the abstract

The modules in parentheses are the instances for TLC.

Every entry point is one operator, named for it, and is enabled exactly where the
code returns `Ok` and every message it emits succeeds.

| TLA+ | Code |
|---|---|
| `admin`, `ctrlAccounts`, `latestQueries` | `CONFIG.admin`, `ACCOUNTS`, `LATEST_QUERIES` of the controller (`state.rs`) |
| `hostAccounts` | `ACCOUNTS` of the host |
| `capResults` | `RESULTS` of the capturer |
| `owner` | the channel in the label that `ibc_channel_connect` gives an instance |
| `balance` | the bank balances of reflect accounts and of the host contract |
| `ctrlEnd`, `hostEnd` | the channel ends kept by the chains |
| `nextSeq`, `commitments`, `acks` | packets sent; those not settled; those received with the answer written |
| `ctrlTime`, `hostTime` | `env.block.time` of the two chains |
| `None` | `Option::None`, and a key that is not in a `Map` |
| `CtrlChannelOpen`, `CtrlChannelConnect`, `CtrlChannelClose` | `ibc_channel_open/connect/close` of the controller |
| `ExecuteUpdateAdmin`, `ExecuteSendMsgs`, `ExecuteIbcQuery`, `ExecuteCheckRemoteBalance` | the functions of that name in `contract.rs` |
| `AcknowledgeDispatch/Query/WhoAmI/Balances`, `IbcPacketAck`, `IbcPacketTimeout` | the functions of that name in `ibc.rs` |
| `HostChannelOpen` | `ibc_channel_open` of the host |
| `HostChannelConnect`, `Register` | `ibc_channel_connect`, and `reply_init_callback` in the same transaction |
| `HostChannelClose` | `ibc_channel_close`, with the sweep it emits |
| `ReceiveDispatch` | `receive_dispatch`, the account's execute and `reply_dispatch_callback`; on an error, the chain's roll-back and error answer |
| `ReceiveQuery`, `ReceiveWhoAmI`, `ReceiveBalances` | the functions of that name |
| `CapAuthorized`, `ReceiveIcaResponse`, the `Capturer...` actions | the handlers of the capturer |
| `CtrlQuery...`, `HostQuery...`, `CapQuery...` | the query functions of the three contracts |
| `ExecuteSendFunds`, `CapturerSendFunds` | `execute_send_funds` of the controller and of the capturer |
| `coins`, `transfers`, `receipts` | bank balances of the controller's chain; transfers sent and not settled; transfers received |
| `pending`, `results` | `PENDING` and `RESULTS` of the host |
| `tx` | the transaction the host chain is running: the call that is next, and the branch of the store it works on |
| `IbcChannelConnect`, `RunInstantiate`, `RunReplyInit` | `ibc_channel_connect`, the instantiation it emits, `reply_init_callback` |
| `IbcPacketReceiveDispatch`, `RunMessage`, `RunReplyDispatch` | `receive_dispatch`, each message that the account runs, `reply_dispatch_callback` |
| `IbcChannelClose`, `RunSweep` | `ibc_channel_close`, the transfer it asks the account for |

`IcaSystem` adds the environment: the handshake started from either end
(`CtrlOpenInit`, `HostOpenTry`, `CtrlOpenAck`, `HostOpenConfirm`, and the same four
the other way round), closing from either end and its confirmation, the calls of
users, `RecvPacket`, `AckPacket`, `TimeoutPacket`, deposits and two clocks. Its `Next` is
what happens on the one chain (`CtrlChainNext`) or on the other (`HostChainNext`), so
that either side can be composed with something else.

Five modules look at the same code in another way.

**`HostTx`: call by call.** In `IcaSystem` a transaction of the host chain is one step.
Here it is a sequence: an entry point, the submessage it emits, the reply. Each call works
on a branch of the store kept in `tx`; the last one commits it, an error drops it, and
`OutOfGas` may drop it anywhere, after which a relayer may submit the message again.
A batch is run message by message. Transactions follow one another, while the
controller's chain goes on. `Atomic == Spec` says that this implements `IcaSystem`; the
variables of `IcaSystem` are the committed state, so the mapping is the identity, and a
call that is not the last of its transaction must be a stuttering step.

**`IcaTransfers`: with `SendFunds`.** `IcaSystem` and ICS-20 transfers side by side. They
share the reflect accounts' balances (which transfers fill, in place of deposits) and the
host chain's clock. `ImplementsSystem == Spec` says that transfers are deposits as far as
the two contracts can see.

**`AnyPeer`: strangers.** Anybody can open a channel to a contract from any port of any
chain. `AnyHostSpec` is the controller's chain with a counterparty that takes any order
and version, opens and closes as ICS-04 lets it, and answers every packet with anything the
controller can parse. `AnyControllerSpec` is the host's chain with counterparties that
send any packet, asked for or not.

**`IcaReaders`: two lists, read at different times.** Both contracts list their accounts, but
nobody reads the two lists at once. The history variable `shown` keeps all that either list has
ever shown, so that a property of `shown` is one of any two readings, the one before or
after the other. It is written along with every step and constrains none.

**`RemoteAccount`: the promise.** What the two contracts are for, in 8 actions and without
chains, ends, packets or clocks: an account per channel; requests, of which each is
acted on at most once or expires, never both; answers that say what was done, delivered
at most once, in any order, to the one who asked; and on record what was delivered last,
an older answer overwriting a newer one where they come in that order. `IcaRefinement`
maps the system to it:

| `RemoteAccount` | `IcaSystem` |
|---|---|
| `asked` | packets committed and not received |
| `undelivered` | answers written whose packet is still committed |
| `funds[c]` | the balance of the instance made for `c`, listed or orphaned; none before there is one |
| `report[c]` | the `remote_balance` of the controller's entry for `c`; none while there is no entry |
| `latest[c]` | the `response` of the latest query result stored for `c` |
| `count`, `inbox`, `admin` | `nextSeq`, `capResults`, `admin` |

Definitions whose comment begins with *Faulty* are no part of the specification.
Each is a plausible wrong version of the definition after it, kept so that
each property can be shown to fail when the code is wrong in that way.

## 3. What each run checks

| Run | Instance | States | What it shows |
|---|---|---|---|
| `two_channels` | `MCTwoChannels` | 566,256 | two channels share everything but are never confused |
| `one_channel` | `MCOneChannel` | 1,268,316 | callbacks, reports, parameters and the promise on a busy channel |
| `liveness` | `MCLiveness`, fair | 121,240 | packets settle, closes complete, the address is learnt |
| `transfers` | `MCTransfers` | 611,596 | coins reach the right account and are accounted for there; refunds strand |
| `host_tx` | `MCHostTx` | 555,810 | two channels share `PENDING` and `RESULTS` and nothing shows |
| `host_batch` | `MCHostBatch` | 93,212 | batches that fail at any message are undone as a whole |
| `any_host` | `MCAnyHost` | 475,864 | what the controller and the capturer can vouch for alone |
| `any_controller` | `MCAnyController` | 874,724 | what the host can vouch for alone |
| `close_takes_funds`, `dispatch_returns_each`, `caller_is_called_back`, `version_enforced` | as above | | four comments that do not hold (section 6) |

**two_channels.** Invariants `IInv` (the invariant of the proofs, so that its
strengthening is known to hold on an instance), `RegisteredIffOpen`,
`AddressAgreement` and `AckNeverErrs`; action properties `RemoteAddrStable` and
`FundsMoveOnlyByDispatch`. Handshakes, dispatches, balance checks, closes and late
answers on one channel are interleaved with those of the other. `ListsAgree` compares all that
the two contracts' list queries have shown so far, before and after any closes: an account
that is orphaned must not turn up under another channel, in either list. `KeepsPromise` is the refinement of `RemoteAccount`,
here above all for its claim that a dispatch takes from the account of its own channel.

**one_channel.** `TypeOK`, `CallbackFidelity`, `StoredReports` and `NegotiatedParams`. Both
callers have requests in flight together; ids are used again; queries and batches fail; the
admin changes. `StoredReports` says that what is on record was once answered; that it is the
answer delivered last, whichever was given first, is part of `KeepsPromise`, which is checked here
with every kind of request and with timeouts. So is, for ids that are used again, that the
capturer has the answer it was told last, and that a capturer made admin never resigns.

**liveness.** `PacketsResolve`, `EmptyChannelsClose` and `LearnsAddress`, each with the
exceptions that the code really has: a packet is not settled if the controller's
end has closed, or if its caller asked for a callback that it cannot take; a
channel does not finish closing while its account holds funds; the address is not
learnt if the one `WhoAmI` packet times out. A callback that cannot be taken blocks the
acknowledgement of its own packet for ever; `PacketsResolve` says that it blocks no other.

**transfers.** `AccountLedger`: what a reflect account holds is what transfers brought it
less what successful dispatches on its channel took out. `DestinationsOwned`: a transfer goes
to the account of the channel it was asked for, even if that channel is closed on the way.
`RefundsStrand`: what is refunded stays with the controller contract for ever; no caller
gets anything back. This is what the code does (`contract.rs:195-200`, no operation spends the
contract's coins), stated so that nobody relies on the contrary. `ImplementsSystem` as above.
Two transfers can be under way; one may be refused or time out while the other arrives,
before or after the close that orphans their account.

**host_tx, host_batch.** `SlotsServeOneCall`: `PENDING` is empty between transactions, and
within one both slots are about the call being served. `Atomic` is the refinement. `host_tx`
has two channels whose handshakes, dispatches and closes alternate, with balances that make the
sweep fail; `host_batch` has two dispatches on one channel, one after the other, of none, one or
two messages, any of which may be the one that fails. `TxTypeOK` there says in
particular that no branch ever holds a negative balance.

**any_host, any_controller.** Against any host, `CallbackFidelity` still holds (what the
capturer has under an id is the answer given to a packet it sent with that id), and so does
`ReadersMoveForward` of the query functions: times do not go back, a remote address once shown is
not changed, results do not vanish. Against any controllers, `AccountsApart` and
`FundsMoveOnlyByDispatch` still hold: no sender of packets reaches the account of another
channel. What fails against a stranger is `VersionEnforced` (section 6).

### Bounds, and why they are enough

| Bound | Value | Why |
|---|---|---|
| channels, accounts | 2 and 2, or 1 and 1 | two are needed to confuse one with another; with as many accounts as channels every channel can connect, and an account made twice would show |
| `Senders` | a user and the capturer | one caller that can take a callback and one that cannot; either may be admin, and the admin may change between them |
| `CallbackIds` | one id or none | one id used twice is the interesting case |
| `Batches` | 1 message of 1; 2 messages of 2; 2 messages of 1; no message | a batch the balance covers, one it does not, more messages than results, and one with nothing to run (`host_batch`) |
| `QueryLists` | one that succeeds, one that fails at its second query, one that fails | the list is answered as a whole |
| `MaxSends` | 2 or 3 packets per channel | guards users' calls only; with the `WhoAmI` packet, which takes the first number when nothing was sent before, there are two or three in flight that can overtake each other. A `WhoAmI` is sent whatever the number |
| `MaxBalance` | 1, and 2 in `host_batch` | what deposits may bring an account to: empty and not empty; spent and filled again |
| `MaxTime` | 0, 1 or 2 | clocks start at 1; the controller's goes to `MaxTime`, the host's `PacketLifetime` further, so that every packet can time out. With 0 both stand still and only a closed channel makes a packet time out (`two_channels`); with 1 the host's moves and every packet can expire (`one_channel`); with 2 both move, and packets have different deadlines (`liveness`) |
| `Purse`, `MaxTransfers` | 2 and 2 | two transfers of one coin that can overtake each other, or one of two; a batch that one arrival covers and one that needs both. `MaxBalance` is more than transfers can bring, so it never holds one back. One channel and two addresses are enough to see a wrong destination; that no other channel can be named is proved (section 5) |
| `MCHostTx`, `MCHostBatch` | 2 channels, one dispatch of one message on each after its `WhoAmI`; 1 channel, balance up to 2, two dispatches | the slots are shared by channels; a batch of 2 fails at its first message, at its second or not at all, and the results of a first dispatch could show in the second |
| `MCAnyHost` | 1 channel, balances 0, `MaxTime` 2 | the answers' addresses and times are what readers can tell apart; two packets in flight, the `WhoAmI` and one request after it, or a query before it. So an account's balance and time are reported once at most, and a second report is left to the proof (`ReadersForwardAnyHost`); with a third packet the run does not end in time |
| `MCAnyController` | 2 channels, 1 packet each, clocks stopped | two strangers, and accounts to confuse |
| `PacketLifetime` | 1 tick | an hour in the code; only the order of deadlines and block times matters |

`two_channels` and `host_tx` use symmetry in channels and accounts, which the specification
treats alike and no property orders; the liveness run uses none. Deadlock is not checked:
the model stops when its bounds are used up, and a channel that was closed stays so
(no handler opens it again), so that an end of everything is a legal outcome.

## 4. Fairness

`FairSpec` assumes weak fairness of

- the host's clock (blocks are made);
- for each channel, the handshake steps after the first, and the confirmation of a
  close on either end;
- for each channel and sequence number, carrying the packet, its answer, or its
  timeout.

That is a relayer that runs and serves every channel, which is what the integration
tests use (`tests/src/cosmwasm.spec.ts` calls `relayAll` of a ts-relayer `Link`). It is stated for each packet because such a relayer does not favour one
over another. Weak fairness is enough: an action of the relayer that is enabled
stays so until it is taken or something else settles the packet. Nothing is assumed of
users: they need not call, close, deposit, change the admin or start a handshake. The
controller's clock is free to stop.

## 5. What is proved

For every set of channels, addresses, senders, ids, batches and queries, and for
every value of the bounds, checked by TLAPS without gaps:

| Theorem | States |
|---|---|
| `TypeCorrect` | `Spec => []TypeOK` (with `AckTyped`): in particular no balance goes below zero |
| `Inductive` | `Spec => []IInv` |
| `RegisteredWhenOpen` | `Spec => []RegisteredIffOpen` |
| `Agreement` | `Spec => []AddressAgreement` |
| `AcksAccepted` | `Spec => []AckNeverErrs` |
| `ParamsNegotiated` | `Spec => []NegotiatedParams` |
| `ListsNeverContradict` | `ReadSpec => []ListsAgree` |
| `CallbacksFaithful`, `ReportsStored` | `Spec => []CallbackFidelity`, `Spec => []StoredReports` |
| `RemoteAddrKept` | `Spec => RemoteAddrStable` |
| `FundsProtected` | `Spec => FundsMoveOnlyByDispatch` |
| `ReadersForward` | `Spec => ReadersMoveForward` |
| `PromiseKept` | `Spec => KeepsPromise`: the system implements `RemoteAccount` |
| `TransactionsAtomic` | `TxSpec => Atomic`: the host call by call implements the system |
| `SlotsSafe`, `TxTypeCorrect` | `TxSpec => []SlotsServeOneCall`, `TxSpec => []TxTypeOK` |
| `TransfersAreDeposits` | `AllSpec => ImplementsSystem`: the system with transfers implements the system |
| `DestinationsRight` | `AllSpec => []DestinationsOwned` |
| `RefundsNeverLeave` | `AllSpec => RefundsStrand` |
| `AccountsAddUp` | `AllSpec => []AccountLedger` |
| `AllTyped` | `AllSpec => []AllTypeOK`: in particular no payer goes below zero |
| `CallbacksFaithfulAnyHost`, `ReportsStoredAnyHost` | `AnyHostSpec => []CallbackFidelity`, `AnyHostSpec => []StoredReports` |
| `ReadersForwardAnyHost` | `AnyHostSpec => ReadersMoveForward` |
| `AccountsStayApart` | `AnyControllerSpec => []AccountsApart` |
| `FundsProtectedAnyController` | `AnyControllerSpec => FundsMoveOnlyByDispatch` |

**Assumptions.** Only the named ones of the modules that declare the constants:
`InputAssumption` (what callers send is typed), `NoneAssumption`, `EntryAssumption`,
`AnswerAssumption` and `FoundAssumption` (`None` is not a value that the code tells from it:
an id, an entry of one of the two maps of the controller, a stored answer, what a query
returns), `BoundAssumption`, `PacketLifetimeAssumption`, `CapturerAssumption`,
`HostAddrAssumption`, `TransferAssumption`, `FundsAssumption` (no account is told from an
empty one) and, for `HostTx` alone, `BatchAssumption` (an empty
batch takes nothing). TLC evaluates
them in every run that extends their module. Nothing is assumed finite: that there are
finitely many transfers and answers at any time, which sums over them need, is proved.

**The argument.** `AddressAgreement` is not inductive: it speaks of what the contracts
have stored, and a wrong address could be under way in an answer. The invariant
`IInv` closes this gap.

1. *One instance* (`OneInstance`, `InstanceOpened`). An instance is created only in the
   step that opens the host's end, and an end that has been open is not opened again,
   closed or not. So a channel has at most one account ever. This is where the
   handshake matters: `InstanceOpened` needs the set of states an end has been in, for
   closing removes the entry from `ACCOUNTS` but not the instance.
2. *Everything is pinned to its owner* (`HostOwned`, `RemoteOwned`, `AnswerOwned`). What
   the host lists, what the controller lists and what any answer names, delivered or
   not, is an instance made for that very channel. Instances do not change owner, so
   answers of any age keep telling the truth.
3. From 1 and 2 any two of these are equal, which is `AddressAgreement`, and, with
   `RegisteredIffOpen`, that no deliverable answer is refused (`AckNeverErrs`):
   `UnregisteredChannel` needs a channel that is open and not listed,
   `RemoteAccountChanged` needs two accounts of one channel.

The action properties follow from `IInv` one step at a time. `RemoteAddrStable` uses that
connecting, which writes a fresh entry, happens only when there is none, and that the
address in a balance report is the one known. `FundsMoveOnlyByDispatch` uses `HostOwned` to
turn "the account listed for the packet's channel" into "the channel that owns the
account". The sweep of `HostChannelClose` does not appear as an exception in it because
the sweep never succeeds with a balance (section 6).

`ListsAgree` is about all that was ever shown, of channels that may have closed since, of which
`HostOwned` and `RemoteOwned` say nothing any more. Its invariant `ShownOwned` is that every account
was made for the channel it was shown with: both lists show only such (`ListingsOwned`), and
instances keep their owner (`OwnersKept`), so what was shown stays true. With
`OneInstance` no two listings contradict each other. `NegotiatedParams` is about open ends only; the inductive
`ParamsInv` says of every end that exists that it has the right order and version. Both
contracts check what they are proposed, and the controller's end that trusts the answer to its
own proposal gets it from a host's end, of which the invariant says the same. It is that last
step which a stranger breaks (`VersionEnforced`, section 6).

**The refinement.** Seen from `RemoteAccount`, all the actions of the system are of nine
kinds (`StepKinds`): a packet is sent, by a user or by a connect; the host connects; the
controller closes; a packet is received, acknowledged or given up; coins are paid in; the admin
changes; or nothing that matters happens. Each kind has one lemma that maps it to an action or to a stutter. What is on
record (`AckReports`) needs that an answer carries what its packet asks for (`AckTyped`), and
that a connect finds no entry (`RegisteredIffOpen`), else it would reset a report that users are
shown. All need `IInv`, and three facts (`PInv`) that the models of IBC and of the bank give
whatever the contracts do: no packet, answered or not, has a number still to be given
(`Numbered`), else a new packet could equal an old one whose answer is known; a packet has one answer (`OneAnswer`), else it could be delivered
twice; and an address without an instance is empty (`Unfunded`), else an account would be
provided with funds in it. That a packet is either acted on or expires, never both, is
in the mapping: once received it is not in `asked`, so a timeout of it would map to
nothing, and the proof must use the proof of non-receipt that a timeout carries (`CanTimeout`).

**The host call by call.** `TxInv` says what a transaction under way may rely on. Its branch
is the store but for what its calls have changed; nothing else writes the host's
store before it ends. What the controller's chain does meanwhile cannot take away its right
to end: the states of an end only grow and its version is settled once it has been in
`TRYOPEN`, so a connect that may begin may be finished with the same result
(`ConnectStays`); a packet that may be received is neither answered nor can it time out,
so its commitment stays (`ReceivableStays`). The last call is then the system's step: the
messages of a batch have together taken its total, which is nothing if there are none, and each
was covered when it ran,
so the whole was (`ReplyDispatchSteps`); and one that is not covered shows that the
whole is not (`RunMessageSteps`). Both directions are needed, for `ReceiveDispatch` decides
at once what `RunMessage` finds out message by message.

**Transfers.** A transfer goes to an address in `ACCOUNTS`, which by `RemoteOwned` is an
instance made for that channel; instances keep their owner, so it still is when the
transfer arrives (`TransferInv`), closed channel or not. Hence an arrival is a deposit to
an instance, which is a step of `IcaSystem`, so `IInv` and all that follows from it hold with
transfers too. For this `coins` need to be integers only.

**The ledgers.** `AccountLedger`, and `EscrowBacked`, which says that the escrow holds exactly the
vouchers made and the transfers still open, are sums over sets of transfers and of answers,
computed by a fold. `Ledger_proofs` first shows that a fold over a finite set is what a ledger
takes it for: it is zero for no entries and changes by the amount of an entry that is
added (`AmountsNone`, `AmountsAdd`, `SpentNone`, `SpentAdd`). Induction over finite sets is not available
as a rule, so this is argued by a minimal counterexample among the subsets of the set
(`SubsetInduction`). Then:

- `EscrowInv`, a lemma about the ICS-20 module that the others rest on. The escrow is the sum because each transfer is counted once. A new one
  has a number that none had before (`NumberedTransfers`); one that moves from under way to
  credited stays in the union; and one that is refunded leaves it, for it cannot
  have been credited too (`OneVerdict`).
- `Solvent`. A refund is of a transfer that is part of the sum, so the escrow covers it;
  callers pay what they have. With `TransferInv` this is `AllTypeOK`.
- `LedgerInv`. An account's balance changes by what an arrival brings or by what a dispatch on
  its channel takes, and the latter is when its answer is written. `SpendersOwned` is
  needed for the account that does not exist yet: no dispatch on a channel succeeds before
  the channel has an instance, so a new one starts with nothing spent. As instances keep
  their owner and a channel never has two, no spending is counted for two accounts; and
  nothing is said of channels being open, so that orphaned accounts keep adding up.

**Strangers.** The proofs for `AnyPeer` show how much of the argument each contract
establishes alone.

- `CtrlInv`, for the controller's chain with anybody as host: entries are listed while the end is
  open, packets have numbers (`Numbered`), and what is stored was answered. An answer, once
  written, is never removed or changed, so what was once its source stays there. A settled packet
  is never committed again, because its number is not given again; hence the last
  clause of `CallbackFidelity`. No stored time is in the future (`TimesPast`), hence times do
  not go back. All steps of the host's side, be it the host or a stranger, look alike
  from here: they leave the controller's chain alone and only add answers to packets that are
  still committed (`Elsewhere`). So one proof serves `Spec` and `AnyHostSpec`.
- `HostInv`, for the host's chain with anybody as controller, is the part of `IInv` that does not
  mention the controller: `OneInstance`, `InstanceOpened`, `HostOwned` and that entries are
  listed while the end is open.

**Only model-checked**: the liveness properties `PacketsResolve`, `EmptyChannelsClose` and
`LearnsAddress`, which need fairness and so `ENABLED`, of which TLAPS does not reason. Every
invariant, action property and refinement that a passing run checks has a theorem.

## 6. Where the code and its comments disagree

- **Closing does not take the tokens** (`CloseTakesFunds`).
  `contracts/simple-ica-host/src/contract.rs:126` says that a close takes all tokens from the
  reflect contract. The code sends it `ReflectExecuteMsg::ReflectMsg`
  (line 146), but the account is a cw1-whitelist, which has no such message:
  `receive_dispatch` rightly uses `Execute`. The submessage fails, and with it the close.
  TLC's trace: connect, deposit one coin, close the controller's end; the host's end
  can now never be closed. With an empty account no message is sent and the close
  works (`EmptyChannelsClose`).
- **A dispatch is answered by one result** (`DispatchReturnsEach`).
  `packages/simple-ica/src/ibc_msg.rs:69` promises the data of each message; the batch is
  one call and its reply makes one entry, whatever the number of messages.
- **A caller may never be called back** (`CallerIsCalledBack`).
  `contracts/simple-ica-controller/src/msg.rs:24` promises a callback with the result if an
  id is set; `ibc_packet_timeout` ignores the packet, so after a timeout nothing comes,
  although the channel stays open and the relayer is fair.

- **The version of a channel is not enforced** (`VersionEnforced`).
  `contracts/simple-ica-controller/src/ibc.rs:23` says that the handshake enforces it. When
  the controller's side starts the handshake, `ibc_channel_open` sees only the version
  it proposes itself; the version the channel gets is the one in the counterparty's answer,
  which arrives in `OpenAck`, and `ibc_channel_connect` does not look at it. With the
  repository's own host this cannot happen (`NegotiatedParams`), for it always answers its own
  version; with another counterparty it can.

One more difference is too small for a run: `contracts/simple-ica-host/src/msg.rs:14` says that
the `Account` query returns none for a channel without an account; `query_account`
(`contract.rs:49`) fails instead. `HostQueryAccount` follows the code.

The contracts' own READMEs are marked "TODO: update" and describe an older
protocol; nothing is held against the code because of them.

## 7. Abstractions, and what is not modelled

- **Data.** Coins are the amount of one denomination. A batch is its length and the
  total it takes out; a query is the address whose balance is asked for, or one that
  fails. Payloads of results are a single value, which is what cw1-whitelist leaves in
  them. JSON is left out: both contracts parse the same types.
- **Transactions.** A handler with its submessages and replies is one step, as on the
  chain, except in `HostTx`. There the total of a batch is divided among its messages in any
  way, so that any of them can be the one that fails.
- **Channel ends.** An end is the set of states it has been in, because a proof may be
  about an earlier height. One name stands for both ends of a channel; a second `TRY`
  for the same `INIT`, which ends in a channel that cannot be opened, is left out.
- **Strangers** answer and send only what the contract can parse; for the rest its
  handler returns an error and nothing changes. They do not send packets to the controller.
- **Transfers.** One coin of one denomination; a call with no coin or with several is
  refused and has no action. The transfer channel is open, connects the same two
  chains (as `msg.rs:42-44` asks of the caller), and the host chain may refuse any
  transfer. `TransferPacket` remembers the ICA channel it was asked for, which the real
  packet does not carry, only so that `DestinationsOwned` can be stated. There are no
  deposits in `IcaTransfers`, so that the ledger is exact; nor is there anything that would
  send vouchers back.
- **Never called.** `ibc_packet_receive` of the controller and the acknowledgement and
  timeout handlers of the host: the host sends no packets.
- **Gas and size limits**, and chain halts, are outside the model.
- **Not modelled.** Tests, TypeScript bindings, scripts and generators.

## 8. Plan

Done, in the order in which it was planned: vocabulary and IBC rules; the two
contracts and the capturer; the composition; agreement about accounts and its proof;
callbacks and reports; liveness; transfers; the host call by call; the abstract promise,
its refinement and the proof of that; strangers as counterparties; queries; the proofs
that the host call by call, and the system with transfers, implement the system.

The same goes for the proofs: types, agreement, steps, promise, the host call by call,
transfers, ledgers and strangers. Every safety property of the runs is proved.

What is left:

1. what a reader can conclude from the abstract specification alone, as theorems about
   `RemoteAccount` (funds and answers of a channel are not affected by another's requests),
   which `PromiseKept` then carries over to the system;
2. the safety half of the disagreements of section 6, for every value of the constants: an
   end whose account holds funds is never closed on the host.
