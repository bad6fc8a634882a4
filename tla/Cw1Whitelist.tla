---------------------------- MODULE Cw1Whitelist ----------------------------
(***************************************************************************)
(* The reflect accounts: instances of cw1-whitelist on the host chain and  *)
(* the bank balances they hold.  Neither is code of this repository.  The  *)
(* host contract instantiates one per channel with itself as the only,     *)
(* immutable admin, so nobody else can make an instance execute anything.  *)
(***************************************************************************)
EXTENDS SimpleIca

CONSTANTS
    HostAddr,       \* the address of the host contract
    MaxBalance      \* bound: what deposits may bring one account to

VARIABLES
    owner,          \* the channel named in an instance's label; None: no instance
    balance         \* what each address holds

cw1Vars == <<owner, balance>>

ASSUME HostAddrAssumption == HostAddr \notin Addrs /\ MaxBalance \in Nat

Cw1TypeOK ==
    /\ owner \in [Addrs -> Channels \cup {None}]
    /\ balance \in [Addrs \cup {HostAddr} -> Nat]

Cw1Init ==
    /\ owner = [a \in Addrs |-> None]
    /\ balance = [a \in Addrs \cup {HostAddr} |-> 0]

(* The variants of cw1-whitelist's ExecuteMsg; any other fails to parse.   *)
Cw1ExecuteMsgs == {"execute", "freeze", "update_admins"}

Cw1Accepts(variant) == variant \in Cw1ExecuteMsgs

Cw1Instantiate(a, c) ==
    /\ owner[a] = None
    /\ owner' = [owner EXCEPT ![a] = c]

(* A batch runs as a whole or not at all: the first send that the balance  *)
(* does not cover fails the call.                                          *)
Covers(a, batch) == batch.total <= balance[a]

Spend(a, batch) == balance' = [balance EXCEPT ![a] = @ - batch.total]

(* Anyone on the host chain may send coins to an instance.                 *)
Deposit(a, amount) ==
    /\ owner[a] # None
    /\ balance[a] + amount <= MaxBalance
    /\ balance' = [balance EXCEPT ![a] = @ + amount]
    /\ UNCHANGED owner
=============================================================================
