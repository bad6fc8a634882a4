--------------------------- MODULE RemoteAccount ---------------------------
(***************************************************************************)
(* What the contracts together promise those who use them, without the     *)
(* chains, the channel ends, the packets and the clocks: an account per    *)
(* channel that another chain keeps, which does what the admin asks.       *)
(*                                                                         *)
(* A request is acted on at most once or it expires, never both.  Only a   *)
(* dispatch that the admin asked for takes anything from the account of    *)
(* its channel, all that the batch costs or nothing, as its answer says.   *)
(* An answer is delivered at most once, in no particular order, to the     *)
(* one who asked; what users are shown is what the answer delivered last   *)
(* says, be it old or new.                                                 *)
(***************************************************************************)
EXTENDS Naturals

CONSTANTS
    Channels,
    CallbackIds,
    Senders,        \* who may be admin
    Capturer,       \* the one caller that takes callbacks
    Messages,       \* what can be asked
    Amounts,        \* what can be paid in
    None

VARIABLES
    admin,          \* who may ask for dispatches
    count,          \* the number of the next request, per channel
    asked,          \* requests neither acted on nor expired
    undelivered,    \* answers on their way
    funds,          \* what the account of a channel holds, None before there is one
    report,         \* the balance users are shown, None while not connected
    latest,         \* the answer to a query that users are shown, per channel
    inbox           \* what the capturer was last told, per id

shownVars == <<report, latest>>
promiseVars == <<admin, count, asked, undelivered, funds, shownVars, inbox>>

Init ==
    /\ admin \in Senders
    /\ count = [c \in Channels |-> 1]
    /\ asked = {}
    /\ undelivered = {}
    /\ funds = [c \in Channels |-> None]
    /\ report = [c \in Channels |-> None]
    /\ latest = [c \in Channels |-> None]
    /\ inbox = [id \in CallbackIds |-> None]

(* A capturer that has become admin cannot resign.                         *)
Appoint(newAdmin) ==
    /\ admin # Capturer
    /\ admin' = newAdmin
    /\ UNCHANGED <<count, asked, undelivered, funds, shownVars, inbox>>

(* WhoAmI is asked when the channel is connected, and of its account       *)
(* nothing is known yet.                                                   *)
Ask(c, msg, deadline) ==
    /\ msg.type = "dispatch" => msg.sender = admin
    /\ IF msg.type = "who_am_i"
       THEN report[c] = None /\ report' = [report EXCEPT ![c] = 0]
       ELSE UNCHANGED report
    /\ asked' = asked \cup
           {[chan |-> c, seq |-> count[c], data |-> msg, timeout |-> deadline]}
    /\ count' = [count EXCEPT ![c] = @ + 1]
    /\ UNCHANGED <<admin, undelivered, funds, latest, inbox>>

Expire(r) ==
    /\ asked' = asked \ {r}
    /\ UNCHANGED <<admin, count, undelivered, funds, shownVars, inbox>>

Done(type, r, ack) == r.data.type = type /\ ack.tag = "result"

Act(r, ack) ==
    LET held == funds[r.chan]
    IN  /\ asked' = asked \ {r}
        /\ undelivered' = undelivered \cup {[packet |-> r, ack |-> ack]}
        /\ IF Done("dispatch", r, ack)
           THEN /\ held # None
                /\ r.data.batch.total <= held
                /\ funds' = [funds EXCEPT ![r.chan] = held - r.data.batch.total]
           ELSE UNCHANGED funds
        /\ Done("balances", r, ack) => ack.data.balances = held
        /\ UNCHANGED <<admin, count, shownVars, inbox>>

WantsCallback(r) ==
    r.data.type \in {"dispatch", "ibc_query"} /\ r.data.callback_id # None

(* A late answer overwrites a newer one.                                   *)
Deliver(w) ==
    /\ undelivered' = undelivered \ {w}
    /\ IF Done("balances", w.packet, w.ack)
       THEN /\ report[w.packet.chan] # None
            /\ report' = [report EXCEPT ![w.packet.chan] = w.ack.data.balances]
       ELSE UNCHANGED report
    /\ IF w.packet.data.type = "ibc_query"
       THEN latest' = [latest EXCEPT ![w.packet.chan] = w.ack]
       ELSE UNCHANGED latest
    /\ IF WantsCallback(w.packet)
       THEN /\ w.packet.data.sender = Capturer
            /\ inbox' = [inbox EXCEPT ![w.packet.data.callback_id] = w.ack]
       ELSE UNCHANGED inbox
    /\ UNCHANGED <<admin, count, asked, funds>>

(* The channel is closed: its account is listed no more.                   *)
Forget(c) ==
    /\ report' = [report EXCEPT ![c] = None]
    /\ UNCHANGED <<admin, count, asked, undelivered, funds, latest, inbox>>

Provide(c) ==
    /\ funds[c] = None
    /\ funds' = [funds EXCEPT ![c] = 0]
    /\ UNCHANGED <<admin, count, asked, undelivered, shownVars, inbox>>

PayIn(c, amount) ==
    /\ funds[c] # None
    /\ funds' = [funds EXCEPT ![c] = @ + amount]
    /\ UNCHANGED <<admin, count, asked, undelivered, shownVars, inbox>>

(* Deadlines and answers are whatever the implementation makes them.       *)
Next ==
    \/ \E a \in Senders : Appoint(a)
    \/ \E r \in asked' : \E msg \in Messages : Ask(r.chan, msg, r.timeout)
    \/ \E r \in asked : Expire(r)
    \/ \E r \in asked, w \in undelivered' : Act(r, w.ack)
    \/ \E w \in undelivered : Deliver(w)
    \/ \E c \in Channels : Forget(c) \/ Provide(c)
    \/ \E c \in Channels, amount \in Amounts : PayIn(c, amount)

Spec == Init /\ [][Next]_promiseVars
=============================================================================
