----------------------------- MODULE IcaReaders -----------------------------
(***************************************************************************)
(* Readers who compare the lists of accounts of the two contracts.  They   *)
(* read the one chain before or after the other, by as much as they like;  *)
(* a history variable keeps all that was ever there to be read.            *)
(***************************************************************************)
EXTENDS IcaQueries

VARIABLE shown      \* accounts that either list has shown, with their channels

readVars == <<vars, shown>>

Listing(c, a) == [channel_id |-> c, account |-> a]

Listings ==
    {Listing(i.channel_id, i.remote_addr) :
        i \in {j \in CtrlQueryListAccounts : j.remote_addr # None}}
    \cup
    {Listing(j.channel_id, j.account) : j \in HostQueryListAccounts}

ReadSpec ==
    /\ Init /\ shown = Listings
    /\ [][Next /\ shown' = shown \cup Listings']_readVars

-----------------------------------------------------------------------------
(* Whichever list was read, and however long ago, a channel is only ever   *)
(* shown with one account and an account with one channel: what a closed   *)
(* channel leaves behind is never listed for another (query_list_accounts  *)
(* of both contracts).                                                     *)
ListsAgree ==
    \A i, j \in shown : i.channel_id = j.channel_id <=> i.account = j.account
=============================================================================
