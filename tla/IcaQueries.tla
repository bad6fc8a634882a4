---------------------------- MODULE IcaQueries ----------------------------
(***************************************************************************)
(* The query entry points of the three contracts: what users read of the   *)
(* state, and how it develops while they read on.                          *)
(***************************************************************************)
EXTENDS IcaProperties

(* A load of a key that is not in the Map: the query fails.                *)
NotFound == None

Found(value) == [found |-> value]

Load(map, key) == IF map[key] = None THEN NotFound ELSE Found(map[key])

(* A reader tells a failed query from an answer.                           *)
ASSUME FoundAssumption ==
    None \notin [found : AccountData \cup LatestQueryResponse \cup StdAck]

Entries(map) == {c \in Channels : map[c] # None}

-----------------------------------------------------------------------------
(* simple-ica-controller.                                                  *)

CtrlQueryAdmin == admin

CtrlQueryAccount(c) == Load(ctrlAccounts, c)

AccountInfo(c, data) ==
    [channel_id |-> c, last_update_time |-> data.last_update_time,
     remote_addr |-> data.remote_addr, remote_balance |-> data.remote_balance]

CtrlQueryListAccounts == {AccountInfo(c, ctrlAccounts[c]) : c \in Entries(ctrlAccounts)}

CtrlQueryLatest(c) == Load(latestQueries, c)

-----------------------------------------------------------------------------
(* simple-ica-host.                                                        *)

HostQueryAccount(c) == Load(hostAccounts, c)

HostQueryListAccounts ==
    {[channel_id |-> c, account |-> hostAccounts[c]] : c \in Entries(hostAccounts)}

-----------------------------------------------------------------------------
(* callback-capturer.                                                      *)

CapQueryAdmin == CapAdmin

CapQueryResult(id) == Load(capResults, id)

-----------------------------------------------------------------------------
Later(new, old) == new.last_update_time >= old.last_update_time

(* What a reader of a channel sees in a step.                              *)
ReaderMovesForward(c) ==
    LET was == CtrlQueryAccount(c)
        is == CtrlQueryAccount(c)'
        wasLatest == CtrlQueryLatest(c)
        isLatest == CtrlQueryLatest(c)'
    IN  /\ was # NotFound =>
             IF is = NotFound
             THEN Reached(ctrlEnd'[c], "CLOSED")
             ELSE /\ Later(is.found, was.found)
                  /\ was.found.remote_addr \in {None, is.found.remote_addr}
        /\ was = NotFound /\ is # NotFound =>
             ~Reached(ctrlEnd'[c], "CLOSED") /\ is.found.remote_addr = None
        /\ wasLatest # NotFound =>
             isLatest # NotFound /\ Later(isLatest.found, wasLatest.found)

ResultStays(id) == CapQueryResult(id) # NotFound => CapQueryResult(id)' # NotFound

(* A reader never sees time run backwards: an account once shown is shown  *)
(* with the same address and no earlier time until its channel closes, and *)
(* never again after that; the latest query and the capturer's results     *)
(* stay readable, even after a close (ibc_channel_close leaves             *)
(* LATEST_QUERIES alone).                                                  *)
ReadersMoveForward ==
    [][/\ \A c \in Channels : ReaderMovesForward(c)
       /\ \A id \in CallbackIds : ResultStays(id)]_vars
=============================================================================
