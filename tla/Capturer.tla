------------------------------ MODULE Capturer ------------------------------
(***************************************************************************)
(* contracts/callback-capturer: a contract on the controller chain that    *)
(* forwards its admin's requests to the controller under its own address,  *)
(* always with a callback id, and stores the answer it is called back      *)
(* with under that id.                                                     *)
(***************************************************************************)
EXTENDS SimpleIca

CONSTANTS
    Capturer,               \* the address of this contract
    CapAdmin,               \* its admin, fixed by instantiate
    SimpleIcaController     \* the controller it was instantiated for

VARIABLE capResults         \* RESULTS: callback id -> StdAck

ASSUME CapturerAssumption == Capturer \in Senders /\ CapAdmin \in Senders

(* A stored answer is told from none.                                      *)
ASSUME AnswerAssumption == None \notin StdAck

CapTypeOK == capResults \in [CallbackIds -> StdAck \cup {None}]

CapInit == capResults = [id \in CallbackIds |-> None]

CapAuthorized(sender) == sender = CapAdmin

(* The callback entry: only the controller may call it.                    *)
ReceiveIcaResponse(sender, id, msg) ==
    /\ sender = SimpleIcaController
    /\ capResults' = [capResults EXCEPT ![id] = msg]
=============================================================================
