SPECIFICATION ReadSpec
CONSTANTS
    c1 = c1
    c2 = c2
    a1 = a1
    a2 = a2
    alice = alice
    cap = cap
    Channels <- MCChannels
    Addrs <- MCAddrs
    Senders <- MCSenders
    CallbackIds = {}
    Batches <- MCBatches
    QueryLists = {}
    BadQuery = BadQuery
    Empty = Empty
    None = None
    Capturer = cap
    CapAdmin = alice
    SimpleIcaController = controller
    HostAddr = HostAddr
    MaxBalance = 1
    PacketLifetime = 1
    MaxSends = 2
    MaxTime = 0
SYMMETRY Symmetry
INVARIANTS
    IInv
    RegisteredIffOpen
    AddressAgreement
    AckNeverErrs
    ListsAgree
CHECK_DEADLOCK FALSE
PROPERTIES
    RemoteAddrStable
    FundsMoveOnlyByDispatch
    KeepsPromise
