SPECIFICATION TxSpec
CONSTANTS
    c1 = c1
    a1 = a1
    alice = alice
    cap = cap
    Channels <- MCChannels
    Addrs <- MCAddrs
    Senders <- MCSenders
    CallbackIds = {}
    Batches <- MCBatches
    QueryLists = {}
    BadQuery = BadQuery
    Empty = Empty
    None = None
    Capturer = cap
    CapAdmin = alice
    SimpleIcaController = controller
    HostAddr = HostAddr
    MaxBalance = 2
    PacketLifetime = 1
    MaxSends = 3
    MaxTime = 0
INVARIANTS
    TxTypeOK
    SlotsServeOneCall
PROPERTIES
    Atomic
CHECK_DEADLOCK FALSE
