SPECIFICATION Spec
CONSTANTS
    c1 = c1
    a1 = a1
    alice = alice
    cap = cap
    id1 = id1
    Channels <- MCChannels
    Addrs <- MCAddrs
    Senders <- MCSenders
    CallbackIds = {id1}
    Batches <- MCBatches
    QueryLists <- MCQueryLists
    BadQuery = BadQuery
    Empty = Empty
    None = None
    Capturer = cap
    CapAdmin = alice
    SimpleIcaController = controller
    HostAddr = HostAddr
    MaxBalance = 1
    PacketLifetime = 1
    MaxSends = 3
    MaxTime = 1
INVARIANTS
    TypeOK
    CallbackFidelity
    StoredReports
    NegotiatedParams
PROPERTIES
    KeepsPromise
CHECK_DEADLOCK FALSE
