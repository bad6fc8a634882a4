SPECIFICATION AnyHostSpec
CONSTANTS
    c1 = c1
    a1 = a1
    a2 = a2
    id1 = id1
    alice = alice
    cap = cap
    Channels <- MCChannels
    Addrs <- MCAddrs
    Senders <- MCSenders
    CallbackIds = {id1}
    Batches = {}
    QueryLists <- MCQueryLists
    BadQuery = BadQuery
    Empty = Empty
    None = None
    Capturer = cap
    CapAdmin = alice
    SimpleIcaController = controller
    HostAddr = HostAddr
    MaxBalance = 0
    PacketLifetime = 1
    MaxSends = 2
    MaxTime = 2
INVARIANTS
    CallbackFidelity
PROPERTIES
    ReadersMoveForward
CHECK_DEADLOCK FALSE
