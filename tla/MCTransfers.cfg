SPECIFICATION AllSpec
CONSTANTS
    c1 = c1
    a1 = a1
    a2 = a2
    alice = alice
    cap = cap
    Channels <- MCChannels
    Addrs <- MCAddrs
    Senders <- MCSenders
    CallbackIds = {}
    Batches <- MCBatches
    QueryLists = {}
    BadQuery = BadQuery
    Empty = Empty
    None = None
    Capturer = cap
    CapAdmin = alice
    SimpleIcaController = controller
    HostAddr = HostAddr
    Escrow = Escrow
    Purse = 2
    MaxTransfers = 2
    MaxBalance = 4
    PacketLifetime = 1
    MaxSends = 3
    MaxTime = 1
INVARIANTS
    AllTypeOK
    AccountLedger
    DestinationsOwned
PROPERTIES
    RefundsStrand
    ImplementsSystem
CHECK_DEADLOCK FALSE
