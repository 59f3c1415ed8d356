\* One slot.  A dial of the own address comes back through a router whose address the
\* discovered peer shares.
CONSTANTS
    Addr <- MCAddr
    HostOf <- MCHostOf
    Loopback = {}
    Conn <- MCConn
    AddrOf <- MCAddrOf
    Inbound = {"cNumIn", "cIn", "cOwnIn"}
    Static = {"cNum", "cName"}
    Configured = {"num"}
    Own = "cOwn"
    OwnSource = "cOwnIn"
    Advertised <- MCAdvertised
    Honest = {"H1", "H2", "H5"}
    MaxPeers = 1
SPECIFICATION Spec
INVARIANTS OwnEntry TableBounded OnePerHost BanCloses HonestNotBanned
PROPERTIES StaticReturns
